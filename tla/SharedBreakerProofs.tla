-------------------------- MODULE SharedBreakerProofs --------------------------
(***************************************************************************)
(* Theorems of the shared breaker, for any workers, thresholds, cooldowns, *)
(* windows and lock delays, and of the file of failure facts it reads.     *)
(***************************************************************************)
EXTENDS SharedBreaker, FactStore, Induction

\* Facts are recorded after they occurred, and all evidence workers have read
\* or cached points into the file.
EvidenceInFile ==
    /\ \A k \in Indices : facts[k].at <= clock
    /\ \A w \in Worker : /\ reading[w] # None => /\ reading[w].samples \subseteq Indices
                                                 /\ reading[w].at <= clock
                         /\ window[w] # None => window[w].samples \subseteq Indices

\* The claim with the current token is the slot itself; all others have lapsed
\* or been used up.
ClaimsMatchSlot ==
    \A c \in claims :
        /\ c.token <= row.token
        /\ c.token = row.token => /\ row.state = "probing_recovery"
                                  /\ row.owner = c.worker
                                  /\ row.expires = c.expires
        /\ c.token < row.token => c.expires <= clock

BreakerInv == TypeOK /\ EvidenceInFile /\ ClaimsMatchSlot

-----------------------------------------------------------------------------
(* The latest of finitely many deadlines exists: of the sets {later than x}, *)
(* one is smallest, and it can only be empty.                               *)

LEMMA GreatestOfFinite ==
  ASSUME NEW S \in SUBSET Nat, S # {}, IsFiniteSet(S)
  PROVE  Max(S) \in S
<1> DEFINE Above(x) == {y \in S : y > x}
           T == {Above(x) : x \in S}
<1>1. T \subseteq FiniteSubsetsOf(S) /\ T # {}
  <2>1. ASSUME NEW x \in S
        PROVE  Above(x) \in FiniteSubsetsOf(S)
    <3>1. Above(x) \in SUBSET S
      OBVIOUS
    <3> HIDE DEF Above
    <3>2. IsFiniteSet(Above(x))
      BY <3>1, FS_Subset
    <3> QED BY <3>1, <3>2 DEF FiniteSubsetsOf
  <2>2. T # {}
    OBVIOUS
  <2> HIDE DEF Above
  <2> QED BY <2>1, <2>2
<1>2. \E A \in T : \A B \in T : ~(<<B, A>> \in StrictSubsetOrdering(S))
  <2> HIDE DEF T
  <2> QED BY <1>1, WFMin, FS_StrictSubsetOrderingWellFounded, Zenon
<1>3. PICK x \in S : \A y \in S : ~(<<Above(y), Above(x)>> \in StrictSubsetOrdering(S))
  BY <1>2
<1>4. \A y \in S : x >= y
  <2> SUFFICES ASSUME NEW y \in S, y > x PROVE FALSE
    OBVIOUS
  <2>0. x \in Nat /\ y \in Nat
    OBVIOUS
  <2>1. Above(y) \subseteq Above(x) /\ Above(x) # Above(y)
    <3>1. \A z \in Above(y) : z \in Above(x)
      BY <2>0
    <3>2. y \in Above(x) /\ y \notin Above(y)
      BY <2>0
    <3> QED BY <3>1, <3>2
  <2>2. <<Above(y), Above(x)>> \in (SUBSET S) \X (SUBSET S)
    OBVIOUS
  <2> HIDE DEF Above
  <2> QED BY <1>3, <2>1, <2>2 DEF StrictSubsetOrdering
<1>5. \E z \in S : \A y \in S : z >= y
  BY <1>4
<1> QED BY <1>5 DEF Max

LEMMA IndicesFinite ==
  ASSUME TypeOK
  PROVE  IsFiniteSet(Indices) /\ Len(facts) \in Nat
<1>1. Len(facts) \in Nat
  BY DEF TypeOK
<1> QED BY <1>1, FS_Interval DEF Indices

\* The hint of some evidence is a deadline, or there is none.
LEMMA HintType ==
  ASSUME BreakerInv, NEW samples \in SUBSET Indices
  PROVE  Hint(samples) \in Nat \cup {None}
<1> DEFINE hinted == {k \in samples : facts[k].retry # None}
           deadlines == {facts[k].at + facts[k].retry : k \in hinted}
<1>1. \A k \in Indices : facts[k] \in Fact
  BY DEF BreakerInv, TypeOK, Indices
<1>2. \A k \in hinted : facts[k].at \in Nat /\ facts[k].retry \in Nat
  BY <1>1, ConfigAssumption DEF Fact
<1>3. deadlines \in SUBSET Nat
  BY <1>2
<1>4. IsFiniteSet(hinted)
  BY IndicesFinite, FS_Subset DEF BreakerInv
<1>5. IsFiniteSet(deadlines)
  <2> DEFINE f == [k \in hinted |-> facts[k].at + facts[k].retry]
  <2>1. f \in Surjection(hinted, deadlines)
    BY DEF Surjection
  <2> HIDE DEF f, deadlines, hinted
  <2> QED BY <1>4, <2>1, FS_Surjection
<1>6. hinted # {} => Max(deadlines) \in Nat
  <2> SUFFICES ASSUME hinted # {} PROVE Max(deadlines) \in Nat
    OBVIOUS
  <2>1. deadlines # {}
    OBVIOUS
  <2> HIDE DEF deadlines
  <2> QED BY <2>1, <1>3, <1>5, GreatestOfFinite
<1> QED BY <1>6 DEF Hint

-----------------------------------------------------------------------------
(* How a step moves the row *)

Times == 0 .. clock

\* An observation applies some evidence of the file.
Observed ==
    \E samples \in SUBSET Indices, at \in Times :
        /\ samples \subseteq SinceRecovery
        /\ row' = RowAfter(row, samples, at)

Claimed == \E w \in Worker, at \in Times : TryClaimProbe(w, at)

Succeeded == \E c \in claims, at \in Times : Accepts(c, at) /\ ReportSuccess(c, at)

Failed == \E c \in claims, at \in Times, hint \in Nat \cup {None} :
              Accepts(c, at) /\ ReportFailure(c, hint, at)

\* What workers have read and cached is evidence of the file ...
LEMMA EvidenceOfWorker ==
  ASSUME BreakerInv, NEW w \in Worker, reading[w] # None
  PROVE  /\ reading[w].samples \subseteq Indices
         /\ reading[w].at \in Times
         /\ Cached(w) \subseteq Indices
<1>1. reading[w].at \in Nat /\ clock \in Nat
  BY DEF BreakerInv, TypeOK, Reading
<1> QED BY <1>1 DEF BreakerInv, EvidenceInFile, Cached, Times

\* ... and only what is newer than the recovery counts.
LEMMA CountedIsNew ==
  ASSUME BreakerInv, NEW samples \in SUBSET Indices
  PROVE  NewSince(row, samples) \subseteq SinceRecovery /\ NewSince(row, samples) \subseteq Indices
<1>1. row.recoveredAt \in Nat \cup {None} /\ None \notin Int
  BY NoneAssumption DEF BreakerInv, TypeOK, Row, Time
<1>2. \A k \in Indices : facts[k].at \in Nat
  <2>1. \A k \in Indices : facts[k] \in Fact
    BY DEF BreakerInv, TypeOK, Indices
  <2> QED BY <2>1 DEF Fact
<1>3. CASE row.recoveredAt = None
  BY <1>3 DEF NewSince, SinceRecovery
<1>4. CASE row.recoveredAt # None /\ row.recoverySeq = None
  BY <1>1, <1>2, <1>4 DEF NewSince, SinceRecovery
<1>5. CASE row.recoveredAt # None /\ row.recoverySeq # None
  BY <1>5 DEF NewSince, SinceRecovery
<1> QED BY <1>3, <1>4, <1>5

LEMMA ObserveMoves ==
  ASSUME BreakerInv, NEW w \in Worker, ObserveApply(w)
  PROVE  row' = row \/ Observed
<1> DEFINE effective == IF reading[w].samples # {} THEN reading[w].samples ELSE Cached(w)
           counted == NewSince(row, effective)
<1>1. effective \in SUBSET Indices /\ reading[w].at \in Times
  BY EvidenceOfWorker DEF ObserveApply
<1>2. counted \subseteq SinceRecovery /\ counted \in SUBSET Indices
  <2> HIDE DEF effective
  <2> QED BY <1>1, CountedIsNew
<1>3. row' = row \/ row' = RowAfter(row, counted, reading[w].at)
  BY DEF ObserveApply
<1> HIDE DEF counted
<1> QED BY <1>1, <1>2, <1>3 DEF Observed

LEMMA RowMoves ==
  ASSUME BreakerInv, [Next]_vars
  PROVE  row' = row \/ Observed \/ Claimed \/ Succeeded \/ Failed
<1>1. CASE UNCHANGED vars
  BY <1>1 DEF vars
<1>2. ASSUME NEW w \in Worker, ObserveApply(w) PROVE row' = row \/ Observed
  BY <1>2, ObserveMoves
<1>3. ASSUME NEW w \in Worker, NEW at \in 0 .. clock,
             ObserveRead(w, at) \/ TryClaimProbe(w, at) \/ AdoptSlot(w, at)
      PROVE  row' = row \/ Claimed
  BY <1>3 DEF ObserveRead, AdoptSlot, Claimed, Times
<1>4. ASSUME NEW w \in Worker, Restart(w) PROVE row' = row
  BY <1>4 DEF Restart
<1>5. ASSUME NEW c \in claims, AbandonClaim(c) PROVE row' = row
  BY <1>5 DEF AbandonClaim
<1>6. ASSUME NEW c \in claims, NEW at \in 0 .. clock, ReportSuccess(c, at)
      PROVE  row' = row \/ Succeeded
  BY <1>6 DEF ReportSuccess, Succeeded, Times
<1>7. ASSUME NEW c \in claims, NEW at \in 0 .. clock, NEW hint \in Nat \cup {None},
             ReportFailure(c, hint, at)
      PROVE  row' = row \/ Failed
  BY <1>7 DEF ReportFailure, Failed, Times
<1>8. \A at \in 0 .. clock, retry \in RetryAfter : \A since \in 0 .. at : since + retry \in Nat
  BY ConfigAssumption DEF BreakerInv, TypeOK
<1>9. ASSUME NEW fact, RecordFailure(fact) PROVE row' = row
  BY <1>9 DEF RecordFailure
<1>10. CASE Tick
  BY <1>10 DEF Tick
<1>11. ASSUME NEW c \in claims, ClaimStep(c) PROVE row' = row \/ Succeeded \/ Failed
  BY <1>5, <1>6, <1>7, <1>8, <1>11 DEF ClaimStep
<1> QED BY <1>1, <1>2, <1>3, <1>4, <1>9, <1>10, <1>11 DEF Next, WorkerStep

\* An aggregate leaves a probing row alone, keeps a suspended one suspended,
\* and suspends any other only on sufficient evidence.
LEMMA AggregateMoves ==
  ASSUME BreakerInv, NEW samples \in SUBSET Indices, NEW at \in Times,
         NEW r, r = RowAfter(row, samples, at)
  PROVE  /\ r \in Row
         /\ r.token = row.token
         /\ r.state = "suspended" => r.cooldown # None
         /\ row.state = "probing_recovery" => r = row
         /\ r.state = "probing_recovery" => r = row
         /\ row.state = "suspended" => \/ r = row
                                       \/ r.state = "suspended" /\ r.cooldown > row.cooldown
         /\ row.state = "normal" => \/ r = row
                                    \/ r.state = "suspended" /\ Suspends(samples)
<1>1. /\ row \in Row /\ clock \in Nat /\ at \in Nat
      /\ row.state = "suspended" => row.cooldown \in Nat
  BY DEF BreakerInv, TypeOK, Row, Time, Times
<1>2. Hint(samples) \in Nat \cup {None} /\ None \notin Int /\ None \notin Worker
  BY HintType, NoneAssumption
<1>3. Deadline(Hint(samples), at) \in Nat
  BY <1>1, <1>2, ConfigAssumption DEF Deadline
<1>4. CASE row.state = "suspended"
  <2>1. CASE Extends(Hint(samples), row)
    <3>1. r = [row EXCEPT !.cooldown = Hint(samples)]
      BY <1>4, <2>1 DEF RowAfter
    <3>2. Hint(samples) \in Nat /\ Hint(samples) > row.cooldown
      BY <1>1, <1>2, <1>4, <2>1 DEF Extends
    <3>3. r \in Row /\ r.state = "suspended" /\ r.token = row.token /\ r.cooldown = Hint(samples)
      BY <1>1, <1>4, <3>1, <3>2 DEF Row, Time
    <3> QED BY <1>2, <1>4, <3>2, <3>3
  <2>2. CASE ~Extends(Hint(samples), row)
    BY <1>1, <1>2, <1>4, <2>2 DEF RowAfter
  <2> QED BY <2>1, <2>2
<1>5. CASE row.state = "probing_recovery"
  BY <1>1, <1>5 DEF RowAfter
<1>6. CASE row.state \in {"insufficient_evidence", "normal"} /\ Suspends(samples)
  <2>1. r = [row EXCEPT !.state = "suspended", !.cooldown = Deadline(Hint(samples), at),
                        !.owner = None, !.expires = None]
    BY <1>6 DEF RowAfter
  <2>2. /\ r \in Row /\ r.state = "suspended" /\ r.token = row.token
        /\ r.cooldown = Deadline(Hint(samples), at)
    BY <1>1, <1>3, <2>1 DEF Row, State, Time
  <2> QED BY <1>2, <1>3, <1>6, <2>2
<1>7. CASE row.state \in {"insufficient_evidence", "normal"} /\ ~Suspends(samples)
  <2>1. \/ r = row
        \/ row.state = "insufficient_evidence" /\ r = [row EXCEPT !.state = "normal"]
    BY <1>7 DEF RowAfter
  <2>2. r \in Row /\ r.state \in {"insufficient_evidence", "normal"} /\ r.token = row.token
    BY <1>1, <1>7, <2>1 DEF Row, State
  <2> QED BY <1>7, <2>1, <2>2
<1> QED BY <1>1, <1>4, <1>5, <1>6, <1>7 DEF Row, State

-----------------------------------------------------------------------------
(* The invariant *)

LEMMA BreakerInit == ASSUME Init PROVE BreakerInv
<1>1. Indices = {}
  BY DEF Init, Indices
<1>2. TypeOK
  BY DEF Init, TypeOK, Row, State, Time
<1>3. EvidenceInFile /\ ClaimsMatchSlot
  BY <1>1 DEF Init, EvidenceInFile, ClaimsMatchSlot
<1> QED BY <1>2, <1>3 DEF BreakerInv

\* The file and the evidence taken from it.
LEMMA EvidenceStep ==
  ASSUME BreakerInv, [Next]_vars
  PROVE  /\ EvidenceInFile'
         /\ clock' \in Nat /\ clock' >= clock
         /\ facts' \in Seq(Fact)
         /\ reading' \in [Worker -> Reading \cup {None}]
         /\ window' \in [Worker -> Evidence \cup {None}]
         /\ attached' \in [Worker -> BOOLEAN]
<1> DEFINE Goal == /\ EvidenceInFile'
                   /\ clock' \in Nat /\ clock' >= clock
                   /\ facts' \in Seq(Fact)
                   /\ reading' \in [Worker -> Reading \cup {None}]
                   /\ window' \in [Worker -> Evidence \cup {None}]
                   /\ attached' \in [Worker -> BOOLEAN]
<1>0. /\ clock \in Nat /\ facts \in Seq(Fact) /\ Len(facts) \in Nat
      /\ Indices \subseteq Nat
      /\ reading \in [Worker -> Reading \cup {None}]
      /\ window \in [Worker -> Evidence \cup {None}]
      /\ attached \in [Worker -> BOOLEAN]
  BY DEF BreakerInv, TypeOK, Indices
<1>1. ASSUME UNCHANGED <<clock, facts, reading, window, attached>> PROVE Goal
  BY <1>0, <1>1 DEF BreakerInv, EvidenceInFile, Indices
<1>2. ASSUME NEW w \in Worker, ObserveApply(w) PROVE Goal
  <2> DEFINE effective == IF reading[w].samples # {} THEN reading[w].samples ELSE Cached(w)
             counted == NewSince(row, effective)
             put == [samples |-> counted, put |-> clock]
  <2>1. effective \in SUBSET Indices
    BY <1>2, EvidenceOfWorker DEF ObserveApply
  <2>2. counted \in SUBSET Indices
    <3> HIDE DEF effective
    <3> QED BY <2>1, CountedIsNew
  <2>3. PICK v \in {None, put, window[w]} : window' = [window EXCEPT ![w] = v]
    BY <1>2 DEF ObserveApply
  <2>4. /\ UNCHANGED <<clock, facts, attached>>
        /\ reading' = [reading EXCEPT ![w] = None]
    BY <1>2 DEF ObserveApply
  <2> HIDE DEF counted
  <2>5. put \in Evidence /\ put.samples \subseteq Indices
    BY <1>0, <2>2 DEF Evidence
  <2> HIDE DEF put
  <2>6. window[w] \in Evidence \cup {None} /\ (window[w] # None => window[w].samples \subseteq Indices)
    BY <1>0 DEF BreakerInv, EvidenceInFile
  <2>7. v \in Evidence \cup {None} /\ (v # None => v.samples \subseteq Indices)
    BY <2>3, <2>5, <2>6
  <2> QED BY <1>0, <2>3, <2>4, <2>7 DEF BreakerInv, EvidenceInFile, Indices
<1>3. ASSUME NEW w \in Worker, NEW at \in 0 .. clock, ObserveRead(w, at) PROVE Goal
  <2> DEFINE read == [at |-> at, samples |-> Windowed(at)]
  <2>1. at \in Nat /\ at <= clock /\ Windowed(at) \subseteq Indices
    BY <1>0 DEF Windowed
  <2>2. read \in Reading /\ read.samples \subseteq Indices /\ read.at <= clock
    BY <1>0, <2>1 DEF Reading
  <2>3. /\ UNCHANGED <<clock, facts, window>>
        /\ reading' = [reading EXCEPT ![w] = read]
        /\ attached' = [attached EXCEPT ![w] = TRUE]
    BY <1>3 DEF ObserveRead
  <2> HIDE DEF read
  <2> QED BY <1>0, <2>2, <2>3 DEF BreakerInv, EvidenceInFile, Indices
<1>4. ASSUME NEW w \in Worker, Restart(w) PROVE Goal
  BY <1>0, <1>4 DEF Restart, BreakerInv, EvidenceInFile, Indices
<1>5. ASSUME NEW c \in claims, NEW at \in 0 .. clock, ReportSuccess(c, at) PROVE Goal
  <2>1. c.worker \in Worker
    BY DEF BreakerInv, TypeOK, Claim
  <2>2. /\ UNCHANGED <<clock, facts, reading, attached>>
        /\ window' = window \/ window' = [window EXCEPT ![c.worker] = None]
    BY <1>5 DEF ReportSuccess
  <2> QED BY <1>0, <2>1, <2>2 DEF BreakerInv, EvidenceInFile, Indices
<1>6. ASSUME NEW fact \in [at : 0 .. clock, rejection : BOOLEAN,
                           retry : RetryAfter \cup {None}],
             RecordFailure(fact)
      PROVE  Goal
  <2>1. fact \in Fact /\ fact.at <= clock
    BY <1>0 DEF Fact
  <2>2. facts' = Append(facts, fact) /\ UNCHANGED <<clock, reading, window, attached>>
    BY <1>6 DEF RecordFailure
  <2>3. /\ facts' \in Seq(Fact) /\ Len(facts') = Len(facts) + 1
        /\ \A k \in 1 .. Len(facts) : facts'[k] = facts[k]
        /\ facts'[Len(facts) + 1] = fact
    BY <1>0, <2>1, <2>2
  <2>4. Indices \subseteq Indices' /\ \A k \in Indices' : facts'[k].at <= clock
    <3>1. Indices = 1 .. Len(facts) /\ Indices' = 1 .. (Len(facts) + 1)
      BY <2>3 DEF Indices
    <3>2. \A k \in Indices' : k \in Indices \/ k = Len(facts) + 1
      BY <1>0, <3>1
    <3>3. \A k \in Indices : facts'[k].at <= clock
      BY <2>3, <3>1 DEF BreakerInv, EvidenceInFile
    <3>4. facts'[Len(facts) + 1].at <= clock
      BY <2>1, <2>3
    <3>5. Indices \subseteq Indices'
      BY <1>0, <3>1
    <3> HIDE DEF Indices
    <3> QED BY <3>2, <3>3, <3>4, <3>5
  <2>5. /\ \A w \in Worker : reading[w] # None => /\ reading[w].samples \subseteq Indices'
                                                  /\ reading[w].at <= clock
        /\ \A w \in Worker : window[w] # None => window[w].samples \subseteq Indices'
    BY <2>4 DEF BreakerInv, EvidenceInFile
  <2>6. EvidenceInFile'
    BY <2>2, <2>4, <2>5, Zenon DEF EvidenceInFile
  <2> QED BY <1>0, <2>2, <2>3, <2>6
<1>7. ASSUME Tick PROVE Goal
  <2>1. \A x \in Nat : x <= clock => x <= clock'
    BY <1>0, <1>7 DEF Tick
  <2>2. \A k \in Indices : facts[k].at \in Nat
    <3>1. \A k \in Indices : facts[k] \in Fact
      BY <1>0 DEF Indices
    <3> QED BY <3>1 DEF Fact
  <2>3. \A w \in Worker : reading[w] # None => reading[w].at \in Nat
    BY <1>0 DEF Reading
  <2> QED BY <1>0, <1>7, <2>1, <2>2, <2>3 DEF Tick, BreakerInv, EvidenceInFile, Indices
<1>8. ASSUME NEW w \in Worker, NEW at \in 0 .. clock, TryClaimProbe(w, at) \/ AdoptSlot(w, at)
      PROVE  Goal
  BY <1>1, <1>8 DEF TryClaimProbe, AdoptSlot
<1>9. ASSUME NEW c \in claims, AbandonClaim(c) PROVE Goal
  BY <1>1, <1>9 DEF AbandonClaim
<1>10. ASSUME NEW c \in claims, NEW at, NEW hint, ReportFailure(c, hint, at) PROVE Goal
  BY <1>1, <1>10 DEF ReportFailure
<1>11. ASSUME UNCHANGED vars PROVE Goal
  BY <1>1, <1>11 DEF vars
<1> HIDE DEF Goal
<1>12. ASSUME NEW w \in Worker, WorkerStep(w) PROVE Goal
  BY <1>2, <1>3, <1>4, <1>8, <1>12, Zenon DEF WorkerStep
<1>13. ASSUME NEW c \in claims, ClaimStep(c) PROVE Goal
  BY <1>5, <1>9, <1>10, <1>13, Zenon DEF ClaimStep
<1>14. ASSUME Next PROVE Goal
  BY <1>6, <1>7, <1>12, <1>13, <1>14, Zenon DEF Next
<1>15. Goal
  BY <1>11, <1>14, Zenon DEF vars
<1> QED BY <1>15 DEF Goal

\* Once the claim of the current token is used up, all others have lapsed.
LEMMA OthersLapsed ==
  ASSUME BreakerInv, NEW c \in claims, NEW at \in Times, Accepts(c, at),
         NEW d \in claims \ {c}
  PROVE  d.token < row.token /\ d.expires <= clock
<1>1. c \in Claim /\ d \in Claim /\ row.token \in Nat
  BY DEF BreakerInv, TypeOK, Row
<1>2. d.token \in Nat /\ d.token <= row.token
  BY <1>1 DEF BreakerInv, ClaimsMatchSlot, Claim
<1>3. c.token = row.token
  BY DEF Accepts
<1>4. d.token # row.token
  <2> SUFFICES ASSUME d.token = row.token PROVE c = d
    OBVIOUS
  <2>1. c.worker = d.worker /\ c.expires = d.expires /\ c.token = d.token
    BY <1>3 DEF BreakerInv, ClaimsMatchSlot
  <2> QED BY <1>1, <2>1 DEF Claim
<1>5. d.token < row.token
  BY <1>1, <1>2, <1>4
<1> QED BY <1>5 DEF BreakerInv, ClaimsMatchSlot

\* The row and the claims on its slot.
LEMMA SlotStep ==
  ASSUME BreakerInv, [Next]_vars
  PROVE  /\ row' \in Row
         /\ row'.state = "suspended" => row'.cooldown # None
         /\ claims' \subseteq Claim
         /\ ClaimsMatchSlot'
<1> DEFINE Goal == /\ row' \in Row
                   /\ row'.state = "suspended" => row'.cooldown # None
                   /\ claims' \subseteq Claim
                   /\ ClaimsMatchSlot'
<1>0. /\ clock \in Nat /\ row \in Row /\ claims \subseteq Claim /\ row.token \in Nat
      /\ row.state = "suspended" => row.cooldown # None
      /\ row.cooldown \in Nat \cup {None} /\ row.expires \in Nat \cup {None}
      /\ None \notin Nat
  BY NoneAssumption DEF BreakerInv, TypeOK, Row, Time
<1>1. ASSUME row' = row, claims' \subseteq claims, clock' = clock \/ clock' = clock + 1
      PROVE  Goal
  <2>1. \A c \in claims : c.expires \in Nat
    BY <1>0 DEF Claim
  <2> QED BY <1>0, <1>1, <2>1 DEF BreakerInv, ClaimsMatchSlot
<1>2. ASSUME NEW w \in Worker, ObserveApply(w) PROVE Goal
  <2>1. CASE row' = row
    BY <1>1, <1>2, <2>1 DEF ObserveApply
  <2>2. CASE Observed
    <3>1. PICK samples \in SUBSET Indices, at \in Times : row' = RowAfter(row, samples, at)
      BY <2>2 DEF Observed
    <3>2. /\ row' \in Row
          /\ row'.token = row.token
          /\ row'.state = "suspended" => row'.cooldown # None
          /\ row.state = "probing_recovery" => row' = row
      BY <3>1, AggregateMoves
    <3>3. UNCHANGED <<clock, claims>>
      BY <1>2 DEF ObserveApply
    <3> QED BY <1>0, <3>2, <3>3 DEF BreakerInv, ClaimsMatchSlot
  <2> QED BY <1>2, <2>1, <2>2, ObserveMoves
<1>3. ASSUME NEW w \in Worker, NEW at \in Times, TryClaimProbe(w, at) PROVE Goal
  <2> DEFINE new == [worker |-> w, token |-> row.token + 1, expires |-> at + ProbeTTL]
  <2>1. at \in Nat /\ at <= clock /\ at + ProbeTTL \in Nat
    BY <1>0, ConfigAssumption DEF Times
  <2>2. /\ row' = [row EXCEPT !.state = "probing_recovery", !.owner = w,
                              !.token = @ + 1, !.expires = at + ProbeTTL]
        /\ claims' = claims \cup {new} /\ clock' = clock
    BY <1>3 DEF TryClaimProbe
  <2>3. /\ row' \in Row /\ row'.state = "probing_recovery" /\ row'.owner = w
        /\ row'.token = row.token + 1 /\ row'.expires = at + ProbeTTL
    <3>1. row.token + 1 \in Nat /\ at + ProbeTTL \in Time
      BY <1>0, <2>1 DEF Time
    <3>2. row' = [row EXCEPT !.state = "probing_recovery", !.owner = w,
                             !.token = row.token + 1, !.expires = at + ProbeTTL]
      BY <1>0, <2>2
    <3> QED BY <1>0, <3>1, <3>2 DEF Row, State
  <2>4. new \in Claim
    BY <1>0, <2>1 DEF Claim
  <2>5. \A c \in claims : c.token \in Nat /\ c.token < row'.token /\ c.expires <= clock
    <3> SUFFICES ASSUME NEW c \in claims PROVE c.token \in Nat /\ c.token < row'.token /\ c.expires <= clock
      OBVIOUS
    <3>1. c.token \in Nat /\ c.expires \in Nat /\ c.token <= row.token
      BY <1>0 DEF BreakerInv, ClaimsMatchSlot, Claim
    <3>2. CASE c.token = row.token
      <4>1. row.state = "probing_recovery" /\ row.expires = c.expires
        BY <3>2 DEF BreakerInv, ClaimsMatchSlot
      <4>2. row.expires <= at
        BY <1>3, <4>1 DEF TryClaimProbe, Claimable
      <4> QED BY <1>0, <2>1, <2>3, <3>1, <3>2, <4>1, <4>2
    <3>3. CASE c.token < row.token
      BY <1>0, <2>3, <3>1, <3>3 DEF BreakerInv, ClaimsMatchSlot
    <3> QED BY <1>0, <3>1, <3>2, <3>3
  <2>6. new.worker = w /\ new.token = row.token + 1 /\ new.expires = at + ProbeTTL
    OBVIOUS
  <2> HIDE DEF new
  <2>7. ClaimsMatchSlot'
    <3>1. \A c \in claims' : \/ c = new
                             \/ c \in claims /\ c.token < row'.token /\ c.expires <= clock'
      BY <2>2, <2>5
    <3>2. \A c \in claims : c.token <= row'.token /\ c.token # row'.token
      BY <1>0, <2>3, <2>5
    <3>3. new.token <= row'.token /\ ~(new.token < row'.token)
      BY <1>0, <2>3, <2>6
    <3> QED BY <2>2, <2>3, <2>6, <3>1, <3>2, <3>3 DEF ClaimsMatchSlot
  <2> QED BY <1>0, <2>2, <2>3, <2>4, <2>7
<1>4. ASSUME NEW w \in Worker, NEW at \in Times, AdoptSlot(w, at) PROVE Goal
  <2> DEFINE new == [worker |-> w, token |-> row.token, expires |-> row.expires]
  <2>1. /\ row.state = "probing_recovery" /\ row.owner = w /\ row.expires \in Nat
        /\ claims' = claims \cup {new} /\ UNCHANGED <<row, clock>>
    BY <1>0, <1>4 DEF AdoptSlot, LiveProbe
  <2>2. /\ new \in Claim
        /\ new.worker = w /\ new.token = row.token /\ new.expires = row.expires
    BY <1>0, <2>1 DEF Claim
  <2> HIDE DEF new
  <2> QED BY <1>0, <2>1, <2>2 DEF BreakerInv, ClaimsMatchSlot
<1>5. ASSUME NEW c \in claims, NEW at \in Times, Accepts(c, at), claims' = claims \ {c},
             row' \in Row, row'.token = row.token, clock' = clock,
             row'.state = "suspended" => row'.cooldown # None
      PROVE  Goal
  <2>1. \A d \in claims' : d.token \in Nat /\ d.token < row.token /\ d.expires <= clock
    BY <1>0, <1>5, OthersLapsed DEF Claim
  <2> QED BY <1>0, <1>5, <2>1 DEF ClaimsMatchSlot
<1>6. ASSUME NEW c \in claims, NEW at \in Times, ReportSuccess(c, at) PROVE Goal
  <2>1. claims' = claims \ {c} /\ clock' = clock
    BY <1>6 DEF ReportSuccess
  <2>2. CASE Accepts(c, at)
    <3> DEFINE seq == IF attached[c.worker] THEN Len(facts) ELSE None
    <3>1. row' = [row EXCEPT !.state = "normal", !.owner = None, !.expires = None,
                             !.cooldown = None, !.recoveredAt = at, !.recoverySeq = seq]
      BY <1>6, <2>2 DEF ReportSuccess
    <3>2. at \in Nat /\ seq \in Nat \cup {None}
      BY <1>0 DEF Times, BreakerInv, TypeOK
    <3> HIDE DEF seq
    <3>3. row' \in Row /\ row'.token = row.token /\ row'.state = "normal"
      BY <1>0, <3>1, <3>2 DEF Row, State, Time
    <3> QED BY <1>5, <2>1, <2>2, <3>3
  <2>3. CASE ~Accepts(c, at)
    BY <1>1, <1>6, <2>1, <2>3 DEF ReportSuccess
  <2> QED BY <2>2, <2>3
<1>7. ASSUME NEW c \in claims, NEW at \in Times, NEW hint \in Nat \cup {None},
             ReportFailure(c, hint, at)
      PROVE  Goal
  <2>1. claims' = claims \ {c} /\ clock' = clock
    BY <1>7 DEF ReportFailure
  <2>2. CASE Accepts(c, at)
    <3>1. row' = [row EXCEPT !.state = "suspended", !.owner = None, !.expires = None,
                             !.cooldown = Deadline(hint, at)]
      BY <1>7, <2>2 DEF ReportFailure
    <3>2. Deadline(hint, at) \in Nat
      BY <1>0, ConfigAssumption DEF Times, Deadline
    <3>3. /\ row' \in Row /\ row'.token = row.token
          /\ row'.state = "suspended" /\ row'.cooldown # None
      BY <1>0, <3>1, <3>2 DEF Row, State, Time
    <3> QED BY <1>5, <2>1, <2>2, <3>3
  <2>3. CASE ~Accepts(c, at)
    BY <1>1, <1>7, <2>1, <2>3 DEF ReportFailure
  <2> QED BY <2>2, <2>3
<1>8. \A at \in Times, retry \in RetryAfter : \A since \in 0 .. at : since + retry \in Nat
  BY <1>0, ConfigAssumption DEF Times
<1> HIDE DEF Goal
<1>9. ASSUME NEW w \in Worker, NEW at \in Times, ObserveRead(w, at) PROVE Goal
  BY <1>1, <1>9 DEF ObserveRead
<1>10. ASSUME NEW w \in Worker, Restart(w) PROVE Goal
  BY <1>1, <1>10 DEF Restart
<1>11. ASSUME NEW c \in claims, AbandonClaim(c) PROVE Goal
  BY <1>1, <1>11 DEF AbandonClaim
<1>12. ASSUME NEW fact, RecordFailure(fact) PROVE Goal
  BY <1>1, <1>12 DEF RecordFailure
<1>13. ASSUME Tick PROVE Goal
  BY <1>1, <1>13 DEF Tick
<1>14. ASSUME UNCHANGED vars PROVE Goal
  BY <1>1, <1>14 DEF vars
<1>15. ASSUME NEW w \in Worker, WorkerStep(w) PROVE Goal
  BY <1>2, <1>3, <1>4, <1>9, <1>10, <1>15, Zenon DEF WorkerStep, Times
<1>16. ASSUME NEW c \in claims, ClaimStep(c) PROVE Goal
  <2>1. None \in Nat \cup {None}
    OBVIOUS
  <2> QED BY <1>6, <1>7, <1>8, <1>11, <1>16, <2>1 DEF ClaimStep, Times
<1>17. ASSUME Next PROVE Goal
  BY <1>12, <1>13, <1>15, <1>16, <1>17, Zenon DEF Next
<1>18. Goal
  BY <1>14, <1>17, Zenon DEF vars
<1> QED BY <1>18 DEF Goal

LEMMA AlwaysBreaker == Spec => []BreakerInv
<1>1. ASSUME BreakerInv, [Next]_vars PROVE BreakerInv'
  BY <1>1, EvidenceStep, SlotStep DEF BreakerInv, TypeOK
<1> QED BY BreakerInit, <1>1, PTL DEF Spec

-----------------------------------------------------------------------------
(* The theorems *)

\* Tokens fence probes: two workers never hold unexpired slots together,
\* however claims, lapses, adoptions, reports and restarts interleave.
THEOREM OneProbeAtATime == Spec => [](TypeOK /\ OneLiveProbe)
<1>1. ASSUME BreakerInv PROVE TypeOK /\ OneLiveProbe
  <2> SUFFICES ASSUME NEW c \in claims, NEW d \in claims,
                      c.expires > clock, d.expires > clock
               PROVE  c = d
    BY <1>1 DEF BreakerInv, OneLiveProbe
  <2>1. /\ c \in Claim /\ d \in Claim /\ clock \in Nat /\ row.token \in Nat
    BY <1>1 DEF BreakerInv, TypeOK, Row
  <2>2. \A e \in {c, d} : e.token \in Nat /\ e.expires \in Nat /\ e.token <= row.token
    BY <1>1, <2>1 DEF BreakerInv, ClaimsMatchSlot, Claim
  <2>3. \A e \in {c, d} : ~(e.token < row.token)
    BY <1>1, <2>1, <2>2 DEF BreakerInv, ClaimsMatchSlot
  <2>4. c.token = row.token /\ d.token = row.token
    BY <2>1, <2>2, <2>3
  <2>5. c.worker = d.worker /\ c.expires = d.expires
    BY <1>1, <2>4 DEF BreakerInv, ClaimsMatchSlot
  <2> QED BY <2>1, <2>4, <2>5 DEF Claim
<1> QED BY AlwaysBreaker, <1>1, PTL

\* No evidence, lapse, late report or restart closes a breaker: only the
\* report of the current probe does.
THEOREM ProbesAloneRecover == Spec => OnlyWonProbesRecover
<1> DEFINE Step == row.state \in {"suspended", "probing_recovery"}
                      /\ row'.state \in {"insufficient_evidence", "normal"} =>
                   /\ row.state = "probing_recovery"
                   /\ \E c \in claims \ claims' : c.worker = row.owner /\ c.token = row.token
<1>1. ASSUME BreakerInv, [Next]_vars PROVE Step
  <2> SUFFICES ASSUME row.state \in {"suspended", "probing_recovery"},
                      row'.state \in {"insufficient_evidence", "normal"}
               PROVE  /\ row.state = "probing_recovery"
                      /\ \E c \in claims \ claims' : c.worker = row.owner /\ c.token = row.token
    OBVIOUS
  <2>1. ~Observed
    BY <1>1, AggregateMoves DEF Observed
  <2>2. ~Claimed
    BY <1>1 DEF Claimed, TryClaimProbe, BreakerInv, TypeOK, Row
  <2>3. ~Failed
    BY <1>1 DEF Failed, ReportFailure, BreakerInv, TypeOK, Row
  <2>4. Succeeded
    BY <1>1, <2>1, <2>2, <2>3, RowMoves
  <2>5. PICK c \in claims, at \in Times : Accepts(c, at) /\ ReportSuccess(c, at)
    BY <2>4 DEF Succeeded
  <2>6. c \in claims \ claims'
    BY <2>5 DEF ReportSuccess
  <2> QED BY <2>5, <2>6 DEF Accepts, LiveProbe
<1>2. BreakerInv /\ [Next]_vars => [Step]_vars
  BY <1>1
<1> QED BY AlwaysBreaker, <1>2, PTL DEF Spec, OnlyWonProbesRecover

\* No report, cached window or hint shortens a suspension that has begun.
THEOREM SuspensionsServed == Spec => SuspensionServed
<1> DEFINE Step == row.state = "suspended" /\ row' # row =>
                     \/ row'.state = "suspended" /\ row'.cooldown > row.cooldown
                     \/ /\ row'.state = "probing_recovery"
                        /\ row.cooldown <= clock
                        /\ row'.token = row.token + 1
<1>1. ASSUME BreakerInv, [Next]_vars PROVE Step
  <2> SUFFICES ASSUME row.state = "suspended", row' # row
               PROVE  \/ row'.state = "suspended" /\ row'.cooldown > row.cooldown
                      \/ /\ row'.state = "probing_recovery"
                         /\ row.cooldown <= clock
                         /\ row'.token = row.token + 1
    OBVIOUS
  <2>1. ~Succeeded /\ ~Failed
    BY DEF Succeeded, Failed, Accepts, LiveProbe
  <2>2. CASE Observed
    BY <1>1, <2>2, AggregateMoves DEF Observed
  <2>3. CASE Claimed
    <3>1. PICK w \in Worker, at \in Times : TryClaimProbe(w, at)
      BY <2>3 DEF Claimed
    <3>2. row.cooldown \in Nat /\ clock \in Nat /\ at \in Nat /\ at <= clock
      BY <1>1 DEF BreakerInv, TypeOK, Row, Time, Times
    <3>3. row.cooldown <= at
      BY <3>1 DEF TryClaimProbe, Claimable
    <3>4. row'.state = "probing_recovery" /\ row'.token = row.token + 1
      BY <1>1, <3>1 DEF TryClaimProbe, BreakerInv, TypeOK, Row
    <3> QED BY <3>2, <3>3, <3>4
  <2> QED BY <1>1, <2>1, <2>2, <2>3, RowMoves
<1>2. BreakerInv /\ [Next]_vars => [Step]_vars
  BY <1>1
<1> QED BY AlwaysBreaker, <1>2, PTL DEF Spec, SuspensionServed

\* A window read or cached before a recovery cannot undo it.
THEOREM OldEvidenceNeverSuspends == Spec => FreshEvidenceOnly
<1> DEFINE Step == row.state = "normal" /\ row'.state = "suspended" =>
                      Suspends(SinceRecovery)
<1>1. ASSUME BreakerInv, [Next]_vars PROVE Step
  <2> SUFFICES ASSUME row.state = "normal", row'.state = "suspended"
               PROVE  Suspends(SinceRecovery)
    OBVIOUS
  <2>1. ~Succeeded /\ ~Failed /\ ~Claimed
    BY DEF Succeeded, Failed, Claimed, TryClaimProbe, Claimable, Accepts, LiveProbe
  <2>2. Observed
    BY <1>1, <2>1, RowMoves
  <2>3. PICK samples \in SUBSET Indices, at \in Times :
            samples \subseteq SinceRecovery /\ row' = RowAfter(row, samples, at)
    BY <2>2 DEF Observed
  <2>4. Suspends(samples)
    BY <1>1, <2>3, AggregateMoves
  <2>5. IsFiniteSet(SinceRecovery)
    BY <1>1, IndicesFinite, FS_Subset DEF BreakerInv, SinceRecovery
  <2>6. /\ Cardinality(samples) \in Nat /\ Cardinality(SinceRecovery) \in Nat
        /\ Cardinality(samples) <= Cardinality(SinceRecovery)
    BY <2>3, <2>5, FS_Subset, FS_CardinalityType
  <2> QED BY <2>3, <2>4, <2>6, ConfigAssumption DEF Suspends
<1>2. BreakerInv /\ [Next]_vars => [Step]_vars
  BY <1>1
<1> QED BY AlwaysBreaker, <1>2, PTL DEF Spec, FreshEvidenceOnly

-----------------------------------------------------------------------------
(* The file of failure facts.  The invariant says where the records of an  *)
(* index come from and what an append in progress knows; that the reader   *)
(* decides on a line from the lines before it alone is by induction.       *)

\* Line n is read when the lines U before it are.
Fresh(f, n, U) == f[n] # Torn /\ \A k \in U : f[k].key # f[n].key /\ f[k].id # f[n].id

ReadsTo(h, f) ==
    h = [n \in 0 .. Len(f) |-> IF n = 0 THEN {}
                               ELSE IF Fresh(f, n, h[n - 1]) THEN h[n - 1] \cup {n}
                               ELSE h[n - 1]]
UpTo(f) == CHOOSE h : ReadsTo(h, f)

LEMMA ReadLinesIsUpTo ==
  ASSUME NEW f
  PROVE  ReadLines(f) = UpTo(f)[Len(f)]
  BY DEF ReadLines, UpTo, ReadsTo, Fresh

LEMMA UpToExists ==
  ASSUME NEW f \in Seq(Line)
  PROVE  ReadsTo(UpTo(f), f)
<1> DEFINE N == Len(f)
           step == [n \in 1 .. N |-> [U \in SUBSET Nat |-> IF Fresh(f, n, U) THEN U \cup {n} ELSE U]]
<1>1. N \in Nat
  OBVIOUS
<1>2. step \in [1 .. N -> [SUBSET Nat -> SUBSET Nat]]
  <2>1. ASSUME NEW n \in 1 .. N, NEW U \in SUBSET Nat
        PROVE  (IF Fresh(f, n, U) THEN U \cup {n} ELSE U) \in SUBSET Nat
    OBVIOUS
  <2> HIDE DEF N
  <2> QED BY <2>1
<1>3. PICK g \in [0 .. N -> SUBSET Nat] : Solves(g, {}, step, N)
  <2> HIDE DEF step, N
  <2> QED BY <1>1, <1>2, RecursionExists
<1>4. ReadsTo(g, f)
  <2>1. ASSUME NEW n \in 0 .. N
        PROVE  g[n] = IF n = 0 THEN {}
                      ELSE IF Fresh(f, n, g[n - 1]) THEN g[n - 1] \cup {n} ELSE g[n - 1]
    <3>1. g[n] = IF n = 0 THEN {} ELSE step[n][g[n - 1]]
      <4> HIDE DEF step, N
      <4> QED BY <1>3 DEF Solves
    <3>2. n # 0 => n \in 1 .. N /\ g[n - 1] \in SUBSET Nat
      <4> HIDE DEF step
      <4> QED BY <1>1
    <3> QED BY <3>1, <3>2
  <2>2. g = [n \in 0 .. N |-> g[n]]
    <3> HIDE DEF N
    <3> QED OBVIOUS
  <2> QED BY <2>1, <2>2 DEF ReadsTo
<1> QED BY <1>4 DEF UpTo

\* What is read from the first n lines is decided by these.
LEMMA UpToPrefix ==
  ASSUME NEW f \in Seq(Line), NEW n \in 0 .. Len(f)
  PROVE  UpTo(f)[n] \subseteq 1 .. n /\ UpTo(f)[n] = UpTo(f)[Len(f)] \cap 1 .. n
<1> DEFINE U == UpTo(f)
           Inside == {m \in Nat : m <= Len(f) => /\ U[m] \subseteq 1 .. m
                                                 /\ \A l \in 0 .. m : U[l] = U[m] \cap 1 .. l}
<1>0. \A m \in 0 .. Len(f) : U[m] = IF m = 0 THEN {}
                             ELSE IF Fresh(f, m, U[m - 1]) THEN U[m - 1] \cup {m} ELSE U[m - 1]
  BY UpToExists DEF ReadsTo
<1> HIDE DEF U
<1>1. 0 \in Inside
  <2>1. 0 \in 0 .. Len(f)
    OBVIOUS
  <2>2. U[0] = {}
    BY <1>0, <2>1
  <2> QED BY <2>2
<1>2. ASSUME NEW m \in Nat, m \in Inside
      PROVE  m + 1 \in Inside
  <2> SUFFICES ASSUME m + 1 <= Len(f)
               PROVE  /\ U[m + 1] \subseteq 1 .. m + 1
                      /\ \A l \in 0 .. m + 1 : U[l] = U[m + 1] \cap 1 .. l
    OBVIOUS
  <2>1. U[m] \subseteq 1 .. m /\ \A l \in 0 .. m : U[l] = U[m] \cap 1 .. l
    BY <1>2
  <2>2. U[m + 1] = U[m] \cup {m + 1} \/ U[m + 1] = U[m]
    <3>1. m + 1 \in 0 .. Len(f) /\ m + 1 # 0 /\ (m + 1) - 1 = m
      OBVIOUS
    <3> QED BY <1>0, <3>1
  <2>3. U[m + 1] \subseteq 1 .. m + 1
    BY <2>1, <2>2
  <2>4. ASSUME NEW l \in 0 .. m + 1
        PROVE  U[l] = U[m + 1] \cap 1 .. l
    <3>1. CASE l = m + 1
      BY <2>3, <3>1
    <3>2. CASE l # m + 1
      <4>1. l \in 0 .. m
        BY <3>2
      <4>2. U[l] = U[m] \cap 1 .. l
        BY <2>1, <4>1
      <4>3. m + 1 \notin 1 .. l
        BY <4>1
      <4> QED BY <2>2, <4>2, <4>3
    <3> QED BY <3>1, <3>2
  <2> QED BY <2>3, <2>4
<1>3. Nat \subseteq Inside
  <2> HIDE DEF Inside
  <2> QED BY <1>1, <1>2, EveryNumber
<1>4. Len(f) \in Inside /\ n \in Inside
  BY <1>3
<1> QED BY <1>4 DEF U

\* The rule of _read_all(): a valid record is read unless an earlier read one has its
\* key or its identity.
LEMMA ReadRule ==
  ASSUME NEW f \in Seq(Line)
  PROVE  /\ ReadLines(f) \subseteq 1 .. Len(f)
         /\ \A n \in 1 .. Len(f) :
              n \in ReadLines(f) <=> Fresh(f, n, {k \in ReadLines(f) : k < n})
<1>1. ReadLines(f) = UpTo(f)[Len(f)] /\ Len(f) \in 0 .. Len(f)
  BY ReadLinesIsUpTo
<1>2. ReadLines(f) \subseteq 1 .. Len(f)
  BY <1>1, UpToPrefix
<1>3. ASSUME NEW n \in 1 .. Len(f)
      PROVE  n \in ReadLines(f) <=> Fresh(f, n, {k \in ReadLines(f) : k < n})
  <2>1. n \in 0 .. Len(f) /\ n - 1 \in 0 .. Len(f) /\ n # 0
    OBVIOUS
  <2>2. n \in ReadLines(f) <=> n \in UpTo(f)[n]
    BY <1>1, <2>1, UpToPrefix
  <2>3. UpTo(f)[n] = IF Fresh(f, n, UpTo(f)[n - 1]) THEN UpTo(f)[n - 1] \cup {n}
                                                    ELSE UpTo(f)[n - 1]
    BY <2>1, UpToExists DEF ReadsTo
  <2>4. UpTo(f)[n - 1] = ReadLines(f) \cap 1 .. n - 1 /\ n \notin UpTo(f)[n - 1]
    BY <1>1, <2>1, UpToPrefix
  <2>5. ReadLines(f) \cap 1 .. n - 1 = {k \in ReadLines(f) : k < n}
    BY <1>2
  <2> QED BY <2>2, <2>3, <2>4, <2>5
<1> QED BY <1>2, <1>3

\* Two files that agree on their first m lines: the same of these are read.
LEMMA SamePrefix ==
  ASSUME NEW f \in Seq(Line), NEW g \in Seq(Line), NEW m \in Nat,
         m <= Len(f), m <= Len(g), \A k \in 1 .. m : f[k] = g[k]
  PROVE  \A k \in 1 .. m : k \in ReadLines(f) <=> k \in ReadLines(g)
<1> DEFINE Same == {n \in Nat : \A k \in 1 .. n : k <= m => (k \in ReadLines(f) <=> k \in ReadLines(g))}
<1>1. 0 \in Same
  OBVIOUS
<1>2. ASSUME NEW n \in Nat, n \in Same
      PROVE  n + 1 \in Same
  <2> SUFFICES ASSUME n + 1 <= m
               PROVE  n + 1 \in ReadLines(f) <=> n + 1 \in ReadLines(g)
    BY <1>2
  <2>1. /\ n + 1 \in ReadLines(f) <=> Fresh(f, n + 1, {k \in ReadLines(f) : k < n + 1})
        /\ n + 1 \in ReadLines(g) <=> Fresh(g, n + 1, {k \in ReadLines(g) : k < n + 1})
    <3>1. n + 1 \in 1 .. Len(f) /\ n + 1 \in 1 .. Len(g)
      OBVIOUS
    <3> QED BY <3>1, ReadRule
  <2>2. {k \in ReadLines(f) : k < n + 1} = {k \in ReadLines(g) : k < n + 1}
    <3>1. ReadLines(f) \subseteq 1 .. Len(f) /\ ReadLines(g) \subseteq 1 .. Len(g)
      BY ReadRule
    <3>2. \A k \in 1 .. n : k \in ReadLines(f) <=> k \in ReadLines(g)
      BY <1>2
    <3> QED BY <3>1, <3>2
  <2>3. \A k \in {i \in ReadLines(g) : i < n + 1} : f[k] = g[k]
    <3>1. ReadLines(g) \subseteq 1 .. Len(g)
      BY ReadRule
    <3> QED BY <3>1
  <2>4. f[n + 1] = g[n + 1]
    OBVIOUS
  <2> QED BY <2>1, <2>2, <2>3, <2>4 DEF Fresh
<1>3. Nat \subseteq Same
  <2> HIDE DEF Same
  <2> QED BY <1>1, <1>2, EveryNumber
<1> QED BY <1>3

-----------------------------------------------------------------------------
Calls == [obs : Observation, at : {"ensure", "check", "write", "sync", "commit"},
          index : SUBSET Observation, signature : (Seq(Line) \X BOOLEAN) \cup {NoCall}]

StoreTyped ==
    /\ file \in Seq(Line) /\ ended \in BOOLEAN
    /\ durable \in [lines : Nat, ended : BOOLEAN] /\ durable.lines <= Len(file)
    /\ index \in SUBSET Observation /\ accepted \in SUBSET Observation
    /\ signature \in (Seq(Line) \X BOOLEAN) \cup {NoCall}
    /\ call # NoCall => call \in Calls

\* The record o is read from a line no power failure takes.
Kept(o) == \E k \in ReadLines(file) : k <= durable.lines /\ file[k] = o

\* An index holds what is read from the file its signature names.
IndexOf(records, s) == \A f \in Seq(Line), e \in BOOLEAN : s = <<f, e>> => records = Records(f)

IndexTrue == IndexOf(index, signature) /\ \A o \in index : Kept(o)

\* What an append in progress knows at each step.
CallTrue ==
    call # NoCall =>
        /\ IndexOf(call.index, call.signature) /\ \A o \in call.index : Kept(o)
        /\ call.at \in {"check", "write"} => call.signature = <<file, ended>>
        /\ call.at = "write" => \A o \in call.index : o.key # call.obs.key /\ o.id # call.obs.id
        /\ call.at \in {"sync", "commit"} =>
              /\ Len(file) \in ReadLines(file) /\ file[Len(file)] = call.obs
              /\ Records(file) = call.index \cup {call.obs}
        /\ call.at = "commit" => durable.lines = Len(file)

\* A checkpoint knows what was read from the lines before it.
ReadBefore(n) == {file[k] : k \in {j \in ReadLines(file) : j <= n}}
CheckpointsTrue == \A c \in checkpoints : c.at \in 0 .. Len(file) /\ c.before = ReadBefore(c.at)

StoreInv == StoreTyped /\ IndexTrue /\ CallTrue /\ AcceptedForGood /\ CheckpointsTrue

\* The file keeps its first m lines, and no power failure takes less than before.
Keeps(m) ==
    /\ m \in Nat /\ m <= Len(file) /\ m <= Len(file')
    /\ \A k \in 1 .. m : file'[k] = file[k]
    /\ durable.lines <= m /\ durable.lines <= durable.lines'

LEMMA KeepsReading ==
  ASSUME StoreTyped, StoreTyped', NEW m, Keeps(m)
  PROVE  /\ \A k \in ReadLines(file) : k <= m => k \in ReadLines(file') /\ file'[k] = file[k]
         /\ \A o : Kept(o) => Kept(o)'
         /\ \A n \in Nat : n <= m => ReadBefore(n)' = ReadBefore(n)
         /\ AcceptedForGood /\ accepted' = accepted => AcceptedForGood'
<1>1. \A k \in 1 .. m : k \in ReadLines(file) <=> k \in ReadLines(file')
  BY SamePrefix DEF Keeps, StoreTyped
<1>2. ReadLines(file) \subseteq 1 .. Len(file) /\ ReadLines(file') \subseteq 1 .. Len(file')
  BY ReadRule DEF StoreTyped
<1>3. /\ Len(file) \in Nat /\ Len(file') \in Nat /\ m \in Nat
      /\ durable.lines \in Nat /\ durable'.lines \in Nat
      /\ m <= Len(file) /\ m <= Len(file')
      /\ durable.lines <= m /\ durable.lines <= durable'.lines
      /\ \A k \in 1 .. m : file'[k] = file[k]
  BY DEF Keeps, StoreTyped
<1>4. ASSUME NEW k \in ReadLines(file), k <= m
      PROVE  k \in ReadLines(file') /\ file'[k] = file[k]
  <2>1. k \in 1 .. m
    BY <1>2, <1>3, <1>4
  <2> QED BY <1>1, <1>3, <2>1
<1>5. ASSUME NEW k \in ReadLines(file), k <= durable.lines
      PROVE  k \in ReadLines(file') /\ file'[k] = file[k] /\ k <= durable'.lines
  <2>1. k \in Nat
    BY <1>2
  <2>2. k <= m /\ k <= durable'.lines
    BY <1>3, <1>5, <2>1
  <2> QED BY <1>4, <2>2
<1>6. ASSUME NEW o, Kept(o) PROVE Kept(o)'
  BY <1>5, <1>6 DEF Kept
<1>7. ASSUME NEW n \in Nat, n <= m
      PROVE  ReadBefore(n)' = ReadBefore(n)
  <2>1. {j \in ReadLines(file) : j <= n} = {j \in ReadLines(file') : j <= n}
    <3>1. \A j \in Nat : j <= n => j <= m
      BY <1>3, <1>7
    <3>2. \A j \in 1 .. Len(file) : j <= n => j \in 1 .. m
      BY <1>3, <3>1
    <3>3. \A j \in 1 .. Len(file') : j <= n => j \in 1 .. m
      BY <1>3, <3>1
    <3> QED BY <1>1, <1>2, <3>2, <3>3
  <2>2. \A j \in {j \in ReadLines(file) : j <= n} : file'[j] = file[j]
    <3>1. \A j \in 1 .. Len(file) : j <= n => j \in 1 .. m
      BY <1>3, <1>7
    <3> QED BY <1>2, <1>3, <3>1
  <2> QED BY <2>1, <2>2 DEF ReadBefore
<1>8. AcceptedForGood /\ accepted' = accepted => AcceptedForGood'
  BY <1>5 DEF AcceptedForGood, SameFacts
<1> QED BY <1>4, <1>6, <1>7, <1>8

\* Steps that keep the lines of the file and what is synced of them.
LEMMA KeepsInv ==
  ASSUME StoreInv, StoreTyped', NEW m, Keeps(m), UNCHANGED <<indexed, accepted>>,
         \/ checkpoints' = checkpoints /\ m = Len(file)
         \/ checkpoints' = {c \in checkpoints : c.at <= m}
  PROVE  IndexTrue' /\ AcceptedForGood' /\ CheckpointsTrue'
<1>1. /\ \A o : Kept(o) => Kept(o)'
      /\ \A n \in Nat : n <= m => ReadBefore(n)' = ReadBefore(n)
      /\ AcceptedForGood'
  BY KeepsReading DEF StoreInv
<1>2. IndexTrue'
  BY <1>1 DEF StoreInv, IndexTrue, IndexOf, Records, indexed
<1>3. CheckpointsTrue'
  <2>1. /\ m \in Nat /\ m <= Len(file) /\ m <= Len(file') /\ Len(file') \in Nat /\ Len(file) \in Nat
    BY DEF Keeps, StoreInv, StoreTyped
  <2>2. ASSUME NEW c \in checkpoints'
        PROVE  c.at \in 0 .. Len(file') /\ c.before = ReadBefore(c.at)'
    <3>1. c \in checkpoints
      OBVIOUS
    <3>2. c.at \in 0 .. Len(file) /\ c.before = ReadBefore(c.at)
      BY <3>1 DEF StoreInv, CheckpointsTrue
    <3>3. c.at <= m
      BY <2>1, <3>2
    <3> QED BY <1>1, <2>1, <3>2, <3>3
  <2> QED BY <2>2 DEF CheckpointsTrue
<1> QED BY <1>1, <1>2, <1>3

LEMMA StoreInit == ASSUME FactsInit PROVE StoreInv
<1>1. StoreTyped
  BY DEF FactsInit, StoreTyped
<1>2. IndexTrue
  BY NullAssumption DEF FactsInit, IndexTrue, IndexOf
<1> QED BY <1>1, <1>2 DEF FactsInit, StoreInv, CallTrue, AcceptedForGood, CheckpointsTrue

\* Steps that write no line.
LEMMA SameFile ==
  ASSUME StoreTyped, UNCHANGED file, durable.lines <= durable'.lines, StoreTyped'
  PROVE  Keeps(Len(file))
  BY DEF Keeps, StoreTyped

LEMMA BeginStep ==
  ASSUME StoreInv, NEW o \in Observation, AppendBegin(o)
  PROVE  StoreInv'
<1>1. StoreTyped'
  BY DEF AppendBegin, StoreInv, StoreTyped, Calls, stored, indexed
<1>2. IndexTrue' /\ AcceptedForGood' /\ CheckpointsTrue'
  BY DEF AppendBegin, StoreInv, IndexTrue, IndexOf, Kept, AcceptedForGood, CheckpointsTrue,
         ReadBefore, stored, indexed
<1>3. CallTrue'
  BY DEF AppendBegin, StoreInv, IndexTrue, IndexOf, Kept, CallTrue, stored
<1> QED BY <1>1, <1>2, <1>3 DEF StoreInv

LEMMA EnsureStep ==
  ASSUME StoreInv, EnsureIndex
  PROVE  StoreInv'
<1>0. StoreTyped /\ call # NoCall /\ call \in Calls /\ call.at = "ensure" /\ file \in Seq(Line)
  BY DEF EnsureIndex, At, StoreInv, StoreTyped
<1>1. CASE call.signature = <<file, ended>>
  <2>1. /\ call' = [call EXCEPT !.at = "check"]
        /\ UNCHANGED <<file, ended, durable, index, signature, accepted, checkpoints>>
    BY <1>1 DEF EnsureIndex, Continue, indexed
  <2>2. StoreTyped'
    BY <1>0, <2>1 DEF StoreTyped, Calls
  <2>3. CallTrue'
    BY <1>0, <1>1, <2>1 DEF StoreInv, CallTrue, IndexOf, Kept, Calls
  <2> QED BY <2>1, <2>2, <2>3 DEF StoreInv, IndexTrue, IndexOf, Kept, AcceptedForGood,
                                  CheckpointsTrue, ReadBefore
<1>2. CASE call.signature # <<file, ended>>
  <2>1. /\ call' = [call EXCEPT !.at = "check", !.index = Records(file), !.signature = <<file, ended>>]
        /\ durable' = Whole
        /\ UNCHANGED <<file, ended, index, signature, accepted, checkpoints>>
    BY <1>2 DEF EnsureIndex, Rebuild, indexed
  <2>2. ReadLines(file) \subseteq 1 .. Len(file) /\ Len(file) \in Nat
    BY <1>0, ReadRule
  <2>3. Records(file) \in SUBSET Observation
    <3>1. \A k \in ReadLines(file) : file[k] \in Line /\ file[k] # Torn
      BY <1>0, <2>2, ReadRule DEF Fresh
    <3> QED BY <3>1 DEF Records, Line
  <2>4. StoreTyped'
    <3>1. call' \in Calls
      <4>1. <<file, ended>> \in Seq(Line) \X BOOLEAN
        BY <1>0 DEF StoreTyped
      <4> DEFINE R == Records(file)
                 S == <<file, ended>>
      <4>2. call' = [call EXCEPT !.at = "check", !.index = R, !.signature = S]
        BY <2>1
      <4>3. R \in SUBSET Observation /\ S \in (Seq(Line) \X BOOLEAN) \cup {NoCall}
        BY <2>3, <4>1
      <4> HIDE DEF R, S
      <4> QED BY <1>0, <4>2, <4>3 DEF Calls
    <3>2. durable' = [lines |-> Len(file), ended |-> ended] /\ Len(file) \in Nat
      BY <2>1, <2>2 DEF Whole
    <3> QED BY <1>0, <2>1, <3>1, <3>2 DEF StoreTyped
  <2>5. Keeps(Len(file))
    BY <1>0, <2>1, <2>4, SameFile DEF StoreTyped, Whole
  <2>6. IndexTrue' /\ AcceptedForGood' /\ CheckpointsTrue'
    BY <2>1, <2>4, <2>5, KeepsInv DEF indexed
  <2>7. CallTrue'
    <3>1. \A o \in Records(file) : Kept(o)'
      BY <2>1, <2>2 DEF Records, Kept, Whole
    <3>2. /\ call'.index = Records(file) /\ call'.signature = <<file, ended>> /\ call'.at = "check"
      BY <1>0, <2>1 DEF Calls
    <3>3. IndexOf(call'.index, call'.signature)
      BY <3>2 DEF IndexOf
    <3> QED BY <2>1, <3>1, <3>2, <3>3 DEF CallTrue, IndexOf
  <2> QED BY <2>4, <2>6, <2>7 DEF StoreInv
<1> QED BY <1>1, <1>2

\* The end of a call: what it leaves in the index is true, and what it returned for
\* is read for good.
LEMMA ReturnStep ==
  ASSUME StoreInv, call # NoCall, call' = NoCall,
         UNCHANGED <<file, ended, durable, checkpoints>>,
         accepted' = accepted \cup {call.obs},
         index' \in SUBSET Observation, signature' \in (Seq(Line) \X BOOLEAN) \cup {NoCall},
         IndexOf(index', signature'), \A o \in index' : Kept(o),
         \E o \in index' : SameFacts(o, call.obs)
  PROVE  StoreInv'
<1>1. StoreTyped'
  BY DEF StoreInv, StoreTyped, Calls
<1>2. IndexTrue'
  BY DEF IndexTrue, IndexOf, Kept
<1>3. AcceptedForGood'
  <2>1. \E k \in ReadLines(file) : k <= durable.lines /\ SameFacts(file[k], call.obs)
    BY DEF Kept
  <2> QED BY <2>1 DEF StoreInv, AcceptedForGood
<1> QED BY <1>1, <1>2, <1>3 DEF StoreInv, CallTrue, CheckpointsTrue, ReadBefore

LEMMA ReplayStep ==
  ASSUME StoreInv, AppendReplay
  PROVE  StoreInv'
<1>1. /\ call # NoCall /\ call \in Calls /\ index' = call.index /\ signature' = call.signature
      /\ call' = NoCall /\ accepted' = accepted \cup {call.obs}
      /\ UNCHANGED <<file, ended, durable, checkpoints>>
  BY DEF AppendReplay, At, Return, stored, StoreInv, StoreTyped
<1>2. \E o \in call.index : SameFacts(o, call.obs)
  BY DEF AppendReplay, Existing, Conflict
<1>3. IndexOf(call.index, call.signature) /\ \A o \in call.index : Kept(o)
  BY <1>1 DEF StoreInv, CallTrue
<1>4. /\ call.index \in SUBSET Observation
      /\ call.signature \in (Seq(Line) \X BOOLEAN) \cup {NoCall}
  BY <1>1 DEF Calls
<1> QED BY <1>1, <1>2, <1>3, <1>4, ReturnStep

LEMMA CommitStep ==
  ASSUME StoreInv, Commit
  PROVE  StoreInv'
<1>1. /\ call # NoCall /\ call \in Calls /\ call.at = "commit"
      /\ index' = call.index \cup {call.obs} /\ signature' = <<file, ended>>
      /\ call' = NoCall /\ accepted' = accepted \cup {call.obs}
      /\ UNCHANGED <<file, ended, durable, checkpoints>>
      /\ file \in Seq(Line) /\ ended \in BOOLEAN
  BY DEF Commit, At, stored, StoreInv, StoreTyped
<1>2. /\ \A o \in call.index : Kept(o)
      /\ Len(file) \in ReadLines(file) /\ file[Len(file)] = call.obs
      /\ Records(file) = call.index \cup {call.obs}
      /\ durable.lines = Len(file)
  BY <1>1 DEF StoreInv, CallTrue
<1>3. Kept(call.obs)
  BY <1>1, <1>2 DEF Kept
<1>4. IndexOf(index', signature')
  BY <1>1, <1>2 DEF IndexOf
<1>5. index' \in SUBSET Observation /\ signature' \in (Seq(Line) \X BOOLEAN) \cup {NoCall}
  BY <1>1 DEF Calls
<1>6. SameFacts(call.obs, call.obs)
  BY DEF SameFacts
<1> QED BY <1>1, <1>2, <1>3, <1>4, <1>5, <1>6, ReturnStep

LEMMA NewStep ==
  ASSUME StoreInv, AppendNew
  PROVE  StoreInv'
<1>1. /\ call # NoCall /\ call \in Calls /\ call.at = "check"
      /\ call' = [call EXCEPT !.at = "write"]
      /\ UNCHANGED <<file, ended, durable, index, signature, accepted, checkpoints>>
  BY DEF AppendNew, At, Continue, stored, indexed, StoreInv, StoreTyped
<1>2. \A o \in call.index : o.key # call.obs.key /\ o.id # call.obs.id
  BY DEF AppendNew, Existing, Conflict
<1>3. StoreTyped'
  BY <1>1 DEF StoreInv, StoreTyped, Calls
<1>4. CallTrue'
  BY <1>1, <1>2 DEF StoreInv, CallTrue, IndexOf, Kept, Calls
<1> QED BY <1>1, <1>3, <1>4 DEF StoreInv, IndexTrue, IndexOf, Kept, AcceptedForGood,
                                CheckpointsTrue, ReadBefore

\* A line more, or none, with the newline or without.
LEMMA GrownFile ==
  ASSUME StoreInv, NEW line \in Line, file' = Append(file, line), ended' \in BOOLEAN,
         UNCHANGED <<durable, indexed, accepted, checkpoints>>,
         call' # NoCall => call' \in Calls
  PROVE  /\ StoreTyped' /\ Keeps(Len(file))
         /\ IndexTrue' /\ AcceptedForGood' /\ CheckpointsTrue'
<1>1. /\ file \in Seq(Line) /\ file' \in Seq(Line) /\ Len(file') = Len(file) + 1
      /\ Len(file) \in Nat /\ \A k \in 1 .. Len(file) : file'[k] = file[k]
      /\ durable.lines \in Nat /\ durable.lines <= Len(file)
  BY DEF StoreInv, StoreTyped
<1>2. StoreTyped'
  BY <1>1 DEF StoreInv, StoreTyped, indexed
<1>3. Keeps(Len(file))
  BY <1>1 DEF Keeps
<1> QED BY <1>2, <1>3, KeepsInv

LEMMA WriteStep ==
  ASSUME StoreInv, Write
  PROVE  StoreInv'
<1>1. /\ call # NoCall /\ call \in Calls /\ call.at = "write" /\ call.obs \in Observation
      /\ file' = Append(file, call.obs) /\ ended' = TRUE
      /\ call' = [call EXCEPT !.at = "sync"]
      /\ UNCHANGED <<durable, indexed, accepted, checkpoints>>
      /\ file \in Seq(Line)
  BY DEF Write, At, Add, Continue, StoreInv, StoreTyped, Calls
<1>2. call' \in Calls /\ call'.at = "sync" /\ call'.obs = call.obs /\ call'.index = call.index
      /\ call'.signature = call.signature
  BY <1>1 DEF Calls
<1>3. /\ StoreTyped' /\ Keeps(Len(file))
      /\ IndexTrue' /\ AcceptedForGood' /\ CheckpointsTrue'
  BY <1>1, <1>2, GrownFile DEF Line
<1>4. call.index = Records(file) /\ \A o \in call.index : o.key # call.obs.key /\ o.id # call.obs.id
  <2>1. call.signature = <<file, ended>> /\ ended \in BOOLEAN
    BY <1>1 DEF StoreInv, CallTrue, StoreTyped
  <2> QED BY <1>1, <2>1 DEF StoreInv, CallTrue, IndexOf
<1>5. /\ Len(file') = Len(file) + 1 /\ Len(file) \in Nat /\ file'[Len(file')] = call.obs
      /\ file' \in Seq(Line)
  BY <1>1 DEF Line
<1>6. /\ ReadLines(file) \subseteq 1 .. Len(file) /\ ReadLines(file') \subseteq 1 .. Len(file')
      /\ \A k \in ReadLines(file) : k \in ReadLines(file') /\ file'[k] = file[k]
      /\ \A k \in ReadLines(file') : k # Len(file') => k \in ReadLines(file)
  <2>1. ReadLines(file) \subseteq 1 .. Len(file) /\ ReadLines(file') \subseteq 1 .. Len(file')
    BY <1>1, <1>5, ReadRule
  <2>2. \A k \in 1 .. Len(file) : file'[k] = file[k]
    BY <1>1, <1>5
  <2>3. \A k \in 1 .. Len(file) : k \in ReadLines(file) <=> k \in ReadLines(file')
    <3>1. /\ file \in Seq(Line) /\ file' \in Seq(Line)
          /\ Len(file) \in Nat /\ Len(file) <= Len(file) /\ Len(file) <= Len(file')
      BY <1>1, <1>5
    <3> QED BY <2>2, <3>1, SamePrefix
  <2>4. \A k \in 1 .. Len(file') : k # Len(file') => k \in 1 .. Len(file)
    BY <1>5
  <2> QED BY <2>1, <2>2, <2>3, <2>4
<1>7. Len(file') \in ReadLines(file')
  <2>1. {k \in ReadLines(file') : k < Len(file')} = ReadLines(file)
    BY <1>5, <1>6
  <2>2. Fresh(file', Len(file'), ReadLines(file))
    BY <1>1, <1>4, <1>5, <1>6, NullAssumption DEF Fresh, Records
  <2>3. Len(file') \in 1 .. Len(file')
    BY <1>5
  <2> QED BY <1>5, <2>1, <2>2, <2>3, ReadRule
<1>8. Records(file') = call.index \cup {call.obs}
  BY <1>4, <1>5, <1>6, <1>7 DEF Records
<1>9. \A o \in call.index : Kept(o)'
  BY <1>1, <1>3, KeepsReading DEF StoreInv, CallTrue
<1>10. IndexOf(call.index, call.signature)
  BY <1>1 DEF StoreInv, CallTrue
<1>11. CallTrue'
  BY <1>2, <1>5, <1>7, <1>8, <1>9, <1>10 DEF CallTrue, IndexOf
<1> QED BY <1>3, <1>11 DEF StoreInv

LEMMA WriteCutStep ==
  ASSUME StoreInv, WriteCut
  PROVE  StoreInv'
<1>1. call' = NoCall /\ UNCHANGED <<durable, indexed, accepted, checkpoints>>
  BY DEF WriteCut
<1>2. CallTrue'
  BY <1>1 DEF CallTrue
<1>3. CASE ended' = TRUE /\ UNCHANGED file
  <2>1. StoreTyped'
    BY <1>1, <1>3 DEF StoreInv, StoreTyped, indexed
  <2> QED BY <1>1, <1>2, <1>3, <2>1 DEF StoreInv, IndexTrue, IndexOf, Kept, AcceptedForGood,
                                        CheckpointsTrue, ReadBefore, indexed
<1>4. CASE \E line \in Line : Add(line, FALSE)
  BY <1>1, <1>2, <1>4, GrownFile DEF Add, StoreInv
<1>5. call.obs \in Line /\ Torn \in Line
  BY DEF WriteCut, At, StoreInv, StoreTyped, Calls, Line
<1> QED BY <1>3, <1>4, <1>5 DEF WriteCut

LEMMA SyncStep ==
  ASSUME StoreInv, Sync
  PROVE  StoreInv'
<1>1. /\ call # NoCall /\ call \in Calls /\ call.at = "sync"
      /\ call' = [call EXCEPT !.at = "commit"] /\ durable' = Whole
      /\ UNCHANGED <<file, ended, indexed, accepted, checkpoints>>
      /\ StoreTyped
  BY DEF Sync, At, Continue, StoreInv, StoreTyped
<1>2. StoreTyped'
  BY <1>1 DEF StoreTyped, Calls, Whole, indexed
<1>3. Keeps(Len(file))
  BY <1>1, <1>2, SameFile DEF StoreTyped, Whole
<1>4. IndexTrue' /\ AcceptedForGood' /\ CheckpointsTrue'
  BY <1>1, <1>2, <1>3, KeepsInv
<1>5. \A o \in call.index : Kept(o)'
  BY <1>1, <1>2, <1>3, KeepsReading DEF StoreInv, CallTrue
<1>6. /\ call'.at = "commit" /\ call'.obs = call.obs /\ call'.index = call.index
      /\ call'.signature = call.signature /\ durable'.lines = Len(file)
  BY <1>1 DEF Calls, Whole
<1>7. CallTrue'
  BY <1>1, <1>5, <1>6 DEF StoreInv, CallTrue, IndexOf
<1> QED BY <1>2, <1>4, <1>7 DEF StoreInv

LEMMA RollbackStep ==
  ASSUME StoreInv, Rollback
  PROVE  StoreInv'
<1>1. StoreTyped'
  BY DEF Rollback, StoreInv, StoreTyped, stored, indexed
<1> QED BY <1>1 DEF Rollback, StoreInv, CallTrue, IndexTrue, IndexOf, Kept, AcceptedForGood,
                    CheckpointsTrue, ReadBefore, stored, indexed

LEMMA CheckpointStep ==
  ASSUME StoreInv, Checkpoint
  PROVE  StoreInv'
<1>1. /\ call = NoCall /\ call' = call
      /\ checkpoints' = checkpoints \cup {[at |-> Len(file), before |-> Records(file)]}
      /\ UNCHANGED <<file, ended, durable, index, signature, accepted>>
      /\ StoreTyped /\ file \in Seq(Line) /\ Len(file) \in Nat
  BY DEF Checkpoint, Position, stored, indexed, StoreInv, StoreTyped
<1>2. Records(file) = ReadBefore(Len(file))
  <2>1. ReadLines(file) \subseteq 1 .. Len(file)
    BY <1>1, ReadRule
  <2>2. {j \in ReadLines(file) : j <= Len(file)} = ReadLines(file)
    BY <1>1, <2>1
  <2> QED BY <2>2 DEF Records, ReadBefore
<1>3. CheckpointsTrue'
  BY <1>1, <1>2 DEF StoreInv, CheckpointsTrue, ReadBefore
<1>4. StoreTyped'
  BY <1>1 DEF StoreTyped
<1> QED BY <1>1, <1>3, <1>4 DEF StoreInv, CallTrue, IndexTrue, IndexOf, Kept, AcceptedForGood

LEMMA PowerStep ==
  ASSUME StoreInv, NEW k \in Nat, NEW part \in BOOLEAN, PowerFails(k, part)
  PROVE  StoreInv'
<1>1. /\ durable.lines <= k /\ k <= Len(file) /\ durable.lines \in Nat
      /\ file' = SubSeq(file, 1, k) \o (IF part THEN <<Torn>> ELSE <<>>)
      /\ ended' \in BOOLEAN
      /\ durable' = [lines |-> Len(file'), ended |-> ended']
      /\ checkpoints' = {c \in checkpoints : c.at <= k}
      /\ call' = NoCall /\ UNCHANGED <<indexed, accepted>>
      /\ file \in Seq(Line) /\ Len(file) \in Nat
  BY DEF PowerFails, StoreInv, StoreTyped
<1>2. /\ file' \in Seq(Line) /\ k <= Len(file') /\ Len(file') \in Nat
      /\ \A j \in 1 .. k : file'[j] = file[j]
  <2> DEFINE kept == SubSeq(file, 1, k)
             rest == IF part THEN <<Torn>> ELSE <<>>
  <2>1. kept \in Seq(Line) /\ Len(kept) = k /\ \A j \in 1 .. k : kept[j] = file[j]
    BY <1>1
  <2>2. rest \in Seq(Line) /\ Len(rest) \in Nat
    BY DEF Line
  <2> HIDE DEF kept, rest
  <2>3. /\ kept \o rest \in Seq(Line) /\ Len(kept \o rest) = k + Len(rest)
        /\ \A j \in 1 .. k : (kept \o rest)[j] = kept[j]
    BY <2>1, <2>2
  <2>4. file' = kept \o rest
    BY <1>1 DEF kept, rest
  <2> QED BY <2>1, <2>2, <2>3, <2>4
<1>3. StoreTyped'
  BY <1>1, <1>2 DEF StoreInv, StoreTyped, indexed
<1>4. Keeps(k)
  BY <1>1, <1>2 DEF Keeps
<1>5. IndexTrue' /\ AcceptedForGood' /\ CheckpointsTrue'
  BY <1>1, <1>3, <1>4, KeepsInv
<1> QED BY <1>1, <1>3, <1>5 DEF StoreInv, CallTrue

LEMMA StoreStep == ASSUME StoreInv, [FactsNext]_factVars PROVE StoreInv'
<1>1. CASE UNCHANGED factVars
  BY <1>1 DEF factVars, StoreInv, StoreTyped, CallTrue, IndexTrue, IndexOf, Kept,
              AcceptedForGood, CheckpointsTrue, ReadBefore
<1>2. ASSUME NEW k \in 0 .. MaxLines, NEW part \in BOOLEAN, PowerFails(k, part)
      PROVE  StoreInv'
  <2>1. k \in Nat
    BY LinesAssumption
  <2> QED BY <1>2, <2>1, PowerStep
<1> QED BY <1>1, <1>2, BeginStep, EnsureStep, ReplayStep, NewStep, WriteStep, WriteCutStep,
           SyncStep, CommitStep, RollbackStep, CheckpointStep DEF FactsNext

LEMMA AlwaysStored == FactsSpec => []StoreInv
<1>1. FactsInit => StoreInv
  BY StoreInit
<1>2. StoreInv /\ [FactsNext]_factVars => StoreInv'
  BY StoreStep
<1> QED BY <1>1, <1>2, PTL DEF FactsSpec

\* No record is read twice, so that a checkpoint knows each by its line.
LEMMA SeparateFromTrue ==
  ASSUME StoreInv
  PROVE  CheckpointsSeparate
<1>1. ReadLines(file) \subseteq 1 .. Len(file) /\ Len(file) \in Nat
  BY ReadRule DEF StoreInv, StoreTyped
<1>2. ASSUME NEW j \in ReadLines(file), NEW k \in ReadLines(file), j < k
      PROVE  file[j] # file[k]
  <2>1. k \in 1 .. Len(file) /\ file \in Seq(Line)
    BY <1>1 DEF StoreInv, StoreTyped
  <2>2. Fresh(file, k, {i \in ReadLines(file) : i < k})
    BY <2>1, ReadRule
  <2> QED BY <1>2, <2>2 DEF Fresh
<1>3. ASSUME NEW j \in ReadLines(file), NEW k \in ReadLines(file), file[j] = file[k]
      PROVE  j = k
  <2>1. j \in Nat /\ k \in Nat
    BY <1>1
  <2> QED BY <1>2, <1>3, <2>1
<1> QED BY <1>3 DEF StoreInv, CheckpointsTrue, ReadBefore, CheckpointsSeparate

\* A fact append() has returned for is read from then on, from a line no power
\* failure takes, with the facts it was returned for: for any facts, crashes,
\* torn lines and files of any length (append, _ensure_index, _read_all).
THEOREM AcceptedFactsRead == FactsSpec => []AcceptedForGood
<1>1. StoreInv => AcceptedForGood
  BY DEF StoreInv
<1> QED BY <1>1, AlwaysStored, PTL

\* A position taken by checkpoint() separates, for as long as its bytes are
\* there, what was read before it from what is appended later, so that a
\* recovery never counts an old fact as new (checkpoint, after_recovery).
THEOREM CheckpointsTell == FactsSpec => []CheckpointsSeparate
<1>1. StoreInv => CheckpointsSeparate
  BY SeparateFromTrue
<1> QED BY <1>1, AlwaysStored, PTL
==============================================================================
