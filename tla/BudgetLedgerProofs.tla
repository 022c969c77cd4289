--------------------------- MODULE BudgetLedgerProofs ---------------------------
(***************************************************************************)
(* Theorems of the budget ledger, for any requests, prices, limits and     *)
(* policies. The ceiling and the burn rate are sums over the table: what   *)
(* the proofs use of a sum is shown first, by induction over the rows.     *)
(***************************************************************************)
EXTENDS BudgetLedger, Induction

-----------------------------------------------------------------------------
(* Sums over a finite set *)

\* The element the sum takes first.
First(s) == CHOOSE x \in s : TRUE

\* g adds the amounts of the subsets of S that have at most n elements.
Adds(g, amount, S, n) ==
    g = [s \in SUBSET S |-> IF s = {} \/ Cardinality(s) > n THEN 0
                            ELSE amount[First(s)] + g[s \ {First(s)}]]

SumsUp(g, amount, S) ==
    g = [s \in SUBSET S |-> IF s = {} THEN 0 ELSE amount[First(s)] + g[s \ {First(s)}]]

\* The recursion of the sum has a solution on every finite set.
LEMMA SumExists ==
  ASSUME NEW amount, NEW S, IsFiniteSet(S)
  PROVE  \E g : SumsUp(g, amount, S)
<1> DEFINE Solved == {n \in Nat : \E g : Adds(g, amount, S, n)}
<1>0. \A s \in SUBSET S : /\ IsFiniteSet(s) /\ Cardinality(s) \in Nat
                          /\ Cardinality(s) <= Cardinality(S)
                          /\ Cardinality(s) = 0 <=> s = {}
  BY FS_Subset, FS_CardinalityType, FS_EmptySet
<1>1. 0 \in Solved
  <2> DEFINE g == [s \in SUBSET S |-> 0]
  <2>1. \A s \in SUBSET S : s = {} \/ Cardinality(s) > 0
    BY <1>0
  <2>2. Adds(g, amount, S, 0)
    BY <2>1 DEF Adds
  <2> QED BY <2>2
<1>2. ASSUME NEW n \in Nat, n \in Solved
      PROVE  n + 1 \in Solved
  <2>1. PICK g : Adds(g, amount, S, n)
    BY <1>2
  <2> DEFINE h == [s \in SUBSET S |-> IF s = {} \/ Cardinality(s) > n + 1 THEN 0
                                      ELSE amount[First(s)] + g[s \ {First(s)}]]
  <2>2. ASSUME NEW s \in SUBSET S, s # {}, ~(Cardinality(s) > n + 1)
        PROVE  h[s \ {First(s)}] = g[s \ {First(s)}]
    <3> DEFINE t == s \ {First(s)}
    <3>1. First(s) \in s
      BY <2>2 DEF First
    <3>2. Cardinality(t) = Cardinality(s) - 1
      BY <1>0, <3>1, FS_RemoveElement
    <3>3. t \in SUBSET S /\ ~(Cardinality(t) > n) /\ ~(Cardinality(t) > n + 1)
      BY <1>0, <2>2, <3>2
    <3> HIDE DEF t
    <3>4. g[t] = IF t = {} THEN 0 ELSE amount[First(t)] + g[t \ {First(t)}]
      BY <2>1, <3>3 DEF Adds
    <3>5. h[t] = IF t = {} THEN 0 ELSE amount[First(t)] + g[t \ {First(t)}]
      BY <3>3
    <3> QED BY <3>4, <3>5 DEF t
  <2>3. h = [s \in SUBSET S |-> IF s = {} \/ Cardinality(s) > n + 1 THEN 0
                                ELSE amount[First(s)] + h[s \ {First(s)}]]
    <3>1. \A s \in SUBSET S :
            h[s] = IF s = {} \/ Cardinality(s) > n + 1 THEN 0
                   ELSE amount[First(s)] + h[s \ {First(s)}]
      BY <2>2
    <3>2. h = [s \in SUBSET S |-> h[s]]
      OBVIOUS
    <3> HIDE DEF h
    <3> QED BY <3>1, <3>2
  <2>4. Adds(h, amount, S, n + 1)
    <3> HIDE DEF h
    <3> QED BY <2>3 DEF Adds
  <2> HIDE DEF h
  <2> QED BY <2>4
<1>3. Nat \subseteq Solved
  <2> HIDE DEF Solved
  <2> QED BY <1>1, <1>2, EveryNumber
<1>4. PICK g : Adds(g, amount, S, Cardinality(S))
  BY <1>3, FS_CardinalityType
<1>5. g = [s \in SUBSET S |-> IF s = {} THEN 0 ELSE amount[First(s)] + g[s \ {First(s)}]]
  <2>1. \A s \in SUBSET S : ~(Cardinality(s) > Cardinality(S))
    BY <1>0, FS_CardinalityType
  <2> QED BY <1>4, <2>1 DEF Adds
<1> QED BY <1>5 DEF SumsUp

Sum(amount, S) == CHOOSE g : SumsUp(g, amount, S)

LEMMA TotalIsSum ==
  ASSUME NEW amount, NEW S
  PROVE  Total(amount, S) = Sum(amount, S)[S]
  BY DEF Total, MapThenSumSet, MapThenFoldSet, Sum, SumsUp, First

LEMMA SumEquation ==
  ASSUME NEW amount, NEW S, IsFiniteSet(S), NEW s \in SUBSET S
  PROVE  Sum(amount, S)[s] = IF s = {} THEN 0
                             ELSE amount[First(s)] + Sum(amount, S)[s \ {First(s)}]
<1>1. SumsUp(Sum(amount, S), amount, S)
  BY SumExists DEF Sum
<1> QED BY <1>1 DEF SumsUp

\* What the sum is on a part does not depend on the whole.
LEMMA SumLocal ==
  ASSUME NEW amount, NEW S, IsFiniteSet(S), NEW A \in SUBSET S
  PROVE  Sum(amount, S)[A] = Sum(amount, A)[A]
<1> DEFINE Same == {s \in SUBSET A : Sum(amount, S)[s] = Sum(amount, A)[s]}
<1>0. IsFiniteSet(A)
  BY FS_Subset
<1>1. ASSUME NEW s \in SUBSET A, \A x \in s : s \ {x} \in Same
      PROVE  s \in Same
  <2>1. CASE s = {}
    BY <1>0, <2>1, SumEquation
  <2>2. CASE s # {}
    <3>1. First(s) \in s
      BY <2>2 DEF First
    <3>2. Sum(amount, S)[s \ {First(s)}] = Sum(amount, A)[s \ {First(s)}]
      BY <1>1, <3>1
    <3>3. s \in SUBSET S
      OBVIOUS
    <3>4. /\ Sum(amount, S)[s] = amount[First(s)] + Sum(amount, S)[s \ {First(s)}]
          /\ Sum(amount, A)[s] = amount[First(s)] + Sum(amount, A)[s \ {First(s)}]
      BY <1>0, <2>2, <3>3, SumEquation
    <3> QED BY <3>2, <3>4
  <2> QED BY <2>1, <2>2
<1>2. SUBSET A \subseteq Same
  <2> HIDE DEF Same
  <2> QED BY <1>0, <1>1, EverySubset
<1> QED BY <1>2

\* The sum over nothing, and over something.
LEMMA TotalEmpty ==
  ASSUME NEW amount
  PROVE  Total(amount, {}) = 0
  BY TotalIsSum, SumEquation, FS_EmptySet

LEMMA TotalFirst ==
  ASSUME NEW amount, NEW S, IsFiniteSet(S), S # {}
  PROVE  Total(amount, S) = amount[First(S)] + Total(amount, S \ {First(S)})
<1>1. Sum(amount, S)[S] = amount[First(S)] + Sum(amount, S)[S \ {First(S)}]
  BY SumEquation
<1>2. Sum(amount, S)[S \ {First(S)}] = Sum(amount, S \ {First(S)})[S \ {First(S)}]
  BY SumLocal
<1> QED BY <1>1, <1>2, TotalIsSum

\* A sum of amounts is an amount.
LEMMA TotalType ==
  ASSUME NEW amount, NEW S, IsFiniteSet(S), \A x \in S : amount[x] \in Nat
  PROVE  Total(amount, S) \in Nat
<1> DEFINE Typed == {A \in SUBSET S : Total(amount, A) \in Nat}
<1>1. ASSUME NEW A \in SUBSET S, \A x \in A : A \ {x} \in Typed
      PROVE  A \in Typed
  <2>1. CASE A = {}
    BY <2>1, TotalEmpty
  <2>2. CASE A # {}
    <3>1. First(A) \in A
      BY <2>2 DEF First
    <3>2. Total(amount, A) = amount[First(A)] + Total(amount, A \ {First(A)})
      BY <2>2, FS_Subset, TotalFirst
    <3>3. Total(amount, A \ {First(A)}) \in Nat
      BY <1>1, <3>1
    <3> QED BY <3>1, <3>2, <3>3
  <2> QED BY <2>1, <2>2
<1>2. SUBSET S \subseteq Typed
  <2> HIDE DEF Typed
  <2> QED BY <1>1, EverySubset
<1> QED BY <1>2

\* Any element may be taken out first.
LEMMA TotalRemove ==
  ASSUME NEW amount, NEW S, IsFiniteSet(S), \A x \in S : amount[x] \in Nat, NEW q \in S
  PROVE  Total(amount, S) = amount[q] + Total(amount, S \ {q})
<1> DEFINE Apart == {A \in SUBSET S :
                      \A x \in A : Total(amount, A) = amount[x] + Total(amount, A \ {x})}
<1>1. ASSUME NEW A \in SUBSET S, \A x \in A : A \ {x} \in Apart
      PROVE  A \in Apart
  <2> DEFINE f == First(A)
  <2>1. ASSUME NEW x \in A
        PROVE  Total(amount, A) = amount[x] + Total(amount, A \ {x})
    <3>1. f \in A /\ IsFiniteSet(A)
      BY FS_Subset DEF First
    <3>2. Total(amount, A) = amount[f] + Total(amount, A \ {f})
      BY <3>1, TotalFirst
    <3> HIDE DEF f
    <3>3. CASE f # x
      <4>1. A \ {f} \in Apart /\ A \ {x} \in Apart
        BY <1>1, <3>1
      <4>2. x \in A \ {f} /\ f \in A \ {x} /\ (A \ {x}) \ {f} = (A \ {f}) \ {x}
        BY <3>1, <3>3
      <4>3. /\ Total(amount, A \ {f}) = amount[x] + Total(amount, (A \ {f}) \ {x})
            /\ Total(amount, A \ {x}) = amount[f] + Total(amount, (A \ {f}) \ {x})
        BY <4>1, <4>2
      <4>4. Total(amount, (A \ {f}) \ {x}) \in Nat
        BY FS_Subset, TotalType
      <4>5. amount[x] \in Nat /\ amount[f] \in Nat
        BY <3>1
      <4> QED BY <3>2, <4>3, <4>4, <4>5
    <3> QED BY <3>2, <3>3
  <2> QED BY <2>1
<1>2. SUBSET S \subseteq Apart
  <2> HIDE DEF Apart
  <2> QED BY <1>1, EverySubset
<1> QED BY <1>2

\* Another amount may be added.
LEMMA TotalAdd ==
  ASSUME NEW amount, NEW S, IsFiniteSet(S), NEW q, q \notin S,
         \A x \in S \cup {q} : amount[x] \in Nat
  PROVE  Total(amount, S \cup {q}) = amount[q] + Total(amount, S)
<1>1. IsFiniteSet(S \cup {q}) /\ (S \cup {q}) \ {q} = S
  BY FS_AddElement
<1> QED BY <1>1, TotalRemove

\* Larger amounts, and more of them, have a larger sum.
LEMMA TotalGrows ==
  ASSUME NEW amount, NEW larger, NEW S, IsFiniteSet(S), NEW A \in SUBSET S,
         \A x \in S : larger[x] \in Nat,
         \A x \in A : amount[x] \in Nat /\ amount[x] <= larger[x]
  PROVE  Total(amount, A) <= Total(larger, S)
<1> DEFINE Below == {B \in SUBSET S : Total(amount, B \cap A) <= Total(larger, B)}
<1>1. ASSUME NEW B \in SUBSET S, \A x \in B : B \ {x} \in Below
      PROVE  B \in Below
  <2>1. CASE B = {}
    BY <2>1, TotalEmpty
  <2>2. ASSUME NEW x \in B
        PROVE  B \in Below
    <3>1. Total(larger, B) = larger[x] + Total(larger, B \ {x})
      BY FS_Subset, TotalRemove
    <3>2. Total(amount, (B \ {x}) \cap A) <= Total(larger, B \ {x})
      BY <1>1, <2>2
    <3>3. Total(amount, (B \ {x}) \cap A) \in Nat /\ Total(larger, B \ {x}) \in Nat
      <4>1. IsFiniteSet((B \ {x}) \cap A) /\ IsFiniteSet(B \ {x})
        BY FS_Subset
      <4> QED BY <4>1, TotalType
    <3>4. CASE x \in A
      <4>1. (B \cap A) \ {x} = (B \ {x}) \cap A
        OBVIOUS
      <4>2. Total(amount, B \cap A) = amount[x] + Total(amount, (B \ {x}) \cap A)
        <5>1. IsFiniteSet(B \cap A)
          BY FS_Subset
        <5>2. Total(amount, B \cap A) = amount[x] + Total(amount, (B \cap A) \ {x})
          BY <3>4, <5>1, TotalRemove
        <5> QED BY <4>1, <5>2
      <4>3. amount[x] \in Nat /\ larger[x] \in Nat /\ amount[x] <= larger[x]
        BY <3>4
      <4>4. Total(amount, B \cap A) <= Total(larger, B)
        <5> HIDE DEF Below
        <5> QED BY <3>1, <3>2, <3>3, <4>2, <4>3
      <4> QED BY <4>4
    <3>5. CASE x \notin A
      <4>1. B \cap A = (B \ {x}) \cap A
        BY <3>5
      <4> QED BY <3>1, <3>2, <3>3, <3>5, <4>1
    <3> QED BY <3>4, <3>5
  <2> QED BY <2>1, <2>2
<1>2. SUBSET S \subseteq Below
  <2> HIDE DEF Below
  <2> QED BY <1>1, EverySubset
<1>3. S \cap A = A
  OBVIOUS
<1> QED BY <1>2, <1>3

\* Only the amounts of the elements count.
LEMMA TotalSame ==
  ASSUME NEW amount, NEW other, NEW S, IsFiniteSet(S),
         \A x \in S : amount[x] \in Nat /\ other[x] = amount[x]
  PROVE  Total(other, S) = Total(amount, S)
<1>1. Total(other, S) <= Total(amount, S) /\ Total(amount, S) <= Total(other, S)
  BY TotalGrows
<1>2. Total(other, S) \in Nat /\ Total(amount, S) \in Nat
  BY TotalType
<1> QED BY <1>1, <1>2

\* Amounts of two kinds, the second of which only some elements have.
LEMMA TotalSplit ==
  ASSUME NEW amount, NEW first, NEW second, NEW S, IsFiniteSet(S), NEW A \in SUBSET S,
         \A x \in S : first[x] \in Nat,
         \A x \in A : second[x] \in Nat /\ amount[x] = first[x] + second[x],
         \A x \in S \ A : amount[x] = first[x]
  PROVE  Total(amount, S) = Total(first, S) + Total(second, A)
<1> DEFINE Parted == {B \in SUBSET S :
                       Total(amount, B) = Total(first, B) + Total(second, B \cap A)}
<1>1. ASSUME NEW B \in SUBSET S, \A x \in B : B \ {x} \in Parted
      PROVE  B \in Parted
  <2>1. CASE B = {}
    BY <2>1, TotalEmpty
  <2>2. ASSUME NEW x \in B
        PROVE  B \in Parted
    <3>0. \A y \in S : amount[y] \in Nat
      OBVIOUS
    <3>1. /\ Total(amount, B) = amount[x] + Total(amount, B \ {x})
          /\ Total(first, B) = first[x] + Total(first, B \ {x})
      BY <3>0, FS_Subset, TotalRemove
    <3>2. Total(amount, B \ {x}) = Total(first, B \ {x}) + Total(second, (B \ {x}) \cap A)
      BY <1>1, <2>2
    <3>3. Total(second, (B \ {x}) \cap A) \in Nat /\ Total(first, B \ {x}) \in Nat
      <4>1. IsFiniteSet((B \ {x}) \cap A) /\ IsFiniteSet(B \ {x})
        BY FS_Subset
      <4> QED BY <4>1, TotalType
    <3>4. CASE x \in A
      <4>1. (B \cap A) \ {x} = (B \ {x}) \cap A
        OBVIOUS
      <4>2. Total(second, B \cap A) = second[x] + Total(second, (B \cap A) \ {x})
        <5>1. IsFiniteSet(B \cap A)
          BY FS_Subset
        <5> QED BY <3>4, <5>1, TotalRemove
      <4> QED BY <3>1, <3>2, <3>3, <3>4, <4>1, <4>2
    <3>5. CASE x \notin A
      <4>1. B \cap A = (B \ {x}) \cap A /\ amount[x] = first[x]
        BY <3>5
      <4>2. first[x] \in Nat
        OBVIOUS
      <4>3. Total(amount, B) = Total(first, B) + Total(second, B \cap A)
        BY <3>1, <3>2, <3>3, <4>1, <4>2
      <4> QED BY <4>3
    <3> QED BY <3>4, <3>5
  <2> QED BY <2>1, <2>2
<1>2. SUBSET S \subseteq Parted
  <2> HIDE DEF Parted
  <2> QED BY <1>1, EverySubset
<1>3. S \cap A = A
  OBVIOUS
<1> QED BY <1>2, <1>3

-----------------------------------------------------------------------------
(* Rows and stops *)

\* A request nobody reserved has left no trace.
AbsentIsBlank == \A q \in Request : rows[q].status = "absent" => rows[q] = AbsentRow

\* The inductive invariant: types, blank rows, one request in flight per task.
BudgetInv == TypeOK /\ AbsentIsBlank /\ OneInFlight

\* The larger of two amounts is one of them, and at least each.
LEMMA MaxOfTwo ==
  ASSUME NEW a \in Nat, NEW b \in Nat
  PROVE  Max({a, b}) \in Nat /\ Max({a, b}) >= a /\ Max({a, b}) >= b
<1>1. \E x \in {a, b} : \A y \in {a, b} : x >= y
  OBVIOUS
<1>2. Max({a, b}) \in {a, b} /\ \A y \in {a, b} : Max({a, b}) >= y
  BY <1>1 DEF Max
<1> QED BY <1>2

LEMMA EstimateType ==
  ASSUME NEW prompt \in Nat, NEW completion \in Nat
  PROVE  Estimate(prompt, completion) \in Nat
<1>1. prompt * PriceIn \in Nat /\ completion * PriceOut \in Nat
  BY PolicyAssumption
<1> QED BY <1>1 DEF Estimate

\* What a reservation sets aside is an amount.
LEMMA AmountType ==
  ASSUME TypeOK, NEW b \in Bounds
  PROVE  ReservationAmount(b) \in Nat
<1>1. b \in Bound /\ b.input \in Nat /\ b.output \in Nat /\ b.cost \in Nat
  BY LimitsAssumption DEF Bound
<1>2. policy.allowance \in Nat
  BY PolicyAssumption DEF TypeOK, Policy
<1>3. Estimate(b.input, b.output) \in Nat
  BY <1>1, EstimateType
<1>4. Max({policy.allowance, Estimate(b.input, b.output)}) \in Nat
  BY <1>2, <1>3, MaxOfTwo
<1> QED BY <1>1, <1>2, <1>4 DEF ReservationAmount

LEMMA MaxOfLarger ==
  ASSUME NEW a \in Nat, NEW b \in Nat, a <= b
  PROVE  Max({a, b}) = b
<1>1. Max({a, b}) \in {a, b} /\ \A y \in {a, b} : Max({a, b}) >= y
  <2>1. \E x \in {a, b} : \A y \in {a, b} : x >= y
    OBVIOUS
  <2> QED BY <2>1 DEF Max
<1> QED BY <1>1

\* A resolved row keeps its task and commits at least as much as before.
Resolves(r, next) ==
    /\ next \in Row
    /\ next.status \in Status \ {"absent", "pending"}
    /\ next.task = r.task
    /\ Commitment(next) >= Commitment(r)

\* Each outcome of a settlement resolves the request.
LEMMA UncertainResolves ==
  ASSUME NEW r \in Row, r.status = "pending", NEW now \in Nat
  PROVE  Resolves(r, UncertainRow(r, now))
<1> DEFINE next == UncertainRow(r, now)
<1>1. /\ next \in Row
      /\ next.status = "uncertain" /\ next.task = r.task /\ next.reserved = r.reserved
  BY DEF UncertainRow, Row, Status
<1>2. r.reserved \in Nat
  BY DEF Row
<1>3. Resolves(r, next)
  <2> HIDE DEF next
  <2> QED BY <1>1, <1>2 DEF Resolves, Status, Commitment
<1> QED BY <1>3

LEMMA UncostedResolves ==
  ASSUME NEW r \in Row, r.status = "pending", NEW u \in Usage, NEW now \in Nat
  PROVE  Resolves(r, UncostedRow(r, u, now))
<1> DEFINE next == UncostedRow(r, u, now)
<1>1. /\ next \in Row
      /\ next.status \in {"uncertain", "unknown_cost_allowed"}
      /\ next.task = r.task /\ next.reserved = r.reserved
  BY DEF UncostedRow, Row, Status
<1>2. r.reserved \in Nat
  BY DEF Row
<1>3. Resolves(r, next)
  <2> HIDE DEF next
  <2> QED BY <1>1, <1>2 DEF Resolves, Status, Commitment
<1> QED BY <1>3

LEMMA CostedResolves ==
  ASSUME NEW r \in Row, r.status = "pending", NEW u \in Usage, NEW now \in Nat,
         NEW admitted \in Nat, admitted >= r.reserved
  PROVE  Resolves(r, CostedRow(r, u, now, admitted))
<1> DEFINE next == CostedRow(r, u, now, admitted)
<1>1. Estimate(u.prompt, u.completion) \in Nat
  BY EstimateType DEF Usage
<1>2. /\ next \in Row
      /\ next.status = "settled" /\ next.task = r.task /\ next.admitted = admitted
  BY <1>1 DEF CostedRow, Row, Status
<1>3. Resolves(r, next)
  <2>1. next.admitted >= r.reserved
    BY <1>2
  <2> HIDE DEF next
  <2> QED BY <1>2, <2>1 DEF Resolves, Status, Commitment
<1> QED BY <1>3

LEMMA SettlementResolves ==
  ASSUME NEW r \in Row, r.status = "pending", NEW u \in Usages \cup {NoUsage}, NEW now \in Nat
  PROVE  Resolves(r, SettledRow(r, u, now))
<1>1. CASE u = NoUsage
  BY <1>1, UncertainResolves DEF SettledRow
<1>2. CASE u # NoUsage /\ ~policy.priced
  BY <1>2, UncostedResolves, LimitsAssumption DEF SettledRow
<1>3. CASE u # NoUsage /\ policy.priced
  <2>1. u \in Usage /\ u.prompt \in Nat /\ u.completion \in Nat
    BY <1>3, LimitsAssumption DEF Usage
  <2>2. Estimate(u.prompt, u.completion) \in Nat /\ r.reserved \in Nat
    BY <2>1, EstimateType DEF Row
  <2> QED BY <1>3, <2>1, <2>2, MaxOfTwo, CostedResolves DEF SettledRow
<1> QED BY <1>1, <1>2, <1>3

\* _trip(): a graver reason or the same.
LEMMA TripRaises ==
  ASSUME NEW before \in Reason \cup {NoReason}, NEW reason \in Reason
  PROVE  /\ Tripped(before, reason) \in Reason \cup {NoReason}
         /\ Priority(Tripped(before, reason)) >= Priority(before)
         /\ Priority(Tripped(before, reason)) \in Nat
  BY DEF Tripped, Priority, Reason, NoReason

\* So is the stop a provider error asks for ...
LEMMA RequestedRaises ==
  ASSUME TypeOK, NEW stop \in BOOLEAN
  PROVE  /\ Requested(stop) \in Reason \cup {NoReason}
         /\ Priority(Requested(stop)) >= Priority(breaker)
         /\ Priority(Requested(stop)) \in Nat
<1>1. breaker \in Reason \cup {NoReason} /\ "provider_http_error" \in Reason
  BY DEF TypeOK, Reason
<1>2. Priority(breaker) \in Nat
  BY <1>1 DEF Priority, Reason, NoReason
<1> QED BY <1>1, <1>2, TripRaises DEF Requested

\* ... and the stop a settlement ends with.
LEMMA SettlementRaises ==
  ASSUME NEW q \in Request, NEW u \in Usages \cup {NoUsage},
         NEW before \in Reason \cup {NoReason}
  PROVE  /\ SettlementStop(q, u, before) \in Reason \cup {NoReason}
         /\ Priority(SettlementStop(q, u, before)) >= Priority(before)
<1> DEFINE costed == IF ~policy.priced /\ ~policy.unknownCost
                     THEN Tripped(before, "unknown_cost") ELSE before
<1>1. {"unknown_cost", "unknown_usage", "provider_bound_violated",
       "request_token_limit_exceeded", "swarm_cost_estimate_exhausted"} \subseteq Reason
  BY DEF Reason
<1>2. Priority(before) \in Nat
  BY DEF Priority, Reason, NoReason
<1>3. /\ costed \in Reason \cup {NoReason}
      /\ Priority(costed) >= Priority(before)
      /\ Priority(costed) \in Nat
  BY <1>1, <1>2, TripRaises
<1>4. \A r \in Reason : /\ Tripped(costed, r) \in Reason \cup {NoReason}
                        /\ Priority(Tripped(costed, r)) >= Priority(before)
  BY <1>2, <1>3, TripRaises
<1>5. /\ Tripped(before, "unknown_usage") \in Reason \cup {NoReason}
      /\ Priority(Tripped(before, "unknown_usage")) >= Priority(before)
  BY <1>1, TripRaises
<1>6. \/ SettlementStop(q, u, before) \in {before, Tripped(before, "unknown_usage"), costed}
      \/ \E r \in Reason : SettlementStop(q, u, before) = Tripped(costed, r)
  <2> HIDE DEF costed
  <2>1. SettlementStop(q, u, before) =
          IF u = NoUsage
          THEN IF policy.unknownUsage THEN before ELSE Tripped(before, "unknown_usage")
          ELSE IF BoundViolated(q, u)
          THEN Tripped(costed, IF rows[q].bound.enforced THEN "provider_bound_violated"
                               ELSE "request_token_limit_exceeded")
          ELSE IF policy.priced /\ SpentWith(q, u) >= MaxCost
          THEN Tripped(costed, "swarm_cost_estimate_exhausted")
          ELSE costed
    BY DEF SettlementStop, costed
  <2> QED BY <2>1, <1>1
<1> HIDE DEF costed
<1> QED BY <1>2, <1>3, <1>4, <1>5, <1>6

-----------------------------------------------------------------------------
(* The steps *)

\* What a step does to the table: nothing, one row added, or one resolved.
Admits(q) ==
    /\ rows[q].status = "absent"
    /\ breaker = NoReason
    /\ breaker' = breaker
    /\ \E row \in Row : /\ rows' = [rows EXCEPT ![q] = row]
                        /\ row.status = "pending"
                        /\ row.task \in Task
                        /\ \A p \in Held : rows[p].task = row.task => rows[p].status # "pending"

Settles(q) ==
    /\ rows[q].status = "pending"
    /\ Priority(breaker') >= Priority(breaker)
    /\ breaker' \in Reason \cup {NoReason}
    /\ \E row \in Row : rows' = [rows EXCEPT ![q] = row] /\ Resolves(rows[q], row)

Stays ==
    /\ rows' = rows
    /\ breaker' \in Reason \cup {NoReason}
    /\ Priority(breaker') >= Priority(breaker)

LEMMA StepKinds ==
  ASSUME TypeOK, [Next]_vars
  PROVE  /\ clock' \in Nat /\ policy' \in Policies
         /\ Stays \/ \E q \in Request : Admits(q) \/ Settles(q)
<1>0. breaker \in Reason \cup {NoReason} /\ Priority(breaker) \in Nat
  BY DEF TypeOK, Priority, Reason, NoReason
<1>1. CASE UNCHANGED vars
  BY <1>0, <1>1 DEF vars, Stays, TypeOK
<1>2. CASE Tick
  BY <1>0, <1>2 DEF Tick, Stays, TypeOK
<1>3. ASSUME NEW q \in Request, NEW w \in Worker, NEW t \in Task, NEW b \in Bounds,
             NEW now \in 0 .. clock, Reserve(w, t, q, b, now)
      PROVE  Admits(q) /\ UNCHANGED <<clock, policy>>
  <2> DEFINE row == [AbsentRow EXCEPT !.status = "pending", !.worker = w, !.task = t,
                                      !.bound = b, !.reserved = ReservationAmount(b),
                                      !.created = now]
  <2>1. now \in Nat /\ b \in Bound /\ ReservationAmount(b) \in Nat
    BY AmountType, LimitsAssumption DEF TypeOK
  <2>2. row \in Row /\ row.status = "pending" /\ row.task = t
    BY <2>1 DEF AbsentRow, Row, Status
  <2>3. rows' = [rows EXCEPT ![q] = row]
    BY <1>3 DEF Reserve, Reservable
  <2> HIDE DEF row
  <2>4. /\ breaker = NoReason /\ breaker' = breaker /\ q \notin Held
        /\ \A p \in Held : rows[p].task = t => rows[p].status # "pending"
    BY <1>3 DEF Reserve, Reservable, InFlight, OfTask
  <2>5. rows[q].status = "absent"
    BY <2>4 DEF Held
  <2> QED BY <1>3, <2>2, <2>3, <2>4, <2>5 DEF Admits, Reserve, Reservable
<1>4. ASSUME NEW q \in Request, NEW u \in Usages \cup {NoUsage}, NEW stop \in BOOLEAN,
             NEW now \in 0 .. clock, Settle(q, u, stop, now)
      PROVE  Settles(q) /\ UNCHANGED <<clock, policy>>
  <2>1. rows[q] \in Row /\ now \in Nat
    BY DEF TypeOK
  <2>2. Resolves(rows[q], SettledRow(rows[q], u, now))
    BY <1>4, <2>1, SettlementResolves DEF Settle
  <2>3. /\ Requested(stop) \in Reason \cup {NoReason}
        /\ Priority(Requested(stop)) >= Priority(breaker)
        /\ Priority(Requested(stop)) \in Nat
    BY RequestedRaises
  <2>4. /\ breaker' \in Reason \cup {NoReason}
        /\ Priority(breaker') >= Priority(Requested(stop))
        /\ Priority(breaker') \in Nat
    <3>1. breaker' = SettlementStop(q, u, Requested(stop))
      BY <1>4 DEF Settle
    <3>2. /\ breaker' \in Reason \cup {NoReason}
          /\ Priority(breaker') >= Priority(Requested(stop))
      BY <2>3, <3>1, SettlementRaises
    <3>3. Priority(breaker') \in Nat
      BY <3>2 DEF Priority, Reason, NoReason
    <3> QED BY <3>2, <3>3
  <2>5. \E row \in Row : rows' = [rows EXCEPT ![q] = row] /\ Resolves(rows[q], row)
    <3>1. SettledRow(rows[q], u, now) \in Row
      BY <2>2 DEF Resolves
    <3>2. rows' = [rows EXCEPT ![q] = SettledRow(rows[q], u, now)]
      BY <1>4 DEF Settle
    <3> QED BY <2>2, <3>1, <3>2
  <2>6. Priority(breaker') >= Priority(breaker)
    BY <1>0, <2>3, <2>4
  <2> QED BY <1>4, <2>4, <2>5, <2>6 DEF Settles, Settle
<1>5. ASSUME NEW q \in Request, NEW u \in Usages \cup {NoUsage}, NEW stop \in BOOLEAN,
             ReplaySettle(q, u, stop)
      PROVE  Stays /\ UNCHANGED <<clock, policy>>
  BY <1>5, RequestedRaises DEF ReplaySettle, Stays
<1>6. ASSUME NEW q \in Request, NEW now \in 0 .. clock, MarkUnknownRejection(q, now)
      PROVE  Settles(q) /\ UNCHANGED <<clock, policy>>
  <2>1. rows[q] \in Row /\ now \in Nat
    BY DEF TypeOK
  <2>2. Resolves(rows[q], UncertainRow(rows[q], now))
    BY <1>6, <2>1, UncertainResolves DEF MarkUnknownRejection
  <2>3. \E row \in Row : rows' = [rows EXCEPT ![q] = row] /\ Resolves(rows[q], row)
    <3>1. UncertainRow(rows[q], now) \in Row
      BY <2>2 DEF Resolves
    <3>2. rows' = [rows EXCEPT ![q] = UncertainRow(rows[q], now)]
      BY <1>6 DEF MarkUnknownRejection
    <3> QED BY <2>2, <3>1, <3>2
  <2>4. breaker' = breaker /\ UNCHANGED <<clock, policy>> /\ rows[q].status = "pending"
    BY <1>6 DEF MarkUnknownRejection
  <2>5. Priority(breaker') >= Priority(breaker)
    BY <1>0, <2>4
  <2> QED BY <1>0, <2>3, <2>4, <2>5 DEF Settles
<1> QED BY <1>1, <1>2, <1>3, <1>4, <1>5, <1>6 DEF Next, RequestStep, TypeOK

LEMMA BudgetInit == ASSUME Init PROVE BudgetInv
<1>1. AbsentRow \in Row
  BY DEF AbsentRow, Row, Status
<1>2. TypeOK /\ AbsentIsBlank
  BY <1>1 DEF Init, TypeOK, AbsentIsBlank
<1>3. OneInFlight
  BY DEF Init, OneInFlight, Held, AbsentRow
<1> QED BY <1>2, <1>3 DEF BudgetInv

LEMMA BudgetStep == ASSUME BudgetInv, [Next]_vars PROVE BudgetInv'
<1> USE DEF BudgetInv
<1>1. /\ clock' \in Nat /\ policy' \in Policies
      /\ Stays \/ \E q \in Request : Admits(q) \/ Settles(q)
  BY StepKinds
<1>2. CASE Stays
  BY <1>1, <1>2 DEF Stays, TypeOK, AbsentIsBlank, OneInFlight, Held
<1>3. ASSUME NEW q \in Request, Admits(q)
      PROVE  BudgetInv'
  <2>1. PICK row \in Row :
            /\ rows' = [rows EXCEPT ![q] = row]
            /\ row.status = "pending"
            /\ \A p \in Held : rows[p].task = row.task => rows[p].status # "pending"
    BY <1>3 DEF Admits
  <2>2. TypeOK'
    BY <1>1, <1>3, <2>1 DEF TypeOK, Admits
  <2>3. AbsentIsBlank'
    BY <2>1 DEF AbsentIsBlank, TypeOK
  <2>4. OneInFlight'
    BY <2>1 DEF OneInFlight, Held, TypeOK
  <2> QED BY <2>2, <2>3, <2>4
<1>4. ASSUME NEW q \in Request, Settles(q)
      PROVE  BudgetInv'
  <2>1. PICK row \in Row : rows' = [rows EXCEPT ![q] = row] /\ Resolves(rows[q], row)
    BY <1>4 DEF Settles
  <2>2. row.status \notin {"absent", "pending"}
    BY <2>1 DEF Resolves
  <2>3. TypeOK'
    BY <1>1, <1>4, <2>1 DEF TypeOK, Settles
  <2>4. AbsentIsBlank'
    BY <2>1, <2>2 DEF AbsentIsBlank, TypeOK
  <2>5. OneInFlight'
    BY <2>1, <2>2 DEF OneInFlight, Held, TypeOK
  <2> QED BY <2>3, <2>4, <2>5
<1> QED BY <1>1, <1>2, <1>3, <1>4

-----------------------------------------------------------------------------
(* The ceiling and the burn rate *)

\* A request in flight is as reserve() wrote it ...
InFlightAsReserved ==
    \A q \in Request : rows[q].status = "pending" =>
        /\ rows[q].usage = NoUsage
        /\ policy.priced => rows[q].reserved >= Estimate(rows[q].bound.input, rows[q].bound.output)

\* ... every row has the bound it was reserved under ...
BoundsKnown == \A q \in Held : rows[q].bound \in Bound

\* ... and only settled requests have been charged.
OnlySettledCharged == \A q \in Request : rows[q].status # "settled" => rows[q].admitted = 0

\* The inductive invariant of the two sums.
MoneyInv ==
    /\ BudgetInv
    /\ IsFiniteSet(Held)
    /\ InFlightAsReserved /\ BoundsKnown /\ OnlySettledCharged
    /\ CeilingKept /\ BurnRateKept

LEMMA EstimateMonotone ==
  ASSUME NEW a \in Nat, NEW b \in Nat, NEW c \in Nat, NEW d \in Nat, a <= c, b <= d
  PROVE  Estimate(a, b) <= Estimate(c, d)
<1>1. \A x, y, z \in Nat : x <= y => x * z <= y * z
  OBVIOUS
<1>2. a * PriceIn <= c * PriceIn /\ b * PriceOut <= d * PriceOut
  BY <1>1, PolicyAssumption
<1>3. /\ a * PriceIn \in Nat /\ c * PriceIn \in Nat
      /\ b * PriceOut \in Nat /\ d * PriceOut \in Nat
  BY PolicyAssumption
<1> QED BY <1>2, <1>3 DEF Estimate

\* The columns hold amounts.
LEMMA ColumnTypes ==
  ASSUME TypeOK, BoundsKnown, NEW q \in Held
  PROVE  /\ Admitted[q] \in Nat /\ Reserved[q] \in Nat
         /\ Commitments[q] \in Nat /\ Tokens[q] \in Nat
<1>1. rows[q] \in Row /\ rows[q].bound \in Bound
  BY DEF TypeOK, BoundsKnown, Held
<1>2. rows[q].usage # NoUsage => rows[q].usage \in Usage
  BY <1>1 DEF Row
<1>3. rows[q].admitted \in Nat /\ rows[q].reserved \in Nat
  BY <1>1 DEF Row
<1>4. TokensOf(q) \in Nat
  BY <1>1, <1>2 DEF TokensOf, Bound, Usage
<1> QED BY <1>3, <1>4 DEF Admitted, Reserved, Commitments, Commitment, Tokens

ColumnsTyped == \A q \in Held : Commitments[q] \in Nat /\ Tokens[q] \in Nat

LEMMA NextColumnTypes == TypeOK' /\ BoundsKnown' => ColumnsTyped'
<1>1. TypeOK /\ BoundsKnown => ColumnsTyped
  BY ColumnTypes DEF ColumnsTyped
<1> QED BY <1>1, PTL

\* The sum the guard of reserve() computes is the sum of the commitments.
LEMMA CommitmentsSplit ==
  ASSUME TypeOK, BoundsKnown, OnlySettledCharged, IsFiniteSet(Held)
  PROVE  Total(Commitments, Held) = Charged + Holds
<1>1. Unsettled \in SUBSET Held
  BY DEF Unsettled
<1>2. \A q \in Held : Admitted[q] \in Nat /\ Reserved[q] \in Nat
  BY ColumnTypes
<1>3. ASSUME NEW q \in Unsettled
      PROVE  Commitments[q] = Admitted[q] + Reserved[q]
  <2>1. q \in Held /\ rows[q].status # "settled" /\ rows[q].admitted = 0
    BY DEF Unsettled, OnlySettledCharged, Held
  <2> QED BY <1>2, <2>1 DEF Commitments, Commitment, Admitted, Reserved
<1>4. ASSUME NEW q \in Held \ Unsettled
      PROVE  Commitments[q] = Admitted[q]
  BY DEF Unsettled, Commitments, Commitment, Admitted
<1>5. \A q \in Unsettled : Reserved[q] \in Nat /\ Commitments[q] = Admitted[q] + Reserved[q]
  BY <1>1, <1>2, <1>3
<1>6. Total(Commitments, Held) = Total(Admitted, Held) + Total(Reserved, Unsettled)
  BY <1>1, <1>2, <1>4, <1>5, TotalSplit
<1> QED BY <1>6 DEF Charged, Holds

\* As time passes, less of a worker's use is in the window.
LEMMA BurnShrinks ==
  ASSUME TypeOK, BoundsKnown, IsFiniteSet(Held),
         NEW w \in Worker, NEW t \in Nat, NEW u \in Nat, t <= u
  PROVE  Burn(w, u) <= Burn(w, t) /\ Burn(w, u) \in Nat /\ Burn(w, t) \in Nat
<1>1. InWindow(w, u) \in SUBSET InWindow(w, t)
  <2>1. ASSUME NEW q \in InWindow(w, u)
        PROVE  q \in InWindow(w, t)
    <3>1. rows[q] \in Row
      BY DEF InWindow, Held, TypeOK
    <3>2. rows[q].settledAt \in Nat /\ BurnWindow \in Nat
      BY <3>1, LimitsAssumption DEF Row
    <3>3. rows[q].settledAt > u - BurnWindow => rows[q].settledAt > t - BurnWindow
      BY <3>2
    <3> QED BY <3>3 DEF InWindow
  <2> QED BY <2>1
<1>2. InWindow(w, t) \in SUBSET Held /\ InWindow(w, u) \in SUBSET Held
  BY DEF InWindow
<1>3. IsFiniteSet(InWindow(w, t)) /\ IsFiniteSet(InWindow(w, u))
  BY <1>2, FS_Subset
<1>4. \A q \in Held : Tokens[q] \in Nat
  BY ColumnTypes
<1>5. \A q \in Held : Tokens[q] <= Tokens[q]
  BY <1>4
<1>6. /\ \A q \in InWindow(w, t) : Tokens[q] \in Nat
      /\ \A q \in InWindow(w, u) : Tokens[q] \in Nat /\ Tokens[q] <= Tokens[q]
  BY <1>2, <1>4, <1>5
<1>7. Total(Tokens, InWindow(w, u)) <= Total(Tokens, InWindow(w, t))
  BY <1>1, <1>3, <1>6, TotalGrows
<1>8. Total(Tokens, InWindow(w, u)) \in Nat /\ Total(Tokens, InWindow(w, t)) \in Nat
  BY <1>3, <1>6, TotalType
<1> QED BY <1>7, <1>8 DEF Burn

\* reserve() keeps both: its guards compute the same sums, the window as it was
\* when the caller read the clock.
LEMMA ReserveKeepsSums ==
  ASSUME MoneyInv, NEW w \in Worker, NEW t \in Task, NEW q \in Request, NEW b \in Bounds,
         NEW now \in 0 .. clock, Reserve(w, t, q, b, now)
  PROVE  MoneyInv'
<1> DEFINE row == [AbsentRow EXCEPT !.status = "pending", !.worker = w, !.task = t,
                                    !.bound = b, !.reserved = ReservationAmount(b),
                                    !.created = now]
<1>1. /\ TypeOK /\ BudgetInv /\ IsFiniteSet(Held)
      /\ InFlightAsReserved /\ BoundsKnown /\ OnlySettledCharged
  BY DEF MoneyInv, BudgetInv
<1>2. /\ b \in Bound /\ ReservationAmount(b) \in Nat
      /\ b.input \in Nat /\ b.output \in Nat
  BY <1>1, AmountType, LimitsAssumption DEF Bound
<1>3. /\ row.status = "pending" /\ row.bound = b /\ row.reserved = ReservationAmount(b)
      /\ row.usage = NoUsage /\ row.admitted = 0 /\ row.worker = w
  BY DEF AbsentRow
<1>4. /\ rows' = [rows EXCEPT ![q] = row] /\ q \notin Held
      /\ clock' = clock /\ policy' = policy /\ breaker' = breaker
  BY DEF Reserve, Reservable
<1> HIDE DEF row
<1>5. BudgetInv'
  BY <1>1, BudgetStep DEF Next, RequestStep
<1>6. /\ Held' = Held \cup {q}
      /\ rows'[q] = row
      /\ \A p \in Request \ {q} : rows'[p] = rows[p]
  BY <1>1, <1>3, <1>4 DEF Held, TypeOK
<1>7. IsFiniteSet(Held')
  BY <1>1, <1>6, FS_AddElement
<1>8. policy.priced => ReservationAmount(b) >= Estimate(b.input, b.output)
  <2>1. Admissible(b) /\ b.kind \in {"verified", "unbounded"}
    BY <1>2 DEF Reserve, Reservable, Bound
  <2>2. Estimate(b.input, b.output) \in Nat /\ policy.allowance \in Nat
    BY <1>1, <1>2, EstimateType, PolicyAssumption DEF TypeOK, Policy
  <2>3. Max({policy.allowance, Estimate(b.input, b.output)}) >= Estimate(b.input, b.output)
    BY <2>2, MaxOfTwo
  <2> QED BY <2>1, <2>3 DEF Admissible, ReservationAmount
<1>9. InFlightAsReserved'
  BY <1>1, <1>3, <1>4, <1>6, <1>8 DEF InFlightAsReserved, Estimate
<1>10. BoundsKnown' /\ OnlySettledCharged'
  BY <1>1, <1>2, <1>3, <1>6 DEF BoundsKnown, OnlySettledCharged, Held
<1>11. TypeOK' /\ \A p \in Held' : Commitments'[p] \in Nat /\ Tokens'[p] \in Nat
  <2>1. TypeOK'
    BY <1>5 DEF BudgetInv
  <2> QED BY <1>10, <2>1, NextColumnTypes DEF ColumnsTyped
<1>12. CeilingKept'
  <2> SUFFICES ASSUME policy.admission PROVE ~(Total(Commitments', Held') > MaxCost)
    BY <1>4 DEF CeilingKept
  <2>1. Charged + Holds + ReservationAmount(b) <= MaxCost
    BY DEF Reserve, Reservable
  <2>2. /\ Commitments'[q] = ReservationAmount(b)
        /\ \A p \in Held : Commitments'[p] = Commitments[p]
    BY <1>3, <1>4, <1>6 DEF Commitments, Commitment, Held
  <2>3. Total(Commitments', Held') = ReservationAmount(b) + Total(Commitments', Held)
    BY <1>1, <1>4, <1>6, <1>11, <2>2, TotalAdd
  <2>4. /\ Total(Commitments', Held) = Total(Commitments, Held)
        /\ Total(Commitments, Held) \in Nat
    <3>1. \A p \in Held : Commitments[p] \in Nat
      BY <1>1, ColumnTypes
    <3> QED BY <1>1, <2>2, <3>1, TotalSame, TotalType
  <2>5. Total(Commitments, Held) = Charged + Holds
    BY <1>1, CommitmentsSplit
  <2> QED BY <1>2, <2>1, <2>3, <2>4, <2>5, LimitsAssumption
<1>13. BurnRateKept'
  <2> SUFFICES ASSUME NEW v \in Worker, Burn(v, clock)' > BurnRate
               PROVE  Priority(breaker') >= 3
    BY DEF BurnRateKept
  <2>1. \A p \in Held : Tokens'[p] = Tokens[p]
    BY <1>4, <1>6 DEF Tokens, TokensOf, Held
  <2>2. IsFiniteSet(InWindow(v, clock)) /\ \A p \in InWindow(v, clock) : Tokens[p] \in Nat
    <3>1. InWindow(v, clock) \in SUBSET Held
      BY DEF InWindow
    <3> QED BY <1>1, <3>1, FS_Subset, ColumnTypes
  <2>3. Total(Tokens', InWindow(v, clock)) = Burn(v, clock)
    <3>1. \A p \in InWindow(v, clock) : Tokens'[p] = Tokens[p]
      BY <2>1 DEF InWindow
    <3> QED BY <2>2, <3>1, TotalSame DEF Burn
  <2>4. Burn(v, clock)' = Total(Tokens', InWindow(v, clock)')
    BY DEF Burn
  <2>5. CASE v = w
    <3>1. InWindow(v, clock)' = InWindow(v, clock) \cup {q}
      BY <1>3, <1>4, <1>6, <2>5 DEF InWindow, Held
    <3>2. Tokens'[q] = b.input + b.output
      BY <1>3, <1>6 DEF Tokens, TokensOf
    <3>3. q \notin InWindow(v, clock)
      BY <1>4 DEF InWindow
    <3>4. Burn(v, clock)' = b.input + b.output + Burn(v, clock)
      <4>1. \A p \in InWindow(v, clock) \cup {q} : Tokens'[p] \in Nat
        BY <1>6, <1>11 DEF InWindow
      <4> QED BY <2>2, <2>3, <2>4, <3>1, <3>2, <3>3, <4>1, TotalAdd
    <3>5. Burn(v, now) + b.input + b.output <= BurnRate
      BY <2>5 DEF Reserve, Reservable, RateAllows
    <3>6. Burn(v, clock) <= Burn(v, now) /\ Burn(v, clock) \in Nat /\ Burn(v, now) \in Nat
      <4>1. now \in Nat /\ clock \in Nat /\ now <= clock
        BY <1>1 DEF TypeOK
      <4> QED BY <1>1, <4>1, BurnShrinks
    <3>7. FALSE
      BY <1>2, <3>4, <3>5, <3>6, LimitsAssumption
    <3> QED BY <3>7
  <2>6. CASE v # w
    <3>1. InWindow(v, clock)' = InWindow(v, clock)
      BY <1>3, <1>4, <1>6, <2>6 DEF InWindow, Held
    <3>2. Burn(v, clock) > BurnRate
      BY <2>3, <2>4, <3>1
    <3> QED BY <1>4, <3>2 DEF MoneyInv, BurnRateKept
  <2> QED BY <2>5, <2>6
<1> QED BY <1>5, <1>7, <1>9, <1>10, <1>12, <1>13 DEF MoneyInv

\* A settlement within the bound takes nothing out of the ceiling, nor out of the
\* window, that the reservation had not; beyond it, the stop is grave.
WithinOrStopped(q) ==
    \/ Priority(breaker') >= 3
    \/ /\ Commitment(rows'[q]) = Commitment(rows[q])
       /\ Tokens'[q] <= Tokens[q]

\* What a resolved row keeps of the one in flight.
ResolvedRow(q) ==
    /\ rows[q].status = "pending"
    /\ rows'[q].status \notin {"absent", "pending"}
    /\ rows'[q].worker = rows[q].worker
    /\ rows'[q].bound = rows[q].bound
    /\ rows'[q].status # "settled" => rows'[q].admitted = 0
    /\ \A p \in Request \ {q} : rows'[p] = rows[p]
    /\ clock' = clock /\ policy' = policy

LEMMA GraveStops ==
  ASSUME NEW before \in Reason \cup {NoReason},
         NEW reason \in {"provider_bound_violated", "request_token_limit_exceeded"}
  PROVE  Priority(Tripped(before, reason)) >= 3
  BY DEF Tripped, Priority, Reason, NoReason

\* A report beyond the bound always ends in a grave stop.
LEMMA ViolationStops ==
  ASSUME TypeOK, NEW q \in Request, NEW u \in Usages, u # NoUsage, NEW stop \in BOOLEAN,
         BoundViolated(q, u)
  PROVE  Priority(SettlementStop(q, u, Requested(stop))) >= 3
<1> DEFINE before == Requested(stop)
           costed == IF ~policy.priced /\ ~policy.unknownCost
                     THEN Tripped(before, "unknown_cost") ELSE before
           reason == IF rows[q].bound.enforced THEN "provider_bound_violated"
                     ELSE "request_token_limit_exceeded"
<1>1. before \in Reason \cup {NoReason}
  BY RequestedRaises
<1>2. "unknown_cost" \in Reason
  BY DEF Reason
<1> HIDE DEF before
<1>3. costed \in Reason \cup {NoReason}
  BY <1>1, <1>2, TripRaises
<1>4. SettlementStop(q, u, before) = Tripped(costed, reason)
  BY DEF SettlementStop
<1> HIDE DEF costed
<1>5. reason \in {"provider_bound_violated", "request_token_limit_exceeded"}
  OBVIOUS
<1> HIDE DEF reason
<1> QED BY <1>3, <1>4, <1>5, GraveStops DEF before

LEMMA SettleWithinOrStopped ==
  ASSUME MoneyInv, NEW q \in Request, NEW u \in Usages \cup {NoUsage},
         NEW stop \in BOOLEAN, NEW now \in 0 .. clock, Settle(q, u, stop, now)
  PROVE  ResolvedRow(q) /\ WithinOrStopped(q)
<1>1. /\ TypeOK /\ rows[q] \in Row /\ q \in Held /\ rows[q].bound \in Bound
      /\ rows[q].usage = NoUsage /\ rows[q].admitted = 0
      /\ policy.priced => rows[q].reserved >= Estimate(rows[q].bound.input, rows[q].bound.output)
  BY DEF MoneyInv, BudgetInv, TypeOK, Settle, Held, InFlightAsReserved, BoundsKnown,
         OnlySettledCharged
<1>2. /\ rows' = [rows EXCEPT ![q] = SettledRow(rows[q], u, now)]
      /\ rows'[q] = SettledRow(rows[q], u, now)
      /\ clock' = clock /\ policy' = policy
      /\ rows[q].status = "pending"
      /\ breaker' = SettlementStop(q, u, Requested(stop))
  BY <1>1 DEF Settle, TypeOK
<1>3. /\ rows[q].bound.input \in Nat /\ rows[q].bound.output \in Nat
      /\ rows[q].reserved \in Nat
      /\ Tokens[q] = rows[q].bound.input + rows[q].bound.output
      /\ Commitment(rows[q]) = rows[q].reserved
  BY <1>1, <1>2 DEF Bound, Row, Tokens, TokensOf, Commitment
<1>4. CASE u = NoUsage
  <2>1. rows'[q] = UncertainRow(rows[q], now)
    BY <1>2, <1>4 DEF SettledRow
  <2>2. /\ rows'[q].status = "uncertain" /\ rows'[q].worker = rows[q].worker
        /\ rows'[q].bound = rows[q].bound /\ rows'[q].admitted = 0
        /\ rows'[q].usage = NoUsage /\ rows'[q].reserved = rows[q].reserved
    BY <1>1, <2>1 DEF UncertainRow, Row
  <2>3. q \in Held' /\ Tokens'[q] = Tokens[q]
    BY <1>3, <2>2 DEF Held, Tokens, TokensOf
  <2> QED BY <1>1, <1>2, <1>3, <2>2, <2>3 DEF ResolvedRow, WithinOrStopped, Commitment, TypeOK
<1>5. CASE u # NoUsage /\ ~policy.priced
  <2>1. rows'[q] = UncostedRow(rows[q], u, now)
    BY <1>2, <1>5 DEF SettledRow
  <2>2. /\ rows'[q].status \in {"uncertain", "unknown_cost_allowed"}
        /\ rows'[q].worker = rows[q].worker
        /\ rows'[q].bound = rows[q].bound /\ rows'[q].admitted = 0
        /\ rows'[q].usage = u /\ rows'[q].reserved = rows[q].reserved
    BY <1>1, <2>1 DEF UncostedRow, Row
  <2>3. q \in Held' /\ Tokens'[q] = u.prompt + u.completion
    BY <1>5, <2>2 DEF Held, Tokens, TokensOf
  <2>4. Commitment(rows'[q]) = Commitment(rows[q])
    BY <1>3, <2>2 DEF Commitment
  <2>5. ResolvedRow(q)
    BY <1>1, <1>2, <2>2 DEF ResolvedRow, TypeOK
  <2>6. BoundViolated(q, u) \/ Tokens'[q] <= Tokens[q]
    <3>1. u \in Usage /\ u.prompt \in Nat /\ u.completion \in Nat
      BY <1>5, LimitsAssumption DEF Usage
    <3> QED BY <1>3, <2>3, <3>1 DEF BoundViolated, Violates
  <2>7. BoundViolated(q, u) => Priority(breaker') >= 3
    BY <1>1, <1>2, <1>5, ViolationStops
  <2> QED BY <2>4, <2>5, <2>6, <2>7 DEF WithinOrStopped
<1>6. CASE u # NoUsage /\ policy.priced
  <2> DEFINE charge == Max({Estimate(u.prompt, u.completion), rows[q].reserved})
  <2>0. u \in Usage /\ u.prompt \in Nat /\ u.completion \in Nat
    BY <1>6, LimitsAssumption DEF Usage
  <2>1. rows'[q] = CostedRow(rows[q], u, now, charge)
    BY <1>2, <1>6 DEF SettledRow
  <2>2. /\ rows'[q].status = "settled"
        /\ rows'[q].worker = rows[q].worker
        /\ rows'[q].bound = rows[q].bound
        /\ rows'[q].usage = u /\ rows'[q].admitted = charge
    <3> HIDE DEF charge
    <3> QED BY <1>1, <2>1 DEF CostedRow, Row
  <2>3. q \in Held' /\ Tokens'[q] = u.prompt + u.completion
    BY <1>6, <2>2 DEF Held, Tokens, TokensOf
  <2>4. ResolvedRow(q)
    <3> HIDE DEF charge
    <3> QED BY <1>1, <1>2, <2>2 DEF ResolvedRow, TypeOK
  <2>5. BoundViolated(q, u) \/ Tokens'[q] <= Tokens[q]
    BY <1>3, <2>0, <2>3 DEF BoundViolated, Violates
  <2>6. BoundViolated(q, u) \/ Commitment(rows'[q]) = Commitment(rows[q])
    <3> SUFFICES ASSUME ~BoundViolated(q, u) PROVE charge = rows[q].reserved
      BY <1>3, <2>2 DEF Commitment
    <3>1. u.prompt <= rows[q].bound.input /\ u.completion <= rows[q].bound.output
      BY <1>3, <2>0 DEF BoundViolated, Violates
    <3>2. Estimate(u.prompt, u.completion) <= Estimate(rows[q].bound.input, rows[q].bound.output)
      BY <1>3, <2>0, <3>1, EstimateMonotone
    <3>3. /\ Estimate(u.prompt, u.completion) \in Nat
          /\ Estimate(rows[q].bound.input, rows[q].bound.output) \in Nat
      BY <1>3, <2>0, EstimateType
    <3>4. Estimate(u.prompt, u.completion) <= rows[q].reserved
      BY <1>1, <1>3, <1>6, <3>2, <3>3
    <3> QED BY <1>3, <3>3, <3>4, MaxOfLarger
  <2>7. BoundViolated(q, u) => Priority(breaker') >= 3
    BY <1>1, <1>2, <1>6, ViolationStops
  <2> QED BY <2>4, <2>5, <2>6, <2>7 DEF WithinOrStopped
<1> QED BY <1>4, <1>5, <1>6

\* Both sums survive the resolution of a request.
LEMMA ResolvedKeepsSums ==
  ASSUME MoneyInv, BudgetInv', NEW q \in Request, ResolvedRow(q), WithinOrStopped(q),
         Priority(breaker') >= Priority(breaker), Priority(breaker') \in Nat,
         Priority(breaker) \in Nat
  PROVE  MoneyInv'
<1>1. /\ TypeOK /\ IsFiniteSet(Held)
      /\ InFlightAsReserved /\ BoundsKnown /\ OnlySettledCharged
  BY DEF MoneyInv, BudgetInv
<1>2. /\ q \in Held /\ Held' = Held
      /\ \A p \in Request \ {q} : rows'[p] = rows[p]
      /\ clock' = clock /\ policy' = policy
  BY DEF ResolvedRow, Held
<1>3. InFlightAsReserved'
  BY <1>1, <1>2 DEF InFlightAsReserved, ResolvedRow, Estimate
<1>4. BoundsKnown' /\ OnlySettledCharged'
  BY <1>1, <1>2 DEF BoundsKnown, OnlySettledCharged, ResolvedRow, Held
<1>5. \A p \in Held : Commitments'[p] \in Nat /\ Tokens'[p] \in Nat
  BY <1>2, <1>4, NextColumnTypes DEF ColumnsTyped, BudgetInv
<1>6. \A p \in Held : Commitments[p] \in Nat /\ Tokens[p] \in Nat
  BY <1>1, ColumnTypes
<1>7. \A p \in Held \ {q} : Commitments'[p] = Commitments[p] /\ Tokens'[p] = Tokens[p]
  BY <1>2 DEF Commitments, Commitment, Tokens, TokensOf, Held
<1>8. CASE Priority(breaker') >= 3
  BY <1>1, <1>2, <1>3, <1>4, <1>8 DEF MoneyInv, CeilingKept, BurnRateKept
<1>9. CASE ~(Priority(breaker') >= 3)
  <2>0. ~(Priority(breaker) >= 3)
    BY <1>9
  <2>1. Commitment(rows'[q]) = Commitment(rows[q]) /\ Tokens'[q] <= Tokens[q]
    BY <1>9 DEF WithinOrStopped
  <2>2. Commitments'[q] = Commitments[q]
    BY <1>2, <2>1 DEF Commitments
  <2>3. CeilingKept'
    <3>1. Total(Commitments', Held) = Total(Commitments, Held)
      BY <1>1, <1>6, <1>7, <2>2, TotalSame
    <3>2. ~(policy.admission /\ Total(Commitments, Held) > MaxCost)
      BY <2>0 DEF MoneyInv, CeilingKept
    <3>3. ~(policy'.admission /\ Total(Commitments', Held') > MaxCost)
      BY <1>2, <3>1, <3>2
    <3> QED BY <3>3 DEF CeilingKept
  <2>4. ASSUME NEW v \in Worker
        PROVE  ~(Burn(v, clock)' > BurnRate)
    <3>1. InWindow(v, clock)' \in SUBSET InWindow(v, clock)
      BY <1>2 DEF InWindow, ResolvedRow, Held
    <3>2. InWindow(v, clock) \in SUBSET Held
      BY DEF InWindow
    <3>3. IsFiniteSet(InWindow(v, clock)) /\ IsFiniteSet(InWindow(v, clock)')
      BY <1>1, <3>1, <3>2, FS_Subset
    <3>4. \A p \in Held : Tokens'[p] <= Tokens[p]
      BY <1>6, <1>7, <2>1
    <3>5. Total(Tokens', InWindow(v, clock)') <= Total(Tokens, InWindow(v, clock))
      <4>1. \A p \in InWindow(v, clock) : Tokens[p] \in Nat
        BY <1>6, <3>2
      <4>2. \A p \in InWindow(v, clock)' : Tokens'[p] \in Nat /\ Tokens'[p] <= Tokens[p]
        BY <1>5, <3>1, <3>2, <3>4
      <4> QED BY <3>1, <3>3, <4>1, <4>2, TotalGrows
    <3>6. /\ Total(Tokens', InWindow(v, clock)') \in Nat
          /\ Total(Tokens, InWindow(v, clock)) \in Nat
      <4>1. \A p \in InWindow(v, clock) : Tokens[p] \in Nat
        BY <1>6, <3>2
      <4>2. \A p \in InWindow(v, clock)' : Tokens'[p] \in Nat
        BY <1>5, <3>1, <3>2
      <4> QED BY <3>3, <4>1, <4>2, TotalType
    <3>7. ~(Burn(v, clock) > BurnRate)
      BY <2>0 DEF MoneyInv, BurnRateKept
    <3> QED BY <3>5, <3>6, <3>7, LimitsAssumption DEF Burn
  <2>5. BurnRateKept'
    BY <2>4 DEF BurnRateKept
  <2> QED BY <1>1, <1>2, <1>3, <1>4, <2>3, <2>5 DEF MoneyInv
<1> QED BY <1>8, <1>9

\* Steps that leave the table alone, among them the passage of time.
LEMMA StayKeepsSums ==
  ASSUME MoneyInv, BudgetInv', rows' = rows, policy' = policy,
         clock' \in Nat, clock <= clock',
         Priority(breaker') >= Priority(breaker), Priority(breaker') \in Nat,
         Priority(breaker) \in Nat
  PROVE  MoneyInv'
<1>1. TypeOK /\ BoundsKnown /\ IsFiniteSet(Held)
  BY DEF MoneyInv, BudgetInv
<1>2. Held' = Held /\ Commitments' = Commitments /\ Tokens' = Tokens
  BY DEF Held, Commitments, Commitment, Tokens, TokensOf
<1>3. /\ IsFiniteSet(Held') /\ InFlightAsReserved' /\ BoundsKnown' /\ OnlySettledCharged'
  BY <1>2 DEF MoneyInv, InFlightAsReserved, BoundsKnown, OnlySettledCharged, Estimate
<1>4. CeilingKept'
  BY <1>2 DEF MoneyInv, CeilingKept
<1>5. ASSUME NEW v \in Worker, Burn(v, clock)' > BurnRate
      PROVE  Priority(breaker') >= 3
  <2>1. Burn(v, clock)' = Burn(v, clock')
    BY <1>2 DEF Burn, InWindow
  <2>2. /\ Burn(v, clock') <= Burn(v, clock)
        /\ Burn(v, clock') \in Nat /\ Burn(v, clock) \in Nat
    BY <1>1, BurnShrinks DEF TypeOK
  <2>3. Burn(v, clock) > BurnRate
    BY <1>5, <2>1, <2>2, LimitsAssumption
  <2>4. Priority(breaker) >= 3
    BY <2>3 DEF MoneyInv, BurnRateKept
  <2> QED BY <2>4
<1>6. BurnRateKept'
  BY <1>5 DEF BurnRateKept
<1> QED BY <1>3, <1>4, <1>6 DEF MoneyInv

LEMMA MoneyInit == ASSUME Init PROVE MoneyInv
<1>1. BudgetInv
  BY BudgetInit
<1>2. Held = {}
  BY DEF Init, Held, AbsentRow
<1>3. IsFiniteSet(Held) /\ InFlightAsReserved /\ BoundsKnown /\ OnlySettledCharged
  BY <1>2, FS_EmptySet DEF Init, InFlightAsReserved, BoundsKnown, OnlySettledCharged, AbsentRow
<1>4. CeilingKept
  <2>1. Total(Commitments, Held) = 0
    BY <1>2, TotalEmpty
  <2> QED BY <2>1, LimitsAssumption DEF CeilingKept
<1>5. BurnRateKept
  <2>1. ASSUME NEW v \in Worker
        PROVE  Burn(v, clock) = 0
    <3>1. InWindow(v, clock) = {}
      BY <1>2 DEF InWindow
    <3> QED BY <3>1, TotalEmpty DEF Burn
  <2> QED BY <2>1, LimitsAssumption DEF BurnRateKept
<1> QED BY <1>1, <1>3, <1>4, <1>5 DEF MoneyInv

LEMMA MoneyStep == ASSUME MoneyInv, [Next]_vars PROVE MoneyInv'
<1>1. BudgetInv /\ TypeOK /\ BudgetInv'
  BY BudgetStep DEF MoneyInv, BudgetInv
<1>2. /\ breaker \in Reason \cup {NoReason} /\ breaker' \in Reason \cup {NoReason}
      /\ Priority(breaker') >= Priority(breaker)
  <2>1. Stays \/ \E q \in Request : Admits(q) \/ Settles(q)
    BY <1>1, StepKinds
  <2>2. Priority(breaker) \in Nat
    BY <1>1 DEF TypeOK, Priority, Reason, NoReason
  <2> QED BY <1>1, <2>1, <2>2 DEF Stays, Admits, Settles, BudgetInv, TypeOK
<1>3. Priority(breaker) \in Nat /\ Priority(breaker') \in Nat
  BY <1>2 DEF Priority, Reason, NoReason
<1>4. clock \in Nat
  BY <1>1 DEF TypeOK
<1>5. CASE UNCHANGED vars
  BY <1>1, <1>2, <1>3, <1>4, <1>5, StayKeepsSums DEF vars
<1>6. CASE Tick
  BY <1>1, <1>2, <1>3, <1>4, <1>6, StayKeepsSums DEF Tick
<1>7. ASSUME NEW q \in Request, NEW w \in Worker, NEW t \in Task, NEW b \in Bounds,
             NEW now \in 0 .. clock, Reserve(w, t, q, b, now)
      PROVE  MoneyInv'
  BY <1>7, ReserveKeepsSums
<1>8. ASSUME NEW q \in Request, NEW u \in Usages \cup {NoUsage}, NEW stop \in BOOLEAN,
             NEW now \in 0 .. clock, Settle(q, u, stop, now)
      PROVE  MoneyInv'
  <2>1. ResolvedRow(q) /\ WithinOrStopped(q)
    BY <1>8, SettleWithinOrStopped
  <2> QED BY <1>1, <1>2, <1>3, <2>1, ResolvedKeepsSums
<1>9. ASSUME NEW q \in Request, NEW u \in Usages \cup {NoUsage}, NEW stop \in BOOLEAN,
             ReplaySettle(q, u, stop)
      PROVE  MoneyInv'
  <2>1. rows' = rows /\ policy' = policy /\ clock' = clock
    BY <1>9 DEF ReplaySettle
  <2> QED BY <1>1, <1>2, <1>3, <1>4, <2>1, StayKeepsSums
<1>10. ASSUME NEW q \in Request, NEW now \in 0 .. clock, MarkUnknownRejection(q, now)
       PROVE  MoneyInv'
  <2>1. /\ rows[q] \in Row /\ rows'[q] = UncertainRow(rows[q], now)
        /\ rows[q].status = "pending" /\ rows[q].usage = NoUsage /\ rows[q].admitted = 0
        /\ \A p \in Request \ {q} : rows'[p] = rows[p]
        /\ clock' = clock /\ policy' = policy
    BY <1>1, <1>10 DEF MarkUnknownRejection, TypeOK, MoneyInv, InFlightAsReserved,
                       OnlySettledCharged
  <2>2. /\ rows'[q].status = "uncertain" /\ rows'[q].worker = rows[q].worker
        /\ rows'[q].bound = rows[q].bound /\ rows'[q].admitted = 0
        /\ rows'[q].usage = NoUsage /\ rows'[q].reserved = rows[q].reserved
    BY <2>1 DEF UncertainRow, Row
  <2>3. q \in Held /\ q \in Held' /\ Tokens'[q] = Tokens[q] /\ Tokens[q] \in Nat
    <3>1. q \in Held /\ q \in Held'
      BY <2>1, <2>2 DEF Held
    <3>2. Tokens[q] \in Nat
      BY <1>1, <3>1, ColumnTypes DEF MoneyInv
    <3> QED BY <2>1, <2>2, <3>1, <3>2 DEF Tokens, TokensOf
  <2>4. ResolvedRow(q) /\ WithinOrStopped(q)
    BY <2>1, <2>2, <2>3 DEF ResolvedRow, WithinOrStopped, Commitment
  <2> QED BY <1>1, <1>2, <1>3, <2>4, ResolvedKeepsSums
<1> QED BY <1>5, <1>6, <1>7, <1>8, <1>9, <1>10 DEF Next, RequestStep

-----------------------------------------------------------------------------
(* Theorems *)

LEMMA AlwaysBudget == Spec => []BudgetInv
<1>1. Init => BudgetInv
  BY BudgetInit
<1>2. BudgetInv /\ [Next]_vars => BudgetInv'
  BY BudgetStep
<1> QED BY <1>1, <1>2, PTL DEF Spec

\* Over all workers, request identities, replays and stale clocks, a task has at
\* most one request in flight (reserve()).
THEOREM OneRequestInFlight == Spec => [](TypeOK /\ OneInFlight)
<1>1. BudgetInv => TypeOK /\ OneInFlight
  BY DEF BudgetInv
<1> QED BY <1>1, AlwaysBudget, PTL

\* Resolved evidence is final (settle(), mark_uncertain(),
\* mark_unknown_rejection()).
THEOREM ResolvedEvidenceFinal == Spec => EvidenceFinal
<1>1. ASSUME BudgetInv, [Next]_vars, NEW q \in Request,
             rows[q].status \notin {"absent", "pending"}
      PROVE  rows'[q] = rows[q]
  <2>1. Stays \/ \E p \in Request : Admits(p) \/ Settles(p)
    BY <1>1, StepKinds DEF BudgetInv
  <2> QED BY <1>1, <2>1 DEF Stays, Admits, Settles, BudgetInv, TypeOK
<1>2. BudgetInv /\ [Next]_vars =>
        [\A q \in Request : rows[q].status \notin {"absent", "pending"}
                                => rows'[q] = rows[q]]_vars
  BY <1>1
<1> QED BY <1>2, AlwaysBudget, PTL DEF Spec, EvidenceFinal

\* No report frees allowance once committed (settle()).
THEOREM CommitmentsOnlyGrow == Spec => AllowanceNeverFreed
<1>1. ASSUME BudgetInv, [Next]_vars, NEW q \in Request
      PROVE  Commitment(rows'[q]) >= Commitment(rows[q])
  <2>0. rows[q] \in Row /\ Commitment(rows[q]) \in Nat
    BY <1>1 DEF BudgetInv, TypeOK, Row, Commitment
  <2>1. Stays \/ \E p \in Request : Admits(p) \/ Settles(p)
    BY <1>1, StepKinds DEF BudgetInv
  <2>2. CASE rows'[q] = rows[q]
    BY <2>0, <2>2
  <2>3. ASSUME rows'[q] # rows[q], Admits(q)
        PROVE  Commitment(rows'[q]) >= Commitment(rows[q])
    <3>1. Commitment(rows[q]) = 0
      BY <1>1, <2>3 DEF Admits, BudgetInv, AbsentIsBlank, AbsentRow, Commitment
    <3>2. rows'[q] \in Row
      BY <1>1, <2>3 DEF Admits, BudgetInv, TypeOK
    <3>3. Commitment(rows'[q]) \in Nat
      BY <3>2 DEF Row, Commitment
    <3> QED BY <3>1, <3>3
  <2>4. ASSUME Settles(q)
        PROVE  Commitment(rows'[q]) >= Commitment(rows[q])
    BY <1>1, <2>4 DEF Settles, Resolves, BudgetInv, TypeOK
  <2>5. rows'[q] # rows[q] => Admits(q) \/ Settles(q)
    BY <1>1, <2>1 DEF Stays, Admits, Settles, BudgetInv, TypeOK
  <2> QED BY <2>2, <2>3, <2>4, <2>5
<1>2. BudgetInv /\ [Next]_vars =>
        [\A q \in Request : Commitment(rows'[q]) >= Commitment(rows[q])]_vars
  BY <1>1
<1> QED BY <1>2, AlwaysBudget, PTL DEF Spec, AllowanceNeverFreed

\* The shared stop is never lifted nor weakened, and admits nothing while it
\* stands (_trip(), reserve()).
THEOREM StopNeverLifted == Spec => StopIsDurable
<1>1. ASSUME BudgetInv, [Next]_vars, breaker # NoReason
      PROVE  /\ Priority(breaker') >= Priority(breaker)
             /\ \A q \in Request : rows[q].status = "absent" => rows'[q] = rows[q]
  <2>1. Stays \/ \E p \in Request : Admits(p) \/ Settles(p)
    BY <1>1, StepKinds DEF BudgetInv
  <2> QED BY <1>1, <2>1 DEF Stays, Admits, Settles, BudgetInv, TypeOK
<1>2. BudgetInv /\ [Next]_vars =>
        [breaker # NoReason =>
           /\ Priority(breaker') >= Priority(breaker)
           /\ \A q \in Request : rows[q].status = "absent" => rows'[q] = rows[q]]_vars
  BY <1>1
<1> QED BY <1>2, AlwaysBudget, PTL DEF Spec, StopIsDurable

LEMMA AlwaysMoney == Spec => []MoneyInv
<1>1. Init => MoneyInv
  BY MoneyInit
<1>2. MoneyInv /\ [Next]_vars => MoneyInv'
  BY MoneyStep
<1> QED BY <1>1, <1>2, PTL DEF Spec

\* The ceiling holds for any number of requests, workers, prices and late reports,
\* until a provider breaks the bound it was given (reserve(), settle()).
THEOREM CeilingAlwaysKept == Spec => []CeilingKept
<1>1. MoneyInv => CeilingKept
  BY DEF MoneyInv
<1> QED BY <1>1, AlwaysMoney, PTL

\* So does the burn rate of each worker, although the time it reads is older than
\* the rows it meets (reserve()).
THEOREM BurnRateAlwaysKept == Spec => []BurnRateKept
<1>1. MoneyInv => BurnRateKept
  BY DEF MoneyInv
<1> QED BY <1>1, AlwaysMoney, PTL
=============================================================================
