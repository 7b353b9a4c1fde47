--------------------------- MODULE ProposalsProofs ---------------------------
(***************************************************************************)
(* Proofs about the leader's batch filter: what it makes of a pool passes  *)
(* the replicas' filter, and no proposal gets lost in it.                  *)
(***************************************************************************)
EXTENDS MCProposals, LedgerProofs

----------------------------------------------------------------------------
(* Positions.                                                              *)

\* The positions up to i, for two positions in V.
LEMMA FewerBelow ==
  ASSUME NEW m \in Nat, NEW V \in SUBSET (1..m), NEW i \in V, NEW j \in V, i < j
  PROVE  Cardinality({x \in V : x <= i}) < Cardinality({x \in V : x <= j})
<1> DEFINE B(k) == {x \in V : x <= k}
<1>1. /\ IsFiniteSet(B(i)) /\ Cardinality(B(i)) \in Nat
      /\ IsFiniteSet(B(j)) /\ Cardinality(B(j)) \in Nat
  <2>1. B(i) \in SUBSET (1..m) /\ B(j) \in SUBSET (1..m)
    OBVIOUS
  <2> HIDE DEF B
  <2> QED
    BY <2>1, PositionsFinite
<1>2. B(i) \subseteq B(j) /\ j \in B(j) /\ j \notin B(i)
  <2>1. \A x \in V : x \in Nat
    OBVIOUS
  <2>2. \A x \in V : x <= i => x <= j
    BY <2>1
  <2>3. ~ (j <= i) /\ j <= j
    BY <2>1
  <2> QED
    BY <2>2, <2>3
<1> HIDE DEF B
<1>3. Cardinality(B(i)) <= Cardinality(B(j)) /\ Cardinality(B(i)) # Cardinality(B(j))
  BY <1>1, <1>2, FS_Subset
<1>4. Cardinality(B(i)) < Cardinality(B(j))
  BY <1>1, <1>3
<1> QED
  BY <1>4 DEF B

\* Every position of V is the k-th smallest one for some k.
LEMMA NthOnto ==
  ASSUME NEW m \in Nat, NEW V \in SUBSET (1..m), NEW i \in V
  PROVE  \E k \in 1..Cardinality(V) : Nth(V, k) = i
<1> DEFINE B == {x \in V : x <= i}
           k == Cardinality(B)
<1>1. IsFiniteSet(V) /\ Cardinality(V) \in Nat
  BY PositionsFinite
<1>2. B \subseteq V /\ i \in B
  OBVIOUS
<1>3. IsFiniteSet(B) /\ k \in Nat /\ k <= Cardinality(V) /\ k # 0
  <2> HIDE DEF B
  <2> QED
    BY <1>1, <1>2, FS_Subset, FS_CardinalityType, FS_EmptySet
<1> HIDE DEF B
<1>4. k \in 1..Cardinality(V)
  BY <1>1, <1>3
<1>5. Nth(V, k) \in V /\ Cardinality({x \in V : x <= Nth(V, k)}) = k
  BY <1>4, NthIn
<1> DEFINE h == Nth(V, k)
<1> HIDE DEF B
<1>6. h \in V /\ h \in Nat /\ i \in Nat /\ Cardinality({x \in V : x <= h}) = k
  <2>1. \A x \in V : x \in Nat
    OBVIOUS
  <2> HIDE DEF k
  <2> QED
    BY <1>5, <2>1
<1> HIDE DEF h
<1>7. ~ (h < i) /\ ~ (i < h)
  <2>1. Cardinality({x \in V : x <= i}) = Cardinality({x \in V : x <= h})
    BY <1>6 DEF B
  <2>2. Cardinality({x \in V : x <= i}) \in Nat
    BY <1>3 DEF B
  <2>3. h < i => Cardinality({x \in V : x <= h}) < Cardinality({x \in V : x <= i})
    BY <1>6, FewerBelow
  <2>4. i < h => Cardinality({x \in V : x <= i}) < Cardinality({x \in V : x <= h})
    BY <1>6, FewerBelow
  <2> QED
    BY <2>1, <2>2, <2>3, <2>4
<1>8. Nth(V, k) = i
  BY <1>6, <1>7 DEF h
<1> QED
  BY <1>4, <1>8

\* Nth lists V in ascending order.
LEMMA NthAscends ==
  ASSUME NEW m \in Nat, NEW V \in SUBSET (1..m),
         NEW k \in 1..Cardinality(V), NEW l \in 1..Cardinality(V)
  PROVE  k < l <=> Nth(V, k) < Nth(V, l)
<1>1. Cardinality(V) \in Nat
  BY PositionsFinite
<1>2. /\ Nth(V, k) \in V /\ Cardinality({x \in V : x <= Nth(V, k)}) = k
      /\ Nth(V, l) \in V /\ Cardinality({x \in V : x <= Nth(V, l)}) = l
  BY NthIn
<1>3. Nth(V, k) < Nth(V, l) => k < l
  BY <1>2, FewerBelow
<1>4. Nth(V, l) < Nth(V, k) => l < k
  BY <1>2, FewerBelow
<1>5. Nth(V, k) = Nth(V, l) => k = l
  BY <1>2
<1>6. Nth(V, k) \in Nat /\ Nth(V, l) \in Nat /\ k \in Nat /\ l \in Nat
  <2>1. \A x \in V : x \in Nat
    OBVIOUS
  <2>2. k \in Nat /\ l \in Nat
    BY <1>1
  <2> QED
    BY <1>2, <2>1, <2>2
<1> QED
  BY <1>3, <1>4, <1>5, <1>6

\* All positions, in order.
LEMMA NthOfAll ==
  ASSUME NEW m \in Nat, NEW k \in 1..m
  PROVE  Cardinality(1..m) = m /\ Nth(1..m, k) = k
<1>1. Cardinality(1..m) = m
  BY FS_Interval
<1>2. \A i \in 1..m : Cardinality({x \in 1..m : x <= i}) = i
  <2> TAKE i \in 1..m
  <2>1. {x \in 1..m : x <= i} = 1..i
    OBVIOUS
  <2>2. Cardinality(1..i) = i
    BY FS_Interval
  <2> QED
    BY <2>1, <2>2
<1>3. Nth(1..m, k) \in 1..m /\ Cardinality({x \in 1..m : x <= Nth(1..m, k)}) = k
  BY <1>1, NthIn
<1> QED
  BY <1>1, <1>2, <1>3

\* What Pick returns.
LEMMA PickProperties ==
  ASSUME NEW S, NEW s \in Seq(S), NEW V \in SUBSET (1..Len(s))
  PROVE  /\ Pick(s, V) \in Seq(S)
         /\ Len(Pick(s, V)) = Cardinality(V)
         /\ \A k \in 1..Len(Pick(s, V)) : Nth(V, k) \in V /\ Pick(s, V)[k] = s[Nth(V, k)]
<1>1. Len(s) \in Nat
  BY LenProperties
<1>2. Cardinality(V) \in Nat
  BY <1>1, PositionsFinite
<1>3. Pick(s, V) \in Seq(S)
  BY PickType
<1>4. DOMAIN Pick(s, V) = 1..Cardinality(V)
  BY DEF Pick
<1>5. Len(Pick(s, V)) = Cardinality(V)
  BY <1>2, <1>3, <1>4, LenProperties
<1> QED
  BY <1>1, <1>3, <1>5, NthIn DEF Pick

\* The elements of a concatenation, part by part.
LEMMA ConcatParts ==
  ASSUME NEW S, NEW v \in Seq(S), NEW a \in Seq(S)
  PROVE  /\ v \o a \in Seq(S)
         /\ Len(v) \in Nat /\ Len(a) \in Nat /\ Len(v \o a) = Len(v) + Len(a)
         /\ \A k \in 1..Len(v) : (v \o a)[k] = v[k]
         /\ \A k \in 1..Len(v \o a) : k > Len(v) => (v \o a)[k] = a[k - Len(v)]
<1>1. Len(v) \in Nat /\ Len(a) \in Nat
  BY LenProperties
<1>2. /\ v \o a \in Seq(S) /\ Len(v \o a) = Len(v) + Len(a)
      /\ \A k \in 1..(Len(v) + Len(a)) :
           (v \o a)[k] = IF k <= Len(v) THEN v[k] ELSE a[k - Len(v)]
  BY ConcatProperties
<1>3. ASSUME NEW k \in 1..Len(v) PROVE (v \o a)[k] = v[k]
  <2>1. k \in 1..(Len(v) + Len(a)) /\ k <= Len(v)
    BY <1>1
  <2> QED
    BY <1>2, <2>1
<1>4. ASSUME NEW k \in 1..Len(v \o a), k > Len(v) PROVE (v \o a)[k] = a[k - Len(v)]
  <2>1. k \in 1..(Len(v) + Len(a)) /\ ~ (k <= Len(v))
    BY <1>1, <1>2, <1>4
  <2> QED
    BY <1>2, <2>1
<1> QED
  BY <1>1, <1>2, <1>3, <1>4

----------------------------------------------------------------------------
(* The first proposal of a zone.                                           *)

LEMMA FirstOfZoneIs ==
  ASSUME NEW ps, NEW i \in Nat, NEW j \in 1..i, ps[j].zone = ps[i].zone,
         \A k \in 1..(j - 1) : ps[k].zone # ps[i].zone
  PROVE  FirstOfZone(ps, i) = j
<1> DEFINE First(x) == /\ ps[x].zone = ps[i].zone
                       /\ \A k \in 1..(x - 1) : ps[k].zone # ps[i].zone
<1>1. j \in 1..i /\ First(j)
  OBVIOUS
<1>2. ASSUME NEW x \in 1..i, First(x) PROVE x = j
  <2>1. x \in Int /\ j \in Int /\ x >= 1 /\ j >= 1
    OBVIOUS
  <2>2. ~ (x < j)
    <3>1. x < j => x \in 1..(j - 1)
      BY <2>1
    <3> QED
      BY <1>2, <3>1
  <2>3. ~ (j < x)
    <3>1. j < x => j \in 1..(x - 1)
      BY <2>1
    <3> QED
      BY <1>2, <3>1
  <2> QED
    BY <2>1, <2>2, <2>3
<1> QED
  BY <1>1, <1>2 DEF FirstOfZone

LEMMA FirstOfZoneExists ==
  ASSUME NEW ps, NEW i \in Nat, i # 0
  PROVE  LET j == FirstOfZone(ps, i)
         IN  /\ j \in 1..i
             /\ ps[j].zone = ps[i].zone
             /\ \A k \in 1..(j - 1) : ps[k].zone # ps[i].zone
             /\ FirstOfZone(ps, j) = j
<1> DEFINE T == {x \in 1..i : ps[x].zone = ps[i].zone}
<1>1. T \in SUBSET Nat /\ T \in SUBSET (1..i) /\ i \in T
  OBVIOUS
<1>2. PICK x \in T : \A y \in T : x <= y
  <2> HIDE DEF T
  <2> QED
    BY <1>1, LeastNat
<1>3. x \in 1..i /\ ps[x].zone = ps[i].zone
  BY <1>2
<1>4. ASSUME NEW k \in 1..(x - 1) PROVE ps[k].zone # ps[i].zone
  <2>1. k \in 1..i /\ ~ (x <= k)
    BY <1>3
  <2> QED
    BY <1>2, <2>1
<1>5. FirstOfZone(ps, i) = x
  BY <1>3, <1>4, FirstOfZoneIs
<1>6. x \in Nat /\ x \in 1..x /\ \A k \in 1..(x - 1) : ps[k].zone # ps[x].zone
  BY <1>3, <1>4
<1>7. FirstOfZone(ps, x) = x
  BY <1>6, FirstOfZoneIs
<1> QED
  BY <1>3, <1>4, <1>5, <1>7

\* The first proposal of a zone is valid.
LEMMA FirstIsValid ==
  ASSUME NEW S, NEW ps \in Seq(S), NEW i \in 1..Len(ps)
  PROVE  FirstOfZone(ps, i) \in ValidPositions(ps)
<1>1. i \in Nat /\ i # 0 /\ Len(ps) \in Nat
  BY LenProperties
<1>2. FirstOfZone(ps, i) \in 1..i /\ FirstOfZone(ps, FirstOfZone(ps, i)) = FirstOfZone(ps, i)
  BY <1>1, FirstOfZoneExists
<1>3. FirstOfZone(ps, i) \in 1..Len(ps)
  BY <1>1, <1>2
<1> QED
  BY <1>2, <1>3 DEF ValidPositions

----------------------------------------------------------------------------
(* The filter on its own result.                                           *)

\* The first proposal of a zone keeps that place when the filter's result is
\* written out, the valid proposals before the abandoned ones.  Position p of
\* the result is that of proposal i of the pool.
LEMMA FirstStaysFirst ==
  ASSUME NEW S, NEW s \in Seq(S), NEW i \in 1..Len(s), NEW a \in Seq(S),
         NEW p \in 1..Len(Pick(s, ValidPositions(s)) \o a),
         (Pick(s, ValidPositions(s)) \o a)[p] = s[i],
         \/ p > Len(Pick(s, ValidPositions(s)))
         \/ Nth(ValidPositions(s), p) = i
  PROVE  LET t == Pick(s, ValidPositions(s)) \o a
             q == FirstOfZone(t, p)
         IN  /\ q \in 1..Len(Pick(s, ValidPositions(s)))
             /\ Nth(ValidPositions(s), q) = FirstOfZone(s, i)
             /\ t[q] = s[FirstOfZone(s, i)]
<1> DEFINE V == ValidPositions(s)
           v == Pick(s, V)
           t == v \o a
           f == FirstOfZone(s, i)
<1>1. Len(s) \in Nat /\ i \in Nat /\ i # 0
  BY LenProperties
<1>2. V \in SUBSET (1..Len(s))
  BY DEF ValidPositions
<1>3. f \in V
  BY FirstIsValid
<1>4. /\ f \in 1..i /\ s[f].zone = s[i].zone
      /\ \A k \in 1..(f - 1) : s[k].zone # s[i].zone
  BY <1>1, FirstOfZoneExists
<1> HIDE DEF V, f
<1>5. /\ v \in Seq(S) /\ Len(v) = Cardinality(V)
      /\ \A k \in 1..Len(v) : Nth(V, k) \in V /\ v[k] = s[Nth(V, k)]
  BY <1>2, PickProperties
<1>6. PICK q \in 1..Cardinality(V) : Nth(V, q) = f
  BY <1>1, <1>2, <1>3, NthOnto
<1> HIDE DEF v
<1>7. /\ t \in Seq(S) /\ Len(v) \in Nat /\ Len(a) \in Nat /\ Len(t) = Len(v) + Len(a)
      /\ \A k \in 1..Len(v) : t[k] = v[k]
  BY <1>5, ConcatParts
<1>8. p \in 1..Len(t) /\ t[p] = s[i] /\ (p > Len(v) \/ Nth(V, p) = i)
  BY DEF v, V
<1> HIDE DEF t
<1>9. q \in 1..Len(v) /\ q \in Nat /\ q # 0 /\ p \in Nat /\ p # 0
  BY <1>5, <1>6, <1>7, <1>8
<1>10. t[q] = s[f]
  BY <1>5, <1>6, <1>7, <1>9
<1>11. q <= p
  <2>1. CASE p > Len(v)
    BY <1>7, <1>9, <2>1
  <2>2. CASE ~ (p > Len(v))
    <3>1. p \in 1..Cardinality(V) /\ Nth(V, p) = i
      BY <1>5, <1>7, <1>8, <1>9, <2>2
    <3>2. p < q <=> i < f
      BY <1>1, <1>2, <1>6, <3>1, NthAscends
    <3> QED
      BY <1>1, <1>4, <1>9, <3>2
  <2> QED
    BY <2>1, <2>2
<1>12. ASSUME NEW k \in 1..(q - 1) PROVE t[k].zone # t[p].zone
  <2>1. k \in 1..Len(v) /\ k < q
    BY <1>7, <1>9
  <2>2. k \in 1..Cardinality(V)
    BY <1>5, <2>1
  <2>3. k < q <=> Nth(V, k) < Nth(V, q)
    BY <1>1, <1>2, <1>6, <2>2, NthAscends
  <2>4. Nth(V, k) \in 1..Len(s) /\ Nth(V, k) < f
    BY <1>2, <1>5, <1>6, <2>1, <2>3
  <2>5. Nth(V, k) \in 1..(f - 1)
    BY <1>1, <1>4, <2>4
  <2>6. t[k] = s[Nth(V, k)]
    BY <1>5, <1>7, <2>1
  <2> QED
    BY <1>4, <1>8, <2>5, <2>6
<1>13. q \in 1..p /\ t[q].zone = t[p].zone
  BY <1>4, <1>8, <1>9, <1>10, <1>11
<1>14. FirstOfZone(t, p) = q
  BY <1>9, <1>12, <1>13, FirstOfZoneIs
<1> QED
  BY <1>6, <1>9, <1>10, <1>14 DEF t, v, V, f

\* So the filter finds just the same valid ones again.
LEMMA ValidPositionsAgain ==
  ASSUME NEW S, NEW s \in Seq(S)
  PROVE  ValidPositions(CheckProposals(s).valid \o CheckProposals(s).abandoned)
           = 1..Len(CheckProposals(s).valid)
<1> DEFINE V == ValidPositions(s)
           A == AbandonedPositions(s)
           v == Pick(s, V)
           a == Pick(s, A)
           t == v \o a
<1>1. Len(s) \in Nat /\ V \in SUBSET (1..Len(s)) /\ A \in SUBSET (1..Len(s))
  BY LenProperties DEF ValidPositions, AbandonedPositions
<1>2. /\ \A i \in V : \/ FirstOfZone(s, i) = i
                      \/ /\ s[i].id # s[FirstOfZone(s, i)].id
                         /\ Compatible(s[i], s[FirstOfZone(s, i)])
      /\ \A i \in A : /\ s[i].id # s[FirstOfZone(s, i)].id
                      /\ ~ Compatible(s[i], s[FirstOfZone(s, i)])
  BY DEF ValidPositions, AbandonedPositions
<1>3. CheckProposals(s).valid = v /\ CheckProposals(s).abandoned = a
  BY DEF CheckProposals
<1> HIDE DEF A
<1>4. /\ a \in Seq(S) /\ Len(a) = Cardinality(A)
      /\ \A k \in 1..Len(a) : Nth(A, k) \in A /\ a[k] = s[Nth(A, k)]
  BY <1>1, PickProperties
<1> HIDE DEF a
<1>5. /\ v \in Seq(S) /\ Len(v) = Cardinality(V)
      /\ \A k \in 1..Len(v) : Nth(V, k) \in V /\ v[k] = s[Nth(V, k)]
  BY <1>1, PickProperties
<1>6. /\ t \in Seq(S) /\ Len(v) \in Nat /\ Len(a) \in Nat /\ Len(t) = Len(v) + Len(a)
      /\ \A k \in 1..Len(v) : t[k] = v[k]
      /\ \A k \in 1..Len(t) : k > Len(v) => t[k] = a[k - Len(v)]
  BY <1>4, <1>5, ConcatParts
<1>7. ASSUME NEW p \in 1..Len(v) PROVE p \in ValidPositions(t)
  <2>1. PICK i \in V : Nth(V, p) = i /\ v[p] = s[i]
    BY <1>5
  <2>2. p \in 1..Len(t) /\ t[p] = s[i] /\ i \in 1..Len(s)
    BY <1>1, <1>6, <2>1
  <2>3. /\ FirstOfZone(t, p) \in 1..Len(v)
        /\ Nth(V, FirstOfZone(t, p)) = FirstOfZone(s, i)
        /\ t[FirstOfZone(t, p)] = s[FirstOfZone(s, i)]
    BY <1>4, <2>1, <2>2, FirstStaysFirst
  <2>4. ASSUME FirstOfZone(s, i) = i PROVE FirstOfZone(t, p) = p
    <3> DEFINE q == FirstOfZone(t, p)
    <3>1. q \in 1..Cardinality(V) /\ p \in 1..Cardinality(V) /\ Nth(V, q) = Nth(V, p)
      BY <1>5, <2>1, <2>3, <2>4
    <3> HIDE DEF q, V
    <3>2. /\ Cardinality({x \in V : x <= Nth(V, q)}) = q
          /\ Cardinality({x \in V : x <= Nth(V, p)}) = p
      BY <1>1, <3>1, NthIn
    <3>3. q = p
      BY <3>1, <3>2
    <3> QED
      BY <3>3 DEF q
  <2>5. \/ FirstOfZone(t, p) = p
        \/ t[p].id # t[FirstOfZone(t, p)].id /\ Compatible(t[p], t[FirstOfZone(t, p)])
    <3> HIDE DEF t, V
    <3> QED
      BY <1>2, <2>2, <2>3, <2>4
  <2> QED
    BY <2>2, <2>5 DEF ValidPositions
<1>8. ASSUME NEW p \in 1..Len(t), p > Len(v) PROVE p \notin ValidPositions(t)
  <2>1. p - Len(v) \in 1..Len(a) /\ t[p] = a[p - Len(v)]
    BY <1>6, <1>8
  <2>2. PICK i \in A : t[p] = s[i]
    BY <1>4, <2>1
  <2>3. i \in 1..Len(s)
    BY <1>1, <2>2
  <2>4. /\ FirstOfZone(t, p) \in 1..Len(v)
        /\ t[FirstOfZone(t, p)] = s[FirstOfZone(s, i)]
    BY <1>4, <1>8, <2>2, <2>3, FirstStaysFirst
  <2>5. FirstOfZone(t, p) # p
    BY <1>6, <1>8, <2>4
  <2>6. ~ Compatible(t[p], t[FirstOfZone(t, p)])
    BY <1>2, <2>2, <2>4
  <2> QED
    BY <2>5, <2>6 DEF ValidPositions
<1>9. ValidPositions(t) \in SUBSET (1..Len(t)) /\ \A p \in 1..Len(v) : p \in 1..Len(t)
  BY <1>6 DEF ValidPositions
<1> HIDE DEF t, v
<1>10. ValidPositions(t) = 1..Len(v)
  <2>1. \A p \in ValidPositions(t) : p \in 1..Len(t) /\ ~ (p > Len(v))
    BY <1>8, <1>9
  <2>2. \A p \in 1..Len(t) : ~ (p > Len(v)) => p \in 1..Len(v)
    BY <1>6
  <2> QED
    BY <1>7, <2>1, <2>2
<1> QED
  BY <1>3, <1>10 DEF t

\* What the leader's filter makes of a pool passes the replicas' filter.
LEMMA FilterAccepted ==
  ASSUME NEW S, NEW s \in Seq(S)
  PROVE  ValidateProposals(CheckProposals(s).valid, CheckProposals(s).abandoned)
<1> DEFINE v == CheckProposals(s).valid
           a == CheckProposals(s).abandoned
           t == v \o a
           m == Len(v)
<1>1. v \in Seq(S) /\ a \in Seq(S)
  BY CheckProposalsType
<1> HIDE DEF v, a
<1>2. t \in Seq(S) /\ m \in Nat /\ Len(t) = m + Len(a) /\ \A k \in 1..m : t[k] = v[k]
  BY <1>1, ConcatParts
<1>3. ValidPositions(t) = 1..m
  BY ValidPositionsAgain DEF v, a
<1> HIDE DEF t
<1>4. 1..m \in SUBSET (1..Len(t))
  BY <1>3 DEF ValidPositions
<1>5. /\ Pick(t, 1..m) \in Seq(S)
      /\ Len(Pick(t, 1..m)) = Cardinality(1..m)
      /\ \A k \in 1..Len(Pick(t, 1..m)) : Pick(t, 1..m)[k] = t[Nth(1..m, k)]
  BY <1>2, <1>4, PickProperties
<1>6. Cardinality(1..m) = m /\ \A k \in 1..m : Nth(1..m, k) = k
  <2>1. ASSUME NEW n \in Nat PROVE Cardinality(1..n) = n
    BY FS_Interval
  <2> QED
    BY <1>2, <2>1, NthOfAll
<1>7. Len(Pick(t, 1..m)) = m /\ \A k \in 1..m : Pick(t, 1..m)[k] = v[k]
  BY <1>2, <1>5, <1>6
<1>8. Pick(t, 1..m) = v
  BY <1>1, <1>5, <1>7, SeqEqual
<1>9. CheckProposals(t).valid = v
  BY <1>3, <1>8 DEF CheckProposals
<1> QED
  BY <1>9 DEF ValidateProposals, t, v, a

\* Every proposal of the pool is in the filter's result, or has the identity of
\* one that is among the valid ones.
LEMMA FilterKeeps ==
  ASSUME NEW S, NEW s \in Seq(S), NEW i \in 1..Len(s)
  PROVE  \/ \E j \in 1..Len(CheckProposals(s).valid) : CheckProposals(s).valid[j].id = s[i].id
         \/ \E j \in 1..Len(CheckProposals(s).abandoned) :
               CheckProposals(s).abandoned[j].id = s[i].id
<1> DEFINE V == ValidPositions(s)
           A == AbandonedPositions(s)
           f == FirstOfZone(s, i)
<1>1. Len(s) \in Nat /\ V \in SUBSET (1..Len(s)) /\ A \in SUBSET (1..Len(s))
  BY LenProperties DEF ValidPositions, AbandonedPositions
<1>2. f \in V
  BY FirstIsValid
<1>3. i \in V \/ i \in A \/ s[i].id = s[f].id
  BY DEF ValidPositions, AbandonedPositions
<1>4. CheckProposals(s).valid = Pick(s, V) /\ CheckProposals(s).abandoned = Pick(s, A)
  BY DEF CheckProposals
<1> HIDE DEF V, A, f
<1>5. ASSUME NEW W \in SUBSET (1..Len(s)), NEW x \in W
      PROVE  \E j \in 1..Len(Pick(s, W)) : Pick(s, W)[j] = s[x]
  <2>1. PICK k \in 1..Cardinality(W) : Nth(W, k) = x
    BY <1>1, NthOnto
  <2>2. /\ Len(Pick(s, W)) = Cardinality(W)
        /\ \A k_1 \in 1..Len(Pick(s, W)) : Pick(s, W)[k_1] = s[Nth(W, k_1)]
    BY PickProperties
  <2> QED
    BY <2>1, <2>2
<1>6. CASE i \in A
  <2>1. PICK j \in 1..Len(Pick(s, A)) : Pick(s, A)[j] = s[i]
    BY <1>1, <1>5, <1>6
  <2> QED
    BY <1>4, <2>1
<1>7. CASE i \in V
  <2>1. PICK j \in 1..Len(Pick(s, V)) : Pick(s, V)[j] = s[i]
    BY <1>1, <1>5, <1>7
  <2> QED
    BY <1>4, <2>1
<1>8. CASE s[i].id = s[f].id
  <2>1. PICK j \in 1..Len(Pick(s, V)) : Pick(s, V)[j] = s[f]
    BY <1>1, <1>2, <1>5
  <2> QED
    BY <1>4, <1>8, <2>1
<1> QED
  BY <1>3, <1>6, <1>7, <1>8

----------------------------------------------------------------------------
(* The theorems.  The pool is a sequence of proposals, whatever its bound.  *)

LEMMA PoolInductive == Spec => [](pool \in Seq(Proposal))
<1>1. Init => pool \in Seq(Proposal)
  BY EmptySeq DEF Init
<1>2. pool \in Seq(Proposal) /\ [Next]_pool => (pool \in Seq(Proposal))'
  <2> SUFFICES ASSUME pool \in Seq(Proposal), [Next]_pool PROVE pool' \in Seq(Proposal)
    OBVIOUS
  <2>1. ASSUME NEW p \in Proposal, AddProposal(p) PROVE pool' \in Seq(Proposal)
    BY <2>1, AppendProperties DEF AddProposal
  <2> QED
    BY <2>1 DEF Next
<1> QED
  BY <1>1, <1>2, PTL DEF Spec

\* A block made of the leader's batch passes ValidateProposals on every replica,
\* for pools of any length over any zones and hosts.
THEOREM BatchAccepted == Spec => []LeaderBatchAccepted
<1>1. pool \in Seq(Proposal) => LeaderBatchAccepted
  BY FilterAccepted DEF LeaderBatchAccepted, batch
<1> QED
  BY <1>1, PoolInductive, PTL

\* No proposal of a pool disappears in CheckProposals: it goes into the block,
\* or to the abandoned ones, or is a copy of one that does.
THEOREM NoProposalLost == Spec => []NothingLost
<1>1. pool \in Seq(Proposal) => NothingLost
  <2> SUFFICES ASSUME pool \in Seq(Proposal), NEW i \in DOMAIN pool
               PROVE  \/ \E j \in DOMAIN batch.valid : batch.valid[j].id = pool[i].id
                      \/ \E j \in DOMAIN batch.abandoned : batch.abandoned[j].id = pool[i].id
    BY DEF NothingLost
  <2>1. batch.valid \in Seq(Proposal) /\ batch.abandoned \in Seq(Proposal)
    BY CheckProposalsType DEF batch
  <2>2. /\ DOMAIN batch.valid = 1..Len(batch.valid)
        /\ DOMAIN batch.abandoned = 1..Len(batch.abandoned)
        /\ i \in 1..Len(pool)
    BY <2>1, LenProperties
  <2> QED
    BY <2>2, FilterKeeps DEF batch
<1> QED
  BY <1>1, PoolInductive, PTL
=============================================================================
