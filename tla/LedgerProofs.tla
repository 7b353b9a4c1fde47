---------------------------- MODULE LedgerProofs ----------------------------
(***************************************************************************)
(* Facts about the operators of Proposals and Ledger: what they return and *)
(* what they leave alone.  P stands for the set of proposals, E for the    *)
(* set of block entries.                                                   *)
(***************************************************************************)
EXTENDS Ledger, SequenceTheorems, FiniteSetTheorems, TLAPS

\* The order of the naturals, as a relation that theorem WFMin takes.
LEMMA NatOrder ==
  \E R : IsWellFoundedOn(R, Nat) /\ \A x, y \in Nat : <<y, x>> \in R <=> y < x
<1>1. \A x, y \in Nat : <<y, x>> \in OpToRel(<, Nat) <=> y < x
  BY DEF OpToRel
<1> QED
  BY <1>1, NatLessThanWellFounded, Zenon

\* A non-empty set of naturals has a least element.
LEMMA LeastNat ==
  ASSUME NEW T \in SUBSET Nat, T # {}
  PROVE  \E x \in T : \A y \in T : x <= y
<1>1. PICK R : IsWellFoundedOn(R, Nat) /\ \A x, y \in Nat : <<y, x>> \in R <=> y < x
  BY NatOrder
<1>2. PICK x \in T : \A y \in T : ~ (<<y, x>> \in R)
  BY <1>1, WFMin
<1>3. ASSUME NEW y \in T PROVE x <= y
  <2>1. x \in Nat /\ y \in Nat
    OBVIOUS
  <2>2. ~ (y < x)
    BY <1>1, <1>2, <2>1, Zenon
  <2> QED
    BY <2>1, <2>2
<1> QED
  BY <1>3

\* A set of positions is finite.
LEMMA PositionsFinite ==
  ASSUME NEW m \in Nat, NEW V \in SUBSET (1..m)
  PROVE  IsFiniteSet(V) /\ Cardinality(V) \in Nat
<1>1. IsFiniteSet(1..m)
  BY FS_Interval
<1>2. IsFiniteSet(V)
  BY <1>1, FS_Subset
<1> QED
  BY <1>2, FS_CardinalityType

\* The k-th smallest position of a set of positions is one of them (Nth): the
\* least i with k positions up to i is the k-th.
LEMMA NthIn ==
  ASSUME NEW m \in Nat, NEW V \in SUBSET (1..m), NEW k \in 1..Cardinality(V)
  PROVE  Nth(V, k) \in V /\ Cardinality({j \in V : j <= Nth(V, k)}) = k
<1> DEFINE Below(i) == {j \in V : j <= i}
<1>1. \A i : Below(i) \in SUBSET V
  OBVIOUS
<1>2. IsFiniteSet(V) /\ Cardinality(V) \in Nat
  BY PositionsFinite
<1>3. ASSUME NEW i PROVE IsFiniteSet(Below(i)) /\ Cardinality(Below(i)) \in Nat
  BY PositionsFinite
<1>4. Below(m) = V /\ Below(0) = {}
  <2>1. \A j \in V : j <= m /\ ~ (j <= 0)
    OBVIOUS
  <2> QED
    BY <2>1
<1> DEFINE T == {i \in Nat : Cardinality(Below(i)) >= k}
<1>5. m \in T /\ T \in SUBSET Nat
  BY <1>2, <1>4
<1> HIDE DEF Below
<1>6. PICK i \in T : \A y \in T : i <= y
  <2> HIDE DEF T
  <2> QED
    BY <1>5, LeastNat
<1>7. i \in Nat /\ Cardinality(Below(i)) >= k
  BY <1>6
<1>8. i # 0
  <2>1. Cardinality(Below(0)) = 0
    BY <1>4, FS_EmptySet
  <2> QED
    BY <1>7, <2>1
<1>9. Cardinality(Below(i - 1)) < k
  <2>1. i - 1 \in Nat /\ i - 1 \notin T
    BY <1>6, <1>7, <1>8
  <2>2. Cardinality(Below(i - 1)) \in Nat
    BY <1>3
  <2> QED
    BY <2>1, <2>2
<1>10. i \in V
  <2>1. ASSUME i \notin V PROVE Below(i) = Below(i - 1)
    <3>1. \A j \in V : j <= i <=> j <= i - 1
      BY <1>7, <2>1
    <3> QED
      BY <3>1 DEF Below
  <2>2. Cardinality(Below(i)) \in Nat
    BY <1>3
  <2> QED
    BY <1>7, <1>9, <2>1, <2>2
<1>11. Cardinality(Below(i)) = k
  <2>1. Below(i) = Below(i - 1) \cup {i} /\ i \notin Below(i - 1)
    <3>1. \A j \in V : j <= i <=> j <= i - 1 \/ j = i
      BY <1>7
    <3>2. ~ (i <= i - 1)
      BY <1>7
    <3> QED
      BY <1>10, <3>1, <3>2 DEF Below
  <2>2. IsFiniteSet(Below(i - 1)) /\ Cardinality(Below(i - 1)) \in Nat
    BY <1>3
  <2>3. Cardinality(Below(i - 1) \cup {i}) = Cardinality(Below(i - 1)) + 1
    BY <2>1, <2>2, FS_AddElement, Zenon
  <2> QED
    BY <1>7, <1>9, <2>1, <2>2, <2>3
<1> QED
  BY <1>10, <1>11 DEF Nth, Below

\* Picking positions of a sequence gives a sequence of its elements.
LEMMA PickType ==
  ASSUME NEW S, NEW s \in Seq(S), NEW V \in SUBSET (1..Len(s))
  PROVE  /\ Pick(s, V) \in Seq(S)
         /\ \A k \in DOMAIN Pick(s, V) : \E j \in V : Pick(s, V)[k] = s[j]
<1>1. Len(s) \in Nat
  BY LenProperties
<1>2. Cardinality(V) \in Nat
  BY <1>1, PositionsFinite
<1>3. \A k \in 1..Cardinality(V) : Nth(V, k) \in V
  BY <1>1, NthIn
<1>4. \A k \in 1..Cardinality(V) : s[Nth(V, k)] \in S
  BY <1>3, ElementOfSeq
<1>5. Pick(s, V) \in [1..Cardinality(V) -> S]
  BY <1>4 DEF Pick
<1>6. Pick(s, V) \in Seq(S)
  BY <1>2, <1>5
<1> QED
  BY <1>3, <1>6 DEF Pick

\* CheckProposals only sorts the proposals it is given.
LEMMA CheckProposalsType ==
  ASSUME NEW P, NEW ps \in Seq(P)
  PROVE  CheckProposals(ps) \in [valid : Seq(P), abandoned : Seq(P)]
<1>1. ValidPositions(ps) \in SUBSET (1..Len(ps)) /\ AbandonedPositions(ps) \in SUBSET (1..Len(ps))
  BY DEF ValidPositions, AbandonedPositions
<1> QED
  BY <1>1, PickType DEF CheckProposals

\* A non-empty set of positions has a greatest element.
LEMMA GreatestPosition ==
  ASSUME NEW m \in Nat, NEW V \in SUBSET (1..m), V # {}
  PROVE  \E x \in V : \A y \in V : y <= x
<1> DEFINE T == {m - x : x \in V}
<1>1. T \in SUBSET Nat /\ T # {}
  <2>1. \A x \in V : m - x \in Nat
    OBVIOUS
  <2>2. T \in SUBSET Nat
    BY <2>1, Zenon
  <2>3. PICK x \in V : TRUE
    OBVIOUS
  <2>4. m - x \in T
    BY <2>3, Zenon
  <2> QED
    BY <2>2, <2>4
<1>2. PICK t \in T : \A y \in T : t <= y
  <2> HIDE DEF T
  <2> QED
    BY <1>1, LeastNat
<1>3. PICK x \in V : t = m - x
  BY <1>2
<1>4. ASSUME NEW y \in V PROVE y <= x
  <2>1. m - x <= m - y
    BY <1>2, <1>3
  <2>2. x \in Int /\ y \in Int
    OBVIOUS
  <2> QED
    BY <2>1, <2>2
<1> QED
  BY <1>4

\* The proposals of a block are a sequence of proposals.
LEMMA ProposalsOfType ==
  ASSUME NEW P, NEW S, NEW blk \in Seq([ps : Seq(P), stamp : S])
  PROVE  ProposalsOf(blk) \in Seq(P)
<1>1. CASE blk = Genesis
  BY <1>1 DEF ProposalsOf
<1>2. CASE blk # Genesis
  <2>1. Len(blk) \in 1..Len(blk)
    BY <1>2, EmptySeq DEF Genesis
  <2>2. blk[Len(blk)] \in [ps : Seq(P), stamp : S]
    BY <2>1, ElementOfSeq
  <2> QED
    BY <1>2, <2>2 DEF ProposalsOf
<1> QED
  BY <1>1, <1>2

\* The ancestors of a block are blocks, and so is its predecessor.
LEMMA AncestorType ==
  ASSUME NEW E, NEW blk \in Seq(E), NEW h \in Nat, h <= Height(blk)
  PROVE  Ancestor(blk, h) \in Seq(E) /\ Height(Ancestor(blk, h)) = h
<1>1. Len(blk) \in Nat /\ \A i \in 1..h : blk[i] \in E
  BY LenProperties, ElementOfSeq DEF Height
<1> QED
  BY <1>1, SubSeqProperties DEF Ancestor, Height

\* The ancestors of an ancestor are ancestors.
LEMMA AncestorOfAncestor ==
  ASSUME NEW E, NEW blk \in Seq(E), NEW h \in 0..Height(blk), NEW g \in 0..h
  PROVE  Ancestor(Ancestor(blk, h), g) = Ancestor(blk, g)
<1>1. Len(blk) \in Nat /\ h \in Nat /\ g \in Nat /\ g <= h /\ h <= Len(blk)
  BY LenProperties DEF Height
<1>2. CASE g = 0
  BY <1>2, SubSeqEmpty DEF Ancestor
<1>3. CASE g # 0
  <2>1. /\ 1 \in 1..Len(blk) /\ h \in 1..Len(blk)
        /\ 1 \in 1..(h - 1 + 1) /\ g \in 1..(h - 1 + 1)
        /\ 1 + 1 - 1 = 1 /\ 1 + g - 1 = g
    BY <1>1, <1>3
  <2> QED
    BY <2>1, SubSeqOfSubSeq DEF Ancestor
<1> QED
  BY <1>2, <1>3

LEMMA PrevBlockType ==
  ASSUME NEW E, NEW blk \in Seq(E)
  PROVE  PrevBlock(blk) \in Seq(E)
<1>1. Len(blk) \in Nat /\ \A i \in 1..(Len(blk) - 1) : blk[i] \in E
  BY LenProperties, ElementOfSeq
<1> QED
  BY <1>1, SubSeqProperties DEF PrevBlock

\* Blockchain.Get answers with a proposal of the chain.
LEMMA LastMentionType ==
  ASSUME NEW P, NEW S, NEW l, l.tip \in Seq([ps : Seq(P), stamp : S]),
         NEW z, Mentions(l, z) # {}
  PROVE  LastMention(l, z) \in P
<1> DEFINE h  == CHOOSE h \in Mentions(l, z) : \A g \in Mentions(l, z) : g <= h
           ps == ProposalsOf(Ancestor(l.tip, h))
           V  == {i \in DOMAIN ps : ps[i].zone = z}
           i  == CHOOSE i \in DOMAIN ps : /\ ps[i].zone = z
                                         /\ \A j \in (i+1)..Len(ps) : ps[j].zone # z
<1>1. Height(l.tip) \in Nat /\ Mentions(l, z) \in SUBSET (1..Height(l.tip))
  BY LenProperties DEF Mentions, Height
<1>2. h \in Mentions(l, z)
  BY <1>1, GreatestPosition
<1>3. h \in 1..Height(l.tip) /\ z \in ZonesOf(Ancestor(l.tip, h))
  BY <1>2 DEF Mentions
<1> HIDE DEF h
<1>4. ps \in Seq(P)
  <2>1. h \in Nat /\ h <= Height(l.tip)
    BY <1>1, <1>3
  <2>2. Ancestor(l.tip, h) \in Seq([ps : Seq(P), stamp : S])
    BY <2>1, AncestorType, Zenon
  <2> QED
    BY <2>2, ProposalsOfType, Zenon
<1>5. V # {}
  BY <1>3 DEF ZonesOf
<1> HIDE DEF ps
<1>6. Len(ps) \in Nat /\ DOMAIN ps = 1..Len(ps)
  BY <1>4, LenProperties
<1>7. PICK x \in V : \A y \in V : y <= x
  BY <1>5, <1>6, GreatestPosition
<1>8. \A j \in (x+1)..Len(ps) : ps[j].zone # z
  BY <1>6, <1>7
<1>9. i \in DOMAIN ps
  BY <1>7, <1>8
<1>10. ps[i] \in P
  BY <1>4, <1>6, <1>9, ElementOfSeq
<1> QED
  BY <1>10 DEF LastMention, h, ps

\* A block is its own ancestor, and the ancestors of its predecessor are its own.
LEMMA AncestorsOfPrev ==
  ASSUME NEW E, NEW blk \in Seq(E)
  PROVE  /\ Ancestor(blk, Height(blk)) = blk
         /\ Height(blk) > 0 => /\ PrevBlock(blk) = Ancestor(blk, Height(blk) - 1)
                               /\ Height(PrevBlock(blk)) = Height(blk) - 1
                               /\ \A h \in 0..(Height(blk) - 1) :
                                    Ancestor(PrevBlock(blk), h) = Ancestor(blk, h)
<1>1. Height(blk) \in Nat /\ Len(blk) = Height(blk)
  BY LenProperties DEF Height
<1>2. Ancestor(blk, Height(blk)) = blk
  <2>1. Ancestor(blk, Height(blk)) \in Seq(E) /\ Height(Ancestor(blk, Height(blk))) = Height(blk)
    BY <1>1, AncestorType
  <2>2. \A i \in 1..Len(blk) : Ancestor(blk, Height(blk))[i] = blk[i]
    BY <1>1, SubSeqProperties DEF Ancestor
  <2> QED
    BY <1>1, <2>1, <2>2, SeqEqual DEF Height
<1>3. PrevBlock(blk) = Ancestor(blk, Height(blk) - 1)
  BY <1>1 DEF PrevBlock, Ancestor
<1>4. ASSUME Height(blk) > 0
      PROVE  /\ Height(PrevBlock(blk)) = Height(blk) - 1
             /\ \A h \in 0..(Height(blk) - 1) : Ancestor(PrevBlock(blk), h) = Ancestor(blk, h)
  <2>1. Height(blk) - 1 \in 0..Height(blk)
    BY <1>1, <1>4
  <2>2. Height(Ancestor(blk, Height(blk) - 1)) = Height(blk) - 1
    BY <1>1, <2>1, AncestorType
  <2>3. \A h \in 0..(Height(blk) - 1) :
          Ancestor(Ancestor(blk, Height(blk) - 1), h) = Ancestor(blk, h)
    BY <2>1, AncestorOfAncestor
  <2> QED
    BY <1>3, <2>2, <2>3
<1> QED
  BY <1>2, <1>3, <1>4

\* A lookup depends on the chain only...
LEMMA SameTipSameLookup ==
  ASSUME NEW k, NEW l, k.tip = l.tip, NEW z
  PROVE  OnChain(k, z) = OnChain(l, z)
BY DEF OnChain, Mentions, LastMention

\* ...and a block that does not touch the zone does not change it.
LEMMA LookupOfExtended ==
  ASSUME NEW E, NEW k, NEW l, k.tip \in Seq(E), Height(k.tip) > 0, PrevBlock(k.tip) = l.tip,
         NEW z, z \notin ZonesOf(k.tip)
  PROVE  OnChain(k, z) = OnChain(l, z)
<1>1. /\ Height(k.tip) \in Nat /\ Height(l.tip) = Height(k.tip) - 1
      /\ Ancestor(k.tip, Height(k.tip)) = k.tip
      /\ \A h \in 0..Height(l.tip) : Ancestor(k.tip, h) = Ancestor(l.tip, h)
  BY AncestorsOfPrev, LenProperties DEF Height
<1>2. Mentions(k, z) = Mentions(l, z)
  <2>1. Height(k.tip) \notin Mentions(k, z)
    BY <1>1 DEF Mentions
  <2>2. ASSUME NEW h \in 1..Height(l.tip) PROVE h \in Mentions(k, z) <=> h \in Mentions(l, z)
    BY <1>1 DEF Mentions
  <2>3. \A h \in 1..Height(k.tip) : h = Height(k.tip) \/ h \in 1..Height(l.tip)
    BY <1>1
  <2>4. Mentions(k, z) \subseteq 1..Height(l.tip) /\ Mentions(l, z) \subseteq 1..Height(l.tip)
    BY <2>1, <2>3 DEF Mentions
  <2> QED
    BY <2>2, <2>4
<1>3. CASE Mentions(k, z) # {}
  <2> DEFINE h == CHOOSE h \in Mentions(l, z) : \A g \in Mentions(l, z) : g <= h
  <2>1. Mentions(l, z) \in SUBSET (1..Height(l.tip)) /\ Height(l.tip) \in Nat
    BY <1>1 DEF Mentions
  <2>2. h \in Mentions(l, z)
    BY <1>2, <1>3, <2>1, GreatestPosition
  <2>3. Ancestor(k.tip, h) = Ancestor(l.tip, h)
    BY <1>1, <2>1, <2>2
  <2>4. (CHOOSE g \in Mentions(k, z) : \A j \in Mentions(k, z) : j <= g) = h
    BY <1>2
  <2> HIDE DEF h
  <2>5. LastMention(k, z) =
          LET ps == ProposalsOf(Ancestor(l.tip, h))
              i  == CHOOSE i \in DOMAIN ps : /\ ps[i].zone = z
                                            /\ \A j \in (i+1)..Len(ps) : ps[j].zone # z
          IN  ps[i]
    BY <2>3, <2>4 DEF LastMention
  <2>6. LastMention(k, z) = LastMention(l, z)
    BY <2>5 DEF LastMention, h
  <2> QED
    BY <1>2, <2>6 DEF OnChain
<1> QED
  BY <1>2, <1>3 DEF OnChain
=============================================================================
