--------------------------- MODULE ElectionProofs ---------------------------
(***************************************************************************)
(* Proofs about Election: a list of a node names nobody more than twice,   *)
(* whoever dialled whom, so that the elected leader is known to F + 1      *)
(* nodes, and to a quorum where no two nodes dialled each other; a quorum  *)
(* of lists names somebody often enough; and where everybody dials         *)
(* everybody, nobody is left without a view.                               *)
(* LedgerProofs is extended for its lemma on the naturals, LeastNat.       *)
(***************************************************************************)
EXTENDS Election, LedgerProofs

LEMMA NodeFacts == N \in Nat \ {0} /\ Node \in SUBSET Nat /\ Up \in SUBSET Node /\ Dials \in SUBSET (Up \X Up)
BY MembershipAssumption DEF Node

----------------------------------------------------------------------------
(* Counting in lists.                                                      *)

\* f sums up a, from the first element on.
IsSum(f, a, m) == f = [j \in 0..m |-> IF j = 0 THEN 0 ELSE f[j - 1] + a[j - 1]]

LEMMA SumExists ==
  ASSUME NEW a, NEW m \in Nat
  PROVE  \E f : IsSum(f, a, m)
<1> DEFINE T == {i \in Nat : ~ \E f : IsSum(f, a, i)}
<1> SUFFICES ASSUME T # {} PROVE FALSE
  OBVIOUS
<1>1. PICK i \in T : \A y \in T : i <= y
  <2>1. T \in SUBSET Nat
    OBVIOUS
  <2> HIDE DEF T
  <2> QED
    BY <2>1, LeastNat
<1>2. i \in Nat /\ ~ \E f : IsSum(f, a, i)
  BY <1>1
<1>3. i # 0
  <2>1. IsSum([j \in 0..0 |-> 0], a, 0)
    BY DEF IsSum
  <2> QED
    BY <1>2, <2>1
<1>4. PICK f : IsSum(f, a, i - 1)
  <2>1. i - 1 \in Nat /\ ~ (i <= i - 1)
    BY <1>2, <1>3
  <2>2. i - 1 \notin T
    BY <1>1, <2>1
  <2> QED
    BY <2>1, <2>2
<1> DEFINE g == [j \in 0..i |-> IF j = i THEN f[i - 1] + a[i - 1] ELSE f[j]]
<1>5. ASSUME NEW j \in 0..i PROVE g[j] = IF j = 0 THEN 0 ELSE g[j - 1] + a[j - 1]
  <2>1. CASE j = 0
    <3>1. 0 \in 0..(i - 1) /\ j # i
      BY <1>2, <1>3, <2>1
    <3> QED
      BY <1>4, <2>1, <3>1 DEF IsSum
  <2>2. CASE j = i
    <3>1. i - 1 \in 0..i /\ i - 1 # i
      BY <1>2, <1>3
    <3> QED
      BY <1>2, <1>3, <2>2, <3>1
  <2>3. CASE j # 0 /\ j # i
    <3>1. j \in 0..(i - 1) /\ j - 1 \in 0..i /\ j - 1 # i
      BY <1>2, <2>3
    <3>2. f[j] = f[j - 1] + a[j - 1]
      BY <1>4, <2>3, <3>1 DEF IsSum
    <3> QED
      BY <2>3, <3>1, <3>2
  <2> QED
    BY <2>1, <2>2, <2>3
<1>6. IsSum(g, a, i)
  BY <1>5 DEF IsSum
<1> QED
  BY <1>2, <1>6

\* How often k is listed.
Column(lists, k) == [j \in Node |-> lists[j][k]]

LEMMA ListedIsSum ==
  ASSUME NEW lists, NEW k
  PROVE  \E f : IsSum(f, Column(lists, k), N) /\ Listed(lists, k) = f[N]
<1> DEFINE R(f) == f = [j \in 0..N |-> IF j = 0 THEN 0 ELSE f[j - 1] + lists[j - 1][k]]
           s == CHOOSE f : R(f)
<1>1. Listed(lists, k) = s[N]
  BY DEF Listed
<1>2. ASSUME NEW f PROVE IsSum(f, Column(lists, k), N) <=> R(f)
  <2>1. ASSUME NEW j \in 0..N, j # 0 PROVE Column(lists, k)[j - 1] = lists[j - 1][k]
    <3>1. j - 1 \in Node
      BY <2>1, NodeFacts DEF Node
    <3> QED
      BY <3>1 DEF Column
  <2>2. [j \in 0..N |-> IF j = 0 THEN 0 ELSE f[j - 1] + Column(lists, k)[j - 1]]
          = [j \in 0..N |-> IF j = 0 THEN 0 ELSE f[j - 1] + lists[j - 1][k]]
    BY <2>1
  <2> QED
    BY <2>2 DEF IsSum
<1>3. \E f : R(f)
  BY <1>2, NodeFacts, SumExists
<1> HIDE DEF R
<1>4. R(s)
  BY <1>3
<1> QED
  BY <1>1, <1>2, <1>4

\* Who is listed at most w times in each list is listed by so many nodes.
LEMMA ListedBounded ==
  ASSUME NEW w \in {1, 2}, NEW lists \in [Node -> [Node -> 0..w]], NEW k \in Node
  PROVE  /\ Listed(lists, k) \in Nat
         /\ Cardinality({j \in Node : lists[j][k] # 0}) \in Nat
         /\ Listed(lists, k) <= w * Cardinality({j \in Node : lists[j][k] # 0})
<1> DEFINE S(i) == {j \in Node : j < i /\ lists[j][k] # 0}
           a == Column(lists, k)
<1>1. PICK f : IsSum(f, a, N) /\ Listed(lists, k) = f[N]
  BY ListedIsSum
<1>2. IsFiniteSet(Node)
  <2>1. 0 \in Int /\ N - 1 \in Int
    BY NodeFacts
  <2> QED
    BY <2>1, FS_Interval DEF Node
<1>3. ASSUME NEW i PROVE IsFiniteSet(S(i)) /\ Cardinality(S(i)) \in Nat
  <2>1. S(i) \subseteq Node
    OBVIOUS
  <2> HIDE DEF S
  <2> QED
    BY <1>2, <2>1, FS_Subset, FS_CardinalityType
<1> DEFINE Bounded(i) == f[i] \in Nat /\ f[i] <= w * Cardinality(S(i))
           T == {i \in 0..N : ~ Bounded(i)}
<1>4. T = {}
  <2> SUFFICES ASSUME T # {} PROVE FALSE
    OBVIOUS
  <2>1. PICK i \in T : \A y \in T : i <= y
    <3>1. T \in SUBSET Nat
      BY NodeFacts
    <3> HIDE DEF T
    <3> QED
      BY <3>1, LeastNat
  <2>2. i \in 0..N /\ ~ Bounded(i)
    BY <2>1
  <2>3. i # 0
    <3>1. 0 \in 0..N /\ f[0] = 0
      BY <1>1, NodeFacts DEF IsSum
    <3>2. Cardinality(S(0)) \in Nat
      BY <1>3
    <3>3. 0 <= w * Cardinality(S(0))
      <4> HIDE DEF S
      <4> QED
        BY <3>2
    <3> HIDE DEF S
    <3> QED
      BY <2>2, <3>1, <3>3
  <2>4. i - 1 \in 0..N /\ i - 1 \in Node /\ Bounded(i - 1)
    <3>1. i - 1 \in 0..N /\ i - 1 \in Node /\ ~ (i <= i - 1)
      BY <2>2, <2>3, NodeFacts DEF Node
    <3> HIDE DEF Bounded
    <3> QED
      BY <2>1, <3>1
  <2>5. f[i] = f[i - 1] + lists[i - 1][k] /\ lists[i - 1][k] \in 0..w
    BY <1>1, <2>2, <2>3, <2>4 DEF IsSum, Column
  <2>6. CASE lists[i - 1][k] = 0
    <3>1. S(i) = S(i - 1)
      <4>1. \A j \in Node : j < i <=> j < i - 1 \/ j = i - 1
        BY <2>2, NodeFacts
      <4> QED
        BY <2>6, <4>1
    <3> HIDE DEF S
    <3> QED
      BY <2>2, <2>4, <2>5, <2>6, <3>1
  <2>7. CASE lists[i - 1][k] # 0
    <3>1. S(i) = S(i - 1) \cup {i - 1} /\ i - 1 \notin S(i - 1)
      <4>1. \A j \in Node : j < i <=> j < i - 1 \/ j = i - 1
        BY <2>2, NodeFacts
      <4>2. ~ (i - 1 < i - 1)
        BY <2>2
      <4> QED
        BY <2>4, <2>7, <4>1, <4>2
    <3>2. IsFiniteSet(S(i - 1)) /\ Cardinality(S(i - 1)) \in Nat
      BY <1>3
    <3> HIDE DEF S
    <3>3. Cardinality(S(i)) = Cardinality(S(i - 1)) + 1
      BY <3>1, <3>2, FS_AddElement, Zenon
    <3>4. f[i - 1] \in Nat /\ f[i - 1] <= w * Cardinality(S(i - 1))
      BY <2>4
    <3>5. f[i] \in Nat /\ f[i] <= f[i - 1] + w
      BY <2>5, <3>4
    <3>6. w * Cardinality(S(i)) = w * Cardinality(S(i - 1)) + w
      <4>1. CASE w = 1
        BY <3>2, <3>3, <4>1
      <4>2. CASE w = 2
        BY <3>2, <3>3, <4>2
      <4> QED
        BY <4>1, <4>2
    <3>7. w * Cardinality(S(i - 1)) \in Nat
      BY <3>2
    <3>8. Bounded(i)
      BY <3>4, <3>5, <3>6, <3>7
    <3> QED
      BY <2>2, <3>8
  <2> QED
    BY <2>6, <2>7
<1>5. Bounded(N)
  <2>1. N \in 0..N
    BY NodeFacts
  <2> HIDE DEF Bounded
  <2> QED
    BY <1>4, <2>1
<1>6. S(N) = {j \in Node : lists[j][k] # 0}
  <2>1. \A j \in Node : j < N
    BY NodeFacts DEF Node
  <2> QED
    BY <2>1
<1>7. Cardinality(S(N)) \in Nat
  BY <1>3
<1> HIDE DEF S
<1> QED
  BY <1>1, <1>5, <1>6, <1>7

----------------------------------------------------------------------------
(* Types.                                                                  *)

\* No two nodes dial each other.
OncePerPair == \A c \in Dials : <<c[2], c[1]>> \in Dials => c[1] = c[2]

\* How often a list of a node may name another one.
Copies == IF OncePerPair THEN 1 ELSE 2

Ids == [Node -> 0..Copies]

Connection == Node \X Node

JoinPacket  == [type : {"Join"}, to : Node, conn : Connection, from : Node]
ReplyPacket == [type : {"JoinReply"}, to : Node, conn : Connection, from : Node,
                view : Node \cup {NoView}]
ListPacket  == [type : {"InitLeader"}, to : Node, from : Up, ids : Ids]

Entry == [node : Node, conn : Connection, by : {"Join", "JoinReply"}]

\* Every entry that Members of each node has or had.
Seen == [n \in Node |-> EverStored(n)]

MembershipTypeOK ==
  /\ dialled \in SUBSET Dials
  /\ packets \in SUBSET (JoinPacket \cup ReplyPacket \cup ListPacket)
  /\ Members \in [Node -> SUBSET Entry]
  /\ Seen \in [Node -> SUBSET Entry]
  /\ lost \in SUBSET (Node \X Entry)
  /\ Map \in [Node -> [Node -> SUBSET Connection]]
  /\ JoinChan \in [Node -> Seq(Node)]
  /\ JoinReplyChan \in [Node -> Seq([from : Node, view : Node \cup {NoView}])]
  /\ alive \in SUBSET Up

StartTypeOK ==
  /\ View \in [Node -> Node \cup {NoView}]
  /\ InitLeaderMessages \in [Node -> [Node -> Ids]]
  /\ announcing \in [Node -> Ids]

\* The messages that are handled are still there, one handler has each, and what
\* a handler has read was in Members.
AppendsFit ==
  /\ appending \in [Node -> SUBSET [msg : JoinPacket \cup ReplyPacket, read : SUBSET Entry]]
  /\ \A n \in Node :
       /\ \A r \in appending[n] : /\ r.msg \in Joining(n) /\ ~ Ignored(r.msg)
                                  /\ r.read \subseteq Seen[n]
       /\ \A q, r \in appending[n] : q.msg = r.msg => q = r

ElectionTypeOK == MembershipTypeOK /\ StartTypeOK /\ AppendsFit

LEMMA CopiesType == Copies \in {1, 2} /\ NoIds \in Ids /\ \A k \in Node : NoIds[k] = 0
BY DEF Copies, NoIds, Ids

LEMMA PacketFields ==
  ASSUME MembershipTypeOK, NEW pk \in packets
  PROVE  /\ pk.to \in Node /\ pk.from \in Node
         /\ pk.type \in {"Join", "JoinReply", "InitLeader"}
         /\ pk.type = "Join" => pk \in JoinPacket
         /\ pk.type = "JoinReply" => pk \in ReplyPacket
         /\ pk.type = "InitLeader" => pk \in ListPacket
BY NodeFacts DEF MembershipTypeOK, JoinPacket, ReplyPacket, ListPacket

----------------------------------------------------------------------------
(* Each Join is answered once.                                             *)

Once(S) == \A x, y \in S : x = y

\* Where node k's Join at node n stands: on its way, queued at n, answered by
\* a reply on its way, or the reply was handled.
Joins(k, n)    == JoinMessage(<<k, n>>) \in packets
Queued(k, n)   == {i \in DOMAIN JoinChan[n] : JoinChan[n][i] = k}
Answers(k, n)  == {pk \in packets : pk.type = "JoinReply" /\ pk.from = n /\ pk.to = k}
Answered(k, n) == {e \in Seen[k] : e.by = "JoinReply" /\ e.node = n}

\* A Join is in one of these places, or was dealt with.
AskedOnce(k, n) ==
  /\ Once(Queued(k, n)) /\ Once(Answers(k, n)) /\ Once(Answered(k, n))
  /\ Joins(k, n) \/ Queued(k, n) # {} \/ Answers(k, n) # {} \/ Answered(k, n) # {}
       => <<k, n>> \in dialled
  /\ Queued(k, n) # {} => ~ Joins(k, n)
  /\ Answers(k, n) # {} => ~ Joins(k, n) /\ Queued(k, n) = {}
  /\ Answered(k, n) # {} => ~ Joins(k, n) /\ Queued(k, n) = {} /\ Answers(k, n) = {}

\* A member by Join has the connection it came over; a node does not enter
\* itself for its own reply; Map has one connection per node.
MembersMet ==
  \A n \in Node :
    /\ \A e \in Seen[n] : /\ e.by = "Join" => e.conn = <<e.node, n>> /\ e.conn \in Dials
                          /\ e.by = "JoinReply" => e.node # n
                          /\ n \in Up
    /\ \A k \in Node : Once(Map[n][k])

JoinsDialled ==
  \A pk \in packets : pk.type = "Join" => pk.conn = <<pk.from, pk.to>> /\ pk.conn \in Dials

Meetings == MembersMet /\ JoinsDialled /\ \A k, n \in Node : AskedOnce(k, n)

LEMMA AtMostTwo ==
  ASSUME NEW x, NEW y, NEW S, S \subseteq {x, y}
  PROVE  /\ IsFiniteSet(S) /\ Cardinality(S) \in 0..2
         /\ S = {} \/ Cardinality(S) # 0
         /\ x = y => Cardinality(S) <= 1
<1>1. IsFiniteSet({x}) /\ Cardinality({x}) = 1
  BY FS_Singleton
<1>2. /\ IsFiniteSet({x, y}) /\ Cardinality({x, y}) <= 2 /\ Cardinality({x, y}) \in Nat
      /\ x = y => Cardinality({x, y}) = 1
  <2>1. {x, y} = {x} \cup {y}
    OBVIOUS
  <2>2. CASE x = y
    <3>1. {x, y} = {x}
      BY <2>2
    <3> QED
      BY <1>1, <3>1
  <2>3. CASE x # y
    <3>1. y \notin {x}
      BY <2>3
    <3>2. IsFiniteSet({x} \cup {y}) /\ Cardinality({x} \cup {y}) = 2
      BY <1>1, <3>1, FS_AddElement
    <3> QED
      BY <2>1, <2>3, <3>2
  <2> QED
    BY <2>2, <2>3
<1> DEFINE T == {x, y}
<1>3. /\ S \subseteq T /\ IsFiniteSet(T) /\ Cardinality(T) \in Nat /\ Cardinality(T) <= 2
      /\ x = y => Cardinality(T) = 1
  BY <1>2
<1> HIDE DEF T
<1>4. IsFiniteSet(S) /\ Cardinality(S) \in Nat /\ Cardinality(S) <= Cardinality(T)
  BY <1>3, FS_Subset, FS_CardinalityType
<1>5. S = {} \/ Cardinality(S) # 0
  BY <1>4, FS_EmptySet
<1> QED
  BY <1>3, <1>4, <1>5

LEMMA FiniteNode ==
  /\ IsFiniteSet(Node)
  /\ \A S \in SUBSET Node : IsFiniteSet(S) /\ Cardinality(S) \in Nat
  /\ \A k : Knowing(k) \in SUBSET Node
<1>1. IsFiniteSet(Node)
  <2>1. 0 \in Int /\ N - 1 \in Int
    BY NodeFacts
  <2> QED
    BY <2>1, FS_Interval DEF Node
<1>2. \A S \in SUBSET Node : IsFiniteSet(S) /\ Cardinality(S) \in Nat
  BY <1>1, FS_Subset, FS_CardinalityType
<1>3. \A k : Knowing(k) \in SUBSET Node
  BY NodeFacts DEF Knowing
<1> QED
  BY <1>1, <1>2, <1>3

\* What Members may hold is finite.
LEMMA EntriesFinite ==
  ASSUME NEW S \in SUBSET Entry
  PROVE  IsFiniteSet(S) /\ Cardinality(S) \in Nat
<1> DEFINE D == Node \X (Connection \X {"Join", "JoinReply"})
           f == [x \in D |-> [node |-> x[1], conn |-> x[2][1], by |-> x[2][2]]]
<1>1. IsFiniteSet({"Join", "JoinReply"})
  <2>1. {"Join", "JoinReply"} \subseteq {"Join", "JoinReply"}
    OBVIOUS
  <2> QED
    BY <2>1, AtMostTwo
<1>2. IsFiniteSet(D)
  <2>1. IsFiniteSet(Connection)
    BY FiniteNode, FS_Product DEF Connection
  <2>2. IsFiniteSet(Connection \X {"Join", "JoinReply"})
    BY <1>1, <2>1, FS_Product
  <2> QED
    BY <2>2, FiniteNode, FS_Product
<1>3. f \in [D -> Entry]
  BY DEF Entry
<1>4. ASSUME NEW e \in Entry PROVE \E x \in D : f[x] = e
  <2>1. /\ e.node \in Node /\ e.conn \in Connection /\ e.by \in {"Join", "JoinReply"}
        /\ e = [node |-> e.node, conn |-> e.conn, by |-> e.by]
    BY DEF Entry
  <2>2. <<e.node, <<e.conn, e.by>>>> \in D
    BY <2>1
  <2>3. f[<<e.node, <<e.conn, e.by>>>>] = e
    BY <2>1, <2>2
  <2> QED
    BY <2>2, <2>3
<1> HIDE DEF D, f
<1>5. f \in Surjection(D, Entry)
  BY <1>3, <1>4 DEF Surjection
<1>6. IsFiniteSet(Entry)
  BY <1>2, <1>5, FS_Surjection
<1> QED
  BY <1>6, FS_Subset, FS_CardinalityType

\* What a node has and had, per node, as lists.
LEMMA SeenEntries ==
  ASSUME MembershipTypeOK, NEW n \in Node
  PROVE  /\ Seen[n] = EverStored(n) /\ Members[n] \subseteq Seen[n]
         /\ Members[n] \in SUBSET Entry /\ Seen[n] \in SUBSET Entry
         /\ \A e : <<n, e>> \in lost => e \in Seen[n]
         /\ \A e \in Seen[n] : e \in Members[n] \/ <<n, e>> \in lost
         /\ lost = {} => Members[n] = Seen[n]
<1>1. Seen[n] = Members[n] \cup {x[2] : x \in {x \in lost : x[1] = n}}
  BY DEF Seen, EverStored
<1>2. \A x \in lost : x = <<x[1], x[2]>>
  BY DEF MembershipTypeOK
<1>3. \A e : <<n, e>>[1] = n /\ <<n, e>>[2] = e
  OBVIOUS
<1>4. ASSUME NEW e, <<n, e>> \in lost PROVE e \in Seen[n]
  BY <1>1, <1>3, <1>4
<1>5. ASSUME NEW e \in Seen[n], e \notin Members[n] PROVE <<n, e>> \in lost
  BY <1>1, <1>2, <1>5
<1> QED
  BY <1>1, <1>4, <1>5 DEF Seen, ElectionTypeOK, MembershipTypeOK

\* So a node lists another one twice at most: for its Join, and for its reply.
LEMMA ListOfMembers ==
  ASSUME MembershipTypeOK, Meetings, NEW n \in Node
  PROVE  /\ StoredIds(n) \in Ids /\ GetAllNodeIds(n) \in Ids
         /\ \A k \in Node : /\ StoredIds(n)[k] # 0 => n \in Knowing(k)
                            /\ GetAllNodeIds(n)[k] <= StoredIds(n)[k]
<1> SUFFICES ASSUME NEW k \in Node
             PROVE  /\ StoredIds(n)[k] \in 0..Copies
                    /\ StoredIds(n)[k] # 0 => n \in Knowing(k)
                    /\ GetAllNodeIds(n)[k] \in 0..Copies
                    /\ GetAllNodeIds(n)[k] <= StoredIds(n)[k]
  BY DEF GetAllNodeIds, StoredIds, Ids
<1> DEFINE S == {e \in Seen[n] : e.node = k}
           M == {e \in Members[n] : e.node = k}
           x == [node |-> k, conn |-> <<k, n>>, by |-> "Join"]
<1>1. StoredIds(n)[k] = Cardinality(S) /\ GetAllNodeIds(n)[k] = Cardinality(M)
  BY SeenEntries DEF StoredIds, GetAllNodeIds
<1>2. ASSUME NEW e \in S, e.by = "Join" PROVE e = x /\ <<k, n>> \in Dials
  <2>1. e \in [node : Node, conn : Connection, by : {"Join", "JoinReply"}]
    BY DEF MembershipTypeOK, Entry
  <2>2. e.conn = <<k, n>> /\ e.conn \in Dials /\ e.node = k
    BY <1>2 DEF Meetings, MembersMet
  <2> QED
    BY <1>2, <2>1, <2>2
<1>3. ASSUME NEW e \in S, e.by # "Join" PROVE e \in Answered(n, k) /\ k # n /\ <<n, k>> \in Dials
  <2>1. e.by = "JoinReply"
    BY <1>3 DEF MembershipTypeOK, Entry
  <2>2. e \in Answered(n, k)
    BY <2>1 DEF Answered
  <2>3. <<n, k>> \in dialled /\ k # n
    BY <2>1, <2>2 DEF Meetings, AskedOnce, MembersMet
  <2> QED
    BY <2>2, <2>3 DEF MembershipTypeOK
<1>4. PICK y : \A e \in Answered(n, k) : e = y
  <2>1. Once(Answered(n, k))
    BY DEF Meetings, AskedOnce
  <2> QED
    BY <2>1 DEF Once
<1>5. S \subseteq {x, y}
  BY <1>2, <1>3, <1>4
<1>6. OncePerPair => S \subseteq {x} \/ S \subseteq {y}
  <2> SUFFICES ASSUME OncePerPair, NEW d \in S, NEW e \in S, d.by = "Join", e.by # "Join"
               PROVE  FALSE
    BY <1>2, <1>3, <1>4
  <2>1. <<k, n>> \in Dials /\ <<n, k>> \in Dials /\ k # n
    BY <1>2, <1>3
  <2>2. <<k, n>>[1] = k /\ <<k, n>>[2] = n
    OBVIOUS
  <2> QED
    BY <2>1, <2>2 DEF OncePerPair
<1>10. M \subseteq S /\ M \in SUBSET Entry /\ S \in SUBSET Entry
  BY SeenEntries
<1> HIDE DEF M
<1>11. /\ Cardinality(M) \in Nat /\ IsFiniteSet(S) /\ Cardinality(S) \in Nat
       /\ Cardinality(M) <= Cardinality(S)
  <2> HIDE DEF S
  <2> QED
    BY <1>10, EntriesFinite, FS_Subset
<1> HIDE DEF S, x
<1>7. Cardinality(S) \in 0..Copies
  <2>1. CASE ~ OncePerPair
    BY <1>5, <2>1, AtMostTwo DEF Copies
  <2>2. CASE OncePerPair
    <3>1. PICK z : S \subseteq {z, z}
      BY <1>6, <2>2
    <3>2. Cardinality(S) \in 0..2 /\ Cardinality(S) <= 1
      BY <3>1, AtMostTwo
    <3> QED
      BY <2>2, <3>2 DEF Copies
  <2> QED
    BY <2>1, <2>2
<1>8. Cardinality(S) # 0 => \E e \in Seen[n] : e.node = k
  BY FS_EmptySet DEF S
<1>9. (\E e \in Seen[n] : e.node = k) => n \in Knowing(k)
  BY SeenEntries DEF Knowing, Meetings, MembersMet
<1>12. Copies \in Nat
  BY CopiesType
<1> QED
  BY <1>1, <1>7, <1>8, <1>9, <1>11, <1>12

----------------------------------------------------------------------------
(* Types are kept.                                                         *)

LEMMA JoinMessageType ==
  ASSUME NEW c \in Dials
  PROVE  JoinMessage(c) \in JoinPacket /\ c = <<JoinMessage(c).from, JoinMessage(c).to>>
<1>1. c \in Up \X Up
  BY NodeFacts
<1>2. PICK a \in Up : \E b \in Up : c = <<a, b>>
  BY <1>1
<1>3. c[1] \in Node /\ c[2] \in Node /\ c \in Node \X Node /\ c = <<c[1], c[2]>>
  BY <1>2, NodeFacts
<1> QED
  BY <1>3 DEF JoinMessage, JoinPacket, Connection

LEMMA ReplyMessageType ==
  ASSUME NEW c \in Connection, NEW n \in Node, NEW k \in Node, NEW v \in Node \cup {NoView}
  PROVE  JoinReplyMessage(c, n, k, v) \in ReplyPacket
BY DEF JoinReplyMessage, ReplyPacket

LEMMA SeenInit == ElectionInit => Seen = [n \in Node |-> EarlyMembers(n)]
<1> SUFFICES ASSUME ElectionInit PROVE Seen = [n \in Node |-> EarlyMembers(n)]
  OBVIOUS
<1>1. Members = [n \in Node |-> EarlyMembers(n)] /\ lost = {}
  BY DEF ElectionInit, MembershipInit
<1>2. \A n \in Node : EverStored(n) = EarlyMembers(n)
  BY <1>1 DEF EverStored
<1> QED
  BY <1>2 DEF Seen

\* What a step of a handler comes to for the entries that were ever stored: one is
\* added, and what appends drop makes no difference.
HandlesJoining(n) ==
  /\ \E pk \in Joining(n) :
       /\ packets' = packets \ {pk}
       /\ IF Ignored(pk) THEN UNCHANGED <<Seen, Map>>
          ELSE /\ Seen' = [Seen EXCEPT ![n] = @ \cup {MemberOf(pk)}]
               /\ Map' = [Map EXCEPT ![n][pk.from] = {pk.conn}]
       /\ JoinChan' = [JoinChan EXCEPT ![n] = IF pk.type = "Join" THEN Append(@, pk.from) ELSE @]
       /\ JoinReplyChan' = [JoinReplyChan EXCEPT ![n] =
            IF pk.type = "JoinReply" /\ ~ Ignored(pk)
            THEN Append(@, [from |-> pk.from, view |-> pk.view]) ELSE @]
  /\ UNCHANGED <<dialled, alive>>

\* Nothing is handled yet: a handler has read Members.
HandlesNothing ==
  UNCHANGED <<dialled, packets, Members, lost, Seen, Map, JoinChan, JoinReplyChan, alive>>

LEMMA SeenQuiet ==
  ASSUME UNCHANGED <<Members, lost>>
  PROVE  Seen' = Seen
BY DEF Seen, EverStored

\* A handler in the middle of an append is not disturbed by anybody else.
LEMMA AppendsStay ==
  ASSUME ElectionTypeOK, UNCHANGED <<Members, lost, appending>>,
         \A pk \in packets : pk.type # "InitLeader" => pk \in packets'
  PROVE  AppendsFit' /\ Seen' = Seen
<1>1. Seen' = Seen
  BY DEF Seen, EverStored
<1>2. ASSUME NEW n \in Node, NEW r \in appending[n] PROVE r.msg \in Joining(n)'
  <2>1. r.msg \in Joining(n)
    BY DEF ElectionTypeOK, AppendsFit
  <2> QED
    BY <2>1 DEF Joining
<1>3. \A pk : Ignored(pk)' <=> Ignored(pk)
  BY DEF Ignored
<1> QED
  BY <1>1, <1>2, <1>3 DEF ElectionTypeOK, AppendsFit

LEMMA LoopAppends ==
  ASSUME ElectionTypeOK, NEW n \in Up, StartLoop(n)
  PROVE  /\ AppendsFit' /\ Seen' = Seen
         /\ UNCHANGED <<dialled, Members, lost>>
<1>1. UNCHANGED <<dialled, Members, lost, appending>>
  BY DEF StartLoop, AdoptView, CountReply, AnswerJoin, SendInitLeader, CountList, Elect
<1>2. \A pk \in Lists(n) : pk.type = "InitLeader"
  BY DEF Lists
<1>3. \A pk \in packets : pk.type # "InitLeader" => pk \in packets'
  BY <1>2 DEF StartLoop, AdoptView, CountReply, AnswerJoin, SendInitLeader, CountList, Elect
<1> QED
  BY <1>1, <1>3, AppendsStay

LEMMA DialAppends ==
  ASSUME ElectionTypeOK, NEW c \in Dials, Dial(c)
  PROVE  /\ AppendsFit' /\ Seen' = Seen
         /\ UNCHANGED <<Members, lost, alive>>
<1>1. UNCHANGED <<Members, lost, appending, alive>> /\ packets \subseteq packets'
  BY DEF Dial
<1> QED
  BY <1>1, AppendsStay

LEMMA IgnoreReplyStep ==
  ASSUME ElectionTypeOK, NEW n \in Up, IgnoreReply(n)
  PROVE  /\ HandlesJoining(n) /\ AppendsFit'
         /\ Members' \in [Node -> SUBSET Entry] /\ lost' = lost
<1>1. PICK pk \in Joining(n) : Ignored(pk) /\ packets' = packets \ {pk}
  BY DEF IgnoreReply
<1>2. UNCHANGED <<dialled, Members, Map, JoinChan, JoinReplyChan, appending, lost, alive>>
  BY DEF IgnoreReply
<1>3. Seen' = Seen
  BY <1>2 DEF Seen, EverStored
<1>4. pk.type = "JoinReply" /\ n \in Node
  BY <1>1, NodeFacts DEF Ignored
<1>5. ASSUME NEW m \in Node, NEW r \in appending[m] PROVE r.msg \in Joining(m)'
  <2>1. r.msg \in Joining(m) /\ r.msg # pk
    BY <1>1 DEF ElectionTypeOK, AppendsFit
  <2> QED
    BY <1>1, <2>1 DEF Joining
<1>6. AppendsFit'
  BY <1>2, <1>3, <1>5 DEF ElectionTypeOK, AppendsFit, Ignored
<1>7. HandlesJoining(n)
  BY <1>1, <1>2, <1>3, <1>4 DEF HandlesJoining, ElectionTypeOK, MembershipTypeOK
<1> QED
  BY <1>2, <1>6, <1>7 DEF ElectionTypeOK, MembershipTypeOK

LEMMA ReadMembersStep ==
  ASSUME ElectionTypeOK, NEW n \in Up, ReadMembers(n)
  PROVE  HandlesNothing /\ AppendsFit'
<1>1. PICK pk \in Joining(n) :
        /\ ~ Ignored(pk)
        /\ \A r \in appending[n] : r.msg.conn # pk.conn
        /\ appending' = [appending EXCEPT ![n] = @ \cup {[msg |-> pk, read |-> Members[n]]}]
  BY DEF ReadMembers
<1>2. UNCHANGED <<dialled, packets, Members, Map, JoinChan, JoinReplyChan, lost, alive>>
  BY DEF ReadMembers
<1>3. Seen' = Seen /\ n \in Node
  BY <1>2, NodeFacts DEF Seen, EverStored
<1>4. \A m : Joining(m)' = Joining(m)
  BY <1>2 DEF Joining
<1> DEFINE new == [msg |-> pk, read |-> Members[n]]
<1>5. /\ new \in [msg : JoinPacket \cup ReplyPacket, read : SUBSET Entry]
      /\ new.msg = pk /\ new.read \subseteq Seen[n]
  <2>1. pk \in JoinPacket \cup ReplyPacket
    BY PacketFields DEF Joining, ElectionTypeOK
  <2> QED
    BY <1>3, <2>1, SeenEntries DEF ElectionTypeOK
<1>6. \A m \in Node : appending'[m] = appending[m] \/ (m = n /\ appending'[m] = appending[m] \cup {new})
  BY <1>1, <1>3 DEF ElectionTypeOK, AppendsFit
<1>7. \A r \in appending[n] : r.msg # new.msg
  BY <1>1, <1>5
<1>8. appending' \in [Node -> SUBSET [msg : JoinPacket \cup ReplyPacket, read : SUBSET Entry]]
  BY <1>1, <1>3, <1>5 DEF ElectionTypeOK, AppendsFit
<1> HIDE DEF new
<1>9. ASSUME NEW m \in Node
      PROVE  /\ \A r \in appending'[m] : /\ r.msg \in Joining(m) /\ ~ Ignored(r.msg)
                                         /\ r.read \subseteq Seen[m]
             /\ \A q, r \in appending'[m] : q.msg = r.msg => q = r
  <2>1. CASE appending'[m] = appending[m]
    BY <2>1 DEF ElectionTypeOK, AppendsFit
  <2>2. CASE m = n /\ appending'[m] = appending[m] \cup {new}
    BY <1>1, <1>5, <1>7, <2>2 DEF ElectionTypeOK, AppendsFit
  <2> QED
    BY <1>6, <2>1, <2>2
<1>10. \A pk2 : Ignored(pk2)' <=> Ignored(pk2)
  BY DEF Ignored
<1>11. AppendsFit'
  BY <1>3, <1>4, <1>8, <1>9, <1>10 DEF AppendsFit
<1> QED
  BY <1>2, <1>3, <1>11 DEF HandlesNothing

LEMMA StoreMemberStep ==
  ASSUME ElectionTypeOK, NEW n \in Up, StoreMember(n)
  PROVE  /\ HandlesJoining(n) /\ AppendsFit'
         /\ Members' \in [Node -> SUBSET Entry]
         /\ lost' \in SUBSET (Node \X Entry) /\ lost \subseteq lost'
<1>1. PICK r \in appending[n] : \E slice \in Appended(n, r) :
        /\ Members' = [Members EXCEPT ![n] = slice]
        /\ lost' = lost \cup {<<n, e>> : e \in Members[n] \ slice}
        /\ Map' = [Map EXCEPT ![n][r.msg.from] = {r.msg.conn}]
        /\ JoinChan' = [JoinChan EXCEPT ![n] =
             IF r.msg.type = "Join" THEN Append(@, r.msg.from) ELSE @]
        /\ JoinReplyChan' = [JoinReplyChan EXCEPT ![n] =
             IF r.msg.type = "JoinReply" THEN Append(@, [from |-> r.msg.from, view |-> r.msg.view]) ELSE @]
        /\ packets' = packets \ {r.msg}
        /\ appending' = [appending EXCEPT ![n] = @ \ {r}]
  BY DEF StoreMember
<1>2. PICK slice \in Appended(n, r) :
        /\ Members' = [Members EXCEPT ![n] = slice]
        /\ lost' = lost \cup {<<n, e>> : e \in Members[n] \ slice}
  BY <1>1
<1> DEFINE pk == r.msg
           e0 == MemberOf(pk)
<1>3. /\ n \in Node /\ pk \in Joining(n) /\ ~ Ignored(pk) /\ r.read \subseteq Seen[n]
      /\ dialled' = dialled /\ alive' = alive
  BY NodeFacts DEF ElectionTypeOK, AppendsFit, StoreMember
<1>4. e0 \in Entry
  <2>1. /\ pk \in packets /\ pk.from \in Node /\ pk.conn \in Connection
        /\ pk.type \in {"Join", "JoinReply"}
    BY <1>3, PacketFields DEF Joining, JoinPacket, ReplyPacket, ElectionTypeOK
  <2> QED
    BY <2>1 DEF MemberOf, Entry
<1>5. /\ slice \subseteq r.read \cup Members[n] \cup {e0}
      /\ e0 \in slice
  BY DEF Appended
<1>6. Members[n] \subseteq Seen[n] /\ Seen[n] \in SUBSET Entry
  BY <1>3, SeenEntries DEF ElectionTypeOK
<1> HIDE DEF pk, e0
<1>7. Members' \in [Node -> SUBSET Entry]
  <2>1. slice \in SUBSET Entry
    BY <1>3, <1>4, <1>5, <1>6
  <2> QED
    BY <1>2, <2>1 DEF ElectionTypeOK, MembershipTypeOK
<1>8. lost' \in SUBSET (Node \X Entry) /\ lost \subseteq lost'
  BY <1>2, <1>3, <1>6 DEF ElectionTypeOK, MembershipTypeOK
<1>9. Seen' = [Seen EXCEPT ![n] = @ \cup {e0}]
  <2> DEFINE Out(l, m) == {x[2] : x \in {x \in l : x[1] = m}}
  <2>1. \A m \in Node : Seen'[m] = Members'[m] \cup Out(lost', m) /\ Seen[m] = Members[m] \cup Out(lost, m)
    BY DEF Seen, EverStored
  <2>2. Seen = [m \in Node |-> Seen[m]] /\ Seen' = [m \in Node |-> Seen'[m]]
    BY DEF Seen
  <2>3. \A e : <<n, e>>[1] = n /\ <<n, e>>[2] = e
    OBVIOUS
  <2>4. ASSUME NEW m \in Node, m # n PROVE Seen'[m] = Seen[m]
    <3>1. Members'[m] = Members[m]
      BY <1>2, <1>3, <2>4 DEF ElectionTypeOK, MembershipTypeOK
    <3>2. \A x \in lost' : x[1] = m => x \in lost
      BY <1>2, <2>3, <2>4
    <3>3. Out(lost', m) = Out(lost, m)
      BY <1>8, <3>2
    <3> QED
      BY <2>1, <3>1, <3>3
  <2>5. Seen'[n] = Seen[n] \cup {e0}
    <3>1. Members'[n] = slice
      BY <1>2, <1>3 DEF ElectionTypeOK, MembershipTypeOK
    <3>2. Out(lost', n) = Out(lost, n) \cup (Members[n] \ slice)
      <4>1. \A e \in Members[n] \ slice : <<n, e>> \in lost' /\ e \in Out(lost', n)
        BY <1>2, <2>3
      <4>2. \A x \in lost' : x[1] = n => x \in lost \/ x[2] \in Members[n] \ slice
        BY <1>2, <2>3
      <4>3. Out(lost, n) \subseteq Out(lost', n)
        BY <1>2
      <4> QED
        BY <4>1, <4>2, <4>3
    <3> HIDE DEF Out
    <3> QED
      BY <1>3, <1>5, <2>1, <3>1, <3>2
  <2> HIDE DEF Out
  <2>6. [m \in Node |-> Seen'[m]] = [[m \in Node |-> Seen[m]] EXCEPT ![n] = Seen[n] \cup {e0}]
    BY <1>3, <2>4, <2>5
  <2>7. [m \in Node |-> Seen[m]][n] = Seen[n]
    BY <1>3
  <2> QED
    BY <2>2, <2>6
<1>10. HandlesJoining(n)
  BY <1>1, <1>3, <1>9 DEF HandlesJoining, pk, e0
<1>11. ASSUME NEW m \in Node, NEW q \in appending'[m]
       PROVE  /\ q \in appending[m] /\ q.msg \in Joining(m)' /\ ~ Ignored(q.msg)'
              /\ q.read \subseteq Seen'[m]
  <2>1. q \in appending[m] /\ (m = n => q # r)
    BY <1>1, <1>3 DEF ElectionTypeOK, AppendsFit
  <2>2. q.msg \in Joining(m) /\ ~ Ignored(q.msg) /\ q.read \subseteq Seen[m]
    BY <2>1 DEF ElectionTypeOK, AppendsFit
  <2>3. q.msg # r.msg
    <3>1. CASE m = n
      BY <2>1, <3>1 DEF ElectionTypeOK, AppendsFit
    <3>2. CASE m # n
      BY <1>3, <2>2, <3>2 DEF Joining, pk
    <3> QED
      BY <3>1, <3>2
  <2>4. Seen[m] \subseteq Seen'[m]
    BY <1>3, <1>9 DEF ElectionTypeOK, MembershipTypeOK
  <2> QED
    BY <1>1, <2>1, <2>2, <2>3, <2>4 DEF Joining, Ignored
<1>12. appending' \in [Node -> SUBSET [msg : JoinPacket \cup ReplyPacket, read : SUBSET Entry]]
  BY <1>1, <1>3 DEF ElectionTypeOK, AppendsFit
<1>13. AppendsFit'
  BY <1>11, <1>12 DEF ElectionTypeOK, AppendsFit
<1> QED
  BY <1>7, <1>8, <1>10, <1>13

LEMMA HandlerSteps ==
  ASSUME ElectionTypeOK, NEW n \in Up, HandleJoining(n)
  PROVE  /\ HandlesJoining(n) \/ HandlesNothing
         /\ AppendsFit'
         /\ Members' \in [Node -> SUBSET Entry]
         /\ lost' \in SUBSET (Node \X Entry) /\ lost \subseteq lost'
<1>1. CASE IgnoreReply(n)
  BY <1>1, IgnoreReplyStep DEF ElectionTypeOK, MembershipTypeOK
<1>2. CASE ReadMembers(n)
  BY <1>2, ReadMembersStep DEF HandlesNothing, ElectionTypeOK, MembershipTypeOK
<1>3. CASE StoreMember(n)
  BY <1>3, StoreMemberStep
<1> QED
  BY <1>1, <1>2, <1>3 DEF HandleJoining

\* What the handlers do to the tables.
LEMMA HandleJoiningType ==
  ASSUME ElectionTypeOK, NEW n \in Up, HandleJoining(n), UNCHANGED startVars
  PROVE  ElectionTypeOK'
<1>20. /\ HandlesJoining(n) \/ HandlesNothing
       /\ AppendsFit' /\ Members' \in [Node -> SUBSET Entry] /\ lost' \in SUBSET (Node \X Entry)
  BY HandlerSteps
<1> USE DEF ElectionTypeOK, MembershipTypeOK
<1>21. CASE HandlesNothing
  BY <1>20, <1>21 DEF HandlesNothing, startVars, StartTypeOK
<1> SUFFICES ASSUME HandlesJoining(n) PROVE ElectionTypeOK'
  BY <1>20, <1>21
<1>1. PICK pk \in Joining(n) :
        /\ packets' = packets \ {pk}
        /\ IF Ignored(pk) THEN UNCHANGED <<Seen, Map>>
           ELSE /\ Seen' = [Seen EXCEPT ![n] = @ \cup {MemberOf(pk)}]
                /\ Map' = [Map EXCEPT ![n][pk.from] = {pk.conn}]
        /\ JoinChan' = [JoinChan EXCEPT ![n] = IF pk.type = "Join" THEN Append(@, pk.from) ELSE @]
        /\ JoinReplyChan' = [JoinReplyChan EXCEPT ![n] =
             IF pk.type = "JoinReply" /\ ~ Ignored(pk)
             THEN Append(@, [from |-> pk.from, view |-> pk.view]) ELSE @]
        /\ UNCHANGED <<dialled, alive>>
  BY DEF HandlesJoining
<1>2. /\ n \in Node /\ pk \in packets /\ pk.from \in Node /\ pk.conn \in Connection
      /\ pk.type \in {"Join", "JoinReply"}
      /\ pk.type = "JoinReply" => pk.view \in Node \cup {NoView}
  BY <1>1, NodeFacts, PacketFields DEF Joining, JoinPacket, ReplyPacket
<1>3. Seen' \in [Node -> SUBSET Entry]
  <2>1. Seen[n] \cup {MemberOf(pk)} \in
          SUBSET Entry
    BY <1>2 DEF MemberOf, Entry
  <2>2. Seen' = Seen \/ Seen' = [Seen EXCEPT ![n] = Seen[n] \cup {MemberOf(pk)}]
    BY <1>1
  <2> QED
    BY <1>2, <2>1, <2>2
<1>4. Map' \in [Node -> [Node -> SUBSET Connection]]
  <2>1. Map' = Map \/ Map' = [Map EXCEPT ![n][pk.from] = {pk.conn}]
    BY <1>1
  <2>2. [Map[n] EXCEPT ![pk.from] = {pk.conn}] \in [Node -> SUBSET Connection]
    BY <1>2
  <2> QED
    BY <1>2, <2>1, <2>2
<1>5. JoinChan' \in [Node -> Seq(Node)]
  <2>1. (IF pk.type = "Join" THEN Append(JoinChan[n], pk.from) ELSE JoinChan[n]) \in Seq(Node)
    BY <1>2, AppendProperties
  <2> QED
    BY <1>1, <1>2, <2>1
<1>6. JoinReplyChan' \in [Node -> Seq([from : Node, view : Node \cup {NoView}])]
  <2>1. (IF pk.type = "JoinReply" /\ ~ Ignored(pk)
         THEN Append(JoinReplyChan[n], [from |-> pk.from, view |-> pk.view])
         ELSE JoinReplyChan[n]) \in Seq([from : Node, view : Node \cup {NoView}])
    <3>1. CASE pk.type = "JoinReply" /\ ~ Ignored(pk)
      <4>1. [from |-> pk.from, view |-> pk.view] \in [from : Node, view : Node \cup {NoView}]
        BY <1>2, <3>1
      <4>2. JoinReplyChan[n] \in Seq([from : Node, view : Node \cup {NoView}])
        BY <1>2
      <4> QED
        BY <3>1, <4>1, <4>2, AppendProperties
    <3>2. CASE ~ (pk.type = "JoinReply" /\ ~ Ignored(pk))
      BY <1>2, <3>2
    <3> QED
      BY <3>1, <3>2
  <2> QED
    BY <1>1, <1>2, <2>1
<1> QED
  BY <1>1, <1>3, <1>4, <1>5, <1>6, <1>20 DEF startVars, StartTypeOK

\* The highest of some nodes.
LEMMA HighestNode ==
  ASSUME NEW S \in SUBSET Node, S # {}
  PROVE  (CHOOSE k \in S : \A j \in S : j <= k) \in S
<1> DEFINE T == {N - x : x \in S}
<1>1. \A x \in S : x \in Nat /\ N - x \in Nat
  BY NodeFacts DEF Node
<1>2. T \in SUBSET Nat /\ T # {}
  BY <1>1
<1>3. PICK t \in T : \A y \in T : t <= y
  <2> HIDE DEF T
  <2> QED
    BY <1>2, LeastNat
<1>4. PICK x \in S : t = N - x
  BY <1>3
<1>5. ASSUME NEW y \in S PROVE y <= x
  <2>1. N - x <= N - y
    BY <1>3, <1>4
  <2> QED
    BY <1>1, <2>1, NodeFacts
<1> QED
  BY <1>5

\* What the Start loop takes out of its channels.
LEMMA TakenFrom ==
  ASSUME NEW S, NEW s \in Seq(S), s # << >>
  PROVE  Head(s) \in S /\ Tail(s) \in Seq(S)
BY HeadTailProperties

LEMMA LeaveType ==
  ASSUME NEW n \in Node, Leave(n), StartTypeOK
  PROVE  InitLeaderMessages' \in [Node -> [Node -> Ids]]
BY CopiesType DEF Leave, StartTypeOK

LEMMA AdoptViewType ==
  ASSUME ElectionTypeOK, NEW n \in Up, AdoptView(n)
  PROVE  ElectionTypeOK'
<1>10. AppendsFit' /\ Seen' = Seen
  BY LoopAppends DEF StartLoop
<1>1. n \in Node /\ JoinReplyChan[n] \in Seq([from : Node, view : Node \cup {NoView}])
  BY NodeFacts DEF ElectionTypeOK, MembershipTypeOK
<1>2. /\ Head(JoinReplyChan[n]).view \in Node \cup {NoView}
      /\ Tail(JoinReplyChan[n]) \in Seq([from : Node, view : Node \cup {NoView}])
  <2>1. JoinReplyChan[n] # << >>
    BY DEF AdoptView
  <2>2. /\ Head(JoinReplyChan[n]) \in [from : Node, view : Node \cup {NoView}]
        /\ Tail(JoinReplyChan[n]) \in Seq([from : Node, view : Node \cup {NoView}])
    BY <1>1, <2>1, TakenFrom
  <2> QED
    BY <2>2
<1>3. InitLeaderMessages' \in [Node -> [Node -> Ids]]
  BY <1>1, LeaveType DEF AdoptView, ElectionTypeOK
<1> QED
  BY <1>10, <1>1, <1>2, <1>3 DEF AdoptView, ElectionTypeOK, MembershipTypeOK, StartTypeOK

LEMMA CountReplyType ==
  ASSUME ElectionTypeOK, Meetings, NEW n \in Up, CountReply(n)
  PROVE  ElectionTypeOK'
<1>10. AppendsFit' /\ Seen' = Seen
  BY LoopAppends DEF StartLoop
<1>1. n \in Node /\ JoinReplyChan[n] \in Seq([from : Node, view : Node \cup {NoView}])
  BY NodeFacts DEF ElectionTypeOK, MembershipTypeOK
<1>2. Tail(JoinReplyChan[n]) \in Seq([from : Node, view : Node \cup {NoView}])
  BY <1>1, TakenFrom DEF CountReply
<1>3. announcing' \in [Node -> Ids]
  BY <1>1, ListOfMembers DEF CountReply, Announce, ElectionTypeOK, StartTypeOK
<1> QED
  BY <1>10, <1>1, <1>2, <1>3 DEF CountReply, ElectionTypeOK, MembershipTypeOK, StartTypeOK

LEMMA AnswerJoinType ==
  ASSUME ElectionTypeOK, Meetings, NEW n \in Up, AnswerJoin(n)
  PROVE  ElectionTypeOK'
<1>10. AppendsFit' /\ Seen' = Seen
  BY LoopAppends DEF StartLoop
<1> DEFINE k == Head(JoinChan[n])
<1>1. n \in Node /\ JoinChan[n] \in Seq(Node)
  BY NodeFacts DEF ElectionTypeOK, MembershipTypeOK
<1>2. k \in Node /\ Tail(JoinChan[n]) \in Seq(Node)
  BY <1>1, TakenFrom DEF AnswerJoin
<1>3. packets' = packets \cup {JoinReplyMessage(c, n, k, View[n]) : c \in Map[n][k]}
  BY DEF AnswerJoin
<1> HIDE DEF k
<1>4. \A c \in Map[n][k] : JoinReplyMessage(c, n, k, View[n]) \in ReplyPacket
  BY <1>1, <1>2, ReplyMessageType DEF ElectionTypeOK, MembershipTypeOK, StartTypeOK
<1>5. packets' \in SUBSET (JoinPacket \cup ReplyPacket \cup ListPacket)
  BY <1>3, <1>4 DEF ElectionTypeOK, MembershipTypeOK
<1>6. announcing' \in [Node -> Ids]
  BY <1>1, ListOfMembers DEF AnswerJoin, Announce, ElectionTypeOK, StartTypeOK
<1> QED
  BY <1>10, <1>1, <1>2, <1>5, <1>6 DEF AnswerJoin, ElectionTypeOK, MembershipTypeOK, StartTypeOK

LEMMA SendInitLeaderType ==
  ASSUME ElectionTypeOK, NEW n \in Up, SendInitLeader(n)
  PROVE  ElectionTypeOK'
<1>10. AppendsFit' /\ Seen' = Seen
  BY LoopAppends DEF StartLoop
<1>1. n \in Node /\ announcing[n] \in Ids
  BY NodeFacts DEF ElectionTypeOK, StartTypeOK
<1>2. \A k \in Node : InitLeaderMessage(n, k, announcing[n]) \in ListPacket
  BY <1>1 DEF InitLeaderMessage, ListPacket
<1>3. packets' \in SUBSET (JoinPacket \cup ReplyPacket \cup ListPacket)
  BY <1>2 DEF SendInitLeader, Listeners, ElectionTypeOK, MembershipTypeOK
<1> QED
  BY <1>10, <1>1, <1>3, CopiesType DEF SendInitLeader, ElectionTypeOK, MembershipTypeOK, StartTypeOK

\* The lists at node n, with one more.
LEMMA ListsType ==
  ASSUME ElectionTypeOK, NEW n \in Node, NEW pk \in Lists(n)
  PROVE  /\ pk \in packets /\ pk.from \in Up /\ pk.from \in Node /\ pk.ids \in Ids
         /\ [InitLeaderMessages[n] EXCEPT ![pk.from] = pk.ids] \in [Node -> Ids]
<1>1. pk \in packets /\ pk \in ListPacket
  BY PacketFields DEF Lists, ElectionTypeOK
<1> QED
  BY <1>1, NodeFacts DEF ListPacket, ElectionTypeOK, StartTypeOK

LEMMA CountListType ==
  ASSUME ElectionTypeOK, NEW n \in Up, CountList(n)
  PROVE  ElectionTypeOK'
<1>10. AppendsFit' /\ Seen' = Seen
  BY LoopAppends DEF StartLoop
<1>1. n \in Node
  BY NodeFacts
<1>2. PICK pk \in Lists(n) :
        /\ packets' = packets \ {pk}
        /\ InitLeaderMessages' = [InitLeaderMessages EXCEPT ![n] =
             [InitLeaderMessages[n] EXCEPT ![pk.from] = pk.ids]]
  BY DEF CountList
<1>3. [InitLeaderMessages[n] EXCEPT ![pk.from] = pk.ids] \in [Node -> Ids]
  BY <1>1, ListsType
<1>4. InitLeaderMessages' \in [Node -> [Node -> Ids]]
  BY <1>1, <1>2, <1>3 DEF ElectionTypeOK, StartTypeOK
<1> QED
  BY <1>10, <1>2, <1>4 DEF CountList, ElectionTypeOK, MembershipTypeOK, StartTypeOK

\* What Elect makes of the view.
LEMMA Elected ==
  ASSUME NEW n \in Up, Elect(n)
  PROVE  \/ UNCHANGED View
         \/ \E pk \in Lists(n) : \E k \in Node :
              /\ Check(N, Listed([InitLeaderMessages[n] EXCEPT ![pk.from] = pk.ids], k))
              /\ View' = [View EXCEPT ![n] = k]
<1>1. PICK pk \in Lists(n) :
        LET leaders == Candidates([InitLeaderMessages[n] EXCEPT ![pk.from] = pk.ids])
        IN  IF leaders = {} THEN UNCHANGED View
            ELSE View' = [View EXCEPT ![n] = CHOOSE k \in leaders : \A j \in leaders : j <= k]
  BY DEF Elect
<1> DEFINE lists == [InitLeaderMessages[n] EXCEPT ![pk.from] = pk.ids]
           leaders == Candidates(lists)
           k == CHOOSE k \in leaders : \A j \in leaders : j <= k
<1>2. CASE leaders = {}
  BY <1>1, <1>2
<1>3. CASE leaders # {}
  <2>1. View' = [View EXCEPT ![n] = k]
    BY <1>1, <1>3
  <2>2. leaders \in SUBSET Node
    BY DEF Candidates
  <2> HIDE DEF leaders
  <2>3. k \in leaders
    BY <1>3, <2>2, HighestNode
  <2> HIDE DEF k
  <2>4. k \in Node /\ Check(N, Listed(lists, k))
    BY <2>3 DEF leaders, Candidates
  <2> QED
    BY <2>1, <2>4
<1> QED
  BY <1>2, <1>3

LEMMA ElectType ==
  ASSUME ElectionTypeOK, NEW n \in Up, Elect(n)
  PROVE  ElectionTypeOK'
<1>10. AppendsFit' /\ Seen' = Seen
  BY LoopAppends DEF StartLoop
<1>1. n \in Node
  BY NodeFacts
<1>2. View' \in [Node -> Node \cup {NoView}]
  BY <1>1, Elected DEF ElectionTypeOK, StartTypeOK
<1>3. InitLeaderMessages' \in [Node -> [Node -> Ids]]
  BY <1>1, LeaveType DEF Elect, ElectionTypeOK
<1>4. alive' \subseteq alive /\ packets' \subseteq packets
  BY DEF Elect
<1> QED
  BY <1>10, <1>1, <1>2, <1>3, <1>4 DEF Elect, ElectionTypeOK, MembershipTypeOK, StartTypeOK

LEMMA DialType ==
  ASSUME ElectionTypeOK, NEW c \in Dials, Dial(c), UNCHANGED startVars
  PROVE  ElectionTypeOK'
<1>1. AppendsFit' /\ Seen' = Seen
  BY DialAppends
<1> QED
  BY <1>1, JoinMessageType DEF Dial, startVars, ElectionTypeOK, MembershipTypeOK, StartTypeOK

LEMMA TypeNext ==
  ASSUME ElectionTypeOK, Meetings, [ElectionNext]_electionVars
  PROVE  ElectionTypeOK'
<1>1. CASE UNCHANGED electionVars
  <2>1. AppendsFit' /\ Seen' = Seen
    BY <1>1, AppendsStay DEF electionVars, memberVars
  <2> QED
    BY <1>1, <2>1 DEF electionVars, memberVars, startVars, ElectionTypeOK, MembershipTypeOK, StartTypeOK
<1> QED
  BY <1>1, DialType, HandleJoiningType, AdoptViewType, CountReplyType,
     AnswerJoinType, SendInitLeaderType, CountListType, ElectType
     DEF ElectionNext, Handlers, StartLoop

----------------------------------------------------------------------------
(* Meetings are kept.                                                      *)

\* The positions of k in s.
At(s, k) == {i \in DOMAIN s : s[i] = k}

LEMMA AtAppend ==
  ASSUME NEW S, NEW s \in Seq(S), NEW x \in S, NEW k
  PROVE  /\ k # x => At(Append(s, x), k) = At(s, k)
         /\ k = x /\ At(s, k) = {} => Once(At(Append(s, x), k))
<1>1. /\ Len(s) \in Nat /\ DOMAIN s = 1..Len(s)
      /\ DOMAIN Append(s, x) = 1..(Len(s) + 1)
      /\ \A i \in 1..Len(s) : Append(s, x)[i] = s[i]
      /\ Append(s, x)[Len(s) + 1] = x
  BY AppendProperties, LenProperties
<1>2. \A i \in DOMAIN Append(s, x) : i \in DOMAIN s \/ i = Len(s) + 1
  BY <1>1
<1>3. \A i \in DOMAIN s : i \in DOMAIN Append(s, x) /\ Append(s, x)[i] = s[i]
  BY <1>1
<1>4. ASSUME k # x PROVE At(Append(s, x), k) = At(s, k)
  BY <1>1, <1>2, <1>3, <1>4 DEF At
<1>5. ASSUME k = x, At(s, k) = {} PROVE Once(At(Append(s, x), k))
  BY <1>2, <1>3, <1>5 DEF At, Once
<1> QED
  BY <1>4, <1>5

LEMMA AtTail ==
  ASSUME NEW S, NEW s \in Seq(S), s # << >>, NEW k, Once(At(s, k))
  PROVE  /\ Once(At(Tail(s), k))
         /\ At(Tail(s), k) # {} => At(s, k) # {}
         /\ k = Head(s) => At(s, k) # {} /\ At(Tail(s), k) = {}
<1>1. /\ Len(s) \in Nat /\ DOMAIN s = 1..Len(s) /\ Len(s) # 0
      /\ Tail(s) \in Seq(S) /\ Len(Tail(s)) = Len(s) - 1
      /\ \A i \in 1..Len(Tail(s)) : Tail(s)[i] = s[i + 1]
      /\ Head(s) = s[1]
  BY HeadTailProperties, LenProperties, EmptySeq
<1>2. DOMAIN Tail(s) = 1..(Len(s) - 1)
  BY <1>1, LenProperties
<1>3. \A i \in At(Tail(s), k) : i \in Nat /\ i # 0 /\ i + 1 \in At(s, k)
  BY <1>1, <1>2 DEF At
<1>4. Once(At(Tail(s), k))
  <2> SUFFICES ASSUME NEW i \in At(Tail(s), k), NEW j \in At(Tail(s), k) PROVE i = j
    BY DEF Once
  <2>1. i + 1 = j + 1
    BY <1>3 DEF Once
  <2> QED
    BY <1>3, <2>1
<1>5. ASSUME k = Head(s) PROVE 1 \in At(s, k) /\ At(Tail(s), k) = {}
  <2>1. 1 \in At(s, k)
    BY <1>1, <1>5 DEF At
  <2>2. ASSUME NEW i \in At(Tail(s), k) PROVE FALSE
    <3>1. i + 1 = 1
      BY <1>3, <2>1 DEF Once
    <3> QED
      BY <1>3, <3>1
  <2> QED
    BY <2>1, <2>2
<1> QED
  BY <1>3, <1>4, <1>5

\* A Join moves from each place to the next.
LEMMA AskedOnceStep ==
  ASSUME NEW k, NEW n, AskedOnce(k, n), dialled \subseteq dialled',
         Once(Queued(k, n)'), Once(Answers(k, n)'), Once(Answered(k, n)'),
         Joins(k, n)' => Joins(k, n) \/ (<<k, n>> \notin dialled /\ <<k, n>> \in dialled'),
         Queued(k, n)' # {} => Queued(k, n) # {} \/ (Joins(k, n) /\ ~ Joins(k, n)'),
         Answers(k, n)' # {} => Answers(k, n) # {} \/ (Queued(k, n) # {} /\ Queued(k, n)' = {}),
         Answered(k, n)' # {} => Answered(k, n) # {} \/ (Answers(k, n) # {} /\ Answers(k, n)' = {})
  PROVE  AskedOnce(k, n)'
BY Zenon DEF AskedOnce

\* Meetings go on when nobody joins or replies.
LEMMA MeetingsQuiet ==
  ASSUME Meetings, UNCHANGED <<dialled, Seen, Map, JoinChan>>,
         \A pk \in packets' : pk \in packets \/ pk.type = "InitLeader"
  PROVE  Meetings'
<1>1. MembersMet'
  BY DEF Meetings, MembersMet
<1>2. JoinsDialled'
  BY DEF Meetings, JoinsDialled
<1>3. ASSUME NEW k \in Node, NEW n \in Node PROVE AskedOnce(k, n)'
  <2>1. Joins(k, n)' => Joins(k, n)
    BY DEF Joins, JoinMessage
  <2>2. Answers(k, n)' \subseteq Answers(k, n)
    BY DEF Answers
  <2>3. Queued(k, n)' = Queued(k, n) /\ Answered(k, n)' = Answered(k, n)
    BY DEF Queued, Answered
  <2>4. AskedOnce(k, n)
    BY DEF Meetings
  <2>5. Once(Answers(k, n)') /\ Once(Queued(k, n)') /\ Once(Answered(k, n)')
    BY <2>2, <2>3, <2>4 DEF AskedOnce, Once
  <2> QED
    BY <2>1, <2>2, <2>3, <2>4, <2>5, AskedOnceStep
<1> QED
  BY <1>1, <1>2, <1>3 DEF Meetings

LEMMA MeetingsInit == ElectionInit => Meetings
<1> SUFFICES ASSUME ElectionInit PROVE Meetings
  OBVIOUS
<1>1. /\ dialled = Early /\ packets = {}
      /\ Seen = [n \in Node |-> EarlyMembers(n)]
      /\ Map = [n \in Node |-> [k \in Node |-> {c \in Early : c \in {<<n, k>>, <<k, n>>}}]]
      /\ JoinChan = [n \in Node |-> << >>]
  BY SeenInit DEF ElectionInit, MembershipInit
<1>2. \A c \in Early : c \in Dials /\ c[1] \in Up /\ c[2] \in Up /\ c = <<c[1], c[2]>>
  <2> TAKE c \in Early
  <2>1. c \in Dials /\ c \in Up \X Up
    BY MembershipAssumption
  <2>2. PICK a \in Up : \E b \in Up : c = <<a, b>>
    BY <2>1
  <2> QED
    BY <2>1, <2>2
<1>3. ASSUME NEW n \in Node, NEW k \in Node PROVE Once({c \in Early : c \in {<<n, k>>, <<k, n>>}})
  <2> SUFFICES ASSUME <<n, k>> \in Early, <<k, n>> \in Early PROVE n = k
    BY DEF Once
  <2>1. <<n, k>>[1] = n /\ <<n, k>>[2] = k
    OBVIOUS
  <2> QED
    BY <2>1, MembershipAssumption
<1>4. ASSUME NEW n \in Node, NEW e \in Seen[n]
      PROVE  \/ e.by = "Join" /\ e.conn = <<e.node, n>> /\ e.conn \in Early /\ n \in Up
             \/ e.by = "JoinReply" /\ e.node # n /\ e.conn = <<n, e.node>> /\ e.conn \in Early /\ n \in Up
  <2>1. e \in EarlyMembers(n)
    BY <1>1
  <2>2. CASE \E c \in Early : c[2] = n /\ e = [node |-> c[1], conn |-> c, by |-> "Join"]
    BY <1>2, <2>2
  <2>3. CASE \E c \in Early : c[1] = n /\ c[2] # n /\ e = [node |-> c[2], conn |-> c, by |-> "JoinReply"]
    BY <1>2, <2>3
  <2> QED
    BY <2>1, <2>2, <2>3 DEF EarlyMembers
<1>5. MembersMet
  BY <1>1, <1>2, <1>3, <1>4 DEF MembersMet
<1>6. JoinsDialled
  BY <1>1 DEF JoinsDialled
<1>7. ASSUME NEW k \in Node, NEW n \in Node PROVE AskedOnce(k, n)
  <2>1. ~ Joins(k, n) /\ Answers(k, n) = {} /\ Queued(k, n) = {}
    BY <1>1 DEF Joins, Answers, Queued
  <2>2. ASSUME NEW d \in Answered(k, n) PROVE d.by = "JoinReply" /\ d.conn = <<k, n>> /\ d.conn \in Early
    BY <1>4 DEF Answered
  <2>3. ASSUME NEW d \in Answered(k, n) PROVE d = [node |-> n, conn |-> <<k, n>>, by |-> "JoinReply"]
    <3>1. d \in EarlyMembers(k) /\ d.node = n
      BY <1>1 DEF Answered
    <3>2. d = [node |-> d.node, conn |-> d.conn, by |-> d.by]
      BY <3>1 DEF EarlyMembers
    <3> QED
      BY <2>2, <3>1, <3>2
  <2>4. Once(Answered(k, n)) /\ (Answered(k, n) # {} => <<k, n>> \in dialled)
    BY <1>1, <2>2, <2>3 DEF Once
  <2>5. Once({})
    BY DEF Once
  <2> QED
    BY <2>1, <2>4, <2>5 DEF AskedOnce
<1> QED
  BY <1>5, <1>6, <1>7 DEF Meetings

LEMMA TypeInit == ElectionInit => ElectionTypeOK
<1> SUFFICES ASSUME ElectionInit PROVE ElectionTypeOK
  OBVIOUS
<1>1. Early \in SUBSET (Node \X Node) /\ Early \in SUBSET Dials
  BY MembershipAssumption, NodeFacts
<1>2. \A n \in Node : EarlyMembers(n) \in
        SUBSET [node : Node, conn : Connection, by : {"Join", "JoinReply"}]
  BY <1>1 DEF EarlyMembers, Connection
<1>3. Seen \in [Node -> SUBSET Entry] /\ Members \in [Node -> SUBSET Entry]
  BY <1>2, SeenInit DEF ElectionInit, MembershipInit, Entry
<1>8. AppendsFit /\ lost = {}
  BY DEF ElectionInit, MembershipInit, AppendsFit
<1>4. Map \in [Node -> [Node -> SUBSET Connection]]
  BY <1>1 DEF ElectionInit, MembershipInit, Connection
<1>5. /\ JoinChan \in [Node -> Seq(Node)]
      /\ JoinReplyChan \in [Node -> Seq([from : Node, view : Node \cup {NoView}])]
  BY EmptySeq DEF ElectionInit, MembershipInit
<1>6. dialled \in SUBSET Dials /\ alive \in SUBSET Up
      /\ packets \in SUBSET (JoinPacket \cup ReplyPacket \cup ListPacket)
  BY <1>1 DEF ElectionInit, MembershipInit
<1>7. MembershipTypeOK
  BY <1>3, <1>4, <1>5, <1>6, <1>8 DEF MembershipTypeOK
<1>9. \A n \in Node : GetAllNodeIds(n) \in Ids
  BY <1>7, MeetingsInit, ListOfMembers
<1>10. StartTypeOK
  BY <1>9, CopiesType DEF ElectionInit, StartTypeOK
<1> QED
  BY <1>7, <1>8, <1>10 DEF ElectionTypeOK

LEMMA DialMeets ==
  ASSUME ElectionTypeOK, Meetings, NEW c \in Dials, Dial(c)
  PROVE  Meetings'
<1>1. /\ c \notin dialled /\ dialled' = dialled \cup {c}
      /\ packets' = packets \cup {JoinMessage(c)}
      /\ UNCHANGED <<Seen, Map, JoinChan>>
  BY DialAppends DEF Dial
<1>2. JoinMessage(c).type = "Join" /\ JoinMessage(c).conn = c
  BY DEF JoinMessage
<1>3. MembersMet'
  BY <1>1 DEF Meetings, MembersMet
<1>4. JoinsDialled'
  BY <1>1, <1>2, JoinMessageType DEF Meetings, JoinsDialled
<1>5. ASSUME NEW k \in Node, NEW n \in Node PROVE AskedOnce(k, n)'
  <2>1. Joins(k, n)' => Joins(k, n) \/ <<k, n>> = c
    <3>1. JoinMessage(<<k, n>>).conn = <<k, n>>
      BY DEF JoinMessage
    <3>2. (JoinMessage(<<k, n>>))' = JoinMessage(<<k, n>>)
      BY DEF JoinMessage
    <3> QED
      BY <1>1, <1>2, <3>1, <3>2 DEF Joins
  <2>2. Answers(k, n)' = Answers(k, n)
    BY <1>1, <1>2 DEF Answers
  <2>3. Queued(k, n)' = Queued(k, n) /\ Answered(k, n)' = Answered(k, n)
    BY <1>1 DEF Queued, Answered
  <2>4. AskedOnce(k, n)
    BY DEF Meetings
  <2>5. Once(Answers(k, n)') /\ Once(Queued(k, n)') /\ Once(Answered(k, n)')
    BY <2>2, <2>3, <2>4 DEF AskedOnce
  <2> QED
    BY <1>1, <2>1, <2>2, <2>3, <2>4, <2>5, AskedOnceStep
<1> QED
  BY <1>3, <1>4, <1>5 DEF Meetings

\* A Join on its way is the Join of its sender.
LEMMA JoinOfPacket ==
  ASSUME ElectionTypeOK, JoinsDialled, NEW pk \in packets, pk.type = "Join"
  PROVE  pk = JoinMessage(<<pk.from, pk.to>>) /\ pk.conn = <<pk.from, pk.to>> /\ pk.conn \in Dials
<1>1. pk \in JoinPacket /\ pk.conn = <<pk.from, pk.to>> /\ pk.conn \in Dials
  BY PacketFields DEF ElectionTypeOK, JoinsDialled
<1>2. <<pk.from, pk.to>>[1] = pk.from /\ <<pk.from, pk.to>>[2] = pk.to
  OBVIOUS
<1> QED
  BY <1>1, <1>2 DEF JoinMessage, JoinPacket

\* A Join is handled: it is queued, and its sender is a member.
LEMMA HandleJoinMeets ==
  ASSUME ElectionTypeOK, Meetings, NEW n \in Up, NEW pk \in Joining(n), pk.type = "Join",
         packets' = packets \ {pk}, dialled' = dialled,
         Seen' = [Seen EXCEPT ![n] = @ \cup {MemberOf(pk)}],
         Map' = [Map EXCEPT ![n][pk.from] = {pk.conn}],
         JoinChan' = [JoinChan EXCEPT ![n] = Append(@, pk.from)]
  PROVE  Meetings'
<1>1. /\ n \in Node /\ pk \in packets /\ pk.to = n /\ pk.from \in Node
      /\ pk = JoinMessage(<<pk.from, n>>) /\ pk.conn = <<pk.from, n>> /\ pk.conn \in Dials
  BY NodeFacts, PacketFields, JoinOfPacket DEF Joining, Meetings, ElectionTypeOK
<1>2. MembersMet'
  <2>1. \A e \in Seen'[n] : e \in Seen[n] \/ e = MemberOf(pk)
    BY <1>1 DEF ElectionTypeOK, MembershipTypeOK
  <2>2. \A k \in Node \ {n} : Seen'[k] = Seen[k]
    BY <1>1 DEF ElectionTypeOK, MembershipTypeOK
  <2>3. MemberOf(pk).by = "Join" /\ MemberOf(pk).node = pk.from /\ MemberOf(pk).conn = pk.conn
    BY DEF MemberOf
  <2>4. ASSUME NEW j \in Node, NEW k \in Node PROVE Map'[j][k] = Map[j][k] \/ Map'[j][k] = {pk.conn}
    BY <1>1 DEF ElectionTypeOK, MembershipTypeOK
  <2>5. \A j, k \in Node : Once(Map'[j][k])
    BY <2>4 DEF Meetings, MembersMet, Once
  <2>6. ASSUME NEW j \in Node, NEW e \in Seen'[j]
        PROVE  /\ e.by = "Join" => e.conn = <<e.node, j>> /\ e.conn \in Dials
               /\ e.by = "JoinReply" => e.node # j
               /\ j \in Up
    <3>1. CASE j = n /\ e = MemberOf(pk)
      BY <1>1, <2>3, <3>1
    <3>2. CASE e \in Seen[j]
      BY <3>2 DEF Meetings, MembersMet
    <3> QED
      BY <2>1, <2>2, <3>1, <3>2
  <2> QED
    BY <2>5, <2>6 DEF MembersMet
<1>3. JoinsDialled'
  BY DEF Meetings, JoinsDialled
<1>4. ASSUME NEW k \in Node, NEW m \in Node PROVE AskedOnce(k, m)'
  <2>1. AskedOnce(k, m)
    BY DEF Meetings
  <2>2. Joins(k, m)' => Joins(k, m)
    BY DEF Joins, JoinMessage
  <2>3. Answers(k, m)' = Answers(k, m)
    BY DEF Answers
  <2>4. Answered(k, m)' = Answered(k, m)
    BY <1>1 DEF Answered, MemberOf, ElectionTypeOK, MembershipTypeOK
  <2>5. JoinChan \in [Node -> Seq(Node)]
    BY DEF ElectionTypeOK, MembershipTypeOK
  <2>6. Queued(k, m) = At(JoinChan[m], k) /\ Queued(k, m)' = At(JoinChan'[m], k)
    BY DEF Queued, At
  <2>7. ASSUME ~ (m = n /\ k = pk.from) PROVE Queued(k, m)' = Queued(k, m)
    <3>1. CASE m # n
      BY <1>1, <2>5, <2>6, <3>1
    <3>2. CASE m = n
      <4>1. JoinChan'[m] = Append(JoinChan[m], pk.from) /\ k # pk.from
        BY <1>1, <2>5, <2>7, <3>2
      <4> QED
        BY <1>1, <2>5, <2>6, <4>1, AtAppend
    <3> QED
      BY <3>1, <3>2
  <2>8. ASSUME m = n, k = pk.from
        PROVE  Joins(k, m) /\ ~ Joins(k, m)' /\ Once(Queued(k, m)')
    <3>1. Joins(k, m) /\ ~ Joins(k, m)'
      BY <1>1, <2>8 DEF Joins, JoinMessage
    <3>2. At(JoinChan[m], k) = {}
      BY <2>1, <2>6, <3>1 DEF AskedOnce
    <3>3. JoinChan'[m] = Append(JoinChan[m], k)
      BY <1>1, <2>5, <2>8
    <3> QED
      BY <2>5, <2>6, <3>1, <3>2, <3>3, AtAppend
  <2>9. Once(Answers(k, m)') /\ Once(Queued(k, m)') /\ Once(Answered(k, m)')
    BY <2>1, <2>3, <2>4, <2>7, <2>8 DEF AskedOnce
  <2> QED
    BY <2>1, <2>2, <2>3, <2>4, <2>7, <2>8, <2>9, AskedOnceStep
<1> QED
  BY <1>2, <1>3, <1>4 DEF Meetings

\* Tables with one more member, if any, and one connection changed, if any.
LEMMA MembersGrow ==
  ASSUME MembershipTypeOK, MembersMet, NEW n \in Node, NEW e, NEW k \in Node, NEW c,
         Seen' = Seen \/ Seen' = [Seen EXCEPT ![n] = @ \cup {e}],
         Map' = Map \/ Map' = [Map EXCEPT ![n][k] = {c}],
         Seen' # Seen =>
           /\ n \in Up
           /\ e.by = "Join" => e.conn = <<e.node, n>> /\ e.conn \in Dials
           /\ e.by = "JoinReply" => e.node # n
  PROVE  MembersMet'
<1>1. ASSUME NEW j \in Node, NEW i \in Node PROVE Once(Map'[j][i])
  <2>1. Map'[j][i] = Map[j][i] \/ Map'[j][i] = {c}
    <3>1. Map \in [Node -> [Node -> SUBSET Connection]]
      BY DEF MembershipTypeOK
    <3>2. CASE Map' = Map
      BY <3>2
    <3>3. CASE Map' = [Map EXCEPT ![n][k] = {c}]
      <4>1. CASE j = n /\ i = k
        BY <3>1, <3>3, <4>1
      <4>2. CASE ~ (j = n /\ i = k)
        BY <3>1, <3>3, <4>2
      <4> QED
        BY <4>1, <4>2
    <3> QED
      BY <3>2, <3>3
  <2> QED
    BY <2>1 DEF MembersMet, Once
<1>2. ASSUME NEW j \in Node, NEW d \in Seen'[j]
      PROVE  /\ d.by = "Join" => d.conn = <<d.node, j>> /\ d.conn \in Dials
             /\ d.by = "JoinReply" => d.node # j
             /\ j \in Up
  <2>1. d \in Seen[j] \/ (Seen' # Seen /\ j = n /\ d = e)
    BY DEF MembershipTypeOK
  <2> QED
    BY <2>1 DEF MembersMet
<1> QED
  BY <1>1, <1>2 DEF MembersMet

\* A reply is handled: it was the only one, and its sender is a member.
LEMMA HandleReplyMeets ==
  ASSUME ElectionTypeOK, Meetings, NEW n \in Up, NEW pk \in Joining(n), pk.type = "JoinReply",
         packets' = packets \ {pk}, dialled' = dialled,
         Seen' = IF Ignored(pk) THEN Seen ELSE [Seen EXCEPT ![n] = @ \cup {MemberOf(pk)}],
         Map' = IF Ignored(pk) THEN Map ELSE [Map EXCEPT ![n][pk.from] = {pk.conn}],
         JoinChan' = JoinChan
  PROVE  Meetings'
<1>1. n \in Node /\ pk \in packets /\ pk.to = n /\ pk.from \in Node
  BY NodeFacts, PacketFields DEF Joining, ElectionTypeOK
<1>2. /\ MemberOf(pk).by = "JoinReply" /\ MemberOf(pk).node = pk.from
      /\ ~ Ignored(pk) => pk.from # n
  BY <1>1 DEF MemberOf, Ignored
<1>3. MembersMet'
  <2>1. /\ Seen' = Seen \/ Seen' = [Seen EXCEPT ![n] = @ \cup {MemberOf(pk)}]
        /\ Map' = Map \/ Map' = [Map EXCEPT ![n][pk.from] = {pk.conn}]
        /\ Seen' # Seen => ~ Ignored(pk)
    OBVIOUS
  <2>2. MembershipTypeOK /\ MembersMet
    BY DEF ElectionTypeOK, Meetings
  <2> QED
    BY <1>1, <1>2, <2>1, <2>2, MembersGrow
<1>4. JoinsDialled'
  BY DEF Meetings, JoinsDialled
<1>5. ASSUME NEW k \in Node, NEW m \in Node PROVE AskedOnce(k, m)'
  <2>1. AskedOnce(k, m)
    BY DEF Meetings
  <2>2. (Joins(k, m)' => Joins(k, m)) /\ Queued(k, m)' = Queued(k, m)
    BY DEF Joins, JoinMessage, Queued
  <2>3. Answers(k, m)' = Answers(k, m) \ {pk}
    BY DEF Answers
  <2>4. ASSUME ~ (k = n /\ m = pk.from) PROVE Answered(k, m)' = Answered(k, m)
    <3>1. \A e \in Seen'[k] : e \in Seen[k] \/ (k = n /\ e = MemberOf(pk))
      BY <1>1 DEF ElectionTypeOK, MembershipTypeOK
    <3>2. Seen[k] \subseteq Seen'[k]
      BY <1>1 DEF ElectionTypeOK, MembershipTypeOK
    <3> QED
      BY <1>2, <2>4, <3>1, <3>2 DEF Answered
  <2>5. ASSUME k = n, m = pk.from
        PROVE  Answers(k, m) # {} /\ Answers(k, m)' = {} /\ Once(Answered(k, m)')
    <3>1. pk \in Answers(k, m)
      BY <1>1, <2>5 DEF Answers
    <3>2. Answered(k, m) = {} /\ Answers(k, m) = {pk}
      BY <2>1, <3>1 DEF AskedOnce, Once
    <3>3. \A e \in Seen'[k] : e \in Seen[k] \/ e = MemberOf(pk)
      BY <1>1, <2>5 DEF ElectionTypeOK, MembershipTypeOK
    <3>4. \A e \in Answered(k, m)' : e = MemberOf(pk)
      BY <3>2, <3>3 DEF Answered
    <3> QED
      BY <2>3, <3>1, <3>2, <3>4 DEF Once
  <2>6. Once(Answers(k, m)') /\ Once(Queued(k, m)') /\ Once(Answered(k, m)')
    BY <2>1, <2>2, <2>3, <2>4, <2>5 DEF AskedOnce, Once
  <2> QED
    BY <2>1, <2>2, <2>3, <2>4, <2>5, <2>6, AskedOnceStep
<1> QED
  BY <1>3, <1>4, <1>5 DEF Meetings

LEMMA HandleJoiningMeets ==
  ASSUME ElectionTypeOK, Meetings, NEW n \in Up, HandlesJoining(n)
  PROVE  Meetings'
<1>1. PICK pk \in Joining(n) :
        /\ packets' = packets \ {pk}
        /\ IF Ignored(pk) THEN UNCHANGED <<Seen, Map>>
           ELSE /\ Seen' = [Seen EXCEPT ![n] = @ \cup {MemberOf(pk)}]
                /\ Map' = [Map EXCEPT ![n][pk.from] = {pk.conn}]
        /\ JoinChan' = [JoinChan EXCEPT ![n] = IF pk.type = "Join" THEN Append(@, pk.from) ELSE @]
        /\ dialled' = dialled
  BY DEF HandlesJoining
<1>2. CASE pk.type = "Join"
  <2>1. ~ Ignored(pk)
    BY <1>2 DEF Ignored
  <2>2. /\ Seen' = [Seen EXCEPT ![n] = @ \cup {MemberOf(pk)}]
        /\ Map' = [Map EXCEPT ![n][pk.from] = {pk.conn}]
        /\ JoinChan' = [JoinChan EXCEPT ![n] = Append(@, pk.from)]
    BY <1>1, <1>2, <2>1
  <2> QED
    BY <1>1, <1>2, <2>2, HandleJoinMeets
<1>3. CASE pk.type = "JoinReply"
  <2>1. JoinChan' = JoinChan
    BY <1>1, <1>3 DEF ElectionTypeOK, MembershipTypeOK
  <2>2. /\ Seen' = IF Ignored(pk) THEN Seen ELSE [Seen EXCEPT ![n] = @ \cup {MemberOf(pk)}]
        /\ Map' = IF Ignored(pk) THEN Map ELSE [Map EXCEPT ![n][pk.from] = {pk.conn}]
    BY <1>1
  <2> QED
    BY <1>1, <1>3, <2>1, <2>2, HandleReplyMeets
<1> QED
  BY <1>2, <1>3 DEF Joining

\* A Join is answered: it was queued once, and Map has one connection.
LEMMA AnswerJoinMeets ==
  ASSUME ElectionTypeOK, Meetings, NEW n \in Up, AnswerJoin(n)
  PROVE  Meetings'
<1> DEFINE h == Head(JoinChan[n])
<1>1. /\ JoinChan[n] # << >>
      /\ packets' = packets \cup {JoinReplyMessage(c, n, h, View[n]) : c \in Map[n][h]}
      /\ JoinChan' = [JoinChan EXCEPT ![n] = Tail(@)]
      /\ UNCHANGED <<dialled, Seen, Map>>
  BY LoopAppends DEF AnswerJoin, StartLoop
<1>2. n \in Node /\ JoinChan \in [Node -> Seq(Node)] /\ h \in Node
  <2>1. n \in Node /\ JoinChan \in [Node -> Seq(Node)]
    BY NodeFacts DEF ElectionTypeOK, MembershipTypeOK
  <2> QED
    BY <1>1, <2>1, TakenFrom
<1>3. MembersMet'
  BY <1>1 DEF Meetings, MembersMet
<1> DEFINE R == {JoinReplyMessage(c, n, h, View[n]) : c \in Map[n][h]}
<1>4. /\ \A pk \in R : pk.type = "JoinReply" /\ pk.from = n /\ pk.to = h
      /\ Once(R)
  <2>1. Once(Map[n][h])
    BY <1>2 DEF Meetings, MembersMet
  <2> QED
    BY <2>1 DEF Once, JoinReplyMessage
<1>5. packets' = packets \cup R
  BY <1>1
<1>6. \A k, m \in Node : Queued(k, m) = At(JoinChan[m], k) /\ Queued(k, m)' = At(JoinChan'[m], k)
  BY DEF Queued, At
<1> HIDE DEF R
<1>7. JoinsDialled'
  BY <1>4, <1>5 DEF Meetings, JoinsDialled
<1>8. ASSUME NEW k \in Node, NEW m \in Node PROVE AskedOnce(k, m)'
  <2>1. AskedOnce(k, m)
    BY DEF Meetings
  <2>2. Joins(k, m)' => Joins(k, m)
    BY <1>4, <1>5 DEF Joins, JoinMessage
  <2>3. Answered(k, m)' = Answered(k, m)
    BY <1>1 DEF Answered
  <2>4. Once(Queued(k, m)) /\ Once(Answers(k, m)) /\ Once(Answered(k, m))
    BY <2>1 DEF AskedOnce
  <2>5. CASE m # n
    <3>1. Queued(k, m)' = Queued(k, m) /\ Answers(k, m)' = Answers(k, m)
      BY <1>1, <1>2, <1>4, <1>5, <2>5 DEF Queued, Answers
    <3> QED
      BY <1>1, <2>1, <2>2, <2>3, <2>4, <3>1, AskedOnceStep
  <2>6. CASE m = n
    <3>1. JoinChan'[m] = Tail(JoinChan[m]) /\ JoinChan[m] \in Seq(Node) /\ JoinChan[m] # << >>
      BY <1>1, <1>2, <2>6
    <3>2. /\ Once(Queued(k, m)')
          /\ Queued(k, m)' # {} => Queued(k, m) # {}
          /\ k = h => Queued(k, m) # {} /\ Queued(k, m)' = {}
      BY <1>6, <2>4, <2>6, <3>1, AtTail
    <3>3. k # h => Answers(k, m)' = Answers(k, m)
      BY <1>4, <1>5 DEF Answers
    <3>4. k = h => Answers(k, m) = {} /\ Answers(k, m)' \subseteq R
      BY <1>5, <2>1, <3>2 DEF AskedOnce, Answers
    <3>5. Once(Answers(k, m)')
      BY <1>4, <2>4, <3>3, <3>4 DEF Once
    <3> QED
      BY <1>1, <2>1, <2>2, <2>3, <2>4, <3>2, <3>3, <3>5, AskedOnceStep
  <2> QED
    BY <2>5, <2>6
<1> QED
  BY <1>3, <1>7, <1>8 DEF Meetings

LEMMA MeetingsNext ==
  ASSUME ElectionTypeOK, Meetings, [ElectionNext]_electionVars
  PROVE  Meetings'
<1>1. CASE UNCHANGED electionVars
  BY <1>1, AppendsStay, MeetingsQuiet DEF electionVars, memberVars
<1>2. ASSUME NEW n \in Up, AdoptView(n) \/ CountReply(n) \/ CountList(n) \/ Elect(n)
      PROVE  Meetings'
  <2>1. UNCHANGED <<dialled, Seen, Map, JoinChan>> /\ packets' \subseteq packets
    BY <1>2, LoopAppends DEF StartLoop, AdoptView, CountReply, CountList, Elect
  <2> QED
    BY <2>1, MeetingsQuiet
<1>3. ASSUME NEW n \in Up, SendInitLeader(n) PROVE Meetings'
  <2>1. UNCHANGED <<dialled, Seen, Map, JoinChan>>
    BY <1>3, LoopAppends DEF StartLoop, SendInitLeader
  <2>2. \A pk \in packets' : pk \in packets \/ pk.type = "InitLeader"
    BY <1>3 DEF SendInitLeader, InitLeaderMessage
  <2> QED
    BY <2>1, <2>2, MeetingsQuiet
<1>4. ASSUME NEW n \in Up, HandleJoining(n) PROVE Meetings'
  <2>1. CASE HandlesNothing
    BY <2>1, MeetingsQuiet DEF HandlesNothing
  <2> QED
    BY <1>4, <2>1, HandlerSteps, HandleJoiningMeets
<1> QED
  BY <1>1, <1>2, <1>3, <1>4, DialMeets, AnswerJoinMeets
     DEF ElectionNext, Handlers, StartLoop

----------------------------------------------------------------------------
(* Views name a node that is known.                                        *)

\* The lists that all nodes would send, had no append dropped anything.
Current == [j \in Node |-> StoredIds(j)]

\* Node v is listed often enough in them.
Known(v) == v \in Node /\ Check(N, Listed(Current, v))

Views == {v \in Node \cup {NoView} : v # NoView => Known(v)}

\* The list ids of node j has nothing that Members of node j has not, or had.
Truthful(j, ids) ==
  j \in Node /\ ids \in Ids /\ \A k \in Node : ids[k] <= StoredIds(j)[k]

\* Wherever a view or a list is on its way, it is one of these.
Informed ==
  /\ View \in [Node -> Views]
  /\ JoinReplyChan \in [Node -> Seq([from : Node, view : Views])]
  /\ \A pk \in packets : /\ pk.type = "JoinReply" => pk.view \in Views
                         /\ pk.type = "InitLeader" => Truthful(pk.from, pk.ids)
  /\ \A n \in Node : /\ Truthful(n, announcing[n])
                     /\ \A j \in Node : Truthful(j, InitLeaderMessages[n][j])

\* Of longer lists, the sums are not smaller.
LEMMA ListedMonotone ==
  ASSUME NEW lists, NEW more, NEW k \in Node,
         \A j \in Node : lists[j][k] \in Nat /\ more[j][k] \in Nat /\ lists[j][k] <= more[j][k]
  PROVE  /\ Listed(lists, k) \in Nat /\ Listed(more, k) \in Nat
         /\ Listed(lists, k) <= Listed(more, k)
<1>1. PICK f : IsSum(f, Column(lists, k), N) /\ Listed(lists, k) = f[N]
  BY ListedIsSum
<1>2. PICK g : IsSum(g, Column(more, k), N) /\ Listed(more, k) = g[N]
  BY ListedIsSum
<1> DEFINE Ordered(i) == f[i] \in Nat /\ g[i] \in Nat /\ f[i] <= g[i]
           T == {i \in 0..N : ~ Ordered(i)}
<1>3. T = {}
  <2> SUFFICES ASSUME T # {} PROVE FALSE
    OBVIOUS
  <2>1. PICK i \in T : \A y \in T : i <= y
    <3>1. T \in SUBSET Nat
      BY NodeFacts
    <3> HIDE DEF T
    <3> QED
      BY <3>1, LeastNat
  <2>2. i \in 0..N /\ ~ Ordered(i)
    BY <2>1
  <2>3. i # 0
    <3>1. 0 \in 0..N /\ f[0] = 0 /\ g[0] = 0
      BY <1>1, <1>2, NodeFacts DEF IsSum
    <3> QED
      BY <2>2, <3>1
  <2>4. i - 1 \in 0..N /\ i - 1 \in Node /\ Ordered(i - 1)
    <3>1. i - 1 \in 0..N /\ i - 1 \in Node /\ ~ (i <= i - 1)
      BY <2>2, <2>3, NodeFacts DEF Node
    <3> HIDE DEF Ordered
    <3> QED
      BY <2>1, <3>1
  <2>5. f[i] = f[i - 1] + lists[i - 1][k] /\ g[i] = g[i - 1] + more[i - 1][k]
    BY <1>1, <1>2, <2>2, <2>3, <2>4 DEF IsSum, Column
  <2>6. Ordered(i)
    BY <2>4, <2>5
  <2> QED
    BY <2>2, <2>6
<1>4. Ordered(N)
  <2>1. N \in 0..N
    BY NodeFacts
  <2> HIDE DEF Ordered
  <2> QED
    BY <1>3, <2>1
<1> QED
  BY <1>1, <1>2, <1>4

\* In a step, what was ever in Members only grows.
Growing ==
  /\ Seen \in [Node -> SUBSET Entry]
  /\ Seen' \in [Node -> SUBSET Entry]
  /\ \A n \in Node : Seen[n] \subseteq Seen'[n]

LEMMA ListsGrow ==
  ASSUME Growing, NEW j \in Node, NEW k \in Node
  PROVE  /\ StoredIds(j)[k] \in Nat /\ StoredIds(j)'[k] \in Nat
         /\ StoredIds(j)[k] <= StoredIds(j)'[k]
         /\ Current[j][k] = StoredIds(j)[k] /\ Current'[j][k] = StoredIds(j)'[k]
<1> DEFINE S == {e \in Seen[j] : e.node = k}
           T == {e \in Seen'[j] : e.node = k}
<1>1. StoredIds(j)[k] = Cardinality(S) /\ StoredIds(j)'[k] = Cardinality(T)
  BY DEF StoredIds, Seen
<1>2. S \in SUBSET Entry /\ T \in SUBSET Entry /\ S \subseteq T
  BY DEF Growing
<1> HIDE DEF S, T
<1>3. IsFiniteSet(T) /\ Cardinality(S) \in Nat /\ Cardinality(T) \in Nat
  BY <1>2, EntriesFinite
<1>4. Cardinality(S) <= Cardinality(T)
  BY <1>2, <1>3, FS_Subset
<1>5. Current[j][k] = StoredIds(j)[k] /\ Current'[j][k] = StoredIds(j)'[k]
  BY DEF Current
<1> QED
  BY <1>1, <1>3, <1>4, <1>5

\* What is known stays known.
LEMMA KnownGrows ==
  ASSUME Growing
  PROVE  /\ Views \subseteq Views'
         /\ \A j, ids : Truthful(j, ids) => Truthful(j, ids)'
<1>1. ASSUME NEW v \in Views PROVE v \in Views'
  <2>1. CASE v = NoView
    BY <2>1 DEF Views
  <2>2. CASE v # NoView
    <3>1. v \in Node /\ Check(N, Listed(Current, v))
      BY <2>2 DEF Views, Known
    <3>2. /\ Listed(Current, v) \in Nat /\ Listed(Current', v) \in Nat
          /\ Listed(Current, v) <= Listed(Current', v)
      BY <3>1, ListsGrow, ListedMonotone
    <3>3. Listed(Current, v) >= 2 * F(N) + 1 /\ F(N) \in Int
      BY <3>1, NodeFacts DEF Check, F
    <3>4. Check(N, Listed(Current', v))
      BY <3>2, <3>3 DEF Check
    <3>5. Listed(Current, v)' = Listed(Current', v)
      BY DEF Listed
    <3>6. Known(v)'
      BY <3>1, <3>4, <3>5 DEF Known
    <3> QED
      BY <3>1, <3>6 DEF Views
  <2> QED
    BY <2>1, <2>2
<1>2. ASSUME NEW j, NEW ids, Truthful(j, ids) PROVE Truthful(j, ids)'
  <2>1. j \in Node /\ ids \in [Node -> 0..Copies] /\ Copies \in Nat
    BY <1>2, CopiesType DEF Truthful, Ids
  <2>2. ASSUME NEW k \in Node PROVE ids[k] <= StoredIds(j)'[k]
    <3>1. ids[k] <= StoredIds(j)[k] /\ ids[k] \in Nat
      BY <1>2, <2>1 DEF Truthful
    <3>2. /\ StoredIds(j)[k] \in Nat /\ StoredIds(j)'[k] \in Nat
          /\ StoredIds(j)[k] <= StoredIds(j)'[k]
      BY <2>1, ListsGrow
    <3> QED
      BY <3>1, <3>2
  <2> QED
    BY <1>2, <2>2 DEF Truthful
<1> QED
  BY <1>1, <1>2

LEMMA StepGrows ==
  ASSUME ElectionTypeOK, ElectionTypeOK', [ElectionNext]_electionVars
  PROVE  Growing
<1>1. Seen \in [Node -> SUBSET Entry] /\ Seen' \in [Node -> SUBSET Entry]
  BY DEF ElectionTypeOK, MembershipTypeOK, Entry
<1>2. ASSUME NEW n \in Up, NEW S, Seen' = [Seen EXCEPT ![n] = @ \cup S]
      PROVE  \A k \in Node : Seen[k] \subseteq Seen'[k]
  BY <1>1, <1>2, NodeFacts
<1>3. ASSUME NEW n \in Up, HandleJoining(n) PROVE \A k \in Node : Seen[k] \subseteq Seen'[k]
  <2>1. CASE HandlesNothing
    BY <2>1 DEF HandlesNothing
  <2>2. CASE HandlesJoining(n)
    <3>1. Seen' = Seen \/ \E pk : Seen' = [Seen EXCEPT ![n] = @ \cup {MemberOf(pk)}]
      BY <2>2 DEF HandlesJoining
    <3> QED
      BY <1>2, <3>1
  <2> QED
    BY <1>3, <2>1, <2>2, HandlerSteps
<1>5. ASSUME \/ UNCHANGED electionVars
             \/ \E c \in Dials : Dial(c)
             \/ \E n \in Up : StartLoop(n)
      PROVE  Seen' = Seen
  <2>1. CASE UNCHANGED electionVars
    BY <2>1, AppendsStay DEF electionVars, memberVars
  <2> QED
    BY <1>5, <2>1, DialAppends, LoopAppends
<1>6. \A k \in Node : Seen[k] \subseteq Seen'[k]
  BY <1>3, <1>5 DEF ElectionNext, Handlers
<1> QED
  BY <1>1, <1>6 DEF Growing

\* A step keeps Informed if all it makes is informed.
LEMMA InformedStep ==
  ASSUME Growing,
         View' \in [Node -> Views],
         JoinReplyChan' \in [Node -> Seq([from : Node, view : Views])],
         \A pk \in packets' : /\ pk.type = "JoinReply" => pk.view \in Views
                              /\ pk.type = "InitLeader" => Truthful(pk.from, pk.ids),
         \A n \in Node : /\ Truthful(n, announcing'[n])
                         /\ \A j \in Node : Truthful(j, InitLeaderMessages'[n][j])
  PROVE  Informed'
<1>1. Views \subseteq Views' /\ \A j, ids : Truthful(j, ids) => Truthful(j, ids)'
  BY KnownGrows
<1>2. View' \in [Node -> Views']
  BY <1>1
<1>3. JoinReplyChan' \in [Node -> Seq([from : Node, view : Views'])]
  <2>1. [from : Node, view : Views] \subseteq [from : Node, view : Views']
    BY <1>1
  <2> DEFINE S == [from : Node, view : Views]
             T == [from : Node, view : Views']
  <2>2. S \subseteq T /\ JoinReplyChan' \in [Node -> Seq(S)]
    BY <2>1
  <2> HIDE DEF S, T
  <2>3. \A n \in Node : JoinReplyChan'[n] \in Seq(S)
    BY <2>2
  <2>4. \A n \in Node : JoinReplyChan'[n] \in Seq(T)
    BY <2>2, <2>3, SeqMonotonic
  <2>5. JoinReplyChan' \in [Node -> Seq(T)]
    BY <2>2, <2>4
  <2> QED
    BY <2>5 DEF T
<1>4. \A pk \in packets' : pk.type = "JoinReply" => pk.view \in Views'
  BY <1>1
<1>5. ASSUME NEW pk \in packets', pk.type = "InitLeader" PROVE Truthful(pk.from, pk.ids)'
  BY <1>1, <1>5
<1>6. ASSUME NEW n \in Node, NEW j \in Node
      PROVE  (Truthful(n, announcing[n]))' /\ (Truthful(j, InitLeaderMessages[n][j]))'
  <2>1. Truthful(n, announcing'[n]) /\ Truthful(j, InitLeaderMessages'[n][j])
    OBVIOUS
  <2> QED
    BY <1>1, <2>1 DEF Truthful
<1> QED
  BY <1>2, <1>3, <1>4, <1>5, <1>6 DEF Informed

\* An empty list is truthful, and so is one just read from Members.
LEMMA ReadLists ==
  ASSUME ElectionTypeOK, NEW j \in Node
  PROVE  /\ Truthful(j, NoIds)
         /\ Meetings => Truthful(j, GetAllNodeIds(j))
         /\ \A k \in Node : StoredIds(j)[k] \in Nat /\ Current[j][k] = StoredIds(j)[k]
<1>1. ASSUME NEW k \in Node
      PROVE  StoredIds(j)[k] \in Nat /\ Current[j][k] = StoredIds(j)[k]
  <2> DEFINE S == {e \in Seen[j] : e.node = k}
  <2>1. S \in SUBSET Entry
    BY DEF ElectionTypeOK, MembershipTypeOK
  <2>2. StoredIds(j)[k] = Cardinality(S) /\ Current[j][k] = StoredIds(j)[k]
    BY SeenEntries DEF ElectionTypeOK, StoredIds, Current
  <2> HIDE DEF S
  <2> QED
    BY <2>1, <2>2, EntriesFinite
<1>2. \A k \in Node : NoIds[k] <= StoredIds(j)[k]
  BY <1>1, CopiesType
<1>3. Meetings => Truthful(j, GetAllNodeIds(j))
  BY ListOfMembers DEF ElectionTypeOK, Truthful
<1> QED
  BY <1>1, <1>2, <1>3, CopiesType DEF Truthful

LEMMA InformedInit == ElectionInit => Informed
<1> SUFFICES ASSUME ElectionInit PROVE Informed
  OBVIOUS
<1>1. NoView \in Views
  BY DEF Views
<1>2. View \in [Node -> Views]
  BY <1>1 DEF ElectionInit
<1>3. JoinReplyChan \in [Node -> Seq([from : Node, view : Views])]
  BY EmptySeq DEF ElectionInit, MembershipInit
<1>4. packets = {}
  BY DEF ElectionInit, MembershipInit
<1>5. \A j \in Node : Truthful(j, NoIds)
  BY TypeInit, ReadLists
<1>6. \A j \in Node : Truthful(j, announcing[j])
  <2>1. \A j \in Node : Truthful(j, GetAllNodeIds(j))
    BY TypeInit, MeetingsInit, ReadLists
  <2> QED
    BY <1>5, <2>1 DEF ElectionInit
<1> QED
  BY <1>2, <1>3, <1>4, <1>5, <1>6 DEF Informed, ElectionInit

\* Who has something to send or to collect but no more, keeps what there is.
LEMMA HandlersInformed ==
  ASSUME ElectionTypeOK, Informed, NEW n \in Up, HandleJoining(n),
         UNCHANGED startVars, Growing
  PROVE  Informed'
<1>1. packets' \subseteq packets
  BY HandlerSteps DEF HandlesJoining, HandlesNothing
<1>2. View' = View /\ announcing' = announcing /\ InitLeaderMessages' = InitLeaderMessages
  BY DEF startVars
<1>3. JoinReplyChan' \in [Node -> Seq([from : Node, view : Views])]
  <2>1. CASE JoinReplyChan' = JoinReplyChan
    BY <2>1 DEF Informed
  <2>2. CASE \E pk \in Joining(n) :
               /\ pk.type = "JoinReply"
               /\ JoinReplyChan' = [JoinReplyChan EXCEPT ![n] =
                    Append(@, [from |-> pk.from, view |-> pk.view])]
    <3>1. PICK pk \in Joining(n) :
            /\ pk.type = "JoinReply"
            /\ JoinReplyChan' = [JoinReplyChan EXCEPT ![n] =
                 Append(@, [from |-> pk.from, view |-> pk.view])]
      BY <2>2
    <3>2. pk.from \in Node /\ pk.view \in Views
      BY <3>1, PacketFields DEF Joining, Informed, ElectionTypeOK
    <3>3. [from |-> pk.from, view |-> pk.view] \in [from : Node, view : Views]
      BY <3>2
    <3>4. n \in Node /\ JoinReplyChan[n] \in Seq([from : Node, view : Views])
      BY NodeFacts DEF Informed
    <3>5. Append(JoinReplyChan[n], [from |-> pk.from, view |-> pk.view])
            \in Seq([from : Node, view : Views])
      BY <3>3, <3>4, AppendProperties
    <3> QED
      BY <3>1, <3>5 DEF Informed
  <2>3. ASSUME HandlesJoining(n), JoinReplyChan' # JoinReplyChan
        PROVE  \E pk \in Joining(n) :
                 /\ pk.type = "JoinReply"
                 /\ JoinReplyChan' = [JoinReplyChan EXCEPT ![n] =
                      Append(@, [from |-> pk.from, view |-> pk.view])]
    <3>1. PICK pk \in Joining(n) : JoinReplyChan' = [JoinReplyChan EXCEPT ![n] =
             IF pk.type = "JoinReply" /\ ~ Ignored(pk)
             THEN Append(@, [from |-> pk.from, view |-> pk.view]) ELSE @]
      BY <2>3 DEF HandlesJoining
    <3>2. CASE pk.type = "JoinReply" /\ ~ Ignored(pk)
      BY <3>1, <3>2
    <3>3. CASE ~ (pk.type = "JoinReply" /\ ~ Ignored(pk))
      BY <2>3, <3>1, <3>3 DEF Informed
    <3> QED
      BY <3>2, <3>3
  <2>4. HandlesJoining(n) \/ JoinReplyChan' = JoinReplyChan
    BY HandlerSteps DEF HandlesNothing
  <2> QED
    BY <2>1, <2>2, <2>3, <2>4
<1> QED
  BY <1>1, <1>2, <1>3, InformedStep DEF Informed

LEMMA DialInformed ==
  ASSUME Informed, NEW c \in Dials, Dial(c), UNCHANGED startVars,
         Growing
  PROVE  Informed'
<1>1. /\ packets' = packets \cup {JoinMessage(c)} /\ JoinMessage(c).type = "Join"
      /\ JoinReplyChan' = JoinReplyChan
  BY DEF Dial, JoinMessage
<1> QED
  BY <1>1, InformedStep DEF Informed, startVars

\* The view a reply brought is known, as the node's own was.
LEMMA RepliesInformed ==
  ASSUME ElectionTypeOK, Meetings, Informed, NEW n \in Up, AdoptView(n) \/ CountReply(n),
         Growing
  PROVE  Informed'
<1>1. /\ n \in Node /\ packets' \subseteq packets
      /\ JoinReplyChan[n] # << >> /\ JoinReplyChan' = [JoinReplyChan EXCEPT ![n] = Tail(@)]
  BY NodeFacts DEF AdoptView, CountReply
<1>2. Head(JoinReplyChan[n]).view \in Views /\ Tail(JoinReplyChan[n]) \in Seq([from : Node, view : Views])
  <2>1. JoinReplyChan[n] \in Seq([from : Node, view : Views])
    BY <1>1 DEF Informed
  <2>2. /\ Head(JoinReplyChan[n]) \in [from : Node, view : Views]
        /\ Tail(JoinReplyChan[n]) \in Seq([from : Node, view : Views])
    BY <1>1, <2>1, TakenFrom
  <2> QED
    BY <2>2
<1>3. JoinReplyChan' \in [Node -> Seq([from : Node, view : Views])]
  BY <1>1, <1>2 DEF Informed
<1>4. View' \in [Node -> Views]
  <2>1. View' = View \/ View' = [View EXCEPT ![n] = Head(JoinReplyChan[n]).view]
    BY DEF AdoptView, CountReply
  <2> QED
    BY <1>2, <2>1 DEF Informed
<1>5. ASSUME NEW k \in Node, NEW j \in Node PROVE Truthful(j, InitLeaderMessages'[k][j])
  <2>1. InitLeaderMessages'[k] = InitLeaderMessages[k] \/ InitLeaderMessages'[k] = [i \in Node |-> NoIds]
    BY DEF AdoptView, CountReply, Leave, ElectionTypeOK, StartTypeOK
  <2> QED
    BY <2>1, ReadLists DEF Informed
<1>6. ASSUME NEW k \in Node PROVE Truthful(k, announcing'[k])
  <2>1. announcing'[k] = announcing[k] \/ announcing'[k] = GetAllNodeIds(k)
    BY DEF AdoptView, CountReply, Announce, ElectionTypeOK, StartTypeOK
  <2>2. Truthful(k, GetAllNodeIds(k))
    BY ListOfMembers, ReadLists DEF ElectionTypeOK
  <2> QED
    BY <2>1, <2>2 DEF Informed
<1> QED
  BY <1>1, <1>3, <1>4, <1>5, <1>6, InformedStep DEF Informed

\* The reply to a Join passes on the node's view.
LEMMA AnswerInformed ==
  ASSUME ElectionTypeOK, Meetings, Informed, NEW n \in Up, AnswerJoin(n),
         Growing
  PROVE  Informed'
<1>1. \A pk \in packets' : pk \in packets \/ (pk.type = "JoinReply" /\ pk.view = View[n])
  BY DEF AnswerJoin, JoinReplyMessage
<1>2. View[n] \in Views
  BY NodeFacts DEF Informed
<1>3. ASSUME NEW k \in Node PROVE Truthful(k, announcing'[k])
  <2>1. announcing'[k] = announcing[k] \/ announcing'[k] = GetAllNodeIds(k)
    BY DEF AnswerJoin, Announce, ElectionTypeOK, StartTypeOK
  <2>2. Truthful(k, GetAllNodeIds(k))
    BY ListOfMembers, ReadLists DEF ElectionTypeOK
  <2> QED
    BY <2>1, <2>2 DEF Informed
<1>4. UNCHANGED <<View, JoinReplyChan, InitLeaderMessages>>
  BY DEF AnswerJoin
<1> QED
  BY <1>1, <1>2, <1>3, <1>4, InformedStep DEF Informed

LEMMA SendInformed ==
  ASSUME ElectionTypeOK, Informed, NEW n \in Up, SendInitLeader(n),
         Growing
  PROVE  Informed'
<1>1. \A pk \in packets' :
        pk \in packets \/ (pk.type = "InitLeader" /\ pk.from = n /\ pk.ids = announcing[n])
  BY DEF SendInitLeader, InitLeaderMessage
<1>2. n \in Node /\ Truthful(n, announcing[n])
  BY NodeFacts DEF Informed
<1>3. ASSUME NEW k \in Node PROVE Truthful(k, announcing'[k])
  <2>1. announcing'[k] = announcing[k] \/ announcing'[k] = NoIds
    BY DEF SendInitLeader, ElectionTypeOK, StartTypeOK
  <2> QED
    BY <2>1, ReadLists DEF Informed
<1>4. UNCHANGED <<View, JoinReplyChan, InitLeaderMessages>>
  BY DEF SendInitLeader
<1> QED
  BY <1>1, <1>2, <1>3, <1>4, InformedStep DEF Informed

\* The lists a node counts are those of nodes that know whom they name.
LEMMA TruthfulLists ==
  ASSUME ElectionTypeOK, Informed, NEW n \in Node, NEW pk \in Lists(n), NEW j \in Node
  PROVE  Truthful(j, [InitLeaderMessages[n] EXCEPT ![pk.from] = pk.ids][j])
<1>1. pk \in packets /\ pk.type = "InitLeader" /\ pk.from \in Node
  BY ListsType DEF Lists
<1>2. Truthful(pk.from, pk.ids) /\ Truthful(j, InitLeaderMessages[n][j])
  BY <1>1 DEF Informed
<1>3. InitLeaderMessages[n] \in [Node -> Ids]
  BY DEF ElectionTypeOK, StartTypeOK
<1> QED
  BY <1>2, <1>3

LEMMA CountListInformed ==
  ASSUME ElectionTypeOK, Informed, NEW n \in Up, CountList(n),
         Growing
  PROVE  Informed'
<1>1. PICK pk \in Lists(n) :
        /\ packets' = packets \ {pk}
        /\ InitLeaderMessages' = [InitLeaderMessages EXCEPT ![n] =
             [InitLeaderMessages[n] EXCEPT ![pk.from] = pk.ids]]
  BY DEF CountList
<1> DEFINE lists == [InitLeaderMessages[n] EXCEPT ![pk.from] = pk.ids]
<1>2. n \in Node /\ \A j \in Node : Truthful(j, lists[j])
  BY NodeFacts, TruthfulLists
<1>3. InitLeaderMessages' = [InitLeaderMessages EXCEPT ![n] = lists]
  BY <1>1
<1> HIDE DEF lists
<1>4. ASSUME NEW k \in Node, NEW j \in Node PROVE Truthful(j, InitLeaderMessages'[k][j])
  <2>1. InitLeaderMessages'[k] = IF k = n THEN lists ELSE InitLeaderMessages[k]
    BY <1>3 DEF ElectionTypeOK, StartTypeOK
  <2> QED
    BY <1>2, <2>1 DEF Informed
<1>5. UNCHANGED <<View, JoinReplyChan, announcing>>
  BY DEF CountList
<1>6. packets' \subseteq packets
  BY <1>1
<1> QED
  BY <1>4, <1>5, <1>6, InformedStep DEF Informed

\* Whom enough lists name, is still listed by those that sent them.
LEMMA CandidateKnown ==
  ASSUME ElectionTypeOK, Informed, NEW n \in Node, NEW pk \in Lists(n), NEW k \in Node,
         Check(N, Listed([InitLeaderMessages[n] EXCEPT ![pk.from] = pk.ids], k))
  PROVE  Known(k)
<1> DEFINE lists == [InitLeaderMessages[n] EXCEPT ![pk.from] = pk.ids]
<1>1. lists \in [Node -> Ids] /\ \A j \in Node : Truthful(j, lists[j])
  BY ListsType, TruthfulLists
<1>2. Check(N, Listed(lists, k))
  OBVIOUS
<1> HIDE DEF lists
<1>3. ASSUME NEW j \in Node
      PROVE  lists[j][k] \in Nat /\ Current[j][k] \in Nat /\ lists[j][k] <= Current[j][k]
  <2>1. lists[j][k] \in Nat /\ lists[j][k] <= StoredIds(j)[k]
    BY <1>1, CopiesType DEF Truthful, Ids
  <2> QED
    BY <2>1, ReadLists
<1>4. /\ Listed(lists, k) \in Nat /\ Listed(Current, k) \in Nat
      /\ Listed(lists, k) <= Listed(Current, k)
  BY <1>3, ListedMonotone
<1>5. Listed(lists, k) >= 2 * F(N) + 1 /\ F(N) \in Int
  BY <1>2, NodeFacts DEF Check, F
<1>6. Check(N, Listed(Current, k))
  BY <1>4, <1>5 DEF Check
<1> QED
  BY <1>6 DEF Known

LEMMA ElectInformed ==
  ASSUME ElectionTypeOK, Informed, NEW n \in Up, Elect(n),
         Growing
  PROVE  Informed'
<1>1. n \in Node
  BY NodeFacts
<1>2. View' \in [Node -> Views]
  <2>1. CASE UNCHANGED View
    BY <2>1 DEF Informed
  <2>2. CASE ~ UNCHANGED View
    <3>1. PICK pk \in Lists(n) : \E k \in Node :
            /\ Check(N, Listed([InitLeaderMessages[n] EXCEPT ![pk.from] = pk.ids], k))
            /\ View' = [View EXCEPT ![n] = k]
      BY <2>2, Elected
    <3>2. PICK k \in Node :
            /\ Check(N, Listed([InitLeaderMessages[n] EXCEPT ![pk.from] = pk.ids], k))
            /\ View' = [View EXCEPT ![n] = k]
      BY <3>1
    <3>3. k \in Views
      BY <1>1, <3>2, CandidateKnown DEF Views
    <3> QED
      BY <3>2, <3>3 DEF Informed
  <2> QED
    BY <2>1, <2>2
<1>3. ASSUME NEW k \in Node, NEW j \in Node PROVE Truthful(j, InitLeaderMessages'[k][j])
  <2>1. InitLeaderMessages'[k] = InitLeaderMessages[k] \/ InitLeaderMessages'[k] = [i \in Node |-> NoIds]
    BY DEF Elect, Leave, ElectionTypeOK, StartTypeOK
  <2> QED
    BY <2>1, ReadLists DEF Informed
<1>4. UNCHANGED <<JoinReplyChan, announcing>> /\ packets' \subseteq packets
  BY DEF Elect
<1> QED
  BY <1>2, <1>3, <1>4, InformedStep DEF Informed

LEMMA InformedNext ==
  ASSUME ElectionTypeOK, ElectionTypeOK', Meetings, Informed, [ElectionNext]_electionVars
  PROVE  Informed'
<1>1. Growing
  BY StepGrows
<1>2. CASE UNCHANGED electionVars
  BY <1>1, <1>2, InformedStep DEF Informed, electionVars, memberVars, startVars
<1> QED
  BY <1>1, <1>2, DialInformed, HandlersInformed, RepliesInformed, AnswerInformed, SendInformed,
     CountListInformed, ElectInformed DEF ElectionNext, Handlers, StartLoop

----------------------------------------------------------------------------
(* The theorems.                                                           *)

Inductive == ElectionTypeOK /\ Meetings /\ Informed

LEMMA ElectionInvariant == ElectionSpec => []Inductive
<1>1. ElectionInit => Inductive
  BY TypeInit, MeetingsInit, InformedInit DEF Inductive
<1>2. Inductive /\ [ElectionNext]_electionVars => Inductive'
  BY TypeNext, MeetingsNext, InformedNext DEF Inductive
<1> QED
  BY <1>1, <1>2, PTL DEF ElectionSpec

\* Membership and Start keep every table, channel, message and list to its
\* type: a list names each node at most twice, and no more than once if no two
\* nodes dial each other.
THEOREM ElectionTypeCorrect == ElectionSpec => []ElectionTypeOK
<1>1. Inductive => ElectionTypeOK
  BY DEF Inductive
<1> QED
  BY <1>1, ElectionInvariant, PTL

\* The more nodes, the more lists.
LEMMA CheckOfMore ==
  ASSUME NEW a \in Nat, NEW S \in SUBSET Node, NEW T \in SUBSET Node, S \subseteq T,
         a <= Copies * Cardinality(S), Check(N, a)
  PROVE  Check(N, Copies * Cardinality(T))
<1>1. IsFiniteSet(T) /\ Cardinality(S) \in Nat /\ Cardinality(T) \in Nat
  BY FiniteNode
<1>2. Cardinality(S) <= Cardinality(T)
  BY <1>1, FS_Subset
<1>3. Copies \in {1, 2} /\ F(N) \in Int
  BY CopiesType, NodeFacts DEF F
<1>4. Copies * Cardinality(S) <= Copies * Cardinality(T)
  BY <1>1, <1>2, <1>3
<1>5. Copies * Cardinality(S) \in Nat /\ Copies * Cardinality(T) \in Nat
  BY <1>1, <1>3
<1>6. a >= 2 * F(N) + 1
  BY DEF Check
<1>7. Copies * Cardinality(T) >= 2 * F(N) + 1
  <2> DEFINE x == Copies * Cardinality(S)
             y == Copies * Cardinality(T)
  <2>1. x \in Nat /\ y \in Nat /\ x <= y /\ a <= x
    BY <1>4, <1>5
  <2> HIDE DEF x, y
  <2>2. y >= 2 * F(N) + 1
    BY <1>3, <1>6, <2>1
  <2> QED
    BY <2>2 DEF y
<1> QED
  BY <1>7 DEF Check

\* Who is listed often enough is known to enough nodes.
LEMMA KnownToSome ==
  ASSUME ElectionTypeOK, Meetings, NEW v, Known(v)
  PROVE  Check(N, Copies * Cardinality(Knowing(v)))
<1> DEFINE S == {j \in Node : Current[j][v] # 0}
<1>1. v \in Node /\ Check(N, Listed(Current, v))
  BY DEF Known
<1>2. ASSUME NEW j \in Node
      PROVE  Current[j] \in Ids /\ (Current[j][v] # 0 => j \in Knowing(v))
  BY <1>1, ListOfMembers DEF ElectionTypeOK, Current
<1>3. Current \in [Node -> Ids]
  BY <1>2 DEF Current
<1>4. Listed(Current, v) \in Nat /\ Listed(Current, v) <= Copies * Cardinality(S)
  BY <1>1, <1>3, CopiesType, ListedBounded DEF Ids
<1>5. S \in SUBSET Node /\ S \subseteq Knowing(v) /\ Knowing(v) \in SUBSET Node
  BY <1>2, FiniteNode
<1> HIDE DEF S
<1> QED
  BY <1>1, <1>4, <1>5, CheckOfMore

\* GetLeaderNode, and Start when it adopts the view of a JoinReply: whoever
\* dialled whom, and whatever entries of Members were dropped when, before they
\* were announced or afterwards, the node that a view names is listed often enough
\* in what the nodes have and had as members, and F + 1 of them at least have it or
\* had it until an append dropped it.
THEOREM LeaderIsKnown == ElectionSpec => []LeaderKnown
<1>1. Inductive => LeaderKnown
  <2> SUFFICES ASSUME Inductive, NEW n \in Up, View[n] # NoView
               PROVE  /\ Check(N, Listed(Current, View[n]))
                      /\ Cardinality(Knowing(View[n])) >= F(N) + 1
    BY DEF LeaderKnown, Current
  <2> DEFINE c == Cardinality(Knowing(View[n]))
  <2>1. Known(View[n])
    BY NodeFacts DEF Inductive, Informed, Views
  <2>2. Check(N, Copies * c)
    BY <2>1, KnownToSome DEF Inductive
  <2>3. c \in Nat /\ F(N) \in Int /\ Copies \in {1, 2}
    BY FiniteNode, CopiesType, NodeFacts DEF F
  <2> HIDE DEF c
  <2>4. c >= F(N) + 1
    <3>1. Copies * c >= 2 * F(N) + 1
      BY <2>2 DEF Check
    <3>2. CASE Copies = 1
      BY <2>3, <3>1, <3>2
    <3>3. CASE Copies = 2
      BY <2>3, <3>1, <3>3
    <3> QED
      BY <2>3, <3>2, <3>3
  <2> QED
    BY <2>1, <2>4 DEF Known, c
<1> QED
  BY <1>1, ElectionInvariant, PTL

\* The same, of a quorum that have or had it, when no two nodes dial each other.
\* Where every node dials every other one, as with main's Join of GetSeeds, the
\* quorum may be missing.
THEOREM LeaderKnownToQuorum ==
  OncePerPair =>
    (ElectionSpec => [](\A n \in Up : View[n] # NoView => IsQuorum(N, Knowing(View[n]))))
<1> SUFFICES ASSUME OncePerPair
             PROVE  ElectionSpec =>
                      [](\A n \in Up : View[n] # NoView => IsQuorum(N, Knowing(View[n])))
  OBVIOUS
<1>1. Inductive => \A n \in Up : View[n] # NoView => IsQuorum(N, Knowing(View[n]))
  <2> SUFFICES ASSUME Inductive, NEW n \in Up, View[n] # NoView
               PROVE  IsQuorum(N, Knowing(View[n]))
    OBVIOUS
  <2>1. Known(View[n])
    BY NodeFacts DEF Inductive, Informed, Views
  <2>2. Check(N, Copies * Cardinality(Knowing(View[n])))
    BY <2>1, KnownToSome DEF Inductive
  <2>3. Copies = 1 /\ Cardinality(Knowing(View[n])) \in Nat
    BY FiniteNode DEF Copies
  <2> QED
    BY <2>2, <2>3 DEF IsQuorum
<1> QED
  BY <1>1, ElectionInvariant, PTL

----------------------------------------------------------------------------
(* Counting the entries of a whole network's lists.                        *)

\* What holds at 0 and goes on from each number to the next, holds up to m.
LEMMA UpTo ==
  ASSUME NEW m \in Nat, NEW T, 0 \in T, \A i \in 1..m : i - 1 \in T => i \in T
  PROVE  \A i \in 0..m : i \in T
<1> DEFINE X == {i \in 0..m : i \notin T}
<1> SUFFICES ASSUME X # {} PROVE FALSE
  OBVIOUS
<1>1. PICK i \in X : \A y \in X : i <= y
  <2>1. X \in SUBSET Nat
    OBVIOUS
  <2> HIDE DEF X
  <2> QED
    BY <2>1, LeastNat
<1>2. i \in 1..m /\ i - 1 \in 0..m /\ ~ (i <= i - 1)
  BY <1>1
<1>3. i - 1 \in T
  BY <1>1, <1>2
<1> QED
  BY <1>1, <1>2, <1>3

\* The part of S that f sends to numbers below i.
Under(S, f, i) == {x \in S : f[x] < i}
Fibre(S, f, i) == {x \in S : f[x] = i}
Smaller(Q, i)  == {q \in Q : q < i}

LEMMA NextSlice ==
  ASSUME NEW S, IsFiniteSet(S), NEW f \in [S -> Nat], NEW i \in Nat
  PROVE  /\ Cardinality(Under(S, f, i)) \in Nat
         /\ Cardinality(Fibre(S, f, i)) \in Nat
         /\ Cardinality(Under(S, f, i + 1)) = Cardinality(Under(S, f, i)) + Cardinality(Fibre(S, f, i))
<1> DEFINE A == Under(S, f, i)
           B == Fibre(S, f, i)
<1>1. A \subseteq S /\ B \subseteq S /\ A \cap B = {} /\ Under(S, f, i + 1) = A \cup B
  BY DEF Under, Fibre
<1> HIDE DEF A, B
<1>2. IsFiniteSet(A) /\ IsFiniteSet(B) /\ Cardinality(A) \in Nat /\ Cardinality(B) \in Nat
  BY <1>1, FS_Subset, FS_CardinalityType
<1>3. Cardinality(A \cup B) = Cardinality(A) + Cardinality(B) - Cardinality(A \cap B)
  BY <1>2, FS_Union
<1>4. Cardinality(A \cap B) = 0
  BY <1>1, FS_EmptySet
<1>5. Cardinality(A \cup B) = Cardinality(A) + Cardinality(B)
  BY <1>2, <1>3, <1>4
<1> QED
  BY <1>1, <1>2, <1>5 DEF A, B

\* A set of numbers has one element fewer below each of them than up to it.
LEMMA NextOf ==
  ASSUME NEW Q \in SUBSET Node, NEW i \in Nat
  PROVE  /\ Cardinality(Smaller(Q, i)) \in Nat
         /\ Cardinality(Smaller(Q, i + 1)) =
              Cardinality(Smaller(Q, i)) + (IF i \in Q THEN 1 ELSE 0)
<1> DEFINE A == Smaller(Q, i)
<1>1. A \subseteq Node /\ i \notin A
  <2>1. ~ (i < i)
    OBVIOUS
  <2> QED
    BY <2>1 DEF Smaller
<1>2. Smaller(Q, i + 1) = IF i \in Q THEN A \cup {i} ELSE A
  <2>1. \A q \in Q : q \in Int
    BY NodeFacts
  <2>2. \A q \in Q : q < i + 1 <=> q < i \/ q = i
    BY <2>1
  <2> QED
    BY <2>2 DEF Smaller
<1> HIDE DEF A
<1>3. IsFiniteSet(A) /\ Cardinality(A) \in Nat
  BY <1>1, FiniteNode
<1>4. Cardinality(A \cup {i}) = Cardinality(A) + 1
  BY <1>1, <1>3, FS_AddElement
<1> QED
  BY <1>2, <1>3, <1>4 DEF A

LEMMA TimesNext == ASSUME NEW a \in Nat, NEW x \in Nat PROVE a * x \in Nat /\ a * (x + 1) = a * x + a
OBVIOUS

\* Rows that hold a elements or more, of two kinds, hold so many together.
LEMMA RowsAtLeast ==
  ASSUME NEW S, IsFiniteSet(S), NEW f \in [S -> Node],
         NEW R, IsFiniteSet(R), NEW g \in [R -> Node],
         NEW a \in Nat, NEW Q \in SUBSET Node,
         \A q \in Q : Cardinality(Fibre(S, f, q)) + Cardinality(Fibre(R, g, q)) >= a
  PROVE  a * Cardinality(Q) <= Cardinality(S) + Cardinality(R)
<1> DEFINE c(i) == Cardinality(Smaller(Q, i))
           s(i) == Cardinality(Under(S, f, i))
           r(i) == Cardinality(Under(R, g, i))
           T == {i \in 0..N : a * c(i) <= s(i) + r(i)}
<1>1. f \in [S -> Nat] /\ g \in [R -> Nat] /\ N \in Nat
  BY NodeFacts
<1>2. ASSUME NEW i \in Nat
      PROVE  /\ c(i) \in Nat /\ s(i) \in Nat /\ r(i) \in Nat
             /\ c(i + 1) = c(i) + (IF i \in Q THEN 1 ELSE 0)
             /\ s(i + 1) = s(i) + Cardinality(Fibre(S, f, i)) /\ Cardinality(Fibre(S, f, i)) \in Nat
             /\ r(i + 1) = r(i) + Cardinality(Fibre(R, g, i)) /\ Cardinality(Fibre(R, g, i)) \in Nat
  <2>1. /\ s(i) \in Nat /\ Cardinality(Fibre(S, f, i)) \in Nat
        /\ s(i + 1) = s(i) + Cardinality(Fibre(S, f, i))
    BY <1>1, NextSlice
  <2>2. /\ r(i) \in Nat /\ Cardinality(Fibre(R, g, i)) \in Nat
        /\ r(i + 1) = r(i) + Cardinality(Fibre(R, g, i))
    BY <1>1, NextSlice
  <2>3. c(i) \in Nat /\ c(i + 1) = c(i) + (IF i \in Q THEN 1 ELSE 0)
    BY NextOf
  <2> HIDE DEF c, s, r
  <2> QED
    BY <2>1, <2>2, <2>3
<1>3. c(0) = 0
  <2>1. \A q \in Q : q \in Nat
    BY NodeFacts
  <2>2. Smaller(Q, 0) = {}
    BY <2>1 DEF Smaller
  <2> QED
    BY <2>2, FS_EmptySet
<1>4. c(N) = Cardinality(Q) /\ s(N) = Cardinality(S) /\ r(N) = Cardinality(R)
  <2>1. \A q \in Node : q < N
    BY NodeFacts DEF Node
  <2>2. Smaller(Q, N) = Q
    BY <2>1 DEF Smaller
  <2>3. Under(S, f, N) = S /\ Under(R, g, N) = R
    BY <2>1 DEF Under
  <2> QED
    BY <2>2, <2>3
<1>5. 0 \in T
  <2>1. s(0) \in Nat /\ r(0) \in Nat
    BY <1>2
  <2> HIDE DEF c, s, r
  <2> QED
    BY <1>1, <1>3, <2>1
<1>6. ASSUME NEW i \in 1..N, i - 1 \in T PROVE i \in T
  <2> DEFINE j == i - 1
  <2>1. j \in Nat /\ j + 1 = i /\ i \in 0..N
    BY <1>1
  <2>2. a * c(j) <= s(j) + r(j)
    BY <1>6
  <2> HIDE DEF c, s, r, j
  <2>3. /\ c(j) \in Nat /\ s(j) \in Nat /\ r(j) \in Nat
        /\ c(i) = c(j) + (IF j \in Q THEN 1 ELSE 0)
        /\ s(i) = s(j) + Cardinality(Fibre(S, f, j)) /\ Cardinality(Fibre(S, f, j)) \in Nat
        /\ r(i) = r(j) + Cardinality(Fibre(R, g, j)) /\ Cardinality(Fibre(R, g, j)) \in Nat
    BY <1>2, <2>1
  <2>4. a * c(j) \in Nat /\ a * (c(j) + 1) = a * c(j) + a
    BY <2>3, TimesNext
  <2>5. a * c(i) <= s(i) + r(i)
    <3>1. CASE j \in Q
      <4>1. Cardinality(Fibre(S, f, j)) + Cardinality(Fibre(R, g, j)) >= a /\ a * c(i) = a * c(j) + a
        BY <2>3, <2>4, <3>1
      <4> QED
        BY <2>2, <2>3, <2>4, <4>1
    <3>2. CASE j \notin Q
      <4>1. c(i) = c(j)
        BY <2>3, <3>2
      <4> QED
        BY <2>2, <2>3, <2>4, <4>1
    <3> QED
      BY <3>1, <3>2
  <2> QED
    BY <2>1, <2>5
<1>7. N \in T
  <2>1. N \in 0..N
    BY <1>1
  <2> HIDE DEF T
  <2> QED
    BY <1>1, <1>5, <1>6, <2>1, UpTo
<1> HIDE DEF c, s, r
<1> QED
  BY <1>4, <1>7

\* Columns of at most a elements, with nothing outside Q, hold no more together.
LEMMA ColumnsAtMost ==
  ASSUME NEW S, IsFiniteSet(S), NEW Q \in SUBSET Node, NEW f \in [S -> Q], NEW a \in Nat,
         \A q \in Q : Cardinality(Fibre(S, f, q)) <= a
  PROVE  Cardinality(S) <= a * Cardinality(Q)
<1> DEFINE c(i) == Cardinality(Smaller(Q, i))
           s(i) == Cardinality(Under(S, f, i))
           T == {i \in 0..N : s(i) <= a * c(i)}
<1>1. f \in [S -> Nat] /\ N \in Nat
  BY NodeFacts
<1>2. ASSUME NEW i \in Nat
      PROVE  /\ c(i) \in Nat /\ s(i) \in Nat
             /\ c(i + 1) = c(i) + (IF i \in Q THEN 1 ELSE 0)
             /\ s(i + 1) = s(i) + Cardinality(Fibre(S, f, i)) /\ Cardinality(Fibre(S, f, i)) \in Nat
  <2>1. /\ s(i) \in Nat /\ Cardinality(Fibre(S, f, i)) \in Nat
        /\ s(i + 1) = s(i) + Cardinality(Fibre(S, f, i))
    BY <1>1, NextSlice
  <2>2. c(i) \in Nat /\ c(i + 1) = c(i) + (IF i \in Q THEN 1 ELSE 0)
    BY NextOf
  <2> HIDE DEF c, s
  <2> QED
    BY <2>1, <2>2
<1>3. s(0) = 0
  <2>1. Under(S, f, 0) = {}
    BY <1>1 DEF Under
  <2> QED
    BY <2>1, FS_EmptySet
<1>4. c(N) = Cardinality(Q) /\ s(N) = Cardinality(S)
  <2>1. \A q \in Node : q < N
    BY NodeFacts DEF Node
  <2>2. Smaller(Q, N) = Q
    BY <2>1 DEF Smaller
  <2>3. Under(S, f, N) = S
    BY <2>1 DEF Under
  <2> QED
    BY <2>2, <2>3
<1>5. 0 \in T
  <2>1. c(0) \in Nat
    BY <1>2
  <2> HIDE DEF c, s
  <2>2. a * c(0) \in Nat
    BY <2>1, TimesNext
  <2> QED
    BY <1>1, <1>3, <2>2
<1>6. ASSUME NEW i \in 1..N, i - 1 \in T PROVE i \in T
  <2> DEFINE j == i - 1
  <2>1. j \in Nat /\ j + 1 = i /\ i \in 0..N
    BY <1>1
  <2>2. s(j) <= a * c(j)
    BY <1>6
  <2> HIDE DEF c, s, j
  <2>3. /\ c(j) \in Nat /\ s(j) \in Nat
        /\ c(i) = c(j) + (IF j \in Q THEN 1 ELSE 0)
        /\ s(i) = s(j) + Cardinality(Fibre(S, f, j)) /\ Cardinality(Fibre(S, f, j)) \in Nat
    BY <1>2, <2>1
  <2>4. a * c(j) \in Nat /\ a * (c(j) + 1) = a * c(j) + a
    BY <2>3, TimesNext
  <2>5. s(i) <= a * c(i)
    <3>1. CASE j \in Q
      <4>1. Cardinality(Fibre(S, f, j)) <= a /\ a * c(i) = a * c(j) + a
        BY <2>3, <2>4, <3>1
      <4> QED
        BY <2>2, <2>3, <2>4, <4>1
    <3>2. CASE j \notin Q
      <4>1. Fibre(S, f, j) = {}
        BY <3>2 DEF Fibre
      <4>2. c(i) = c(j) /\ s(i) = s(j)
        BY <2>3, <3>2, <4>1, FS_EmptySet
      <4> QED
        BY <2>2, <4>2
    <3> QED
      BY <3>1, <3>2
  <2> QED
    BY <2>1, <2>5
<1>7. N \in T
  <2>1. N \in 0..N
    BY <1>1
  <2> HIDE DEF T
  <2> QED
    BY <1>1, <1>5, <1>6, <2>1, UpTo
<1> HIDE DEF c, s
<1> QED
  BY <1>4, <1>7

\* The entries of a list, one by one, and those of the lists of all nodes.
Copy == {0, 1}
Weight(ids)  == {x \in Node \X Copy : x[2] < ids[x[1]]}
Slots(lists) == {x \in Node \X (Node \X Copy) : x[2][2] < lists[x[1]][x[2][1]]}

LEMMA SlotsFinite ==
  ASSUME NEW lists
  PROVE  /\ IsFiniteSet(Node \X Copy) /\ IsFiniteSet(Slots(lists))
         /\ \A x \in Slots(lists) : /\ x[1] \in Node /\ x[2][1] \in Node /\ x[2][2] \in Copy
                                    /\ x = <<x[1], <<x[2][1], x[2][2]>>>>
                                    /\ x[2][2] < lists[x[1]][x[2][1]]
<1>1. IsFiniteSet(Copy)
  <2>1. Copy = 0..1
    BY DEF Copy
  <2>2. IsFiniteSet(0..1)
    <3>1. 0 \in Int /\ 1 \in Int
      OBVIOUS
    <3> QED
      BY <3>1, FS_Interval
  <2> QED
    BY <2>1, <2>2
<1> DEFINE D == Node \X Copy
<1>2. IsFiniteSet(D)
  BY <1>1, FiniteNode, FS_Product
<1> HIDE DEF D
<1>3. IsFiniteSet(Node \X D)
  BY <1>2, FiniteNode, FS_Product
<1>4. Slots(lists) \subseteq Node \X D
  BY DEF Slots, D
<1>5. IsFiniteSet(Slots(lists))
  BY <1>3, <1>4, FS_Subset
<1>6. ASSUME NEW x \in Slots(lists)
      PROVE  /\ x[1] \in Node /\ x[2][1] \in Node /\ x[2][2] \in Copy
             /\ x = <<x[1], <<x[2][1], x[2][2]>>>>
             /\ x[2][2] < lists[x[1]][x[2][1]]
  BY DEF Slots
<1> QED
  BY <1>2, <1>5, <1>6 DEF D

\* The column of node k has as many entries as Listed finds.
LEMMA ColumnListed ==
  ASSUME NEW lists \in [Node -> Ids], NEW k \in Node
  PROVE  /\ Listed(lists, k) \in Nat
         /\ Cardinality({x \in Slots(lists) : x[2][1] = k}) <= Listed(lists, k)
<1> DEFINE S == {x \in Slots(lists) : x[2][1] = k}
           g == [x \in S |-> x[1]]
           a == Column(lists, k)
           s(i) == Cardinality(Under(S, g, i))
<1>1. PICK f : IsSum(f, a, N) /\ Listed(lists, k) = f[N]
  BY ListedIsSum
<1>2. IsFiniteSet(S) /\ g \in [S -> Node] /\ g \in [S -> Nat] /\ N \in Nat
  <2>1. S \subseteq Slots(lists) /\ IsFiniteSet(Slots(lists)) /\ \A x \in S : x[1] \in Node
    BY SlotsFinite
  <2>2. g \in [S -> Node] /\ g \in [S -> Nat]
    BY <2>1, NodeFacts
  <2> HIDE DEF S, g
  <2> QED
    BY <2>1, <2>2, FS_Subset, NodeFacts
<1>3. ASSUME NEW i \in Node PROVE lists[i][k] \in Nat /\ Cardinality(Fibre(S, g, i)) <= lists[i][k]
  <2> DEFINE x0 == <<i, <<k, 0>>>>
             x1 == <<i, <<k, 1>>>>
             B == Fibre(S, g, i)
  <2>1. lists[i][k] \in 0..2
    <3>1. lists[i][k] \in 0..Copies
      BY DEF Ids
    <3> QED
      BY <3>1, CopiesType
  <2>2. ASSUME NEW x \in B
        PROVE  x \in {x0, x1} /\ lists[i][k] # 0 /\ (lists[i][k] = 1 => x = x0)
    <3>1. x \in Slots(lists) /\ x[1] = i /\ x[2][1] = k
      BY DEF Fibre
    <3>2. x = <<i, <<k, x[2][2]>>>> /\ x[2][2] \in Copy /\ x[2][2] < lists[i][k]
      BY <3>1, SlotsFinite
    <3> QED
      BY <2>1, <3>2 DEF Copy
  <2>3. /\ B \subseteq {x0, x1}
        /\ lists[i][k] = 0 => B = {}
        /\ lists[i][k] = 1 => B \subseteq {x0, x0}
    BY <2>2
  <2> HIDE DEF B, x0, x1
  <2>4. Cardinality(B) \in 0..2 /\ (lists[i][k] = 1 => Cardinality(B) <= 1)
    BY <2>3, AtMostTwo
  <2>5. lists[i][k] = 0 => Cardinality(B) = 0
    BY <2>3, FS_EmptySet
  <2>6. Cardinality(B) <= lists[i][k]
    BY <2>1, <2>4, <2>5
  <2> QED
    BY <2>1, <2>6 DEF B
<1>4. ASSUME NEW i \in Nat
      PROVE  /\ s(i) \in Nat /\ Cardinality(Fibre(S, g, i)) \in Nat
             /\ s(i + 1) = s(i) + Cardinality(Fibre(S, g, i))
  <2> HIDE DEF S, g
  <2> QED
    BY <1>2, NextSlice
<1>5. s(0) = 0
  <2>1. Under(S, g, 0) = {}
    <3> HIDE DEF S, g
    <3> QED
      BY <1>2 DEF Under
  <2> QED
    BY <2>1, FS_EmptySet
<1>6. s(N) = Cardinality(S)
  <2>1. \A q \in Node : q < N
    BY NodeFacts DEF Node
  <2>2. Under(S, g, N) = S
    <3> HIDE DEF S, g
    <3> QED
      BY <1>2, <2>1 DEF Under
  <2> QED
    BY <2>2
<1> HIDE DEF s, S, g
<1> DEFINE T == {i \in 0..N : f[i] \in Nat /\ s(i) <= f[i]}
<1>7. 0 \in T
  <2>1. f[0] = 0
    BY <1>1, <1>2 DEF IsSum
  <2> QED
    BY <1>2, <1>5, <2>1
<1>8. ASSUME NEW i \in 1..N, i - 1 \in T PROVE i \in T
  <2>1. i - 1 \in Node /\ i - 1 \in Nat /\ i \in 0..N /\ i # 0 /\ (i - 1) + 1 = i
    BY <1>2 DEF Node
  <2>2. f[i] = f[i - 1] + lists[i - 1][k]
    BY <1>1, <2>1 DEF IsSum, Column
  <2>3. f[i - 1] \in Nat /\ s(i - 1) <= f[i - 1]
    BY <1>8
  <2>4. s(i - 1) \in Nat /\ s(i) = s(i - 1) + Cardinality(Fibre(S, g, i - 1)) /\ s(i) \in Nat
    BY <1>4, <2>1
  <2>5. lists[i - 1][k] \in Nat /\ Cardinality(Fibre(S, g, i - 1)) <= lists[i - 1][k]
    BY <1>3, <2>1
  <2>6. Cardinality(Fibre(S, g, i - 1)) \in Nat
    BY <1>4, <2>1
  <2>7. f[i] \in Nat /\ s(i) <= f[i]
    BY <2>2, <2>3, <2>4, <2>5, <2>6
  <2> QED
    BY <2>1, <2>7
<1>9. N \in T
  <2>1. N \in 0..N
    BY <1>2
  <2> HIDE DEF T
  <2> QED
    BY <1>2, <1>7, <1>8, <2>1, UpTo
<1> QED
  BY <1>1, <1>6, <1>9 DEF S

\* Lists that name only nodes of Up, none of them more than a times altogether,
\* while each list of Q makes up for what it has not of m entries by one of R.
LEMMA Counting ==
  ASSUME NEW lists \in [Node -> Ids], NEW a \in Nat, NEW m \in Nat, NEW Q \in SUBSET Node,
         \A j, k \in Node : lists[j][k] # 0 => k \in Up,
         \A k \in Node : Listed(lists, k) <= a,
         NEW R, IsFiniteSet(R), NEW g \in [R -> Node],
         \A q \in Q : Cardinality(Weight(lists[q])) + Cardinality(Fibre(R, g, q)) >= m
  PROVE  m * Cardinality(Q) <= a * Cardinality(Up) + Cardinality(R)
<1> DEFINE S == Slots(lists)
           row == [x \in S |-> x[1]]
           column == [x \in S |-> x[2][1]]
<1>1. /\ IsFiniteSet(S)
      /\ \A x \in S : /\ x[1] \in Node /\ x[2][1] \in Node /\ x[2][2] \in Copy
                      /\ x = <<x[1], <<x[2][1], x[2][2]>>>>
                      /\ x[2][2] < lists[x[1]][x[2][1]]
  BY SlotsFinite
<1>2. Up \in SUBSET Node
  BY NodeFacts
<1>3. row \in [S -> Node]
  BY <1>1
<1>4. column \in [S -> Up]
  <2>1. ASSUME NEW x \in S PROVE x[2][1] \in Up
    <3>1. lists[x[1]][x[2][1]] # 0
      BY <1>1 DEF Copy
    <3> QED
      BY <1>1, <3>1
  <2> QED
    BY <2>1
<1>5. ASSUME NEW q \in Up PROVE Cardinality(Fibre(S, column, q)) <= a
  <2>1. Fibre(S, column, q) = {x \in S : x[2][1] = q}
    BY DEF Fibre
  <2>2. q \in Node /\ Listed(lists, q) <= a
    BY <1>2
  <2>3. Listed(lists, q) \in Nat /\ Cardinality({x \in S : x[2][1] = q}) <= Listed(lists, q)
    BY <2>2, ColumnListed
  <2>4. Cardinality({x \in S : x[2][1] = q}) \in Nat
    BY <1>1, FS_Subset, FS_CardinalityType
  <2> DEFINE B == {x \in S : x[2][1] = q}
  <2> HIDE DEF B
  <2>5. Cardinality(B) \in Nat /\ Cardinality(B) <= a
    BY <2>2, <2>3, <2>4 DEF B
  <2> QED
    BY <2>1, <2>5 DEF B
<1>6. ASSUME NEW q \in Q
      PROVE  Cardinality(Fibre(S, row, q)) + Cardinality(Fibre(R, g, q)) >= m
  <2> DEFINE W == Weight(lists[q])
             B == Fibre(S, row, q)
             f == [y \in W |-> <<q, y>>]
  <2>1. ASSUME NEW y \in W PROVE <<q, y>> \in B
    BY DEF Weight, Fibre, Slots
  <2>2. f \in [W -> B] /\ \A y, z \in W : f[y] = f[z] => y = z
    BY <2>1
  <2>3. f \in Injection(W, B)
    <3> HIDE DEF W, B, f
    <3> QED
      BY <2>2 DEF Injection, IsInjective
  <2>4. B \subseteq S
    BY DEF Fibre
  <2>5. Cardinality(W) + Cardinality(Fibre(R, g, q)) >= m
    OBVIOUS
  <2>6. IsFiniteSet(Fibre(R, g, q))
    <3>1. Fibre(R, g, q) \subseteq R
      BY DEF Fibre
    <3> QED
      BY <3>1, FS_Subset
  <2> HIDE DEF W, B, f, S
  <2>7. IsFiniteSet(B) /\ Cardinality(B) \in Nat
    BY <1>1, <2>4, FS_Subset, FS_CardinalityType
  <2>8. IsFiniteSet(W) /\ Cardinality(W) <= Cardinality(B)
    BY <2>3, <2>7, FS_Injection
  <2>9. Cardinality(W) \in Nat /\ Cardinality(Fibre(R, g, q)) \in Nat
    BY <2>6, <2>8, FS_CardinalityType
  <2>10. Cardinality(B) + Cardinality(Fibre(R, g, q)) >= m
    BY <2>5, <2>7, <2>8, <2>9
  <2> QED
    BY <2>10 DEF B
<1> HIDE DEF S, row, column
<1>7. m * Cardinality(Q) <= Cardinality(S) + Cardinality(R)
  BY <1>1, <1>3, <1>6, RowsAtLeast
<1>8. Cardinality(S) <= a * Cardinality(Up)
  BY <1>1, <1>2, <1>4, <1>5, ColumnsAtMost
<1>9. /\ Cardinality(S) \in Nat /\ Cardinality(R) \in Nat
      /\ m * Cardinality(Q) \in Nat /\ a * Cardinality(Up) \in Nat
  BY <1>1, <1>2, FS_CardinalityType, FiniteNode, TimesNext
<1> QED
  BY <1>7, <1>8, <1>9

----------------------------------------------------------------------------
(* A Join that was handled has left a member, if an append did not drop it.*)

\* The Join of node k was handled at node n.
Handled(k, n) == <<k, n>> \in dialled /\ ~ Joins(k, n)

\* Node k has been, if it is not any more, a member of node n for its Join.
Joined(k, n) == \E e \in Seen[n] : e.by = "Join" /\ e.node = k

Entered == \A k, n \in Node : Handled(k, n) => Joined(k, n)

LEMMA LostFinite ==
  ASSUME ElectionTypeOK
  PROVE  IsFiniteSet(lost) /\ Cardinality(lost) \in Nat
<1>1. IsFiniteSet(Entry) /\ IsFiniteSet(Node)
  BY EntriesFinite, FiniteNode
<1>2. IsFiniteSet(Node \X Entry)
  BY <1>1, FS_Product
<1>3. lost \subseteq Node \X Entry
  BY DEF ElectionTypeOK, MembershipTypeOK
<1> QED
  BY <1>2, <1>3, FS_Subset, FS_CardinalityType

\* The Start loop handles no Join.
LEMMA StartLoopJoins ==
  ASSUME NEW n \in Up, StartLoop(n)
  PROVE  /\ UNCHANGED <<dialled, Members, Seen, Map, lost>>
         /\ \A pk : pk.type = "Join" => (pk \in packets' <=> pk \in packets)
<1> SUFFICES /\ UNCHANGED <<dialled, Members, Map, lost>>
             /\ \A pk : pk.type = "Join" => (pk \in packets' <=> pk \in packets)
  BY SeenQuiet
<1>1. CASE AdoptView(n)
  BY <1>1 DEF AdoptView, Lists
<1>2. CASE CountReply(n)
  BY <1>2 DEF CountReply
<1>3. CASE AnswerJoin(n)
  BY <1>3 DEF AnswerJoin, JoinReplyMessage
<1>4. CASE SendInitLeader(n)
  BY <1>4 DEF SendInitLeader, InitLeaderMessage
<1>5. CASE CountList(n)
  <2>1. PICK pk \in Lists(n) : packets' = packets \ {pk}
    BY <1>5 DEF CountList
  <2>2. pk.type = "InitLeader"
    BY DEF Lists
  <2>3. UNCHANGED <<dialled, Members, Map, lost>>
    BY <1>5 DEF CountList
  <2> QED
    BY <2>1, <2>2, <2>3
<1>6. CASE Elect(n)
  <2>1. packets' = packets \ Lists(n)
    BY <1>6 DEF Elect
  <2>2. UNCHANGED <<dialled, Members, Map, lost>>
    BY <1>6 DEF Elect
  <2> QED
    BY <2>1, <2>2 DEF Lists
<1> QED
  BY <1>1, <1>2, <1>3, <1>4, <1>5, <1>6 DEF StartLoop

\* The entries that appends have dropped stay dropped.
LEMMA LostGrows ==
  ASSUME ElectionTypeOK, [ElectionNext]_electionVars
  PROVE  lost \subseteq lost'
<1>1. CASE UNCHANGED electionVars
  BY <1>1 DEF electionVars, memberVars
<1> QED
  BY <1>1, DialAppends, HandlerSteps, LoopAppends DEF ElectionNext, Handlers

LEMMA LostCounts ==
  ASSUME ElectionTypeOK, ElectionTypeOK', [ElectionNext]_electionVars
  PROVE  Cardinality(lost) <= Cardinality(lost')
<1> DEFINE A == lost
           B == lost'
<1>1. A \subseteq B /\ IsFiniteSet(A)
  BY LostGrows, LostFinite
<1>2. IsFiniteSet(Node \X Entry) /\ B \subseteq Node \X Entry
  BY EntriesFinite, FiniteNode, FS_Product DEF ElectionTypeOK, MembershipTypeOK
<1> HIDE DEF A, B
<1>3. IsFiniteSet(B)
  BY <1>2, FS_Subset
<1>4. Cardinality(A) <= Cardinality(B)
  BY <1>1, <1>3, FS_Subset
<1> QED
  BY <1>4 DEF A, B

LEMMA EnteredInit == ElectionInit => Entered
<1> SUFFICES ASSUME ElectionInit, NEW k \in Node, NEW n \in Node, Handled(k, n)
             PROVE  Joined(k, n)
  BY DEF Entered
<1> DEFINE c == <<k, n>>
           e == [node |-> c[1], conn |-> c, by |-> "Join"]
<1>1. c \in Early /\ c[1] = k /\ c[2] = n
  BY DEF ElectionInit, MembershipInit, Handled
<1>2. e \in EarlyMembers(n) /\ e.by = "Join" /\ e.node = k
  BY <1>1 DEF EarlyMembers
<1> QED
  BY <1>2, SeenInit DEF Joined

LEMMA EnteredNext ==
  ASSUME ElectionTypeOK, ElectionTypeOK', Meetings, Entered, [ElectionNext]_electionVars
  PROVE  Entered'
<1>1. Growing
  BY StepGrows
<1>2. ASSUME NEW k \in Node, NEW n \in Node, Handled(k, n) PROVE Joined(k, n)'
  BY <1>1, <1>2 DEF Entered, Joined, Growing
<1>3. ASSUME NEW k \in Node, NEW n \in Node, Handled(k, n)', ~ Handled(k, n) PROVE Joined(k, n)'
  <2>1. /\ JoinMessage(<<k, n>>).type = "Join" /\ JoinMessage(<<k, n>>).from = k
        /\ JoinMessage(<<k, n>>).to = n /\ \A c : JoinMessage(c).conn = c
    BY DEF JoinMessage
  <2>2. <<k, n>> \in dialled' /\ JoinMessage(<<k, n>>) \notin packets'
    BY <1>3 DEF Handled, Joins, JoinMessage
  <2>3. <<k, n>> \notin dialled \/ JoinMessage(<<k, n>>) \in packets
    BY <1>3 DEF Handled, Joins
  <2>4. CASE UNCHANGED electionVars
    BY <2>2, <2>3, <2>4 DEF electionVars, memberVars
  <2>5. ASSUME NEW c \in Dials, Dial(c) PROVE FALSE
    BY <2>2, <2>3, <2>5 DEF Dial
  <2>6. ASSUME NEW m \in Up, StartLoop(m) PROVE FALSE
    BY <2>1, <2>2, <2>3, <2>6, StartLoopJoins
  <2>7. ASSUME NEW m \in Up, HandleJoining(m) PROVE Joined(k, n)'
    <3>1. CASE HandlesNothing
      BY <2>2, <2>3, <3>1 DEF HandlesNothing
    <3>2. CASE HandlesJoining(m)
      <4>1. PICK pk \in Joining(m) :
              /\ packets' = packets \ {pk}
              /\ IF Ignored(pk) THEN UNCHANGED <<Seen, Map>>
                 ELSE Seen' = [Seen EXCEPT ![m] = @ \cup {MemberOf(pk)}]
        BY <3>2 DEF HandlesJoining
      <4>2. dialled' = dialled /\ m \in Node
        BY <3>2, NodeFacts DEF HandlesJoining
      <4>3. pk = JoinMessage(<<k, n>>) /\ m = n
        BY <2>1, <2>2, <2>3, <4>1, <4>2 DEF Joining
      <4>4. Seen'[n] = Seen[n] \cup {MemberOf(pk)}
        BY <2>1, <4>1, <4>2, <4>3 DEF Ignored, ElectionTypeOK, MembershipTypeOK
      <4>5. MemberOf(pk).by = "Join" /\ MemberOf(pk).node = k
        BY <2>1, <4>3 DEF MemberOf
      <4> QED
        BY <4>4, <4>5 DEF Joined
    <3> QED
      BY <2>7, <3>1, <3>2, HandlerSteps
  <2> QED
    BY <2>4, <2>5, <2>6, <2>7 DEF ElectionNext, Handlers
<1> QED
  BY <1>2, <1>3 DEF Entered

----------------------------------------------------------------------------
(* Whom a node counts, it has or had as a member.                          *)

Elems(s) == {s[i] : i \in DOMAIN s}

LEMMA ElemsAppend ==
  ASSUME NEW S, NEW s \in Seq(S), NEW x \in S
  PROVE  Elems(Append(s, x)) = Elems(s) \cup {x}
<1>1. /\ Len(s) \in Nat /\ DOMAIN s = 1..Len(s)
      /\ DOMAIN Append(s, x) = 1..(Len(s) + 1)
      /\ \A i \in 1..Len(s) : Append(s, x)[i] = s[i]
      /\ Append(s, x)[Len(s) + 1] = x
  BY AppendProperties, LenProperties
<1> DEFINE t == Append(s, x)
           l == Len(s) + 1
<1>2. /\ \A i \in DOMAIN t : i \in DOMAIN s \/ i = l
      /\ \A i \in DOMAIN s : i \in DOMAIN t /\ t[i] = s[i]
      /\ l \in DOMAIN t /\ t[l] = x
  BY <1>1
<1> HIDE DEF t, l
<1>3. Elems(t) = Elems(s) \cup {x}
  BY <1>2 DEF Elems
<1> QED
  BY <1>3 DEF t

LEMMA ElemsTail ==
  ASSUME NEW S, NEW s \in Seq(S), s # << >>
  PROVE  /\ Elems(Tail(s)) \subseteq Elems(s)
         /\ Elems(s) = Elems(Tail(s)) \cup {Head(s)}
<1>1. /\ Len(s) \in Nat /\ DOMAIN s = 1..Len(s) /\ Len(s) # 0
      /\ Tail(s) \in Seq(S) /\ Len(Tail(s)) = Len(s) - 1
      /\ \A i \in 1..Len(Tail(s)) : Tail(s)[i] = s[i + 1]
      /\ Head(s) = s[1]
  BY HeadTailProperties, LenProperties, EmptySeq
<1>2. DOMAIN Tail(s) = 1..(Len(s) - 1)
  BY <1>1, LenProperties
<1>3. \A i \in DOMAIN Tail(s) : i + 1 \in DOMAIN s /\ Tail(s)[i] = s[i + 1]
  BY <1>1, <1>2
<1>4. \A i \in DOMAIN s : i = 1 \/ (i - 1 \in DOMAIN Tail(s) /\ Tail(s)[i - 1] = s[i])
  BY <1>1, <1>2
<1>5. 1 \in DOMAIN s
  BY <1>1
<1>6. ASSUME NEW x \in Elems(s) PROVE x \in Elems(Tail(s)) \cup {Head(s)}
  BY <1>1, <1>4 DEF Elems
<1>7. ASSUME NEW x \in Elems(Tail(s)) PROVE x \in Elems(s)
  BY <1>3 DEF Elems
<1>8. Head(s) \in Elems(s)
  BY <1>1, <1>5 DEF Elems
<1> QED
  BY <1>6, <1>7, <1>8

\* Who is counted for a Join has joined, who is counted for a reply is a member
\* for it, from before the reply is passed on to the Start loop.
Tallied ==
  /\ JoinMessages \in [Node -> SUBSET Node]
  /\ JoinReplyMessages \in [Node -> SUBSET Node]
  /\ \A n \in Node :
       /\ \A k \in JoinMessages[n] : Handled(k, n)
       /\ \A k \in JoinReplyMessages[n] : Answered(n, k) # {}
       /\ \A r \in Elems(JoinReplyChan[n]) : Answered(n, r.from) # {}

\* A Join that was handled does not come back.
LEMMA HandledStays ==
  ASSUME [ElectionNext]_electionVars
  PROVE  dialled \subseteq dialled' /\ \A k, n : Handled(k, n) => Handled(k, n)'
<1>1. ASSUME dialled \subseteq dialled',
             \A pk \in packets' : pk.type = "Join" =>
               pk \in packets \/ \E c : c \notin dialled /\ pk = JoinMessage(c)
      PROVE  \A k, n : Handled(k, n) => Handled(k, n)'
  <2> SUFFICES ASSUME NEW k, NEW n, Handled(k, n) PROVE Handled(k, n)'
    OBVIOUS
  <2>1. JoinMessage(<<k, n>>).type = "Join" /\ \A c : JoinMessage(c).conn = c
    BY DEF JoinMessage
  <2>2. <<k, n>> \in dialled /\ JoinMessage(<<k, n>>) \notin packets
    BY DEF Handled, Joins
  <2>3. JoinMessage(<<k, n>>) \notin packets'
    BY <1>1, <2>1, <2>2
  <2> QED
    BY <1>1, <2>2, <2>3 DEF Handled, Joins
<1>2. CASE UNCHANGED electionVars
  BY <1>1, <1>2 DEF electionVars, memberVars
<1>3. ASSUME NEW c \in Dials, Dial(c)
      PROVE  dialled \subseteq dialled' /\ \A k, n : Handled(k, n) => Handled(k, n)'
  BY <1>1, <1>3 DEF Dial
<1>4. ASSUME NEW n \in Up, HandleJoining(n)
      PROVE  dialled \subseteq dialled' /\ \A k, m : Handled(k, m) => Handled(k, m)'
  <2>1. packets' \subseteq packets /\ dialled' = dialled
    BY <1>4 DEF HandleJoining, IgnoreReply, ReadMembers, StoreMember
  <2> QED
    BY <1>1, <2>1
<1>5. ASSUME NEW n \in Up, StartLoop(n)
      PROVE  dialled \subseteq dialled' /\ \A k, m : Handled(k, m) => Handled(k, m)'
  <2>1. dialled' = dialled /\ \A pk : pk.type = "Join" => (pk \in packets' <=> pk \in packets)
    BY <1>5, StartLoopJoins
  <2> QED
    BY <1>1, <2>1
<1> QED
  BY <1>2, <1>3, <1>4, <1>5 DEF ElectionNext, Handlers

LEMMA AnsweredStays ==
  ASSUME Growing
  PROVE  \A n \in Node : \A k : Answered(n, k) # {} => Answered(n, k)' # {}
BY DEF Growing, Answered

\* Who comes to be counted, was rightly so.
LEMMA TalliedStep ==
  ASSUME Tallied, Growing, \A k, n : Handled(k, n) => Handled(k, n)',
         JoinMessages' \in [Node -> SUBSET Node],
         JoinReplyMessages' \in [Node -> SUBSET Node],
         \A n \in Node :
           /\ \A k \in JoinMessages'[n] : k \in JoinMessages[n] \/ Handled(k, n)'
           /\ \A k \in JoinReplyMessages'[n] : k \in JoinReplyMessages[n] \/ Answered(n, k)' # {}
           /\ \A r \in Elems(JoinReplyChan'[n]) : r \in Elems(JoinReplyChan[n]) \/ Answered(n, r.from)' # {}
  PROVE  Tallied'
<1>1. \A n \in Node : \A k : Answered(n, k) # {} => Answered(n, k)' # {}
  BY AnsweredStays
<1>2. ASSUME NEW n \in Node
      PROVE  /\ \A k \in JoinMessages'[n] : Handled(k, n)'
             /\ \A k \in JoinReplyMessages'[n] : Answered(n, k)' # {}
             /\ \A r \in Elems(JoinReplyChan'[n]) : Answered(n, r.from)' # {}
  BY <1>1 DEF Tallied
<1>3. \A n \in Node : \A r \in Elems(JoinReplyChan[n])' : Answered(n, r.from)' # {}
  BY <1>2 DEF Elems
<1> QED
  BY <1>2, <1>3 DEF Tallied

LEMMA TalliedInit == ElectionInit => Tallied
<1> SUFFICES ASSUME ElectionInit PROVE Tallied
  OBVIOUS
<1>1. /\ dialled = Early /\ packets = {}
      /\ Seen = [n \in Node |-> EarlyMembers(n)]
      /\ JoinReplyChan = [n \in Node |-> << >>]
      /\ JoinMessages = [n \in Node |-> {k \in Node : <<k, n>> \in Early}]
      /\ JoinReplyMessages = [n \in Node |-> {k \in Node \ {n} : <<n, k>> \in Early}]
  BY SeenInit DEF ElectionInit, MembershipInit
<1>2. \A n \in Node : Elems(JoinReplyChan[n]) = {}
  <2>1. Elems(<< >>) = {}
    BY DEF Elems
  <2> QED
    BY <1>1, <2>1
<1>3. ASSUME NEW n \in Node, NEW k \in JoinMessages[n] PROVE Handled(k, n)
  BY <1>1, <1>3 DEF Handled, Joins
<1>4. ASSUME NEW n \in Node, NEW k \in JoinReplyMessages[n] PROVE Answered(n, k) # {}
  <2> DEFINE c == <<n, k>>
             e == [node |-> c[2], conn |-> c, by |-> "JoinReply"]
  <2>1. c \in Early /\ c[1] = n /\ c[2] = k /\ k # n
    BY <1>1
  <2>2. e \in EarlyMembers(n) /\ e.by = "JoinReply" /\ e.node = k
    BY <2>1 DEF EarlyMembers
  <2> QED
    BY <1>1, <2>2 DEF Answered
<1> QED
  BY <1>1, <1>2, <1>3, <1>4 DEF Tallied

\* The Join at the head of the queue was handled.
LEMMA QueuedHandled ==
  ASSUME ElectionTypeOK, Meetings, NEW n \in Node, NEW k \in Node, Queued(k, n) # {}
  PROVE  Handled(k, n)
BY DEF Meetings, AskedOnce, Handled

LEMMA HeadQueued ==
  ASSUME ElectionTypeOK, Meetings, NEW n \in Node, JoinChan[n] # << >>
  PROVE  Head(JoinChan[n]) \in Node /\ Queued(Head(JoinChan[n]), n) # {}
<1>1. JoinChan[n] \in Seq(Node)
  BY DEF ElectionTypeOK, MembershipTypeOK
<1> DEFINE k == Head(JoinChan[n])
<1>2. k \in Node
  BY <1>1, TakenFrom
<1>3. Queued(k, n) = At(JoinChan[n], k)
  BY DEF Queued, At
<1>4. Once(At(JoinChan[n], k))
  BY <1>2, <1>3 DEF Meetings, AskedOnce
<1> HIDE DEF k
<1>5. k = Head(JoinChan[n])
  BY DEF k
<1>6. At(JoinChan[n], k) # {}
  BY <1>1, <1>4, <1>5, AtTail
<1> QED
  BY <1>2, <1>3, <1>5, <1>6

\* A reply that is passed on has left a member.
LEMMA HandleJoiningReplies ==
  ASSUME ElectionTypeOK, NEW n \in Up, HandlesJoining(n), NEW m \in Node,
         NEW r \in Elems(JoinReplyChan'[m])
  PROVE  r \in Elems(JoinReplyChan[m]) \/ Answered(m, r.from)' # {}
<1>1. PICK pk \in Joining(n) :
        /\ IF Ignored(pk) THEN UNCHANGED <<Seen, Map>>
           ELSE /\ Seen' = [Seen EXCEPT ![n] = @ \cup {MemberOf(pk)}]
                /\ Map' = [Map EXCEPT ![n][pk.from] = {pk.conn}]
        /\ JoinReplyChan' = [JoinReplyChan EXCEPT ![n] =
             IF pk.type = "JoinReply" /\ ~ Ignored(pk)
             THEN Append(@, [from |-> pk.from, view |-> pk.view]) ELSE @]
  BY DEF HandlesJoining
<1>2. n \in Node /\ JoinReplyChan \in [Node -> Seq([from : Node, view : Node \cup {NoView}])]
  BY NodeFacts DEF ElectionTypeOK, MembershipTypeOK
<1>3. CASE ~ (pk.type = "JoinReply" /\ ~ Ignored(pk)) \/ m # n
  BY <1>1, <1>2, <1>3
<1>4. CASE pk.type = "JoinReply" /\ ~ Ignored(pk) /\ m = n
  <2> DEFINE x == [from |-> pk.from, view |-> pk.view]
  <2>1. JoinReplyChan'[m] = Append(JoinReplyChan[n], x)
    BY <1>1, <1>2, <1>4
  <2>2. x \in [from : Node, view : Node \cup {NoView}] /\ x.from = pk.from
    <3>1. pk \in packets /\ pk \in ReplyPacket
      BY <1>4, PacketFields DEF Joining, ElectionTypeOK
    <3> QED
      BY <3>1 DEF ReplyPacket
  <2> DEFINE S == [from : Node, view : Node \cup {NoView}]
  <2> HIDE DEF x
  <2>3. Elems(JoinReplyChan'[m]) = Elems(JoinReplyChan[n]) \cup {x}
    <3>1. JoinReplyChan[n] \in Seq(S) /\ x \in S
      BY <1>2, <2>2
    <3> HIDE DEF S
    <3> QED
      BY <2>1, <3>1, ElemsAppend
  <2>4. MemberOf(pk) \in Seen'[n] /\ MemberOf(pk).by = "JoinReply" /\ MemberOf(pk).node = pk.from
    BY <1>1, <1>2, <1>4 DEF MemberOf, ElectionTypeOK, MembershipTypeOK
  <2>5. Answered(n, pk.from)' # {}
    BY <2>4 DEF Answered
  <2> QED
    BY <1>4, <2>2, <2>3, <2>5
<1> QED
  BY <1>3, <1>4

\* What is taken from the replies was there, and so is what stays.
LEMMA RepliesTaken ==
  ASSUME ElectionTypeOK, NEW n \in Node, JoinReplyChan[n] # << >>,
         JoinReplyChan' = [JoinReplyChan EXCEPT ![n] = Tail(@)]
  PROVE  /\ Head(JoinReplyChan[n]) \in Elems(JoinReplyChan[n])
         /\ Head(JoinReplyChan[n]) \in [from : Node, view : Node \cup {NoView}]
         /\ Elems(JoinReplyChan[n]) = Elems(JoinReplyChan'[n]) \cup {Head(JoinReplyChan[n])}
         /\ \A m \in Node \ {n} : JoinReplyChan'[m] = JoinReplyChan[m]
         /\ \A m \in Node : Elems(JoinReplyChan'[m]) \subseteq Elems(JoinReplyChan[m])
<1> DEFINE S == [from : Node, view : Node \cup {NoView}]
<1>1. JoinReplyChan \in [Node -> Seq(S)]
  BY DEF ElectionTypeOK, MembershipTypeOK
<1>2. JoinReplyChan[n] \in Seq(S) /\ JoinReplyChan'[n] = Tail(JoinReplyChan[n])
  BY <1>1
<1>3. \A m \in Node \ {n} : JoinReplyChan'[m] = JoinReplyChan[m]
  BY <1>1
<1> HIDE DEF S
<1>4. Head(JoinReplyChan[n]) \in S
  BY <1>2, TakenFrom
<1>5. /\ Elems(JoinReplyChan'[n]) \subseteq Elems(JoinReplyChan[n])
      /\ Elems(JoinReplyChan[n]) = Elems(JoinReplyChan'[n]) \cup {Head(JoinReplyChan[n])}
  BY <1>2, ElemsTail
<1> QED
  BY <1>3, <1>4, <1>5 DEF S

LEMMA TalliedNext ==
  ASSUME ElectionTypeOK, ElectionTypeOK', Meetings, Tallied, [ElectionNext]_electionVars
  PROVE  Tallied'
<1>1. Growing /\ \A k, n : Handled(k, n) => Handled(k, n)'
  BY StepGrows, HandledStays
<1>2. /\ JoinMessages \in [Node -> SUBSET Node]
      /\ JoinReplyMessages \in [Node -> SUBSET Node]
  BY DEF Tallied
<1>3. ASSUME UNCHANGED <<JoinMessages, JoinReplyMessages, JoinReplyChan>> PROVE Tallied'
  BY <1>1, <1>2, <1>3, TalliedStep
<1>4. ASSUME \/ UNCHANGED electionVars
             \/ \E c \in Dials : Dial(c) /\ UNCHANGED startVars
             \/ \E n \in Up : \/ HandlesNothing /\ UNCHANGED startVars
                              \/ SendInitLeader(n) \/ CountList(n)
      PROVE  UNCHANGED <<JoinMessages, JoinReplyMessages, JoinReplyChan>>
  BY <1>4 DEF electionVars, memberVars, startVars, Dial, HandlesNothing, SendInitLeader, CountList
<1>5. ASSUME NEW n \in Up, HandlesJoining(n), UNCHANGED startVars PROVE Tallied'
  <2>1. JoinMessages' = JoinMessages /\ JoinReplyMessages' = JoinReplyMessages
    BY <1>5 DEF startVars
  <2>2. \A m \in Node : \A r \in Elems(JoinReplyChan'[m]) :
          r \in Elems(JoinReplyChan[m]) \/ Answered(m, r.from)' # {}
    BY <1>5, HandleJoiningReplies
  <2> QED
    BY <1>1, <1>2, <2>1, <2>2, TalliedStep
<1>6. ASSUME NEW n \in Up, AdoptView(n) \/ Elect(n) PROVE Tallied'
  <2>1. /\ n \in Node
        /\ JoinMessages' = [JoinMessages EXCEPT ![n] = {}]
        /\ JoinReplyMessages' = [JoinReplyMessages EXCEPT ![n] = {}]
    BY <1>6, NodeFacts DEF AdoptView, Elect, Leave
  <2>2. \A m \in Node : Elems(JoinReplyChan'[m]) \subseteq Elems(JoinReplyChan[m])
    <3>1. CASE AdoptView(n)
      BY <2>1, <3>1, RepliesTaken DEF AdoptView
    <3>2. CASE Elect(n)
      BY <3>2 DEF Elect
    <3> QED
      BY <1>6, <3>1, <3>2
  <2>3. /\ JoinMessages' \in [Node -> SUBSET Node]
        /\ JoinReplyMessages' \in [Node -> SUBSET Node]
        /\ \A m \in Node : /\ JoinMessages'[m] \subseteq JoinMessages[m]
                           /\ JoinReplyMessages'[m] \subseteq JoinReplyMessages[m]
    BY <1>2, <2>1
  <2> QED
    BY <1>1, <2>2, <2>3, TalliedStep
<1>7. ASSUME NEW n \in Up, CountReply(n) PROVE Tallied'
  <2> DEFINE h == Head(JoinReplyChan[n])
  <2>1. /\ n \in Node /\ JoinReplyChan[n] # << >>
        /\ JoinReplyChan' = [JoinReplyChan EXCEPT ![n] = Tail(@)]
        /\ JoinMessages' = JoinMessages
        /\ JoinReplyMessages' = [JoinReplyMessages EXCEPT ![n] =
             IF View[n] = NoView THEN @ \cup {h.from} ELSE @]
    BY <1>7, NodeFacts DEF CountReply
  <2>2. /\ h \in Elems(JoinReplyChan[n]) /\ h.from \in Node
        /\ \A m \in Node : Elems(JoinReplyChan'[m]) \subseteq Elems(JoinReplyChan[m])
    BY <2>1, RepliesTaken
  <2> HIDE DEF h
  <2> PICK j \in Node : j = h.from
    BY <2>2
  <2>3. Answered(n, j)' # {}
    <3>1. Answered(n, j) # {}
      BY <2>1, <2>2 DEF Tallied
    <3> QED
      BY <1>1, <2>1, <3>1, AnsweredStays
  <2>4. JoinReplyMessages' \in [Node -> SUBSET Node]
    BY <1>2, <2>1, <2>2
  <2>5. \A m \in Node : \A k \in JoinReplyMessages'[m] :
          k \in JoinReplyMessages[m] \/ Answered(m, k)' # {}
    BY <1>2, <2>1, <2>3
  <2> QED
    BY <1>1, <1>2, <2>1, <2>2, <2>4, <2>5, TalliedStep
<1>8. ASSUME NEW n \in Up, AnswerJoin(n) PROVE Tallied'
  <2> DEFINE k == Head(JoinChan[n])
  <2>1. /\ n \in Node /\ JoinChan[n] # << >>
        /\ JoinReplyChan' = JoinReplyChan /\ JoinReplyMessages' = JoinReplyMessages
        /\ JoinMessages' = [JoinMessages EXCEPT ![n] = IF View[n] = NoView THEN @ \cup {k} ELSE @]
    BY <1>8, NodeFacts DEF AnswerJoin
  <2>2. k \in Node /\ Handled(k, n)
    BY <2>1, HeadQueued, QueuedHandled
  <2> HIDE DEF k
  <2>3. JoinMessages' \in [Node -> SUBSET Node]
    BY <1>2, <2>1, <2>2
  <2>4. \A m \in Node : \A j \in JoinMessages'[m] : j \in JoinMessages[m] \/ Handled(j, m)'
    BY <1>1, <1>2, <2>1, <2>2
  <2> QED
    BY <1>1, <1>2, <2>1, <2>3, <2>4, TalliedStep
<1> QED
  BY <1>3, <1>4, <1>5, <1>6, <1>7, <1>8, HandlerSteps DEF ElectionNext, Handlers, StartLoop

----------------------------------------------------------------------------
(* A list has a quorum of entries, but for what appends dropped.           *)

Dropped(n) == {x \in lost : x[1] = n}

Full(n, ids) == ids # NoIds => Check(N, Cardinality(Weight(ids)) + Cardinality(Dropped(n)))

LEMMA DroppedFinite ==
  ASSUME ElectionTypeOK, NEW n
  PROVE  IsFiniteSet(Dropped(n)) /\ Cardinality(Dropped(n)) \in Nat
<1>1. Dropped(n) \subseteq lost
  BY DEF Dropped
<1> QED
  BY <1>1, LostFinite, FS_Subset, FS_CardinalityType

LEMMA WeightFinite ==
  ASSUME NEW ids
  PROVE  IsFiniteSet(Weight(ids)) /\ Cardinality(Weight(ids)) \in Nat
<1>1. Weight(ids) \subseteq Node \X Copy
  BY DEF Weight
<1>2. IsFiniteSet(Node \X Copy)
  BY SlotsFinite
<1> QED
  BY <1>1, <1>2, FS_Subset, FS_CardinalityType

\* Of the nodes that were members for one type of message, as many as are not
\* any more were dropped.
LEMMA DroppedNames ==
  ASSUME ElectionTypeOK, NEW n \in Node, NEW by, NEW S \in SUBSET Node,
         \A k \in S : \E e : <<n, e>> \in lost /\ e.by = by /\ e.node = k
  PROVE  Cardinality(S) <= Cardinality({x \in Dropped(n) : x[2].by = by})
<1> DEFINE T == {x \in Dropped(n) : x[2].by = by}
           f == [k \in S |-> CHOOSE x \in T : x[2].node = k]
<1>1. ASSUME NEW k \in S PROVE f[k] \in T /\ f[k][2].node = k
  <2>1. PICK e : <<n, e>> \in lost /\ e.by = by /\ e.node = k
    OBVIOUS
  <2>2. <<n, e>> \in T /\ <<n, e>>[2].node = k
    BY <2>1 DEF Dropped
  <2> HIDE DEF T
  <2> QED
    BY <2>2
<1>2. T \subseteq Dropped(n)
  OBVIOUS
<1> HIDE DEF T
<1>3. f \in [S -> T] /\ \A j, k \in S : f[j] = f[k] => j = k
  <2>1. f = [k \in S |-> f[k]]
    OBVIOUS
  <2> HIDE DEF f
  <2> QED
    BY <1>1, <2>1
<1> HIDE DEF f
<1>4. f \in Injection(S, T)
  BY <1>3 DEF Injection, IsInjective
<1>5. IsFiniteSet(T)
  BY <1>2, DroppedFinite, FS_Subset
<1>6. Cardinality(S) <= Cardinality(T)
  BY <1>4, <1>5, FS_Injection
<1> QED
  BY <1>6 DEF T

\* An entry of Members for k puts k on the list; two of them, twice.
LEMMA EntriesListed ==
  ASSUME ElectionTypeOK, NEW n \in Node, NEW k \in Node
  PROVE  /\ (\E e \in Members[n] : e.node = k) => GetAllNodeIds(n)[k] >= 1
         /\ (\E d, e \in Members[n] : d # e /\ d.node = k /\ e.node = k) => GetAllNodeIds(n)[k] >= 2
         /\ GetAllNodeIds(n)[k] \in Nat
<1> DEFINE S == {e \in Members[n] : e.node = k}
<1>1. S \in SUBSET Entry /\ GetAllNodeIds(n)[k] = Cardinality(S)
  BY DEF ElectionTypeOK, MembershipTypeOK, Entry, GetAllNodeIds
<1>2. IsFiniteSet(S) /\ Cardinality(S) \in Nat
  <2> HIDE DEF S
  <2> QED
    BY <1>1, EntriesFinite
<1>3. ASSUME NEW e \in Members[n], e.node = k PROVE e \in S
  BY <1>3
<1> HIDE DEF S
<1>4. S # {} => Cardinality(S) >= 1
  BY <1>2, FS_EmptySet
<1>5. ASSUME NEW d \in S, NEW e \in S, d # e PROVE Cardinality(S) >= 2
  <2>1. Cardinality(S) # 0 /\ Cardinality(S) # 1
    BY <1>2, <1>5, FS_EmptySet, FS_Singleton
  <2> QED
    BY <1>2, <2>1
<1> QED
  BY <1>1, <1>2, <1>3, <1>4, <1>5

\* The names in A and B, twice those in both, are as many entries.
LEMMA TwiceListed ==
  ASSUME NEW ids \in [Node -> Nat], NEW A \in SUBSET Node, NEW B \in SUBSET Node,
         \A k \in A \cup B : ids[k] >= 1,
         \A k \in A \cap B : ids[k] >= 2
  PROVE  Cardinality(A) + Cardinality(B) <= Cardinality(Weight(ids))
<1> DEFINE W == Weight(ids)
           X == {x \in W : x[2] = 0}
           Y == {x \in W : x[2] = 1}
           U == A \cup B
           I == A \cap B
           f == [k \in U |-> <<k, 0>>]
           g == [k \in I |-> <<k, 1>>]
<1>1. f \in [U -> X] /\ \A j, k \in U : f[j] = f[k] => j = k
  <2>1. ASSUME NEW k \in U PROVE <<k, 0>> \in X
    BY DEF Weight, Copy
  <2> QED
    BY <2>1
<1>2. g \in [I -> Y] /\ \A j, k \in I : g[j] = g[k] => j = k
  <2>1. ASSUME NEW k \in I PROVE <<k, 1>> \in Y
    BY DEF Weight, Copy
  <2> QED
    BY <2>1
<1>3. X \subseteq W /\ Y \subseteq W /\ X \cap Y = {} /\ X \cup Y \subseteq W
  OBVIOUS
<1>4. U \in SUBSET Node /\ I \in SUBSET Node
  OBVIOUS
<1>5. /\ Cardinality(U) = Cardinality(A) + Cardinality(B) - Cardinality(I)
      /\ IsFiniteSet(A) /\ Cardinality(A) \in Nat /\ IsFiniteSet(B) /\ Cardinality(B) \in Nat
  BY FiniteNode, FS_Union
<1>6. IsFiniteSet(W) /\ Cardinality(W) \in Nat
  BY WeightFinite
<1> HIDE DEF W, X, Y, U, I, f, g
<1>7. f \in Injection(U, X) /\ g \in Injection(I, Y)
  BY <1>1, <1>2 DEF Injection, IsInjective
<1>8. /\ IsFiniteSet(X) /\ Cardinality(X) \in Nat
      /\ IsFiniteSet(Y) /\ Cardinality(Y) \in Nat
      /\ IsFiniteSet(X \cup Y) /\ Cardinality(X \cup Y) \in Nat
      /\ Cardinality(X \cup Y) <= Cardinality(W)
  BY <1>3, <1>6, FS_Subset, FS_CardinalityType
<1>9. Cardinality(U) <= Cardinality(X) /\ Cardinality(I) <= Cardinality(Y)
  BY <1>7, <1>8, FS_Injection
<1>10. Cardinality(X \cup Y) = Cardinality(X) + Cardinality(Y)
  <2>1. Cardinality(X \cup Y) = Cardinality(X) + Cardinality(Y) - Cardinality(X \cap Y)
    BY <1>8, FS_Union
  <2>2. Cardinality(X \cap Y) = 0
    BY <1>3, FS_EmptySet
  <2> QED
    BY <1>8, <2>1, <2>2
<1>11. Cardinality(U) \in Nat /\ Cardinality(I) \in Nat
  BY <1>4, FiniteNode
<1>12. Cardinality(A) + Cardinality(B) <= Cardinality(W)
  BY <1>5, <1>6, <1>8, <1>9, <1>10, <1>11
<1> QED
  BY <1>12 DEF W

\* A node that has joined and answered at n, is in its Members for both, or what
\* is not there was dropped.
LEMMA NewListFull ==
  ASSUME ElectionTypeOK, Meetings, Entered, NEW n \in Node,
         NEW J \in SUBSET Node, \A k \in J : Handled(k, n),
         NEW B \in SUBSET Node, \A k \in B : Answered(n, k) # {},
         Check(N, Cardinality(B) + Cardinality(J))
  PROVE  Check(N, Cardinality(Weight(GetAllNodeIds(n))) + Cardinality(Dropped(n)))
<1> DEFINE ids == GetAllNodeIds(n)
           Has(k, by) == \E e \in Members[n] : e.by = by /\ e.node = k
           In(S, by)  == {k \in S : Has(k, by)}
           Gone(by)   == {x \in Dropped(n) : x[2].by = by}
           j == "Join"
           r == "JoinReply"
<1>1. /\ In(J, j) \in SUBSET Node /\ In(B, r) \in SUBSET Node
      /\ J \ In(J, j) \in SUBSET Node /\ B \ In(B, r) \in SUBSET Node
  OBVIOUS
<1>2. ASSUME NEW k \in In(J, j) \cup In(B, r) PROVE ids[k] >= 1
  BY <1>1, EntriesListed
<1>3. ASSUME NEW k \in In(J, j) \cap In(B, r) PROVE ids[k] >= 2
  <2>1. PICK d \in Members[n] : d.by = "Join" /\ d.node = k
    OBVIOUS
  <2>2. PICK e \in Members[n] : e.by = "JoinReply" /\ e.node = k
    OBVIOUS
  <2>3. d # e
    BY <2>1, <2>2
  <2> QED
    BY <1>1, <2>1, <2>2, <2>3, EntriesListed
<1>4. ids \in [Node -> Nat]
  BY EntriesListed DEF GetAllNodeIds
<1>5. ASSUME NEW k \in J \ In(J, j)
      PROVE  \E e : <<n, e>> \in lost /\ e.by = j /\ e.node = k
  <2>1. PICK e \in Seen[n] : e.by = "Join" /\ e.node = k
    BY DEF Entered, Joined
  <2> QED
    BY <2>1, SeenEntries DEF ElectionTypeOK
<1>6. ASSUME NEW k \in B \ In(B, r)
      PROVE  \E e : <<n, e>> \in lost /\ e.by = r /\ e.node = k
  <2>1. PICK e \in Seen[n] : e.by = "JoinReply" /\ e.node = k
    BY DEF Answered
  <2> QED
    BY <2>1, SeenEntries DEF ElectionTypeOK
<1>7. /\ Gone(j) \subseteq Dropped(n) /\ Gone(r) \subseteq Dropped(n)
      /\ Gone(j) \cap Gone(r) = {}
  OBVIOUS
<1> HIDE DEF ids, Has, In
<1>8. Cardinality(In(J, j)) + Cardinality(In(B, r)) <= Cardinality(Weight(ids))
  BY <1>1, <1>2, <1>3, <1>4, TwiceListed
<1>9. /\ Cardinality(J \ In(J, j)) <= Cardinality(Gone(j))
      /\ Cardinality(B \ In(B, r)) <= Cardinality(Gone(r))
  <2> HIDE DEF j, r
  <2> DEFINE D == J \ In(J, j)
             E == B \ In(B, r)
  <2>1. /\ D \in SUBSET Node /\ \A k \in D : \E e : <<n, e>> \in lost /\ e.by = j /\ e.node = k
        /\ E \in SUBSET Node /\ \A k \in E : \E e : <<n, e>> \in lost /\ e.by = r /\ e.node = k
    BY <1>1, <1>5, <1>6
  <2> HIDE DEF D, E
  <2>2. Cardinality(D) <= Cardinality({x \in Dropped(n) : x[2].by = j})
    BY <2>1, DroppedNames
  <2>3. Cardinality(E) <= Cardinality({x \in Dropped(n) : x[2].by = r})
    BY <2>1, DroppedNames
  <2> QED
    BY <2>2, <2>3 DEF D, E
<1> HIDE DEF j, r
<1>10. ASSUME NEW S \in SUBSET Node, NEW by, In(S, by) \in SUBSET Node
       PROVE  /\ Cardinality(S) = Cardinality(In(S, by)) + Cardinality(S \ In(S, by))
              /\ Cardinality(In(S, by)) \in Nat /\ Cardinality(S \ In(S, by)) \in Nat
  <2> DEFINE T == In(S, by)
  <2>1. T \subseteq S
    BY DEF In
  <2> HIDE DEF T
  <2>2. T \in SUBSET Node /\ S \ T \in SUBSET Node /\ S \cap T = T
    BY <2>1
  <2>3. /\ IsFiniteSet(S) /\ Cardinality(S) \in Nat
        /\ Cardinality(T) \in Nat /\ Cardinality(S \ T) \in Nat
    BY <2>2, FiniteNode
  <2>4. Cardinality(S \ T) = Cardinality(S) - Cardinality(S \cap T)
    BY <2>3, FS_Difference
  <2>5. Cardinality(S) = Cardinality(T) + Cardinality(S \ T)
    BY <2>2, <2>3, <2>4
  <2> QED
    BY <2>3, <2>5 DEF T
<1>11. /\ Cardinality(Gone(j)) \in Nat /\ Cardinality(Gone(r)) \in Nat
       /\ Cardinality(Gone(j)) + Cardinality(Gone(r)) <= Cardinality(Dropped(n))
       /\ Cardinality(Dropped(n)) \in Nat
  <2> DEFINE X == Gone(j)
             Y == Gone(r)
             D == Dropped(n)
  <2>1. X \subseteq D /\ Y \subseteq D /\ X \cap Y = {}
    BY <1>7
  <2>2. IsFiniteSet(D) /\ Cardinality(D) \in Nat
    BY DroppedFinite
  <2> HIDE DEF X, Y, D
  <2>3. X \cup Y \subseteq D
    BY <2>1
  <2>4. /\ IsFiniteSet(X) /\ Cardinality(X) \in Nat /\ IsFiniteSet(Y) /\ Cardinality(Y) \in Nat
        /\ Cardinality(X \cup Y) <= Cardinality(D)
    BY <2>1, <2>2, <2>3, FS_Subset, FS_CardinalityType
  <2>5. Cardinality(X \cup Y) = Cardinality(X) + Cardinality(Y) - Cardinality(X \cap Y)
    BY <2>4, FS_Union
  <2>6. Cardinality(X \cap Y) = 0
    BY <2>1, FS_EmptySet
  <2>7. Cardinality(X) + Cardinality(Y) <= Cardinality(D)
    BY <2>4, <2>5, <2>6
  <2> QED
    BY <2>2, <2>4, <2>7 DEF X, Y, D
<1> HIDE DEF Gone
<1>12. /\ Cardinality(J) = Cardinality(In(J, j)) + Cardinality(J \ In(J, j))
       /\ Cardinality(B) = Cardinality(In(B, r)) + Cardinality(B \ In(B, r))
       /\ Cardinality(In(J, j)) \in Nat /\ Cardinality(J \ In(J, j)) \in Nat
       /\ Cardinality(In(B, r)) \in Nat /\ Cardinality(B \ In(B, r)) \in Nat
  BY <1>1, <1>10
<1>13. Cardinality(Weight(ids)) \in Nat /\ F(N) \in Int
  BY WeightFinite, NodeFacts DEF F
<1>14. Cardinality(B) + Cardinality(J) >= 2 * F(N) + 1
  BY DEF Check
<1>15. Cardinality(Weight(ids)) + Cardinality(Dropped(n)) >= 2 * F(N) + 1
  BY <1>8, <1>9, <1>11, <1>12, <1>13, <1>14
<1> QED
  BY <1>15 DEF Check, ids

\* Every list that is sent or kept is full.
FullLists ==
  /\ \A pk \in packets : pk.type = "InitLeader" => Full(pk.from, pk.ids)
  /\ \A n \in Node : /\ Full(n, announcing[n])
                     /\ \A j \in Node : Full(j, InitLeaderMessages[n][j])

LEMMA FullStays ==
  ASSUME ElectionTypeOK', lost \subseteq lost'
  PROVE  \A n, ids : Full(n, ids) /\ ElectionTypeOK => Full(n, ids)'
<1> SUFFICES ASSUME NEW n, NEW ids, Full(n, ids), ElectionTypeOK, ids # NoIds
             PROVE  Check(N, Cardinality(Weight(ids)) + Cardinality(Dropped(n)'))
  BY DEF Full, Weight, NoIds
<1> DEFINE A == Dropped(n)
           B == Dropped(n)'
<1>1. A \subseteq B
  BY DEF Dropped
<1>2. IsFiniteSet(B) /\ Cardinality(B) \in Nat
  <2>1. B \subseteq Node \X Entry
    BY DEF Dropped, ElectionTypeOK, MembershipTypeOK
  <2>2. IsFiniteSet(Node \X Entry)
    BY EntriesFinite, FiniteNode, FS_Product
  <2> HIDE DEF B
  <2> QED
    BY <2>1, <2>2, FS_Subset, FS_CardinalityType
<1> HIDE DEF A, B
<1>3. Cardinality(A) <= Cardinality(B) /\ Cardinality(A) \in Nat
  BY <1>1, <1>2, FS_Subset, FS_CardinalityType
<1>4. Cardinality(Weight(ids)) + Cardinality(A) >= 2 * F(N) + 1
  BY DEF Full, Check, A
<1>5. F(N) \in Int /\ Cardinality(Weight(ids)) \in Nat
  BY WeightFinite, NodeFacts DEF F
<1>6. Cardinality(Weight(ids)) + Cardinality(B) >= 2 * F(N) + 1
  BY <1>2, <1>3, <1>4, <1>5
<1> QED
  BY <1>6 DEF Check, B

\* A step keeps the lists full if all it makes are.
LEMMA FullStep ==
  ASSUME ElectionTypeOK, ElectionTypeOK', lost \subseteq lost',
         \A pk \in packets' : pk.type = "InitLeader" => Full(pk.from, pk.ids),
         \A n \in Node : /\ Full(n, announcing'[n])
                         /\ \A j \in Node : Full(j, InitLeaderMessages'[n][j])
  PROVE  FullLists'
<1>1. \A n, ids : Full(n, ids) => Full(n, ids)'
  BY FullStays
<1>2. \A pk \in packets' : pk.type = "InitLeader" => Full(pk.from, pk.ids)'
  BY <1>1
<1>3. ASSUME NEW n \in Node, NEW j \in Node
      PROVE  (Full(n, announcing[n]))' /\ (Full(j, InitLeaderMessages[n][j]))'
  <2>1. Full(n, announcing'[n]) /\ Full(j, InitLeaderMessages'[n][j])
    OBVIOUS
  <2> QED
    BY <1>1, <2>1 DEF Full
<1> QED
  BY <1>2, <1>3 DEF FullLists

LEMMA FullEmpty == \A n : Full(n, NoIds)
BY DEF Full

\* Where nothing was dropped, a full list has entries.
LEMMA FullNotEmpty ==
  ASSUME lost = {}, NEW n, NEW ids,
         Check(N, Cardinality(Weight(ids)) + Cardinality(Dropped(n)))
  PROVE  ids # NoIds
<1> SUFFICES ASSUME ids = NoIds PROVE FALSE
  OBVIOUS
<1>1. Dropped(n) = {}
  BY DEF Dropped
<1>2. Weight(ids) = {}
  BY DEF Weight, NoIds, Copy
<1>3. Check(N, 0)
  BY <1>1, <1>2, FS_EmptySet
<1> QED
  BY <1>3, NodeFacts DEF Check, F

LEMMA FullListsInit == ElectionInit => FullLists
<1> SUFFICES ASSUME ElectionInit PROVE FullLists
  OBVIOUS
<1>1. /\ packets = {}
      /\ \A n, j \in Node : InitLeaderMessages[n][j] = NoIds
  BY DEF ElectionInit, MembershipInit
<1>2. ASSUME NEW n \in Node PROVE Full(n, announcing[n])
  <2> DEFINE now == Check(N, Cardinality(JoinMessages[n]) + Cardinality(JoinReplyMessages[n]))
  <2>1. announcing[n] = IF now THEN GetAllNodeIds(n) ELSE NoIds
    BY DEF ElectionInit
  <2>2. /\ JoinMessages[n] \in SUBSET Node /\ \A k \in JoinMessages[n] : Handled(k, n)
        /\ JoinReplyMessages[n] \in SUBSET Node
        /\ \A k \in JoinReplyMessages[n] : Answered(n, k) # {}
    BY TalliedInit DEF Tallied
  <2>3. Cardinality(JoinMessages[n]) \in Nat /\ Cardinality(JoinReplyMessages[n]) \in Nat
    BY <2>2, FiniteNode
  <2>4. now => Check(N, Cardinality(JoinReplyMessages[n]) + Cardinality(JoinMessages[n]))
    BY <2>3 DEF Check
  <2>5. now => Check(N, Cardinality(Weight(GetAllNodeIds(n))) + Cardinality(Dropped(n)))
    BY <2>2, <2>4, TypeInit, MeetingsInit, EnteredInit, NewListFull
  <2> HIDE DEF now
  <2> QED
    BY <2>1, <2>5 DEF Full
<1> QED
  BY <1>1, <1>2, FullEmpty DEF FullLists

\* What the Start loop reads from Members when it has counted a quorum.
LEMMA Announced ==
  ASSUME ElectionTypeOK, Meetings, Entered, NEW n \in Node, NEW now \in BOOLEAN, Announce(n, now),
         JoinMessages'[n] \in SUBSET Node, \A k \in JoinMessages'[n] : Handled(k, n),
         JoinReplyMessages'[n] \in SUBSET Node, \A k \in JoinReplyMessages'[n] : Answered(n, k) # {},
         now => Check(N, Cardinality(JoinReplyMessages'[n]) + Cardinality(JoinMessages'[n]))
  PROVE  /\ \A k \in Node : k # n \/ ~ now => announcing'[k] = announcing[k]
         /\ now => announcing'[n] = GetAllNodeIds(n) /\
                   Check(N, Cardinality(Weight(announcing'[n])) + Cardinality(Dropped(n)))
<1>1. /\ \A k \in Node : k # n \/ ~ now => announcing'[k] = announcing[k]
      /\ now => announcing'[n] = GetAllNodeIds(n)
  BY DEF Announce, ElectionTypeOK, StartTypeOK
<1>2. ASSUME now PROVE Check(N, Cardinality(Weight(GetAllNodeIds(n))) + Cardinality(Dropped(n)))
  BY <1>2, NewListFull
<1> QED
  BY <1>1, <1>2

\* Whom the Start loop counts in a step, and when it reads a list.
LEMMA Counts ==
  ASSUME ElectionTypeOK, Meetings, Tallied, NEW n \in Up, CountReply(n) \/ AnswerJoin(n)
  PROVE  \E now \in BOOLEAN :
           /\ Announce(n, now)
           /\ now <=> View[n] = NoView /\
                Check(N, Cardinality(JoinReplyMessages'[n]) + Cardinality(JoinMessages'[n]))
           /\ JoinMessages'[n] \in SUBSET Node /\ \A k \in JoinMessages'[n] : Handled(k, n)
           /\ JoinReplyMessages'[n] \in SUBSET Node
           /\ \A k \in JoinReplyMessages'[n] : Answered(n, k) # {}
<1>1. n \in Node
  BY NodeFacts
<1>2. /\ JoinMessages \in [Node -> SUBSET Node] /\ JoinReplyMessages \in [Node -> SUBSET Node]
      /\ \A k \in JoinMessages[n] : Handled(k, n)
      /\ \A k \in JoinReplyMessages[n] : Answered(n, k) # {}
      /\ \A r \in Elems(JoinReplyChan[n]) : Answered(n, r.from) # {}
  BY <1>1 DEF Tallied
<1>3. CASE CountReply(n)
  <2> DEFINE now == View[n] = NoView /\
               Check(N, Cardinality(JoinReplyMessages'[n]) + Cardinality(JoinMessages[n]))
             h == Head(JoinReplyChan[n])
  <2>1. /\ Announce(n, now) /\ JoinMessages' = JoinMessages /\ JoinReplyChan[n] # << >>
        /\ JoinReplyChan' = [JoinReplyChan EXCEPT ![n] = Tail(@)]
        /\ JoinReplyMessages' = [JoinReplyMessages EXCEPT ![n] =
             IF View[n] = NoView THEN @ \cup {h.from} ELSE @]
    BY <1>3 DEF CountReply
  <2>2. h \in Elems(JoinReplyChan[n]) /\ h.from \in Node
    BY <1>1, <2>1, RepliesTaken
  <2>3. Answered(n, h.from) # {}
    BY <1>2, <2>2
  <2> HIDE DEF h
  <2>4. JoinReplyMessages'[n] \in SUBSET Node /\ \A k \in JoinReplyMessages'[n] : Answered(n, k) # {}
    BY <1>1, <1>2, <2>1, <2>2, <2>3
  <2>5. now <=> View[n] = NoView /\
          Check(N, Cardinality(JoinReplyMessages'[n]) + Cardinality(JoinMessages'[n]))
    BY <2>1
  <2>6. now \in BOOLEAN
    OBVIOUS
  <2> HIDE DEF now
  <2> QED
    BY <1>1, <1>2, <2>1, <2>4, <2>5, <2>6
<1>4. CASE AnswerJoin(n)
  <2> DEFINE now == View[n] = NoView /\
               Check(N, Cardinality(JoinReplyMessages[n]) + Cardinality(JoinMessages'[n]))
             h == Head(JoinChan[n])
  <2>1. /\ Announce(n, now) /\ JoinReplyMessages' = JoinReplyMessages /\ JoinChan[n] # << >>
        /\ JoinMessages' = [JoinMessages EXCEPT ![n] = IF View[n] = NoView THEN @ \cup {h} ELSE @]
    BY <1>4 DEF AnswerJoin
  <2>2. h \in Node /\ Handled(h, n)
    BY <1>1, <2>1, HeadQueued, QueuedHandled
  <2> HIDE DEF h
  <2>3. JoinMessages'[n] \in SUBSET Node /\ \A k \in JoinMessages'[n] : Handled(k, n)
    BY <1>1, <1>2, <2>1, <2>2
  <2>4. now <=> View[n] = NoView /\
          Check(N, Cardinality(JoinReplyMessages'[n]) + Cardinality(JoinMessages'[n]))
    BY <2>1
  <2>5. now \in BOOLEAN
    OBVIOUS
  <2> HIDE DEF now
  <2> QED
    BY <1>1, <1>2, <2>1, <2>3, <2>4, <2>5
<1> QED
  BY <1>3, <1>4

LEMMA FullNext ==
  ASSUME ElectionTypeOK, ElectionTypeOK', Meetings, Tallied, Entered, FullLists,
         [ElectionNext]_electionVars
  PROVE  FullLists'
<1>1. lost \subseteq lost'
  BY LostGrows
<1>2. ASSUME \A pk \in packets' : pk.type = "InitLeader" => pk \in packets,
             \A k \in Node : announcing'[k] \in {announcing[k], NoIds},
             \A k, j \in Node : InitLeaderMessages'[k][j] \in {InitLeaderMessages[k][j], NoIds}
      PROVE  FullLists'
  BY <1>1, <1>2, FullStep, FullEmpty DEF FullLists
<1>3. CASE UNCHANGED electionVars
  BY <1>2, <1>3 DEF electionVars, memberVars, startVars
<1>4. ASSUME NEW c \in Dials, Dial(c), UNCHANGED startVars PROVE FullLists'
  BY <1>2, <1>4 DEF Dial, JoinMessage, startVars
<1>5. ASSUME NEW n \in Up, HandleJoining(n), UNCHANGED startVars PROVE FullLists'
  <2>1. packets' \subseteq packets
    BY <1>5 DEF HandleJoining, IgnoreReply, ReadMembers, StoreMember
  <2> QED
    BY <1>2, <1>5, <2>1 DEF startVars
<1>6. ASSUME NEW n \in Up, AdoptView(n) \/ Elect(n) PROVE FullLists'
  <2>1. packets' \subseteq packets /\ announcing' = announcing
    BY <1>6 DEF AdoptView, Elect
  <2>2. \A k, j \in Node : InitLeaderMessages'[k][j] \in {InitLeaderMessages[k][j], NoIds}
    <3>1. InitLeaderMessages' = [InitLeaderMessages EXCEPT ![n] = [k \in Node |-> NoIds]]
      BY <1>6 DEF AdoptView, Elect, Leave
    <3> QED
      BY <3>1 DEF ElectionTypeOK, StartTypeOK
  <2> QED
    BY <1>2, <2>1, <2>2
<1>7. ASSUME NEW n \in Up, CountReply(n) \/ AnswerJoin(n) PROVE FullLists'
  <2>1. \A pk \in packets' : pk.type = "InitLeader" => pk \in packets
    BY <1>7 DEF CountReply, AnswerJoin, JoinReplyMessage
  <2>2. InitLeaderMessages' = InitLeaderMessages
    BY <1>7 DEF CountReply, AnswerJoin
  <2>3. PICK now \in BOOLEAN :
          /\ Announce(n, now)
          /\ now <=> View[n] = NoView /\
               Check(N, Cardinality(JoinReplyMessages'[n]) + Cardinality(JoinMessages'[n]))
          /\ JoinMessages'[n] \in SUBSET Node /\ \A k \in JoinMessages'[n] : Handled(k, n)
          /\ JoinReplyMessages'[n] \in SUBSET Node
          /\ \A k \in JoinReplyMessages'[n] : Answered(n, k) # {}
    BY <1>7, Counts
  <2>4. n \in Node
    BY NodeFacts
  <2>5. /\ \A k \in Node : k # n \/ ~ now => announcing'[k] = announcing[k]
        /\ now => Check(N, Cardinality(Weight(announcing'[n])) + Cardinality(Dropped(n)))
    BY <2>3, <2>4, Announced
  <2>6. ASSUME NEW k \in Node PROVE Full(k, announcing'[k])
    <3>1. CASE k # n \/ ~ now
      BY <2>5, <3>1 DEF FullLists
    <3>2. CASE k = n /\ now
      BY <2>5, <3>2 DEF Full
    <3> QED
      BY <3>1, <3>2
  <2> QED
    BY <1>1, <2>1, <2>2, <2>6, FullStep DEF FullLists
<1>8. ASSUME NEW n \in Up, SendInitLeader(n) PROVE FullLists'
  <2>1. \A pk \in packets' :
          pk \in packets \/ (pk.type = "InitLeader" /\ pk.from = n /\ pk.ids = announcing[n])
    BY <1>8 DEF SendInitLeader, InitLeaderMessage
  <2>2. InitLeaderMessages' = InitLeaderMessages /\ \A k \in Node : announcing'[k] \in {announcing[k], NoIds}
    BY <1>8 DEF SendInitLeader, ElectionTypeOK, StartTypeOK
  <2>3. n \in Node
    BY NodeFacts
  <2> QED
    BY <1>1, <2>1, <2>2, <2>3, FullStep, FullEmpty DEF FullLists
<1>9. ASSUME NEW n \in Up, CountList(n) PROVE FullLists'
  <2>1. PICK pk \in Lists(n) :
          /\ packets' = packets \ {pk}
          /\ InitLeaderMessages' = [InitLeaderMessages EXCEPT ![n] =
               [InitLeaderMessages[n] EXCEPT ![pk.from] = pk.ids]]
    BY <1>9 DEF CountList
  <2>2. pk \in packets /\ pk.type = "InitLeader" /\ announcing' = announcing
    BY <1>9 DEF Lists, CountList
  <2>3. ASSUME NEW k \in Node, NEW j \in Node
        PROVE  \/ InitLeaderMessages'[k][j] = InitLeaderMessages[k][j]
               \/ j = pk.from /\ InitLeaderMessages'[k][j] = pk.ids
    BY <2>1 DEF ElectionTypeOK, StartTypeOK
  <2>4. \A k, j \in Node : Full(j, InitLeaderMessages'[k][j])
    BY <2>2, <2>3 DEF FullLists
  <2> QED
    BY <1>1, <2>1, <2>2, <2>4, FullStep DEF FullLists
<1> QED
  BY <1>3, <1>4, <1>5, <1>6, <1>7, <1>8, <1>9 DEF ElectionNext, Handlers, StartLoop

----------------------------------------------------------------------------
(* GetLeaderNode finds somebody.                                           *)

\* A node that ended found nobody in the lists of a quorum: they have too few
\* entries for the nodes there are.
Blamed ==
  /\ alive = Up \ failed /\ failed \subseteq Up
  /\ failed # {} =>
       (2 * F(N) + 1) * (2 * F(N) + 1) <= (2 * F(N)) * Cardinality(Up) + Cardinality(lost)

LEMMA BlamedInit == ElectionInit => Blamed
BY DEF ElectionInit, MembershipInit, Blamed

\* No list names a node that is not started.
LEMMA OnlyUp ==
  ASSUME ElectionTypeOK, Meetings, NEW j \in Node, NEW ids, Truthful(j, ids), NEW k \in Node, ids[k] # 0
  PROVE  k \in Up
<1>1. StoredIds(j)[k] # 0
  <2>1. ids[k] \in Nat /\ ids[k] <= StoredIds(j)[k]
    BY ReadLists, CopiesType DEF Truthful, Ids
  <2>2. StoredIds(j)[k] \in Nat
    BY ReadLists
  <2> QED
    BY <2>1, <2>2
<1> DEFINE S == {e \in Seen[j] : e.node = k}
<1>2. S # {}
  <2>1. StoredIds(j)[k] = Cardinality(S)
    BY SeenEntries DEF ElectionTypeOK, StoredIds
  <2> HIDE DEF S
  <2> QED
    BY <1>1, <2>1, FS_EmptySet
<1>3. PICK e \in Seen[j] : e.node = k
  BY <1>2
<1>4. CASE e.by = "Join"
  BY <1>3, <1>4, NodeFacts DEF Meetings, MembersMet
<1>5. CASE e.by = "JoinReply"
  <2>1. Answered(j, k) # {}
    BY <1>3, <1>5 DEF Answered
  <2>2. <<j, k>> \in dialled
    BY <2>1 DEF Meetings, AskedOnce
  <2> QED
    BY <2>2, NodeFacts DEF ElectionTypeOK, MembershipTypeOK
<1>6. e.by \in {"Join", "JoinReply"}
  BY DEF ElectionTypeOK, MembershipTypeOK, Entry
<1> QED
  BY <1>4, <1>5, <1>6

\* The sum of Counting, for the lists with which a node ended.
LEMMA NobodyFound ==
  ASSUME ElectionTypeOK, Meetings, Informed, FullLists, NEW n \in Node, NEW pk \in Lists(n),
         EnoughLists([InitLeaderMessages[n] EXCEPT ![pk.from] = pk.ids]),
         Candidates([InitLeaderMessages[n] EXCEPT ![pk.from] = pk.ids]) = {}
  PROVE  (2 * F(N) + 1) * (2 * F(N) + 1) <= (2 * F(N)) * Cardinality(Up) + Cardinality(lost)
<1> DEFINE lists == [InitLeaderMessages[n] EXCEPT ![pk.from] = pk.ids]
           Q == {k \in Node : lists[k] # NoIds}
           g == [x \in lost |-> x[1]]
           m == 2 * F(N) + 1
           a == 2 * F(N)
<1>1. lists \in [Node -> Ids] /\ \A j \in Node : Truthful(j, lists[j])
  BY ListsType, TruthfulLists
<1>2. ASSUME NEW j \in Node PROVE Full(j, lists[j])
  <2>1. pk \in packets /\ pk.type = "InitLeader"
    BY DEF Lists
  <2>2. Full(pk.from, pk.ids) /\ Full(j, InitLeaderMessages[n][j])
    BY <2>1 DEF FullLists
  <2>3. lists[j] = InitLeaderMessages[n][j] \/ (j = pk.from /\ lists[j] = pk.ids)
    BY DEF ElectionTypeOK, StartTypeOK
  <2> QED
    BY <2>2, <2>3
<1>3. Check(N, Cardinality(Q)) /\ \A k \in Node : ~ Check(N, Listed(lists, k))
  BY DEF EnoughLists, Candidates
<1> HIDE DEF lists
<1>4. a \in Nat /\ m = a + 1 /\ m \in Nat /\ F(N) \in Nat
  BY NodeFacts DEF F
<1>5. \A j, k \in Node : lists[j][k] # 0 => k \in Up
  BY <1>1, OnlyUp
<1>6. ASSUME NEW k \in Node PROVE Listed(lists, k) <= a
  <2>1. Listed(lists, k) \in Nat
    BY <1>1, ColumnListed
  <2> QED
    BY <1>3, <1>4, <2>1 DEF Check
<1>7. IsFiniteSet(lost) /\ Cardinality(lost) \in Nat /\ g \in [lost -> Node]
  BY LostFinite DEF ElectionTypeOK, MembershipTypeOK
<1>8. ASSUME NEW q \in Q
      PROVE  Cardinality(Weight(lists[q])) + Cardinality(Fibre(lost, g, q)) >= m
  <2>1. Fibre(lost, g, q) = Dropped(q)
    BY DEF Fibre, Dropped
  <2>2. Check(N, Cardinality(Weight(lists[q])) + Cardinality(Dropped(q)))
    BY <1>2 DEF Full
  <2> QED
    BY <2>1, <2>2 DEF Check
<1>9. Q \in SUBSET Node
  OBVIOUS
<1> HIDE DEF g, Q
<1>10. m * Cardinality(Q) <= a * Cardinality(Up) + Cardinality(lost)
  <2> HIDE DEF m, a
  <2> QED
    BY <1>1, <1>4, <1>5, <1>6, <1>7, <1>8, <1>9, Counting
<1>11. Cardinality(Q) \in Nat /\ Cardinality(Q) >= m
  BY <1>3, <1>9, FiniteNode DEF Check
<1>12. m * m <= m * Cardinality(Q)
  <2> DEFINE q == Cardinality(Q)
  <2> HIDE DEF m, q
  <2>1. m \in Nat /\ q \in Nat /\ q >= m
    BY <1>4, <1>11 DEF q
  <2>2. m * m <= m * q
    BY <2>1
  <2> QED
    BY <2>2 DEF q
<1>13. Cardinality(Up) \in Nat /\ m * Cardinality(Q) \in Nat /\ a * Cardinality(Up) \in Nat /\ m * m \in Nat
  <2>1. Cardinality(Up) \in Nat
    BY NodeFacts, FiniteNode
  <2> HIDE DEF m, a
  <2> QED
    BY <1>4, <1>11, <2>1, TimesNext
<1>14. m * m <= a * Cardinality(Up) + Cardinality(lost)
  <2> HIDE DEF m, a
  <2> QED
    BY <1>7, <1>10, <1>12, <1>13
<1> QED
  BY <1>14

LEMMA MoreLost ==
  ASSUME NEW s \in Nat, NEW t \in Nat, NEW c \in Nat, NEW l \in Nat, c <= l, s <= t + c
  PROVE  s <= t + l
OBVIOUS

LEMMA BlamedNext ==
  ASSUME ElectionTypeOK, ElectionTypeOK', Meetings, Informed, FullLists, Blamed,
         [ElectionNext]_electionVars
  PROVE  Blamed'
<1> DEFINE l == Cardinality(lost)
           k == Cardinality(lost')
<1>1. l \in Nat /\ k \in Nat /\ l <= k
  <2>1. Cardinality(lost') \in Nat
    <3>1. IsFiniteSet(Node \X Entry) /\ lost' \in SUBSET (Node \X Entry)
      BY EntriesFinite, FiniteNode, FS_Product DEF ElectionTypeOK, MembershipTypeOK
    <3> DEFINE B == lost'
    <3> HIDE DEF B
    <3>2. B \in SUBSET (Node \X Entry)
      BY <3>1 DEF B
    <3>3. Cardinality(B) \in Nat
      BY <3>1, <3>2, FS_Subset, FS_CardinalityType
    <3> QED
      BY <3>3 DEF B
  <2> QED
    BY <2>1, LostFinite, LostCounts
<1> DEFINE m == 2 * F(N) + 1
           a == 2 * F(N)
           u == Cardinality(Up)
           s == m * m
           t == a * u
<1>2. a \in Nat /\ m \in Nat /\ u \in Nat /\ a * u \in Nat /\ m * m \in Nat
  <2>1. a \in Nat /\ m \in Nat /\ u \in Nat
    BY NodeFacts, FiniteNode DEF F
  <2> HIDE DEF a, m, u
  <2> QED
    BY <2>1, TimesNext
<1>3. ASSUME UNCHANGED <<alive, failed>> PROVE Blamed'
  <2>1. (failed # {} => s <= t + l) /\ s \in Nat /\ t \in Nat
    BY <1>2 DEF Blamed
  <2> HIDE DEF s, t, l, k
  <2>2. failed' # {} => s <= t + k
    BY <1>1, <1>3, <2>1, MoreLost
  <2> QED
    BY <1>3, <2>2 DEF Blamed, s, t, k
<1>4. ASSUME NEW n \in Up, Elect(n), ~ UNCHANGED <<alive, failed>> PROVE Blamed'
  <2>1. PICK pk \in Lists(n) :
          LET lists == [InitLeaderMessages[n] EXCEPT ![pk.from] = pk.ids]
          IN  /\ EnoughLists(lists)
              /\ IF Candidates(lists) = {}
                 THEN failed' = failed \cup {n} /\ alive' = alive \ {n} /\ UNCHANGED View
                 ELSE UNCHANGED <<failed, alive>>
    BY <1>4 DEF Elect
  <2>2. /\ EnoughLists([InitLeaderMessages[n] EXCEPT ![pk.from] = pk.ids])
        /\ Candidates([InitLeaderMessages[n] EXCEPT ![pk.from] = pk.ids]) = {}
        /\ failed' = failed \cup {n} /\ alive' = alive \ {n}
    BY <1>4, <2>1
  <2>3. s <= t + l
    BY <2>2, NodeFacts, NobodyFound
  <2>4. s <= t + k
    <3>1. s \in Nat /\ t \in Nat
      BY <1>2
    <3> HIDE DEF s, t, l, k
    <3> QED
      BY <1>1, <2>3, <3>1, MoreLost
  <2>5. alive' = Up \ failed' /\ failed' \subseteq Up
    BY <2>2 DEF Blamed
  <2> QED
    BY <2>4, <2>5 DEF Blamed, s, t, k
<1>5. ASSUME \/ UNCHANGED electionVars
             \/ \E c \in Dials : Dial(c) /\ UNCHANGED startVars
             \/ \E n \in Up : \/ Handlers(n)
                              \/ AdoptView(n) \/ CountReply(n) \/ AnswerJoin(n)
                              \/ SendInitLeader(n) \/ CountList(n)
      PROVE  UNCHANGED <<alive, failed>>
  BY <1>5 DEF electionVars, memberVars, startVars, Dial, Handlers, HandleJoining, IgnoreReply, ReadMembers,
              StoreMember, AdoptView, CountReply, AnswerJoin, SendInitLeader, CountList
<1> QED
  BY <1>3, <1>4, <1>5 DEF ElectionNext, StartLoop

Accounted == Inductive /\ Tallied /\ Entered /\ FullLists /\ Blamed

LEMMA AccountedInvariant == ElectionSpec => []Accounted
<1>1. ElectionInit => Accounted
  BY TypeInit, MeetingsInit, InformedInit, TalliedInit, EnteredInit, FullListsInit, BlamedInit
     DEF Accounted, Inductive
<1>2. ASSUME Accounted, [ElectionNext]_electionVars PROVE Accounted'
  <2>1. Inductive'
    BY <1>2, TypeNext, MeetingsNext, InformedNext DEF Accounted, Inductive
  <2>2. Tallied' /\ Entered' /\ FullLists' /\ Blamed'
    BY <1>2, <2>1, TalliedNext, EnteredNext, FullNext, BlamedNext DEF Accounted, Inductive
  <2> QED
    BY <2>1, <2>2 DEF Accounted
<1> QED
  BY <1>1, <1>2, PTL DEF ElectionSpec

Bounded == Cardinality(lost) <= MaxLost

\* There are too few nodes, and too few entries for appends to drop, for the lists
\* of a quorum to name nobody often enough.
Enough ==
  (2 * F(N) + 1) * (2 * F(N) + 1) > (2 * F(N)) * Cardinality(Up) + MaxLost

\* GetLeaderNode finds a leader in whatever lists Start has gathered, and Start
\* does not end the process, in every network that is small enough, where MaxLost
\* bounds the entries that the appends of handlers drop from each other's Members,
\* of joins and of replies, before they were announced or after: with no more than
\* a quorum of nodes started, as long as fewer entries are dropped than a list has;
\* with four nodes started of four, if none is; with five of five it is no longer
\* sure.
THEOREM LeaderIsFound == Enough => (ElectionSpec => []NeverFailed)
<1> SUFFICES ASSUME Enough PROVE ElectionSpec => []NeverFailed
  OBVIOUS
<1>1. ElectionInit => Bounded
  BY MembershipAssumption, FS_EmptySet DEF Bounded, ElectionInit, MembershipInit
<1>2. ASSUME Bounded, [ElectionNext]_electionVars PROVE Bounded'
  <2>1. lost' = lost \/ Cardinality(lost') <= MaxLost
    BY <1>2 DEF ElectionNext, electionVars, memberVars, Dial, Handlers, HandleJoining, IgnoreReply,
                ReadMembers, StoreMember, StartLoop, AdoptView, CountReply, AnswerJoin,
                SendInitLeader, CountList, Elect
  <2> QED
    BY <1>2, <2>1 DEF Bounded
<1>3. ASSUME Accounted, Bounded PROVE NeverFailed
  <2> DEFINE m == 2 * F(N) + 1
             a == 2 * F(N)
             u == Cardinality(Up)
  <2>1. a \in Nat /\ m \in Nat /\ u \in Nat
    BY NodeFacts, FiniteNode DEF F
  <2>2. m * m > a * u + MaxLost
    BY DEF Enough
  <2>3. failed # {} => m * m <= a * u + Cardinality(lost)
    BY <1>3 DEF Accounted, Blamed
  <2> HIDE DEF m, a, u
  <2>4. a * u \in Nat /\ m * m \in Nat /\ Cardinality(lost) \in Nat /\ MaxLost \in Nat
    BY <1>3, <2>1, TimesNext, LostFinite, MembershipAssumption DEF Accounted, Inductive
  <2>5. failed = {}
    BY <1>3, <2>2, <2>3, <2>4 DEF Bounded
  <2> QED
    BY <2>5 DEF NeverFailed
<1> QED
  BY <1>1, <1>2, <1>3, AccountedInvariant, PTL DEF ElectionSpec

----------------------------------------------------------------------------
(* Nobody is left without a view.                                          *)

\* The Start loop of node n has dealt with the Join of node k.
Served(k, n) == Handled(k, n) /\ k \notin Elems(JoinChan[n])

\* A view is on its way to node n.
Promised(n) ==
  \/ \E pk \in packets : pk.type = "JoinReply" /\ pk.to = n /\ pk.from # n /\ pk.view # NoView
  \/ \E r \in Elems(JoinReplyChan[n]) : r.view # NoView

\* A list of node m is at node n, on its way to it, or about to be sent.
ListSent(m)  == \E pk \in packets : pk.type = "InitLeader" /\ pk.from = m
Told(m, n) ==
  \/ announcing[m] # NoIds
  \/ InitLeaderMessages[n][m] # NoIds
  \/ \E pk \in packets : pk.type = "InitLeader" /\ pk.to = n /\ pk.from = m
Listing(m) == announcing[m] # NoIds \/ ListSent(m) \/ \E n \in Node : InitLeaderMessages[n][m] # NoIds

Counted(m) == Check(N, Cardinality(JoinReplyMessages[m]) + Cardinality(JoinMessages[m]))

\* Node m has counted a quorum, and every node whose Join it dealt with has a view
\* or will have one, or it will have a list of m.
Committed(m) ==
  /\ m \in Up
  /\ View[m] # NoView \/ Counted(m)
  /\ \A n \in Up : View[n] = NoView /\ Served(n, m) => Promised(n) \/ Told(m, n)

\* No append has dropped an entry, and no node has ended.
Sound == lost = {} /\ failed = {}

\* Replies are sent, and lists that are sent have entries.
Sending ==
  /\ \A m, n \in Node : Handled(n, m) => Map[m][n] # {}
  /\ \A pk \in packets : pk.type = "InitLeader" => pk.ids # NoIds

\* Who has counted a quorum, or sent a list, is committed; so is a quorum, once
\* there is a view.
CountedCommitted == \A m \in Up : View[m] = NoView /\ Counted(m) => Committed(m)
ListingCommitted == \A m \in Node : Listing(m) => Committed(m)
ViewCommitted ==
  (\E n \in Node : View[n] # NoView \/ Promised(n)) =>
    \E Q \in SUBSET Up : IsQuorum(N, Q) /\ \A m \in Q : Committed(m)

\* A node without a view has not got the lists of a quorum, and counts whomever
\* it has dealt with.
StillFew == \A n \in Node : View[n] = NoView => ~ EnoughLists(InitLeaderMessages[n])
ServedCounted == \A m, n \in Node : View[m] = NoView /\ Served(n, m) => n \in JoinMessages[m]

Progress == CountedCommitted /\ ListingCommitted /\ ViewCommitted /\ StillFew /\ ServedCounted

LEMMA SendingInit == ElectionInit => Sending
<1> SUFFICES ASSUME ElectionInit, NEW m \in Node, NEW n \in Node, Handled(n, m) PROVE Map[m][n] # {}
  BY DEF Sending, ElectionInit, MembershipInit
<1>1. <<n, m>> \in Early
  BY DEF Handled, ElectionInit, MembershipInit
<1>2. Map[m][n] = {c \in Early : c \in {<<m, n>>, <<n, m>>}}
  BY DEF ElectionInit, MembershipInit
<1> QED
  BY <1>1, <1>2

LEMMA ProgressInit == ElectionInit => Progress
<1> SUFFICES ASSUME ElectionInit PROVE Progress
  OBVIOUS
<1>1. /\ dialled = Early /\ packets = {}
      /\ JoinReplyChan = [n \in Node |-> << >>]
      /\ View = [n \in Node |-> NoView]
      /\ JoinMessages = [n \in Node |-> {k \in Node : <<k, n>> \in Early}]
      /\ InitLeaderMessages = [n \in Node |-> [k \in Node |-> NoIds]]
      /\ JoinReplyMessages = [n \in Node |-> {k \in Node \ {n} : <<n, k>> \in Early}]
      /\ lost = {}
      /\ announcing = [n \in Node |->
           IF Check(N, Cardinality(JoinMessages[n]) + Cardinality(JoinReplyMessages[n]))
           THEN GetAllNodeIds(n) ELSE NoIds]
  BY DEF ElectionInit, MembershipInit
<1>2. ASSUME NEW m \in Node
      PROVE  /\ announcing[m] # NoIds => Counted(m)
             /\ Counted(m) => m \in Up /\ announcing[m] # NoIds
  <2>1. /\ JoinMessages[m] \in SUBSET Node /\ JoinReplyMessages[m] \in SUBSET Node
        /\ \A k \in JoinMessages[m] : Handled(k, m)
        /\ \A k \in JoinReplyMessages[m] : Answered(m, k) # {}
    BY TalliedInit DEF Tallied
  <2>2. /\ Cardinality(JoinMessages[m]) \in Nat /\ Cardinality(JoinReplyMessages[m]) \in Nat
    BY <2>1, FiniteNode
  <2>3. announcing[m] = IF Counted(m) THEN GetAllNodeIds(m) ELSE NoIds
    <3>1. Counted(m) <=> Check(N, Cardinality(JoinMessages[m]) + Cardinality(JoinReplyMessages[m]))
      BY <2>2 DEF Counted, Check
    <3> QED
      BY <1>1, <3>1
  <2>4. ASSUME Counted(m) PROVE m \in Up /\ announcing[m] # NoIds
    <3>1. Check(N, Cardinality(Weight(GetAllNodeIds(m))) + Cardinality(Dropped(m)))
      BY <2>1, <2>4, TypeInit, MeetingsInit, EnteredInit, NewListFull DEF Counted
    <3>2. announcing[m] # NoIds
      BY <1>1, <2>3, <2>4, <3>1, FullNotEmpty
    <3>3. JoinMessages[m] # {} \/ JoinReplyMessages[m] # {}
      <4>1. ~ Check(N, 0 + 0)
        BY NodeFacts DEF Check, F
      <4> QED
        BY <2>4, <4>1, FS_EmptySet DEF Counted
    <3>4. PICK k \in Node : <<k, m>> \in Early \/ <<m, k>> \in Early
      BY <1>1, <3>3
    <3>5. <<k, m>> \in Up \X Up \/ <<m, k>> \in Up \X Up
      BY <3>4, MembershipAssumption
    <3> QED
      BY <3>2, <3>5
  <2> QED
    BY <2>3, <2>4
<1>3. /\ CountedCommitted
      /\ ListingCommitted
  <2>1. \A m \in Node : Listing(m) => announcing[m] # NoIds
    BY <1>1 DEF Listing, ListSent
  <2>2. \A m \in Node : Counted(m) => Committed(m)
    BY <1>2 DEF Committed, Told
  <2> QED
    BY <1>2, <2>1, <2>2, NodeFacts DEF CountedCommitted, ListingCommitted
<1>4. \A n \in Node : View[n] = NoView /\ ~ Promised(n)
  <2>1. Elems(<< >>) = {}
    BY DEF Elems
  <2> QED
    BY <1>1, <2>1 DEF Promised
<1>5. StillFew
  <2>1. ASSUME NEW n \in Node PROVE ~ EnoughLists(InitLeaderMessages[n])
    <3>1. {k \in Node : InitLeaderMessages[n][k] # NoIds} = {}
      BY <1>1
    <3>2. ~ Check(N, 0)
      BY NodeFacts DEF Check, F
    <3> QED
      BY <3>1, <3>2, FS_EmptySet DEF EnoughLists
  <2> QED
    BY <2>1 DEF StillFew
<1>6. ServedCounted
  BY <1>1 DEF ServedCounted, Served, Handled
<1> QED
  BY <1>2, <1>3, <1>4, <1>5, <1>6 DEF Progress, ViewCommitted

\* Only a Join that is handled comes to be; it then leaves the packets.
LEMMA NewlyHandled ==
  ASSUME NEW k, NEW n, Handled(k, n)', ~ Handled(k, n),
         dialled' = dialled \/ \E c : dialled' = dialled \cup {c} /\ JoinMessage(c) \in packets'
  PROVE  JoinMessage(<<k, n>>) \in packets \ packets'
BY DEF Handled, Joins

LEMMA HandledQuiet ==
  ASSUME dialled' = dialled, \A pk : pk.type = "Join" => (pk \in packets' <=> pk \in packets)
  PROVE  \A k, n : Handled(k, n)' <=> Handled(k, n)
<1>1. \A c : JoinMessage(c) \in packets' <=> JoinMessage(c) \in packets
  BY DEF JoinMessage
<1> QED
  BY <1>1 DEF Handled, Joins

LEMMA SendingNext ==
  ASSUME ElectionTypeOK, Meetings, Sending, [ElectionNext]_electionVars
  PROVE  Sending'
<1> DEFINE Kept == \A m, n \in Node : Map[m][n] # {} => Map'[m][n] # {}
           Entering == \A m, n \in Node :
                         JoinMessage(<<n, m>>) \in packets \ packets' => Map'[m][n] # {}
           Lists1 == \A pk \in packets' : pk.type = "InitLeader" => pk \in packets
<1>1. ASSUME Kept, Entering, Lists1,
             dialled' = dialled \/ \E c : dialled' = dialled \cup {c} /\ JoinMessage(c) \in packets'
      PROVE  Sending'
  <2>1. ASSUME NEW m \in Node, NEW n \in Node, Handled(n, m)' PROVE Map'[m][n] # {}
    BY <1>1, <2>1, NewlyHandled DEF Sending
  <2> QED
    BY <1>1, <2>1 DEF Sending
<1>2. CASE UNCHANGED electionVars
  BY <1>1, <1>2 DEF electionVars, memberVars
<1>3. ASSUME NEW c \in Dials, Dial(c) PROVE Sending'
  BY <1>1, <1>3 DEF Dial, JoinMessage
<1>4. ASSUME NEW n \in Up, HandlesJoining(n) PROVE Sending'
  <2>1. PICK pk \in Joining(n) :
          /\ packets' = packets \ {pk} /\ dialled' = dialled
          /\ IF Ignored(pk) THEN UNCHANGED <<Seen, Map>>
             ELSE Map' = [Map EXCEPT ![n][pk.from] = {pk.conn}]
    BY <1>4 DEF HandlesJoining
  <2>2. n \in Node /\ Map \in [Node -> [Node -> SUBSET Connection]]
    BY NodeFacts DEF ElectionTypeOK, MembershipTypeOK
  <2>3. pk \in packets /\ pk.to = n /\ pk.from \in Node
    BY PacketFields DEF Joining, ElectionTypeOK
  <2>4. Map' = Map \/ Map' = [Map EXCEPT ![n][pk.from] = {pk.conn}]
    BY <2>1
  <2>5. Kept
    <3> SUFFICES ASSUME NEW m \in Node, NEW k \in Node
                 PROVE  Map[m][k] # {} => Map'[m][k] # {}
      OBVIOUS
    <3>1. CASE m = n /\ k = pk.from
      <4>1. CASE Map' = [Map EXCEPT ![n][pk.from] = {pk.conn}]
        <5>1. Map'[m][k] = {pk.conn}
          BY <2>2, <2>3, <3>1, <4>1
        <5> QED
          BY <5>1
      <4> QED
        BY <2>4, <4>1
    <3>2. CASE ~ (m = n /\ k = pk.from)
      BY <2>2, <2>3, <2>4, <3>2
    <3> QED
      BY <3>1, <3>2
  <2>6. ASSUME NEW m \in Node, NEW k \in Node, JoinMessage(<<k, m>>) \in packets \ packets'
        PROVE  Map'[m][k] # {}
    <3>1. pk = JoinMessage(<<k, m>>)
      BY <2>1, <2>6
    <3>2. pk.type = "Join" /\ pk.from = k /\ m = n
      BY <2>3, <3>1 DEF JoinMessage
    <3>3. Map' = [Map EXCEPT ![n][k] = {pk.conn}]
      BY <2>1, <3>2 DEF Ignored
    <3> QED
      BY <2>2, <3>2, <3>3
  <2> QED
    BY <1>1, <2>1, <2>5, <2>6
<1>5. CASE HandlesNothing
  BY <1>1, <1>5 DEF HandlesNothing
<1>6. ASSUME NEW n \in Up, StartLoop(n) PROVE Sending'
  <2>1. Map' = Map /\ \A k, m : Handled(k, m)' <=> Handled(k, m)
    BY <1>6, StartLoopJoins, HandledQuiet
  <2>2. ASSUME NEW pk \in packets', pk.type = "InitLeader"
        PROVE  pk \in packets \/ pk.ids # NoIds
    <3>1. CASE SendInitLeader(n)
      BY <2>2, <3>1 DEF SendInitLeader, InitLeaderMessage
    <3>2. CASE AnswerJoin(n)
      BY <2>2, <3>2 DEF AnswerJoin, JoinReplyMessage
    <3>3. CASE CountReply(n)
      BY <2>2, <3>3 DEF CountReply
    <3>4. CASE AdoptView(n) \/ CountList(n) \/ Elect(n)
      <4>1. packets' \subseteq packets
        BY <3>4 DEF AdoptView, CountList, Elect
      <4> QED
        BY <4>1
    <3> QED
      BY <1>6, <3>1, <3>2, <3>3, <3>4 DEF StartLoop
  <2> QED
    BY <2>1, <2>2 DEF Sending
<1> QED
  BY <1>2, <1>3, <1>4, <1>5, <1>6, HandlerSteps DEF ElectionNext, Handlers

\* A step keeps what was promised and what was counted, and answers whom it
\* serves: with a view, or with the list of a node that has counted a quorum.
KeepsViews == \A n \in Node : View[n] # NoView => View'[n] # NoView

KeepsCount ==
  \A m \in Node : View'[m] = NoView =>
    /\ JoinMessages[m] \subseteq JoinMessages'[m]
    /\ JoinReplyMessages[m] \subseteq JoinReplyMessages'[m]
    /\ Counted(m)' => Counted(m) \/ announcing'[m] # NoIds

KeepsWord ==
  \A n \in Node : View'[n] = NoView =>
    /\ Promised(n) => Promised(n)'
    /\ \A m \in Node : Handled(n, m) /\ Told(m, n) => Told(m, n)'

Serves ==
  \A m, n \in Node : Served(n, m)' /\ ~ Served(n, m) =>
    /\ View'[m] = NoView => n \in JoinMessages'[m] /\ (Counted(m)' => announcing'[m] # NoIds)
    /\ View'[m] # NoView /\ View'[n] = NoView => Promised(n)'

ListsCounted ==
  \A m \in Node : Listing(m)' =>
    Listing(m) \/ (m \in Up /\ View'[m] = NoView /\ Counted(m)')

\* A view comes from another one, or from the lists of a quorum.
ViewsSpread ==
  \A n \in Node :
    /\ View'[n] # NoView =>
         \/ \E m \in Node : View[m] # NoView \/ Promised(m)
         \/ \E lists : EnoughLists(lists) /\ \A m \in Node : lists[m] # NoIds => Listing(m)
    /\ Promised(n)' => \E m \in Node : View[m] # NoView \/ Promised(m)

FewLists ==
  \A n \in Node : View'[n] = NoView =>
    InitLeaderMessages'[n] = InitLeaderMessages[n] \/ ~ EnoughLists(InitLeaderMessages'[n])

Steady ==
  KeepsViews /\ KeepsCount /\ KeepsWord /\ Serves /\ ListsCounted /\ ViewsSpread /\ FewLists

LEMMA CountedStays ==
  ASSUME Tallied, Tallied', KeepsCount, NEW m \in Node, View'[m] = NoView, Counted(m)
  PROVE  Counted(m)'
<1> DEFINE A == JoinReplyMessages[m]
           B == JoinMessages[m]
           C == JoinReplyMessages'[m]
           D == JoinMessages'[m]
<1>1. A \subseteq C /\ B \subseteq D /\ C \in SUBSET Node /\ D \in SUBSET Node
  BY DEF KeepsCount, Tallied
<1>2. Check(N, Cardinality(A) + Cardinality(B))
  BY DEF Counted
<1> HIDE DEF A, B, C, D
<1>3. /\ IsFiniteSet(C) /\ IsFiniteSet(D) /\ Cardinality(C) \in Nat /\ Cardinality(D) \in Nat
      /\ Cardinality(A) \in Nat /\ Cardinality(B) \in Nat
  BY <1>1, FiniteNode
<1>4. Cardinality(A) <= Cardinality(C) /\ Cardinality(B) <= Cardinality(D)
  BY <1>1, <1>3, FS_Subset
<1>5. Check(N, Cardinality(C) + Cardinality(D))
  <2>1. F(N) \in Int
    BY NodeFacts DEF F
  <2>2. Cardinality(A) + Cardinality(B) >= 2 * F(N) + 1
    BY <1>2 DEF Check
  <2>3. Cardinality(C) + Cardinality(D) >= 2 * F(N) + 1
    BY <1>3, <1>4, <2>1, <2>2
  <2> QED
    BY <2>3 DEF Check
<1>6. Check(N, Cardinality(JoinReplyMessages'[m]) + Cardinality(JoinMessages'[m]))
  BY <1>5 DEF C, D
<1> QED
  BY <1>6 DEF Counted, Check, F

LEMMA CommittedStays ==
  ASSUME Tallied, Tallied', KeepsViews, KeepsCount, KeepsWord, Serves, NEW m \in Node, Committed(m)
  PROVE  Committed(m)'
<1>1. m \in Up /\ (View[m] # NoView \/ Counted(m))
  BY DEF Committed
<1>2. View'[m] # NoView \/ Counted(m)'
  BY <1>1, CountedStays DEF KeepsViews
<1>3. ASSUME NEW n \in Up, View'[n] = NoView, Served(n, m)' PROVE Promised(n)' \/ Told(m, n)'
  <2>1. n \in Node /\ View[n] = NoView
    BY <1>3, NodeFacts DEF KeepsViews
  <2>2. CASE Served(n, m)
    <3>1. (Promised(n) \/ Told(m, n)) /\ Handled(n, m)
      BY <2>1, <2>2 DEF Committed, Served
    <3> QED
      BY <1>3, <2>1, <3>1 DEF KeepsWord
  <2>3. CASE ~ Served(n, m) /\ View'[m] # NoView
    BY <1>3, <2>1, <2>3 DEF Serves
  <2>4. CASE ~ Served(n, m) /\ View'[m] = NoView
    <3>1. announcing'[m] # NoIds
      BY <1>2, <1>3, <2>1, <2>4 DEF Serves
    <3> QED
      BY <3>1 DEF Told, NoIds
  <2> QED
    BY <2>2, <2>3, <2>4
<1> QED
  BY <1>1, <1>2, <1>3 DEF Committed

LEMMA SteadyProgress ==
  ASSUME Tallied, Tallied', Progress, Steady
  PROVE  Progress'
<1>1. ASSUME NEW m \in Node, Committed(m) PROVE Committed(m)'
  BY <1>1, CommittedStays DEF Steady
<1>2. ASSUME NEW m \in Up, View'[m] = NoView, Counted(m)' PROVE Committed(m)'
  <2>1. m \in Node /\ View[m] = NoView
    BY <1>2, NodeFacts DEF Steady, KeepsViews
  <2>2. CASE Counted(m)
    BY <1>1, <2>1, <2>2 DEF Progress, CountedCommitted
  <2>3. CASE announcing'[m] # NoIds
    <3>1. \A n : Told(m, n)'
      BY <2>3 DEF Told, NoIds
    <3> QED
      BY <1>2, <3>1 DEF Committed
  <2> QED
    BY <1>2, <2>1, <2>2, <2>3 DEF Steady, KeepsCount
<1>3. ASSUME NEW m \in Node, Listing(m)' PROVE Committed(m)'
  BY <1>1, <1>2, <1>3 DEF Progress, ListingCommitted, Steady, ListsCounted
<1>4. ASSUME NEW n \in Node, View'[n] # NoView \/ Promised(n)'
      PROVE  \E Q \in SUBSET Up : IsQuorum(N, Q) /\ \A m \in Q : Committed(m)'
  <2>1. CASE \E m \in Node : View[m] # NoView \/ Promised(m)
    <3>1. PICK Q \in SUBSET Up : IsQuorum(N, Q) /\ \A m \in Q : Committed(m)
      BY <2>1 DEF Progress, ViewCommitted
    <3>2. \A m \in Q : Committed(m)'
      BY <1>1, <3>1, NodeFacts
    <3> QED
      BY <3>1, <3>2
  <2>2. CASE \E lists : EnoughLists(lists) /\ \A m \in Node : lists[m] # NoIds => Listing(m)
    <3>1. PICK lists : EnoughLists(lists) /\ \A m \in Node : lists[m] # NoIds => Listing(m)
      BY <2>2
    <3> DEFINE Q == {k \in Node : lists[k] # NoIds}
    <3>2. IsQuorum(N, Q)
      BY <3>1 DEF EnoughLists, IsQuorum
    <3>3. \A m \in Q : Committed(m) /\ Committed(m)' /\ m \in Up
      BY <1>1, <3>1 DEF Progress, ListingCommitted, Committed
    <3>4. Q \in SUBSET Up
      BY <3>3
    <3> QED
      BY <3>2, <3>3, <3>4
  <2> QED
    BY <1>4, <2>1, <2>2 DEF Steady, ViewsSpread
<1>5. ASSUME NEW n \in Node, View'[n] = NoView PROVE ~ EnoughLists(InitLeaderMessages'[n])
  BY <1>5 DEF Progress, StillFew, Steady, FewLists, KeepsViews
<1>6. ASSUME NEW m \in Node, NEW n \in Node, View'[m] = NoView, Served(n, m)'
      PROVE  n \in JoinMessages'[m]
  <2>1. View[m] = NoView
    BY <1>6 DEF Steady, KeepsViews
  <2>2. CASE Served(n, m)
    BY <1>6, <2>1, <2>2 DEF Progress, ServedCounted, Steady, KeepsCount
  <2>3. CASE ~ Served(n, m)
    BY <1>6, <2>3 DEF Steady, Serves
  <2> QED
    BY <2>2, <2>3
<1>7. CountedCommitted'
  BY <1>2 DEF CountedCommitted
<1>8. ListingCommitted'
  BY <1>3 DEF ListingCommitted
<1>9. ViewCommitted'
  <2>1. \A Q : IsQuorum(N, Q)' <=> IsQuorum(N, Q)
    BY DEF IsQuorum, Check, F
  <2> QED
    BY <1>4, <2>1 DEF ViewCommitted
<1>10. StillFew'
  BY <1>5 DEF StillFew, EnoughLists, NoIds, Check, F
<1>11. ServedCounted'
  BY <1>6 DEF ServedCounted
<1> QED
  BY <1>7, <1>8, <1>9, <1>10, <1>11 DEF Progress

\* A step is steady that only brings messages closer to the Start loops.
LEMMA QuietSteady ==
  ASSUME UNCHANGED startVars,
         \A k, n \in Node : Served(k, n)' => Served(k, n),
         \A pk : pk.type = "InitLeader" => (pk \in packets' <=> pk \in packets),
         \A n \in Node : Promised(n)' <=> Promised(n)
  PROVE  Steady
<1>1. /\ View' = View /\ JoinMessages' = JoinMessages /\ JoinReplyMessages' = JoinReplyMessages
      /\ InitLeaderMessages' = InitLeaderMessages /\ announcing' = announcing
  BY DEF startVars
<1>2. KeepsViews /\ FewLists
  BY <1>1 DEF KeepsViews, FewLists
<1>3. KeepsCount
  BY <1>1 DEF KeepsCount, Counted
<1>4. KeepsWord
  BY <1>1 DEF KeepsWord, Told
<1>5. Serves
  BY DEF Serves
<1>6. ListsCounted
  BY <1>1 DEF ListsCounted, Listing, ListSent
<1>7. ViewsSpread
  BY <1>1 DEF ViewsSpread
<1> QED
  BY <1>2, <1>3, <1>4, <1>5, <1>6, <1>7 DEF Steady

LEMMA DialSteady ==
  ASSUME NEW c \in Dials, Dial(c), UNCHANGED startVars
  PROVE  Steady
<1>1. /\ dialled' = dialled \cup {c} /\ packets' = packets \cup {JoinMessage(c)}
      /\ JoinChan' = JoinChan /\ JoinReplyChan' = JoinReplyChan
  BY DEF Dial
<1>2. \A k, n : Served(k, n)' => Served(k, n)
  BY <1>1 DEF Served, Handled, Joins, Elems
<1>3. JoinMessage(c).type = "Join"
  BY DEF JoinMessage
<1>4. \A pk : pk.type # "Join" => (pk \in packets' <=> pk \in packets)
  BY <1>1, <1>3
<1>5. \A n : Promised(n)' <=> Promised(n)
  BY <1>1, <1>4 DEF Promised, Elems
<1> QED
  BY <1>2, <1>4, <1>5, QuietSteady

\* A reply is on its way until the Start loop takes it.
LEMMA HandleJoiningSteady ==
  ASSUME ElectionTypeOK, NEW n \in Up, HandlesJoining(n), UNCHANGED startVars
  PROVE  Steady
<1>1. PICK pk \in Joining(n) :
        /\ packets' = packets \ {pk} /\ dialled' = dialled
        /\ JoinChan' = [JoinChan EXCEPT ![n] = IF pk.type = "Join" THEN Append(@, pk.from) ELSE @]
        /\ JoinReplyChan' = [JoinReplyChan EXCEPT ![n] =
             IF pk.type = "JoinReply" /\ ~ Ignored(pk)
             THEN Append(@, [from |-> pk.from, view |-> pk.view]) ELSE @]
  BY DEF HandlesJoining
<1>2. /\ n \in Node /\ JoinChan \in [Node -> Seq(Node)]
      /\ JoinReplyChan \in [Node -> Seq([from : Node, view : Node \cup {NoView}])]
  BY NodeFacts DEF ElectionTypeOK, MembershipTypeOK
<1>3. pk \in packets /\ pk.to = n /\ pk.from \in Node /\ pk.type \in {"Join", "JoinReply"}
  BY PacketFields DEF Joining, ElectionTypeOK
<1>4. ASSUME NEW k \in Node, NEW m \in Node, Served(k, m)' PROVE Served(k, m)
  <2>1. Handled(k, m)' /\ k \notin Elems(JoinChan'[m])
    BY <1>4 DEF Served, Elems
  <2>2. CASE m = n /\ pk.type = "Join"
    <3>1. JoinChan'[m] = Append(JoinChan[n], pk.from) /\ JoinChan[n] \in Seq(Node)
      BY <1>1, <1>2, <2>2
    <3>2. Elems(JoinChan'[m]) = Elems(JoinChan[m]) \cup {pk.from}
      BY <1>3, <2>2, <3>1, ElemsAppend
    <3>3. JoinMessage(<<k, m>>) # pk
      BY <2>1, <3>2 DEF JoinMessage
    <3> QED
      BY <1>1, <2>1, <3>2, <3>3 DEF Served, Handled, Joins
  <2>3. CASE ~ (m = n /\ pk.type = "Join")
    <3>1. JoinChan'[m] = JoinChan[m]
      BY <1>1, <1>2, <2>3
    <3>2. JoinMessage(<<k, m>>) # pk
      BY <1>3, <2>3 DEF JoinMessage
    <3> QED
      BY <1>1, <2>1, <3>1, <3>2 DEF Served, Handled, Joins
  <2> QED
    BY <2>2, <2>3
<1>5. ASSUME NEW m \in Node PROVE Promised(m)' <=> Promised(m)
  <2> DEFINE x == [from |-> pk.from, view |-> pk.view]
             S == [from : Node, view : Node \cup {NoView}]
             Taken == m = n /\ pk.type = "JoinReply" /\ ~ Ignored(pk)
  <2>1. Promised(m)' <=>
          \/ \E q \in packets' : q.type = "JoinReply" /\ q.to = m /\ q.from # m /\ q.view # NoView
          \/ \E r \in Elems(JoinReplyChan'[m]) : r.view # NoView
    BY DEF Promised, Elems
  <2>2. CASE Taken
    <3>1. x \in S /\ JoinReplyChan[n] \in Seq(S) /\ x.view = pk.view
      <4>1. pk \in ReplyPacket
        BY <1>3, <2>2, PacketFields DEF ElectionTypeOK
      <4> QED
        BY <1>2, <4>1 DEF ReplyPacket
    <3>2. JoinReplyChan'[m] = Append(JoinReplyChan[n], x)
      BY <1>1, <1>2, <2>2
    <3> HIDE DEF x, S
    <3>3. Elems(JoinReplyChan'[m]) = Elems(JoinReplyChan[m]) \cup {x}
      BY <2>2, <3>1, <3>2, ElemsAppend
    <3>4. pk.type = "JoinReply" /\ pk.to = m /\ pk.from # m
      BY <1>3, <2>2 DEF Ignored
    <3> QED
      BY <1>1, <1>3, <2>1, <3>1, <3>3, <3>4 DEF Promised
  <2>3. CASE ~ Taken
    <3>1. JoinReplyChan'[m] = JoinReplyChan[m]
      BY <1>1, <1>2, <2>3
    <3>2. ~ (pk.type = "JoinReply" /\ pk.to = m /\ pk.from # m)
      BY <1>3, <2>3 DEF Ignored
    <3> QED
      BY <1>1, <2>1, <3>1, <3>2 DEF Promised
  <2> QED
    BY <2>2, <2>3
<1>6. \A q : q.type = "InitLeader" => (q \in packets' <=> q \in packets)
  BY <1>1, <1>3
<1> QED
  BY <1>4, <1>5, <1>6, QuietSteady

\* The Start loop serves a node by answering its Join, and in no other way.
LEMMA LoopServes ==
  ASSUME NEW n \in Up, StartLoop(n)
  PROVE  /\ \A k, m : Handled(k, m)' <=> Handled(k, m)
         /\ JoinChan' = JoinChan => \A k, m : Served(k, m)' => Served(k, m)
<1>1. \A k, m : Handled(k, m)' <=> Handled(k, m)
  BY StartLoopJoins, HandledQuiet
<1> QED
  BY <1>1 DEF Served, Elems

LEMMA AdoptViewSteady ==
  ASSUME ElectionTypeOK, Tallied, NEW n \in Up, AdoptView(n)
  PROVE  Steady
<1> DEFINE h == Head(JoinReplyChan[n])
<1>1. /\ n \in Node /\ JoinReplyChan[n] # << >> /\ h.view # NoView
      /\ View' = [View EXCEPT ![n] = h.view] /\ packets' = packets \ Lists(n)
      /\ JoinReplyChan' = [JoinReplyChan EXCEPT ![n] = Tail(@)]
      /\ JoinMessages' = [JoinMessages EXCEPT ![n] = {}]
      /\ JoinReplyMessages' = [JoinReplyMessages EXCEPT ![n] = {}]
      /\ InitLeaderMessages' = [InitLeaderMessages EXCEPT ![n] = [k \in Node |-> NoIds]]
      /\ announcing' = announcing /\ JoinChan' = JoinChan
  BY NodeFacts DEF AdoptView, Leave
<1>2. h \in Elems(JoinReplyChan[n]) /\ \A m \in Node \ {n} : JoinReplyChan'[m] = JoinReplyChan[m]
  BY <1>1, RepliesTaken
<1>3. Promised(n)
  BY <1>1, <1>2 DEF Promised
<1> HIDE DEF h
<1>4. /\ View'[n] # NoView
      /\ \A m \in Node \ {n} : /\ View'[m] = View[m] /\ JoinMessages'[m] = JoinMessages[m]
                               /\ JoinReplyMessages'[m] = JoinReplyMessages[m]
                               /\ InitLeaderMessages'[m] = InitLeaderMessages[m]
  BY <1>1 DEF ElectionTypeOK, StartTypeOK, Tallied
<1>5. \A pk : pk.type # "InitLeader" \/ pk.to # n => (pk \in packets' <=> pk \in packets)
  BY <1>1 DEF Lists
<1>6. KeepsViews /\ FewLists
  BY <1>4 DEF KeepsViews, FewLists
<1>7. KeepsCount
  BY <1>4 DEF KeepsCount, Counted
<1>8. KeepsWord
  <2> SUFFICES ASSUME NEW k \in Node, View'[k] = NoView
               PROVE  /\ Promised(k) => Promised(k)'
                      /\ \A m \in Node : Told(m, k) => Told(m, k)'
    BY DEF KeepsWord
  <2>1. k # n
    BY <1>4
  <2>2. Promised(k) => Promised(k)'
    BY <1>2, <1>5, <2>1 DEF Promised, Elems
  <2>3. ASSUME NEW m \in Node, Told(m, k) PROVE Told(m, k)'
    BY <1>1, <1>4, <1>5, <2>1, <2>3 DEF Told, NoIds
  <2> QED
    BY <2>2, <2>3
<1>9. Serves
  BY <1>1, LoopServes DEF Serves, StartLoop
<1>10. ListsCounted
  <2>1. \A k, m \in Node : InitLeaderMessages'[k][m] \in {InitLeaderMessages[k][m], NoIds}
    BY <1>1, <1>4 DEF ElectionTypeOK, StartTypeOK
  <2> QED
    BY <1>1, <2>1 DEF ListsCounted, Listing, ListSent, NoIds
<1>11. ViewsSpread
  BY <1>1, <1>3 DEF ViewsSpread
<1> QED
  BY <1>6, <1>7, <1>8, <1>9, <1>10, <1>11 DEF Steady

\* A node that counts a quorum when it has handled a message, announces a list
\* that has entries.
LEMMA QuorumAnnounced ==
  ASSUME ElectionTypeOK, Meetings, Tallied, Entered, lost = {}, NEW n \in Up, Idle(n),
         CountReply(n) \/ AnswerJoin(n)
  PROVE  /\ \A m \in Node \ {n} : announcing'[m] = announcing[m]
         /\ announcing[n] = NoIds
         /\ announcing'[n] # NoIds <=> View[n] = NoView /\ Counted(n)'
<1>1. n \in Node /\ announcing[n] = NoIds
  BY NodeFacts DEF Idle
<1>2. PICK now \in BOOLEAN :
        /\ Announce(n, now)
        /\ now <=> View[n] = NoView /\
             Check(N, Cardinality(JoinReplyMessages'[n]) + Cardinality(JoinMessages'[n]))
        /\ JoinMessages'[n] \in SUBSET Node /\ \A k \in JoinMessages'[n] : Handled(k, n)
        /\ JoinReplyMessages'[n] \in SUBSET Node
        /\ \A k \in JoinReplyMessages'[n] : Answered(n, k) # {}
  BY Counts
<1>3. /\ \A k \in Node : k # n \/ ~ now => announcing'[k] = announcing[k]
      /\ now => Check(N, Cardinality(Weight(announcing'[n])) + Cardinality(Dropped(n)))
  BY <1>1, <1>2, Announced
<1>4. now <=> View[n] = NoView /\ Counted(n)'
  BY <1>2 DEF Counted
<1>5. now => announcing'[n] # NoIds
  BY <1>3, FullNotEmpty
<1> QED
  BY <1>1, <1>3, <1>4, <1>5

LEMMA CountReplySteady ==
  ASSUME ElectionTypeOK, Meetings, Tallied, Entered, lost = {}, NEW n \in Up, CountReply(n)
  PROVE  Steady
<1> DEFINE h == Head(JoinReplyChan[n])
<1>1. /\ n \in Node /\ JoinReplyChan[n] # << >> /\ Idle(n)
      /\ View[n] # NoView \/ h.view = NoView
      /\ JoinReplyMessages' = [JoinReplyMessages EXCEPT ![n] =
           IF View[n] = NoView THEN @ \cup {h.from} ELSE @]
      /\ JoinReplyChan' = [JoinReplyChan EXCEPT ![n] = Tail(@)]
      /\ View' = View /\ packets' = packets /\ JoinMessages' = JoinMessages
      /\ InitLeaderMessages' = InitLeaderMessages /\ JoinChan' = JoinChan
  BY NodeFacts DEF CountReply
<1>2. /\ Elems(JoinReplyChan[n]) = Elems(JoinReplyChan'[n]) \cup {h}
      /\ \A m \in Node \ {n} : JoinReplyChan'[m] = JoinReplyChan[m]
      /\ \A m \in Node : Elems(JoinReplyChan'[m]) \subseteq Elems(JoinReplyChan[m])
  BY <1>1, RepliesTaken
<1> HIDE DEF h
<1>3. /\ \A m \in Node \ {n} : announcing'[m] = announcing[m]
      /\ announcing[n] = NoIds
      /\ announcing'[n] # NoIds <=> View[n] = NoView /\ Counted(n)'
  BY <1>1, QuorumAnnounced
<1>4. /\ \A m \in Node : JoinReplyMessages[m] \subseteq JoinReplyMessages'[m]
      /\ \A m \in Node \ {n} : JoinReplyMessages'[m] = JoinReplyMessages[m]
  BY <1>1 DEF Tallied
<1>5. KeepsViews /\ FewLists
  BY <1>1 DEF KeepsViews, FewLists
<1>6. KeepsCount
  BY <1>1, <1>3, <1>4 DEF KeepsCount, Counted
<1>7. \A m \in Node : Promised(m)' <=>
        \/ \E pk \in packets : pk.type = "JoinReply" /\ pk.to = m /\ pk.from # m /\ pk.view # NoView
        \/ \E r \in Elems(JoinReplyChan'[m]) : r.view # NoView
  BY <1>1 DEF Promised, Elems
<1>8. KeepsWord
  <2> SUFFICES ASSUME NEW k \in Node, View'[k] = NoView
               PROVE  /\ Promised(k) => Promised(k)'
                      /\ \A m \in Node : Told(m, k) => Told(m, k)'
    BY DEF KeepsWord
  <2>1. Promised(k) => Promised(k)'
    BY <1>1, <1>2, <1>7 DEF Promised
  <2>2. ASSUME NEW m \in Node, Told(m, k) PROVE Told(m, k)'
    BY <1>1, <1>3, <2>2 DEF Told, NoIds
  <2> QED
    BY <2>1, <2>2
<1>9. Serves
  BY <1>1, LoopServes DEF Serves, StartLoop
<1>10. ListsCounted
  <2> SUFFICES ASSUME NEW m \in Node, Listing(m)', ~ Listing(m)
               PROVE  m \in Up /\ View'[m] = NoView /\ Counted(m)'
    BY DEF ListsCounted
  <2>1. announcing'[m] # NoIds /\ announcing[m] = NoIds
    BY <1>1 DEF Listing, ListSent, NoIds
  <2> QED
    BY <1>1, <1>3, <2>1
<1>11. ViewsSpread
  BY <1>1, <1>2, <1>7 DEF ViewsSpread, Promised
<1> QED
  BY <1>5, <1>6, <1>8, <1>9, <1>10, <1>11 DEF Steady

\* A node that has a view passes it on with its answer.
LEMMA AnswerJoinSteady ==
  ASSUME ElectionTypeOK, Meetings, Tallied, Entered, Sending, lost = {}, NEW n \in Up, AnswerJoin(n)
  PROVE  Steady
<1> DEFINE h == Head(JoinChan[n])
<1>1. /\ n \in Node /\ JoinChan[n] # << >> /\ Idle(n)
      /\ packets' = packets \cup {JoinReplyMessage(c, n, h, View[n]) : c \in Map[n][h]}
      /\ JoinMessages' = [JoinMessages EXCEPT ![n] = IF View[n] = NoView THEN @ \cup {h} ELSE @]
      /\ JoinChan' = [JoinChan EXCEPT ![n] = Tail(@)]
      /\ View' = View /\ JoinReplyMessages' = JoinReplyMessages
      /\ InitLeaderMessages' = InitLeaderMessages /\ JoinReplyChan' = JoinReplyChan
  BY NodeFacts DEF AnswerJoin
<1>2. h \in Node /\ Handled(h, n)
  BY <1>1, HeadQueued, QueuedHandled
<1>3. Elems(JoinChan[n]) = Elems(JoinChan'[n]) \cup {h} /\ \A m \in Node \ {n} : JoinChan'[m] = JoinChan[m]
  <2>1. JoinChan \in [Node -> Seq(Node)]
    BY DEF ElectionTypeOK, MembershipTypeOK
  <2>2. JoinChan[n] \in Seq(Node) /\ JoinChan'[n] = Tail(JoinChan[n])
    BY <1>1, <2>1
  <2> QED
    BY <1>1, <2>1, <2>2, ElemsTail
<1> HIDE DEF h
<1>4. PICK k \in Node : k = h
  BY <1>2
<1>5. /\ \A m \in Node \ {n} : announcing'[m] = announcing[m]
      /\ announcing[n] = NoIds
      /\ announcing'[n] # NoIds <=> View[n] = NoView /\ Counted(n)'
  BY <1>1, QuorumAnnounced
<1>6. /\ \A m \in Node : JoinMessages[m] \subseteq JoinMessages'[m]
      /\ \A m \in Node \ {n} : JoinMessages'[m] = JoinMessages[m]
      /\ View[n] = NoView => k \in JoinMessages'[n]
  BY <1>1, <1>4 DEF Tallied
<1>7. /\ packets \subseteq packets'
      /\ \A q \in packets' : q \in packets \/ (q.type = "JoinReply" /\ q.view = View[n])
      /\ \A c \in Map[n][k] : JoinReplyMessage(c, n, k, View[n]) \in packets'
  BY <1>1, <1>4 DEF JoinReplyMessage
<1>8. KeepsViews /\ FewLists
  BY <1>1 DEF KeepsViews, FewLists
<1>9. KeepsCount
  BY <1>1, <1>5, <1>6 DEF KeepsCount, Counted
<1>10. KeepsWord
  <2> SUFFICES ASSUME NEW j \in Node
               PROVE  /\ Promised(j) => Promised(j)'
                      /\ \A m \in Node : Told(m, j) => Told(m, j)'
    BY DEF KeepsWord
  <2>1. Promised(j) => Promised(j)'
    BY <1>1, <1>7 DEF Promised, Elems
  <2>2. ASSUME NEW m \in Node, Told(m, j) PROVE Told(m, j)'
    BY <1>1, <1>5, <1>7, <2>2 DEF Told, NoIds
  <2> QED
    BY <2>1, <2>2
<1>11. Serves
  <2> SUFFICES ASSUME NEW m \in Node, NEW j \in Node, Served(j, m)', ~ Served(j, m)
               PROVE  /\ View'[m] = NoView =>
                           j \in JoinMessages'[m] /\ (Counted(m)' => announcing'[m] # NoIds)
                      /\ View'[m] # NoView /\ View'[j] = NoView => Promised(j)'
    BY DEF Serves
  <2>1. Handled(j, m) /\ j \in Elems(JoinChan[m]) /\ j \notin Elems(JoinChan'[m])
    BY LoopServes DEF Served, Elems, StartLoop
  <2>2. m = n /\ j = k
    BY <1>3, <1>4, <2>1
  <2>3. ASSUME View[n] # NoView, View[k] = NoView PROVE Promised(k)'
    <3>1. PICK c : c \in Map[n][k]
      BY <1>1, <1>2, <1>4 DEF Sending
    <3> DEFINE q == JoinReplyMessage(c, n, k, View[n])
    <3>2. q \in packets' /\ q.type = "JoinReply" /\ q.to = k /\ q.from = n /\ q.view = View[n]
      BY <1>7, <3>1 DEF JoinReplyMessage
    <3> HIDE DEF q
    <3> QED
      BY <2>3, <3>2 DEF Promised, NoView
  <2> QED
    BY <1>1, <1>5, <1>6, <2>2, <2>3
<1>12. ListsCounted
  <2> SUFFICES ASSUME NEW m \in Node, Listing(m)', ~ Listing(m)
               PROVE  m \in Up /\ View'[m] = NoView /\ Counted(m)'
    BY DEF ListsCounted
  <2>1. announcing'[m] # NoIds /\ announcing[m] = NoIds
    BY <1>1, <1>7 DEF Listing, ListSent, NoIds
  <2> QED
    BY <1>1, <1>5, <2>1
<1>13. ViewsSpread
  <2> SUFFICES ASSUME NEW j \in Node, Promised(j)' PROVE \E m \in Node : View[m] # NoView \/ Promised(m)
    BY <1>1 DEF ViewsSpread
  <2> QED
    BY <1>1, <1>7 DEF Promised, Elems, NoView
<1> QED
  BY <1>8, <1>9, <1>10, <1>11, <1>12, <1>13 DEF Steady

\* The list goes to every node whose Join was handled, unless it has a view.
LEMMA SendInitLeaderSteady ==
  ASSUME ElectionTypeOK, Meetings, Entered, lost = {}, NEW n \in Up, SendInitLeader(n)
  PROVE  Steady
<1>1. /\ n \in Node /\ announcing[n] # NoIds
      /\ packets' = packets \cup {InitLeaderMessage(n, k, announcing[n]) : k \in Listeners(n)}
      /\ announcing' = [announcing EXCEPT ![n] = NoIds]
      /\ View' = View /\ JoinMessages' = JoinMessages /\ JoinReplyMessages' = JoinReplyMessages
      /\ InitLeaderMessages' = InitLeaderMessages
      /\ JoinChan' = JoinChan /\ JoinReplyChan' = JoinReplyChan
  BY NodeFacts DEF SendInitLeader
<1>2. /\ packets \subseteq packets'
      /\ \A q \in packets' : q \in packets \/ (q.type = "InitLeader" /\ q.from = n)
      /\ \A k \in Listeners(n) : \E q \in packets' : q.type = "InitLeader" /\ q.to = k /\ q.from = n
  <2>1. \A k : LET q == InitLeaderMessage(n, k, announcing[n])
               IN  q.type = "InitLeader" /\ q.to = k /\ q.from = n
    BY DEF InitLeaderMessage
  <2>2. \A k \in Listeners(n) : InitLeaderMessage(n, k, announcing[n]) \in packets'
    BY <1>1
  <2>3. \A q \in packets' : q \in packets \/ \E k \in Listeners(n) : q = InitLeaderMessage(n, k, announcing[n])
    BY <1>1
  <2> QED
    BY <1>1, <2>1, <2>2, <2>3
<1>3. \A m \in Node : announcing'[m] = IF m = n THEN NoIds ELSE announcing[m]
  BY <1>1 DEF ElectionTypeOK, StartTypeOK
<1>4. KeepsViews /\ FewLists
  BY <1>1 DEF KeepsViews, FewLists
<1>5. KeepsCount
  BY <1>1 DEF KeepsCount, Counted
<1>6. \A m : Promised(m)' <=> Promised(m)
  BY <1>1, <1>2 DEF Promised, Elems
<1>7. KeepsWord
  <2> SUFFICES ASSUME NEW k \in Node, View[k] = NoView, NEW m \in Node, Handled(k, m), Told(m, k)
               PROVE  Told(m, k)'
    BY <1>1, <1>6 DEF KeepsWord
  <2>1. CASE m = n
    <3>1. \E e \in Seen[n] : e.by = "Join" /\ e.node = k
      BY <1>1, <2>1 DEF Entered, Joined
    <3>2. k \in Listeners(n)
      BY <1>1, <3>1, SeenEntries DEF ElectionTypeOK, Listeners
    <3> QED
      BY <1>2, <2>1, <3>2 DEF Told
  <2>2. CASE m # n
    BY <1>1, <1>2, <1>3, <2>2 DEF Told, NoIds
  <2> QED
    BY <2>1, <2>2
<1>8. Serves
  BY <1>1, LoopServes DEF Serves, StartLoop
<1>9. ListsCounted
  <2> SUFFICES ASSUME NEW m \in Node, Listing(m)' PROVE Listing(m)
    BY DEF ListsCounted
  <2>1. \/ announcing'[m] # NoIds
        \/ \E pk \in packets' : pk.type = "InitLeader" /\ pk.from = m
        \/ \E k \in Node : InitLeaderMessages[k][m] # NoIds
    BY <1>1 DEF Listing, ListSent, NoIds
  <2> QED
    BY <1>1, <1>2, <1>3, <2>1 DEF Listing, ListSent
<1>10. ViewsSpread
  BY <1>1, <1>6 DEF ViewsSpread
<1> QED
  BY <1>4, <1>5, <1>7, <1>8, <1>9, <1>10 DEF Steady

\* A list that was on its way is kept instead.
LEMMA CountListSteady ==
  ASSUME ElectionTypeOK, Sending, NEW n \in Up, CountList(n)
  PROVE  Steady
<1>1. PICK pk \in Lists(n) :
        /\ ~ EnoughLists([InitLeaderMessages[n] EXCEPT ![pk.from] = pk.ids])
        /\ packets' = packets \ {pk}
        /\ InitLeaderMessages' = [InitLeaderMessages EXCEPT ![n] =
             [InitLeaderMessages[n] EXCEPT ![pk.from] = pk.ids]]
  BY DEF CountList
<1>2. /\ n \in Node
      /\ View' = View /\ JoinMessages' = JoinMessages /\ JoinReplyMessages' = JoinReplyMessages
      /\ announcing' = announcing /\ JoinChan' = JoinChan /\ JoinReplyChan' = JoinReplyChan
  BY NodeFacts DEF CountList
<1>3. pk \in packets /\ pk.to = n /\ pk.type = "InitLeader" /\ pk.ids # NoIds /\ pk.from \in Node
  BY PacketFields DEF Lists, Sending, ElectionTypeOK
<1>4. \A k, m \in Node : InitLeaderMessages'[k][m] =
        IF k = n /\ m = pk.from THEN pk.ids ELSE InitLeaderMessages[k][m]
  BY <1>1, <1>2, <1>3 DEF ElectionTypeOK, StartTypeOK
<1>5. KeepsViews
  BY <1>2 DEF KeepsViews
<1>6. FewLists
  BY <1>1, <1>2 DEF FewLists, ElectionTypeOK, StartTypeOK
<1>7. KeepsCount
  BY <1>2 DEF KeepsCount, Counted
<1>8. \A m : Promised(m)' <=> Promised(m)
  BY <1>1, <1>2, <1>3 DEF Promised, Elems
<1>9. KeepsWord
  <2> SUFFICES ASSUME NEW k \in Node, NEW m \in Node, Told(m, k) PROVE Told(m, k)'
    BY <1>8 DEF KeepsWord
  <2>1. CASE k = n /\ m = pk.from
    BY <1>3, <1>4, <2>1 DEF Told, NoIds
  <2>2. CASE ~ (k = n /\ m = pk.from)
    BY <1>1, <1>2, <1>3, <1>4, <2>2 DEF Told, NoIds
  <2> QED
    BY <2>1, <2>2
<1>10. Serves
  BY <1>2, LoopServes DEF Serves, StartLoop
<1>11. ListsCounted
  <2> SUFFICES ASSUME NEW m \in Node, Listing(m)' PROVE Listing(m)
    BY DEF ListsCounted
  <2>1. \/ announcing[m] # NoIds
        \/ \E q \in packets : q.type = "InitLeader" /\ q.from = m
        \/ \E k \in Node : InitLeaderMessages'[k][m] # NoIds
    BY <1>1, <1>2 DEF Listing, ListSent, NoIds
  <2> QED
    BY <1>3, <1>4, <2>1 DEF Listing, ListSent
<1>12. ViewsSpread
  BY <1>2, <1>8 DEF ViewsSpread
<1> QED
  BY <1>5, <1>6, <1>7, <1>9, <1>10, <1>11, <1>12 DEF Steady

\* The lists of a quorum, one of them on its way, make a view.
LEMMA ElectSteady ==
  ASSUME ElectionTypeOK, Tallied, NEW n \in Up, Elect(n), failed' = {}
  PROVE  Steady
<1>1. PICK pk \in Lists(n) :
        LET lists == [InitLeaderMessages[n] EXCEPT ![pk.from] = pk.ids]
        IN  /\ EnoughLists(lists)
            /\ IF Candidates(lists) = {} THEN failed' = failed \cup {n}
               ELSE View' = [View EXCEPT ![n] =
                      CHOOSE k \in Candidates(lists) : \A j \in Candidates(lists) : j <= k]
  BY DEF Elect
<1> DEFINE lists == [InitLeaderMessages[n] EXCEPT ![pk.from] = pk.ids]
           leaders == Candidates(lists)
           leader == CHOOSE k \in leaders : \A j \in leaders : j <= k
<1>2. /\ n \in Node /\ View[n] = NoView /\ packets' = packets \ Lists(n)
      /\ JoinMessages' = [JoinMessages EXCEPT ![n] = {}]
      /\ JoinReplyMessages' = [JoinReplyMessages EXCEPT ![n] = {}]
      /\ InitLeaderMessages' = [InitLeaderMessages EXCEPT ![n] = [k \in Node |-> NoIds]]
      /\ announcing' = announcing /\ JoinChan' = JoinChan /\ JoinReplyChan' = JoinReplyChan
  BY NodeFacts DEF Elect, Leave
<1>3. pk \in packets /\ pk.to = n /\ pk.type = "InitLeader" /\ pk.from \in Node
  BY PacketFields DEF Lists, ElectionTypeOK
<1>4. EnoughLists(lists) /\ leaders # {} /\ View' = [View EXCEPT ![n] = leader]
  BY <1>1
<1>5. leader \in Node
  <2>1. leaders \in SUBSET Node
    BY DEF Candidates
  <2> HIDE DEF leaders
  <2> QED
    BY <1>4, <2>1, HighestNode
<1>6. \A m \in Node : lists[m] # NoIds => Listing(m)
  BY <1>2, <1>3 DEF Listing, ListSent, ElectionTypeOK, StartTypeOK
<1> HIDE DEF lists, leader
<1>7. /\ View'[n] # NoView
      /\ \A m \in Node \ {n} : /\ View'[m] = View[m] /\ JoinMessages'[m] = JoinMessages[m]
                               /\ JoinReplyMessages'[m] = JoinReplyMessages[m]
                               /\ InitLeaderMessages'[m] = InitLeaderMessages[m]
  BY <1>2, <1>4, <1>5, NodeFacts DEF ElectionTypeOK, StartTypeOK, Tallied, NoView
<1>8. \A q : q.type # "InitLeader" \/ q.to # n => (q \in packets' <=> q \in packets)
  BY <1>2 DEF Lists
<1>9. KeepsViews /\ FewLists
  BY <1>7 DEF KeepsViews, FewLists
<1>10. KeepsCount
  BY <1>7 DEF KeepsCount, Counted
<1>11. \A m : Promised(m)' <=> Promised(m)
  BY <1>2, <1>8 DEF Promised, Elems
<1>12. KeepsWord
  <2> SUFFICES ASSUME NEW k \in Node, View'[k] = NoView, NEW m \in Node, Told(m, k) PROVE Told(m, k)'
    BY <1>11 DEF KeepsWord
  <2> QED
    BY <1>2, <1>7, <1>8 DEF Told, NoIds
<1>13. Serves
  BY <1>2, LoopServes DEF Serves, StartLoop
<1>14. ListsCounted
  <2>1. \A k, m \in Node : InitLeaderMessages'[k][m] \in {InitLeaderMessages[k][m], NoIds}
    BY <1>2, <1>7 DEF ElectionTypeOK, StartTypeOK
  <2> QED
    BY <1>2, <2>1 DEF ListsCounted, Listing, ListSent, NoIds
<1>15. ViewsSpread
  <2>1. \E l : EnoughLists(l) /\ \A m \in Node : l[m] # NoIds => Listing(m)
    BY <1>4, <1>6
  <2> QED
    BY <1>11, <2>1 DEF ViewsSpread
<1> QED
  BY <1>9, <1>10, <1>12, <1>13, <1>14, <1>15 DEF Steady

\* Once every node has dialled, nobody waits whose Join was dealt with everywhere.
Settling == Accounted /\ Sending /\ (Sound => Progress)

LEMMA SoundStep ==
  ASSUME Accounted, [ElectionNext]_electionVars, Sound'
  PROVE  Sound /\ lost' = lost
<1>1. lost = {} /\ lost' = {}
  BY LostGrows DEF Accounted, Inductive, Sound
<1>2. failed \subseteq failed'
  BY DEF ElectionNext, electionVars, memberVars, startVars, Dial, Handlers, HandleJoining, IgnoreReply,
         ReadMembers, StoreMember, StartLoop, AdoptView, CountReply, AnswerJoin, SendInitLeader,
         CountList, Elect
<1> QED
  BY <1>1, <1>2 DEF Sound

LEMMA SteadyNext ==
  ASSUME Accounted, Sending, [ElectionNext]_electionVars, Sound'
  PROVE  Steady
<1>1. ElectionTypeOK /\ Meetings /\ Tallied /\ Entered /\ lost = {} /\ failed' = {}
  BY SoundStep DEF Accounted, Inductive, Sound
<1>2. ASSUME \/ UNCHANGED electionVars
             \/ HandlesNothing /\ UNCHANGED startVars
      PROVE  Steady
  <2>1. UNCHANGED <<dialled, packets, JoinChan, JoinReplyChan>> /\ UNCHANGED startVars
    BY <1>2 DEF electionVars, memberVars, HandlesNothing
  <2>2. /\ \A k, n : Served(k, n)' <=> Served(k, n)
        /\ \A n : Promised(n)' <=> Promised(n)
    BY <2>1 DEF Served, Handled, Joins, Promised, Elems
  <2> QED
    BY <2>1, <2>2, QuietSteady
<1>3. ASSUME NEW n \in Up, Handlers(n) PROVE Steady
  BY <1>1, <1>2, <1>3, HandlerSteps, HandleJoiningSteady DEF Handlers
<1>4. ASSUME NEW n \in Up, StartLoop(n) PROVE Steady
  <2>1. CASE AdoptView(n)
    BY <1>1, <2>1, AdoptViewSteady
  <2>2. CASE CountReply(n)
    BY <1>1, <2>2, CountReplySteady
  <2>3. CASE AnswerJoin(n)
    BY <1>1, <2>3, AnswerJoinSteady
  <2>4. CASE SendInitLeader(n)
    BY <1>1, <2>4, SendInitLeaderSteady
  <2>5. CASE CountList(n)
    BY <1>1, <2>5, CountListSteady
  <2>6. CASE Elect(n)
    BY <1>1, <2>6, ElectSteady
  <2> QED
    BY <1>4, <2>1, <2>2, <2>3, <2>4, <2>5, <2>6 DEF StartLoop
<1>5. ASSUME NEW c \in Dials, Dial(c) /\ UNCHANGED startVars PROVE Steady
  BY <1>5, DialSteady
<1> QED
  BY <1>2, <1>3, <1>4, <1>5 DEF ElectionNext

LEMMA SettlingInvariant == ElectionSpec => []Settling
<1>1. ElectionInit => Sending /\ Progress
  BY SendingInit, ProgressInit
<1>2. ASSUME Accounted, Accounted', Settling, [ElectionNext]_electionVars PROVE Settling'
  <2>1. Sending'
    BY <1>2, SendingNext DEF Settling, Accounted, Inductive
  <2>2. ASSUME Sound' PROVE Progress'
    <3>1. Steady /\ Progress
      BY <1>2, <2>2, SteadyNext, SoundStep DEF Settling
    <3> QED
      BY <1>2, <3>1, SteadyProgress DEF Accounted
  <2> QED
    BY <1>2, <2>1, <2>2 DEF Settling
<1>3. Accounted /\ Sending /\ Progress => Settling
  BY DEF Settling
<1> QED
  BY <1>1, <1>2, <1>3, AccountedInvariant, PTL DEF ElectionSpec

\* When all messages are dealt with, everybody has dealt with the Join of everybody.
LEMMA RestServed ==
  ASSUME Up \X Up \subseteq Dials, AtRest, alive = Up, NEW k \in Up, NEW n \in Up
  PROVE  Served(k, n) /\ ~ Promised(n) /\ announcing[n] = NoIds
<1>1. Elems(<< >>) = {}
  BY DEF Elems
<1>2. JoinChan[n] = << >> /\ JoinReplyChan[n] = << >> /\ packets = {} /\ announcing[n] = NoIds
  BY DEF AtRest
<1>3. <<k, n>> \in dialled
  BY DEF AtRest
<1> QED
  BY <1>1, <1>2, <1>3 DEF Served, Handled, Joins, Promised

\* The nodes that are started are enough, and too few for their lists to name
\* nobody often enough.
StartedEnough == Check(N, Cardinality(Up)) /\ (2 * F(N) + 1) * (2 * F(N) + 1) > (2 * F(N)) * Cardinality(Up)

LEMMA RestElected ==
  ASSUME Settling, Up \X Up \subseteq Dials, StartedEnough, AtRest, lost = {}, NEW n \in alive
  PROVE  View[n] # NoView
<1>1. failed = {}
  <2> DEFINE m == 2 * F(N) + 1
             a == 2 * F(N)
             s == m * m
             t == a * Cardinality(Up)
  <2>1. s > t
    BY DEF StartedEnough
  <2>2. failed # {} => s <= t + Cardinality(lost)
    BY DEF Settling, Accounted, Blamed
  <2>3. s \in Nat /\ t \in Nat
    <3>1. a \in Nat /\ m \in Nat /\ Cardinality(Up) \in Nat
      BY NodeFacts, FiniteNode DEF F
    <3> HIDE DEF a, m
    <3> QED
      BY <3>1, TimesNext
  <2>4. Cardinality(lost) = 0
    BY FS_EmptySet
  <2> HIDE DEF s, t
  <2> QED
    BY <2>1, <2>2, <2>3, <2>4
<1>2. Progress /\ Tallied /\ alive = Up /\ n \in Up /\ n \in Node
  BY <1>1, NodeFacts DEF Settling, Sound, Accounted, Blamed
<1>3. \A k, m \in Up : Served(k, m) /\ ~ Promised(m) /\ announcing[m] = NoIds
  BY <1>2, RestServed
<1> SUFFICES ASSUME View[n] = NoView PROVE FALSE
  OBVIOUS
<1>4. PICK Q \in SUBSET Up : IsQuorum(N, Q) /\ \A m \in Q : Committed(m)
  <2>1. CASE \E m \in Node : View[m] # NoView
    BY <1>2, <2>1 DEF Progress, ViewCommitted
  <2>2. CASE \A m \in Node : View[m] = NoView
    <3>1. ASSUME NEW m \in Up PROVE Committed(m)
      <4>1. Up \subseteq JoinMessages[m] /\ m \in Node
        BY <1>2, <1>3, <2>2, NodeFacts DEF Progress, ServedCounted
      <4> DEFINE A == JoinMessages[m]
                 B == JoinReplyMessages[m]
      <4>2. A \in SUBSET Node /\ B \in SUBSET Node /\ Up \subseteq A
        BY <1>2, <4>1 DEF Tallied
      <4> HIDE DEF A, B
      <4>3. /\ IsFiniteSet(A) /\ Cardinality(A) \in Nat /\ Cardinality(B) \in Nat
            /\ Cardinality(Up) <= Cardinality(A) /\ Cardinality(Up) \in Nat
        BY <4>2, NodeFacts, FiniteNode, FS_Subset
      <4>4. Check(N, Cardinality(B) + Cardinality(A))
        <5>1. F(N) \in Int
          BY NodeFacts DEF F
        <5>2. Cardinality(Up) >= 2 * F(N) + 1
          BY DEF StartedEnough, Check
        <5>3. Cardinality(B) + Cardinality(A) >= 2 * F(N) + 1
          BY <4>3, <5>1, <5>2
        <5> QED
          BY <5>3 DEF Check
      <4>5. Counted(m)
        BY <4>4 DEF Counted, A, B
      <4> QED
        BY <1>2, <2>2, <4>1, <4>5 DEF Progress, CountedCommitted
    <3>2. IsQuorum(N, Up)
      BY DEF StartedEnough, IsQuorum
    <3> QED
      BY <3>1, <3>2
  <2> QED
    BY <2>1, <2>2
<1>5. \A m \in Q : InitLeaderMessages[n][m] # NoIds
  BY <1>2, <1>3, <1>4 DEF Committed, Told, AtRest
<1> DEFINE S == {k \in Node : InitLeaderMessages[n][k] # NoIds}
<1>6. Q \subseteq S /\ S \in SUBSET Node
  BY <1>4, <1>5, NodeFacts
<1>7. ~ Check(N, Cardinality(S))
  BY <1>2 DEF Progress, StillFew, EnoughLists
<1> HIDE DEF S
<1>8. Cardinality(Q) <= Cardinality(S) /\ Cardinality(Q) \in Nat /\ Cardinality(S) \in Nat
  BY <1>6, FiniteNode, FS_Subset
<1> QED
  BY <1>4, <1>7, <1>8, NodeFacts DEF IsQuorum, Check, F

\* Nobody is left without a view: once every node that is started has dialled every
\* other and itself, as main has it do, and all messages are dealt with, each
\* node has elected a leader or was told the view of one that has, if no append has
\* dropped an entry of Members, that of a Join or of a reply.  A quorum is started,
\* and not too many for the leader to be found.
THEOREM NobodyLeftWaiting ==
  (Up \X Up \subseteq Dials) /\ StartedEnough => (ElectionSpec => []RestMeansElected)
<1> SUFFICES ASSUME Up \X Up \subseteq Dials, StartedEnough PROVE ElectionSpec => []RestMeansElected
  OBVIOUS
<1>1. Settling => RestMeansElected
  BY RestElected DEF RestMeansElected
<1> QED
  BY <1>1, SettlingInvariant, PTL
=============================================================================
