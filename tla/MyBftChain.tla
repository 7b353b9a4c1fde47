----------------------------- MODULE MyBftChain -----------------------------
(***************************************************************************)
(* What leaders mine, and the chain the blocks form, in a network whose    *)
(* nodes left the leader election with one view: no proposal is mined      *)
(* twice, the leader makes one block per height, and the stored blocks are *)
(* one chain that zone lookups can walk.  The lemmas are about the steps   *)
(* of either mode, the theorems about MyBFT's; PBFT's are in PbftProofs.   *)
(***************************************************************************)
EXTENDS MyBftOneView

----------------------------------------------------------------------------
(* Mining.                                                                 *)

BatchSize(pool) == IF Len(pool) < BlockMaxSize THEN Len(pool) ELSE BlockMaxSize

\* Node n mines blk on the tip of its ledger l, of the first proposals of pool.
Mines(n, l, pool, packets, blk) ==
  /\ IsLeader(n) /\ TipStored(l)
  /\ blk \in BlockId /\ PrevBlock(blk) = l.tip /\ Height(blk) = Height(l.tip) + 1
  /\ \A i \in DOMAIN ProposalsOf(blk) : \E j \in 1..BatchSize(pool) : ProposalsOf(blk)[i] = pool[j]
  /\ \E abandoned \in Seq(Proposal) :
       net' = packets \cup Broadcast({BlockMsg(View[n], blk, abandoned)})
  /\ MessagePool' = [MessagePool EXCEPT ![n] = SubSeq(pool, BatchSize(pool) + 1, Len(pool))]
  /\ AwaitBlock(n, blk)
  /\ mined' = mined \cup {[by |-> n, blk |-> blk]}

\* The last entry of a block holds its proposals, the others are its predecessor.
LEMMA AppendedBlock ==
  ASSUME NEW E, NEW tip \in Seq(E), NEW e \in E
  PROVE  /\ PrevBlock(Append(tip, e)) = tip
         /\ ProposalsOf(Append(tip, e)) = e.ps
<1> DEFINE blk == Append(tip, e)
<1>1. /\ Len(tip) \in Nat /\ tip = [i \in 1..Len(tip) |-> tip[i]]
      /\ blk \in Seq(E) /\ Len(blk) = Len(tip) + 1
      /\ \A i \in 1..Len(tip) : blk[i] = tip[i]
      /\ blk[Len(tip) + 1] = e
  BY LenProperties, AppendProperties
<1>2. SubSeq(blk, 1, Len(tip)) = tip
  <2> HIDE DEF blk
  <2>1. /\ SubSeq(blk, 1, Len(tip)) \in Seq(E) /\ Len(SubSeq(blk, 1, Len(tip))) = Len(tip)
        /\ \A i \in 1..Len(tip) : SubSeq(blk, 1, Len(tip))[i] = blk[i]
    BY <1>1, SubSeqProperties
  <2> QED
    BY <1>1, <2>1, SeqEqual
<1>3. blk # << >>
  BY <1>1
<1> QED
  BY <1>1, <1>2, <1>3 DEF PrevBlock, ProposalsOf, Genesis

\* generateBlock mines or leaves the pool as it is.
LEMMA MinesOrNot ==
  ASSUME TypeOK, NEW n \in Node, NEW l \in LedgerType, NEW pool \in Seq(Proposal),
         NEW confirm, NEW packets,
         GenerateBlock(n, l, pool, confirm, packets) \/ NoMine(n, pool, confirm, packets)
  PROVE  \/ NoMine(n, pool, confirm, packets)
         \/ \E blk \in BlockId : Mines(n, l, pool, packets, blk)
<1> SUFFICES ASSUME CanMine(n, l, pool), Mine(n, l, pool, packets)
             PROVE  \E blk \in BlockId : Mines(n, l, pool, packets, blk)
  BY DEF GenerateBlock
<1> DEFINE bound  == BatchSize(pool)
           first  == SubSeq(pool, 1, bound)
           batch  == CheckProposals(first)
           blk(s) == Append(l.tip, [ps |-> batch.valid, stamp |-> s])
<1>1. PICK s \in Stamp :
        /\ net' = packets \cup Broadcast({BlockMsg(View[n], blk(s), batch.abandoned)})
        /\ MessagePool' = [MessagePool EXCEPT ![n] = SubSeq(pool, bound + 1, Len(pool))]
        /\ AwaitBlock(n, blk(s))
        /\ mined' = mined \cup {[by |-> n, blk |-> blk(s)]}
  BY DEF Mine, BatchSize
<1>2. /\ l.tip \in BlockId /\ blk(s) \in BlockId /\ Height(blk(s)) = Height(l.tip) + 1
      /\ batch.abandoned \in Seq(Proposal)
  BY MinedBlockType DEF LedgerType, BatchSize
<1>3. bound \in 0..Len(pool) /\ Len(pool) \in Nat
  BY BoundsAssumption, LenProperties DEF BatchSize
<1> HIDE DEF bound
<1>4. first \in Seq(Proposal) /\ Len(first) = bound /\ \A i \in 1..bound : first[i] = pool[i]
  <2>1. \A i \in 1..bound : pool[i] \in Proposal
    BY <1>3, ElementOfSeq
  <2> QED
    BY <1>3, <2>1, SubSeqProperties
<1>5. batch.valid \in Seq(Proposal)
  BY <1>4, CheckProposalsType
<1>6. \A i \in DOMAIN batch.valid : \E j \in 1..bound : batch.valid[i] = pool[j]
  <2> HIDE DEF first
  <2>1. ValidPositions(first) \in SUBSET (1..Len(first)) /\ batch.valid = Pick(first, ValidPositions(first))
    BY DEF ValidPositions, CheckProposals
  <2> HIDE DEF batch
  <2>2. \A i \in DOMAIN batch.valid : \E j \in ValidPositions(first) : batch.valid[i] = first[j]
    BY <1>4, <2>1, PickType
  <2> QED
    BY <1>4, <2>1, <2>2
<1>7. PrevBlock(blk(s)) = l.tip /\ ProposalsOf(blk(s)) = batch.valid
  <2> HIDE DEF batch
  <2>1. [ps |-> batch.valid, stamp |-> s] \in Entry
    BY <1>5 DEF Entry
  <2> QED
    BY <1>2, <2>1, AppendedBlock DEF BlockId
<1> HIDE DEF blk, batch
<1>8. IsLeader(n) /\ TipStored(l)
  BY DEF CanMine
<1>9. Mines(n, l, pool, packets, blk(s))
  BY <1>1, <1>2, <1>6, <1>7, <1>8 DEF Mines, bound
<1> QED
  BY <1>2, <1>9

----------------------------------------------------------------------------
(* No proposal is mined twice.                                             *)

InMined(p) == \E x \in mined : InSeq(p, ProposalsOf(x.blk))

\* The proposals of pool are distinct and in no block.
Unmined(pool) ==
  /\ \A i, j \in DOMAIN pool : i # j => pool[i] # pool[j]
  /\ \A i \in DOMAIN pool : ~ InMined(pool[i])

\* Only the leader collects proposals.
PoolsUnmined ==
  \A n \in Node : Unmined(MessagePool[n]) /\ (MessagePool[n] # << >> => IsLeader(n))

\* The network may still deliver p to n.
OnItsWay(n, p) == \E pk \in net : pk.to = n /\ pk.msg.type = "Proposal" /\ pk.msg.proposal = p

\* What the leader collected or somebody mined was ordered, and the leader does
\* not take it for new when it arrives again.
TakenKnown ==
  /\ \A pk \in net : pk.msg.type = "Proposal" => pk.msg.proposal \in ordered
  /\ \A n \in Node, p \in Proposal :
       IsLeader(n) /\ (InMined(p) \/ InSeq(p, MessagePool[n]))
         => p \in ordered /\ (Fresh(n, p) => ~ OnItsWay(n, p))

MinedInv == PoolsUnmined /\ TakenKnown /\ MinedOnce

\* Mining from a pool of proposals that are in no block.
LEMMA MinesUnmined ==
  ASSUME TypeOK, MinedOnce, NEW n \in Node, NEW l \in LedgerType, NEW pool \in Seq(Proposal),
         Unmined(pool), NEW confirm, NEW packets,
         GenerateBlock(n, l, pool, confirm, packets) \/ NoMine(n, pool, confirm, packets)
  PROVE  /\ MinedOnce'
         /\ \E rest \in Seq(Proposal) :
              /\ MessagePool' = [MessagePool EXCEPT ![n] = rest]
              /\ Unmined(rest)'
              /\ \A p : InSeq(p, rest) => InSeq(p, pool)
         /\ \A p : InMined(p)' => InMined(p) \/ InSeq(p, pool)
         /\ mined' # mined => IsLeader(n)
         /\ \A pk \in net' : pk \in packets \/ pk.msg.type = "Block"
<1>1. \A pk \in net' : pk \in packets \/ pk.msg.type = "Block"
  BY GenerateBlockSends
<1>2. CASE NoMine(n, pool, confirm, packets)
  <2>1. MessagePool' = [MessagePool EXCEPT ![n] = pool] /\ UNCHANGED mined
    BY <1>2 DEF NoMine
  <2> QED
    BY <1>1, <2>1 DEF MinedOnce, Unmined, InMined
<1>3. CASE \E blk \in BlockId : Mines(n, l, pool, packets, blk)
  <2>1. PICK blk \in BlockId : Mines(n, l, pool, packets, blk)
    BY <1>3
  <2> DEFINE bound == BatchSize(pool)
             rest  == SubSeq(pool, bound + 1, Len(pool))
             ps    == ProposalsOf(blk)
  <2>2. bound \in 0..Len(pool) /\ Len(pool) \in Nat /\ DOMAIN pool = 1..Len(pool)
    BY BoundsAssumption, LenProperties DEF BatchSize
  <2>3. /\ rest \in Seq(Proposal) /\ DOMAIN rest = 1..(Len(pool) - bound)
        /\ \A i \in 1..(Len(pool) - bound) : rest[i] = pool[bound + i]
    <3> HIDE DEF bound
    <3>1. /\ rest \in Seq(Proposal) /\ Len(rest) = Len(pool) - bound
          /\ \A i \in 1..(Len(pool) - bound) : rest[i] = pool[bound + i]
      BY <2>2, SuffixElements
    <3> HIDE DEF rest
    <3> QED
      BY <3>1, LenProperties
  <2>4. /\ IsLeader(n) /\ MessagePool' = [MessagePool EXCEPT ![n] = rest]
        /\ mined' = mined \cup {[by |-> n, blk |-> blk]}
        /\ \A i \in DOMAIN ps : \E j \in 1..bound : ps[i] = pool[j]
    BY <2>1 DEF Mines
  <2> HIDE DEF bound, rest, ps
  <2>5. \A p : InMined(p)' <=> InMined(p) \/ InSeq(p, ps)
    <3> DEFINE x == [by |-> n, blk |-> blk]
    <3>1. x.blk = blk /\ mined' = mined \cup {x}
      BY <2>4
    <3> HIDE DEF x
    <3>2. ASSUME NEW p
          PROVE  (\E y \in mined' : InSeq(p, ProposalsOf(y.blk)))
                   <=> InMined(p) \/ InSeq(p, ps)
      BY <3>1 DEF InMined, ps
    <3> QED
      BY <3>2 DEF InMined
  <2>6. \A p : InSeq(p, ps) => \E j \in 1..bound : p = pool[j]
    BY <2>4 DEF InSeq
  <2>7. \A j \in 1..bound : j \in DOMAIN pool
    BY <2>2
  <2>8. MinedOnce'
    <3> SUFFICES ASSUME NEW x \in mined', NEW y \in mined', x # y, NEW i \in DOMAIN ProposalsOf(x.blk)
                 PROVE  ~ InSeq(ProposalsOf(x.blk)[i], ProposalsOf(y.blk))
      BY DEF MinedOnce
    <3> DEFINE p == ProposalsOf(x.blk)[i]
    <3>1. InSeq(p, ProposalsOf(x.blk))
      BY DEF InSeq
    <3>2. ASSUME InSeq(p, ps) PROVE ~ InMined(p)
      BY <2>6, <2>7, <3>2 DEF Unmined
    <3>3. CASE x \in mined /\ y \in mined
      BY <3>3 DEF MinedOnce
    <3>4. CASE x \in mined /\ y \notin mined
      <4>1. InMined(p) /\ y.blk = blk
        BY <2>4, <3>1, <3>4 DEF InMined
      <4> QED
        BY <3>2, <4>1 DEF ps
    <3>5. CASE x \notin mined /\ y \in mined
      <4>1. x.blk = blk
        BY <2>4, <3>5
      <4>2. ~ InMined(p)
        BY <3>1, <3>2, <4>1 DEF ps
      <4> QED
        BY <3>5, <4>2 DEF InMined
    <3> QED
      BY <2>4, <3>3, <3>4, <3>5
  <2>9. Unmined(rest)'
    <3>1. ASSUME NEW i \in DOMAIN rest
          PROVE  /\ bound + i \in DOMAIN pool /\ rest[i] = pool[bound + i]
                 /\ \A j \in 1..bound : rest[i] # pool[j]
      <4>1. /\ bound + i \in DOMAIN pool /\ rest[i] = pool[bound + i]
            /\ \A j \in 1..bound : j \in DOMAIN pool /\ j # bound + i
        BY <2>2, <2>3
      <4> QED
        BY <4>1 DEF Unmined
    <3>2. ASSUME NEW i \in DOMAIN rest PROVE ~ InMined(rest[i])'
      <4>1. ~ InMined(rest[i]) /\ ~ InSeq(rest[i], ps)
        BY <2>6, <3>1 DEF Unmined
      <4> QED
        BY <2>5, <4>1
    <3>3. ASSUME NEW i \in DOMAIN rest, NEW j \in DOMAIN rest, i # j PROVE rest[i] # rest[j]
      <4>1. bound + i # bound + j
        BY <2>2, <2>3, <3>3
      <4> QED
        BY <3>1, <4>1 DEF Unmined
    <3>4. rest = SubSeq(pool, BatchSize(pool) + 1, Len(pool))
      BY DEF rest, bound
    <3> QED
      BY <3>2, <3>3 DEF Unmined, InMined
  <2>10. \A p : InSeq(p, rest) => InSeq(p, pool)
    BY <2>2, <2>3 DEF InSeq
  <2>11. \A p : InSeq(p, ps) => InSeq(p, pool)
    BY <2>6, <2>7 DEF InSeq
  <2>12. \E r \in Seq(Proposal) :
              /\ MessagePool' = [MessagePool EXCEPT ![n] = r]
              /\ Unmined(r)'
              /\ \A p : InSeq(p, r) => InSeq(p, pool)
    BY <2>3, <2>4, <2>9, <2>10
  <2> QED
    BY <1>1, <2>4, <2>5, <2>8, <2>11, <2>12
<1> QED
  BY <1>1, <1>2, <1>3, MinesOrNot

\* What a step that mines, or does not, leaves in the pools.
LEMMA MiningKeepsPools ==
  ASSUME OneView, ViewInv, PoolsUnmined, MinedOnce, UNCHANGED View,
         NEW n \in Node, NEW l \in LedgerType, NEW pool \in Seq(Proposal),
         Unmined(pool), pool # << >> => IsLeader(n), NEW confirm, NEW packets,
         GenerateBlock(n, l, pool, confirm, packets) \/ NoMine(n, pool, confirm, packets)
  PROVE  /\ MinedOnce' /\ PoolsUnmined'
         /\ \A k \in Node : \A p :
              IsLeader(k) /\ (InMined(p)' \/ InSeq(p, MessagePool'[k]))
                => \/ InMined(p) \/ InSeq(p, MessagePool[k])
                   \/ k = n /\ InSeq(p, pool)
         /\ \A pk \in net' : pk \in packets \/ pk.msg.type = "Block"
<1>1. TypeOK /\ MessagePool \in [Node -> Seq(Proposal)]
  BY DEF ViewInv, TypeOK, LeaderTypeOK
<1>2. PICK rest \in Seq(Proposal) :
        /\ MinedOnce'
        /\ MessagePool' = [MessagePool EXCEPT ![n] = rest]
        /\ Unmined(rest)'
        /\ \A p : InSeq(p, rest) => InSeq(p, pool)
        /\ \A p : InMined(p)' => InMined(p) \/ InSeq(p, pool)
        /\ mined' # mined => IsLeader(n)
        /\ \A pk \in net' : pk \in packets \/ pk.msg.type = "Block"
  BY <1>1, MinesUnmined
<1>3. \A p : ~ InSeq(p, << >>)
  BY DEF InSeq
<1>4. ASSUME NEW k \in Node
      PROVE  Unmined(MessagePool[k])' /\ (MessagePool'[k] # << >> => IsLeader(k))
  <2>1. CASE k = n
    <3>1. MessagePool'[k] = rest
      BY <1>1, <1>2, <2>1
    <3>2. rest # << >> => pool # << >>
      <4>1. ASSUME rest # << >> PROVE InSeq(rest[1], rest)
        <5>1. Len(rest) \in Nat /\ DOMAIN rest = 1..Len(rest)
          BY LenProperties
        <5>2. Len(rest) # 0
          BY <4>1, EmptySeq
        <5>3. 1 \in DOMAIN rest
          BY <5>1, <5>2
        <5> QED
          BY <5>3 DEF InSeq
      <4> QED
        BY <1>2, <1>3, <4>1
    <3> QED
      BY <1>2, <2>1, <3>1, <3>2 DEF Unmined, InMined
  <2>2. CASE k # n
    <3>1. MessagePool'[k] = MessagePool[k]
      BY <1>1, <1>2, <2>2
    <3>2. Unmined(MessagePool[k]) /\ (MessagePool[k] # << >> => IsLeader(k))
      BY DEF PoolsUnmined
    <3>3. CASE MessagePool[k] = << >>
      BY <3>1, <3>3 DEF Unmined
    <3>4. CASE MessagePool[k] # << >>
      <4>1. UNCHANGED mined
        BY <1>2, <2>2, <3>2, <3>4, OneLeader
      <4> QED
        BY <3>1, <3>2, <4>1 DEF Unmined, InMined
    <3> QED
      BY <3>3, <3>4
  <2> QED
    BY <2>1, <2>2
<1>5. PoolsUnmined'
  BY <1>4 DEF PoolsUnmined, IsLeader, Unmined, InMined
<1>6. ASSUME NEW k \in Node, NEW p, IsLeader(k), InMined(p)' \/ InSeq(p, MessagePool'[k])
      PROVE  InMined(p) \/ InSeq(p, MessagePool[k]) \/ (k = n /\ InSeq(p, pool))
  <2>1. CASE InSeq(p, pool)
    <3>1. pool # << >>
      BY <1>3, <2>1
    <3> QED
      BY <1>6, <2>1, <3>1, OneLeader
  <2>2. CASE ~ InSeq(p, pool)
    <3>1. k = n => MessagePool'[k] = rest
      BY <1>1, <1>2
    <3>2. k # n => MessagePool'[k] = MessagePool[k]
      BY <1>1, <1>2
    <3> QED
      BY <1>2, <1>6, <2>2, <3>1, <3>2
  <2> QED
    BY <2>1, <2>2
<1> QED
  BY <1>2, <1>5, <1>6

\* What a message names stays known.
LEMMA KnownStays ==
  ASSUME NEW cache \in [Proposal -> ProposalState], NEW ms, NEW p \in Proposal,
         cache[p] # "unknown"
  PROVE  ModifyProposalState(cache, ms)[p] # "unknown"
BY DEF ModifyProposalState

\* A step that takes nothing and forgets nothing.
LEMMA MinedInvKept ==
  ASSUME MinedInv, UNCHANGED <<View, ordered>>, MinedOnce', PoolsUnmined',
         \A n \in Node, p \in Proposal :
           IsLeader(n) /\ (InMined(p)' \/ InSeq(p, MessagePool'[n]))
             => InMined(p) \/ InSeq(p, MessagePool[n]),
         \A n \in Node, p \in Proposal :
           ProposalsCache[n][p] # "unknown" => ProposalsCache'[n][p] # "unknown",
         \A pk \in net' : pk \in net \/ pk.msg.type # "Proposal"
  PROVE  MinedInv'
<1>1. \A pk \in net' : pk.msg.type = "Proposal" => pk.msg.proposal \in ordered'
  BY DEF MinedInv, TakenKnown
<1>2. ASSUME NEW n \in Node, NEW p \in Proposal, IsLeader(n)',
             InMined(p)' \/ InSeq(p, MessagePool[n])'
      PROVE  p \in ordered' /\ (Fresh(n, p)' => ~ OnItsWay(n, p)')
  <2>1. IsLeader(n)
    BY <1>2 DEF IsLeader
  <2>2. p \in ordered /\ (Fresh(n, p) => ~ OnItsWay(n, p))
    BY <1>2, <2>1 DEF MinedInv, TakenKnown
  <2>3. Fresh(n, p)' => Fresh(n, p)
    BY DEF Fresh
  <2>4. OnItsWay(n, p)' => OnItsWay(n, p)
    BY DEF OnItsWay
  <2> QED
    BY <2>2, <2>3, <2>4
<1> QED
  BY <1>1, <1>2 DEF MinedInv, TakenKnown

\* A step that leaves the pools, the blocks and the caches alone.
LEMMA MinedInvQuiet ==
  ASSUME MinedInv, UNCHANGED <<View, ordered, MessagePool, mined>>,
         \A n \in Node, p \in Proposal :
           ProposalsCache[n][p] # "unknown" => ProposalsCache'[n][p] # "unknown",
         \A pk \in net' : pk \in net \/ pk.msg.type # "Proposal"
  PROVE  MinedInv'
<1>1. MinedOnce' /\ PoolsUnmined' /\ (\A p : InMined(p)' <=> InMined(p))
  BY DEF MinedInv, MinedOnce, PoolsUnmined, Unmined, InMined, IsLeader
<1> QED
  BY <1>1, MinedInvKept

\* ExecuteBlock mines from the pool, or does not, and forgets no proposal.
LEMMA ExecuteBlockMines ==
  ASSUME TypeOK, NEW n \in Node, NEW b \in BlockValidated,
         NEW cache \in [Proposal -> ProposalState], NEW chan, NEW packets,
         ExecuteBlock(n, b, cache, chan, packets)
  PROVE  /\ \E l \in LedgerType : \E confirm :
              \/ GenerateBlock(n, l, MessagePool[n], confirm, packets)
              \/ NoMine(n, MessagePool[n], confirm, packets)
         /\ \E ms : \/ ProposalsCache' = [ProposalsCache EXCEPT ![n] = cache]
                    \/ ProposalsCache' = [ProposalsCache EXCEPT ![n] = ModifyProposalState(cache, ms)]
<1> DEFINE queue == Enqueue(Blocks[n], b)
           after == IF Due(queue, Height(ledger[n].tip) + 1) # {}
                    THEN AddBlock(ledger[n], b) ELSE ledger[n]
<1>1. ledger[n] \in LedgerType /\ after \in LedgerType
  BY AddBlockType DEF TypeOK
<1>2. \E ms : \/ ProposalsCache' = [ProposalsCache EXCEPT ![n] = cache]
              \/ ProposalsCache' = [ProposalsCache EXCEPT ![n] = ModifyProposalState(cache, ms)]
  BY DEF ExecuteBlock
<1>3. \E confirm :
        \/ GenerateBlock(n, after, MessagePool[n], confirm, packets)
        \/ NoMine(n, MessagePool[n], confirm, packets)
  BY DEF ExecuteBlock
<1> HIDE DEF after
<1> QED
  BY <1>1, <1>2, <1>3

LEMMA MinedExecutes ==
  ASSUME OneView, ViewInv, MinedInv, UNCHANGED View,
         NEW n \in Up, NEW b \in ConfirmedBlocks, Executes(n, b)
  PROVE  MinedInv'
<1>1. /\ TypeOK /\ n \in Node /\ b \in BlockValidated /\ MessagePool[n] \in Seq(Proposal)
      /\ ProposalsCache \in [Node -> [Proposal -> ProposalState]]
  BY NodeType DEF ViewInv, TypeOK, NodeTypeOK, LeaderTypeOK, ConfirmedBlocks
<1>2. PICK packets \in SUBSET net : \E cache, chan :
        /\ ExecuteBlock(n, b, cache, chan, packets)
        /\ \/ cache = ProposalsCache[n]
           \/ \E m \in BlockMessage : cache = ModifyProposalState(ProposalsCache[n], <<m>>)
  BY DEF Executes
<1>3. PICK cache, chan :
        /\ ExecuteBlock(n, b, cache, chan, packets)
        /\ \/ cache = ProposalsCache[n]
           \/ \E m \in BlockMessage : cache = ModifyProposalState(ProposalsCache[n], <<m>>)
  BY <1>2
<1>4. /\ cache \in [Proposal -> ProposalState]
      /\ \A p \in Proposal : ProposalsCache[n][p] # "unknown" => cache[p] # "unknown"
  <2>1. ProposalsCache[n] \in [Proposal -> ProposalState]
    BY <1>1
  <2>2. ASSUME NEW m \in BlockMessage, cache = ModifyProposalState(ProposalsCache[n], <<m>>)
        PROVE  /\ cache \in [Proposal -> ProposalState]
               /\ \A p \in Proposal : ProposalsCache[n][p] # "unknown" => cache[p] # "unknown"
    BY <2>1, <2>2, KnownStays, ModifyProposalStateType
  <2> QED
    BY <1>3, <2>1, <2>2
<1>5a. PICK l \in LedgerType : \E confirm, ms :
        /\ \/ GenerateBlock(n, l, MessagePool[n], confirm, packets)
           \/ NoMine(n, MessagePool[n], confirm, packets)
        /\ \/ ProposalsCache' = [ProposalsCache EXCEPT ![n] = cache]
           \/ ProposalsCache' = [ProposalsCache EXCEPT ![n] = ModifyProposalState(cache, ms)]
  BY <1>1, <1>3, <1>4, ExecuteBlockMines
<1>5. PICK confirm, ms :
        /\ \/ GenerateBlock(n, l, MessagePool[n], confirm, packets)
           \/ NoMine(n, MessagePool[n], confirm, packets)
        /\ \/ ProposalsCache' = [ProposalsCache EXCEPT ![n] = cache]
           \/ ProposalsCache' = [ProposalsCache EXCEPT ![n] = ModifyProposalState(cache, ms)]
  BY <1>5a
<1>6. \A k \in Node, p \in Proposal :
        ProposalsCache[k][p] # "unknown" => ProposalsCache'[k][p] # "unknown"
  BY <1>1, <1>4, <1>5, KnownStays
<1>7. Unmined(MessagePool[n]) /\ (MessagePool[n] # << >> => IsLeader(n)) /\ PoolsUnmined /\ MinedOnce
  BY <1>1 DEF MinedInv, PoolsUnmined
<1>8. /\ MinedOnce' /\ PoolsUnmined'
      /\ \A k \in Node : \A p :
           IsLeader(k) /\ (InMined(p)' \/ InSeq(p, MessagePool'[k]))
             => InMined(p) \/ InSeq(p, MessagePool[k])
      /\ \A pk \in net' : pk \in packets \/ pk.msg.type = "Block"
  BY <1>1, <1>5, <1>7, MiningKeepsPools
<1> QED
  BY <1>6, <1>8, MinedInvKept DEF Executes

LEMMA MinedAccepts ==
  ASSUME OneView, ViewInv, MinedInv, UNCHANGED View,
         NEW n \in Up, NEW p \in Proposal, Accepts(n, p)
  PROVE  MinedInv'
<1> DEFINE pool == IF IsLeader(n) THEN Append(MessagePool[n], p) ELSE MessagePool[n]
           l    == WithLookup(ledger[n], p.zone)
<1>1. /\ TypeOK /\ n \in Node /\ MessagePool[n] \in Seq(Proposal)
      /\ ProposalsCache \in [Node -> [Proposal -> ProposalState]] /\ p.zone \in Zone
      /\ ledger[n] \in LedgerType
  BY NodeType DEF ViewInv, TypeOK, NodeTypeOK, LeaderTypeOK, Zone
<1>2. /\ OnItsWay(n, p) /\ Fresh(n, p) /\ p \in ordered /\ UNCHANGED ordered
  BY DEF Accepts, OnItsWay, MinedInv, TakenKnown
<1>3. PICK packets \in SUBSET net : AcceptProposal(n, p, packets)
  BY DEF Accepts
<1>4. /\ \/ GenerateBlock(n, l, pool, BlockConfirm[n], packets)
         \/ NoMine(n, pool, BlockConfirm[n], packets)
      /\ ProposalsCache' = [ProposalsCache EXCEPT ![n][p] = "unreceived"]
  BY <1>3 DEF AcceptProposal
<1>5. l \in LedgerType /\ pool \in Seq(Proposal)
  BY <1>1, WithLookupType, AppendProperties
<1>6. Unmined(MessagePool[n]) /\ (MessagePool[n] # << >> => IsLeader(n)) /\ PoolsUnmined /\ MinedOnce
  BY <1>1 DEF MinedInv, PoolsUnmined
<1>7. CASE IsLeader(n)
  <2>1. ~ InMined(p) /\ ~ InSeq(p, MessagePool[n])
    BY <1>1, <1>2, <1>7 DEF MinedInv, TakenKnown
  <2>2. /\ DOMAIN pool = 1..(Len(MessagePool[n]) + 1) /\ Len(MessagePool[n]) \in Nat
        /\ DOMAIN MessagePool[n] = 1..Len(MessagePool[n])
        /\ \A i \in 1..Len(MessagePool[n]) : pool[i] = MessagePool[n][i]
        /\ pool[Len(MessagePool[n]) + 1] = p
    BY <1>1, <1>7, AppendProperties, LenProperties
  <2> HIDE DEF pool, l
  <2>3. Unmined(pool) /\ \A q : InSeq(q, pool) => q = p \/ InSeq(q, MessagePool[n])
    <3>1. ASSUME NEW i \in DOMAIN pool
          PROVE  \/ pool[i] = p /\ i = Len(MessagePool[n]) + 1
                 \/ i \in DOMAIN MessagePool[n] /\ pool[i] = MessagePool[n][i]
      BY <2>2
    <3>2. \A i \in DOMAIN MessagePool[n] : MessagePool[n][i] # p
      BY <2>1 DEF InSeq
    <3> QED
      BY <1>6, <2>1, <3>1, <3>2 DEF Unmined, InSeq
  <2>4. /\ MinedOnce' /\ PoolsUnmined'
        /\ \A k \in Node : \A q :
             IsLeader(k) /\ (InMined(q)' \/ InSeq(q, MessagePool'[k]))
               => \/ InMined(q) \/ InSeq(q, MessagePool[k])
                  \/ k = n /\ InSeq(q, pool)
        /\ \A pk \in net' : pk \in packets \/ pk.msg.type = "Block"
    BY <1>1, <1>4, <1>5, <1>6, <1>7, <2>3, MiningKeepsPools
  <2>5. ASSUME NEW k \in Node, NEW q \in Proposal, IsLeader(k)',
               InMined(q)' \/ InSeq(q, MessagePool[k])'
        PROVE  q \in ordered' /\ (Fresh(k, q)' => ~ OnItsWay(k, q)')
    <3>1. IsLeader(k) /\ k = n
      BY <1>1, <1>7, <2>5, OneLeader DEF IsLeader
    <3>2. q = p \/ InMined(q) \/ InSeq(q, MessagePool[k])
      BY <2>3, <2>4, <2>5, <3>1
    <3>3. CASE q = p
      BY <1>1, <1>2, <1>4, <3>1, <3>3 DEF Fresh
    <3>4. CASE q # p
      <4>1. q \in ordered /\ (Fresh(k, q) => ~ OnItsWay(k, q))
        BY <3>1, <3>2, <3>4 DEF MinedInv, TakenKnown
      <4>2. Fresh(k, q)' => Fresh(k, q)
        BY <1>1, <1>4, <3>1, <3>4 DEF Fresh
      <4>3. OnItsWay(k, q)' => OnItsWay(k, q)
        BY <2>4 DEF OnItsWay
      <4> QED
        BY <1>2, <4>1, <4>2, <4>3
    <3> QED
      BY <3>3, <3>4
  <2>6. \A pk \in net' : pk.msg.type = "Proposal" => pk.msg.proposal \in ordered'
    BY <1>2, <2>4 DEF MinedInv, TakenKnown
  <2> QED
    BY <2>4, <2>5, <2>6 DEF MinedInv, TakenKnown
<1>8. CASE ~ IsLeader(n)
  <2>1. pool = MessagePool[n]
    BY <1>8
  <2> HIDE DEF pool, l
  <2>2. /\ MinedOnce' /\ PoolsUnmined'
        /\ \A k \in Node : \A q :
             IsLeader(k) /\ (InMined(q)' \/ InSeq(q, MessagePool'[k]))
               => InMined(q) \/ InSeq(q, MessagePool[k])
        /\ \A pk \in net' : pk \in packets \/ pk.msg.type = "Block"
    BY <1>1, <1>4, <1>5, <1>6, <2>1, MiningKeepsPools
  <2>3. \A k \in Node, q \in Proposal :
          ProposalsCache[k][q] # "unknown" => ProposalsCache'[k][q] # "unknown"
    BY <1>1, <1>4
  <2> QED
    BY <1>2, <2>2, <2>3, MinedInvKept
<1> QED
  BY <1>7, <1>8

LEMMA MinedOrder ==
  ASSUME MinedInv, UNCHANGED View, NEW p \in Orders, Order(p)
  PROVE  MinedInv'
<1>1. /\ p \in Proposal /\ p \notin ordered /\ ordered' = ordered \cup {p}
      /\ net' = net \cup [to : Listeners, msg : {ProposalMsg(p)}]
      /\ UNCHANGED <<ProposalsCache, MessagePool, mined>>
  BY ProposalAssumption DEF Order, nodeVars, leaderVars, history
<1>2. MinedOnce' /\ PoolsUnmined' /\ (\A q : InMined(q)' <=> InMined(q))
  BY <1>1 DEF MinedInv, MinedOnce, PoolsUnmined, Unmined, InMined, IsLeader
<1>3. \A pk \in net' : pk \in net \/ (pk.msg.type = "Proposal" /\ pk.msg.proposal = p)
  BY <1>1 DEF ProposalMsg
<1>4. \A pk \in net' : pk.msg.type = "Proposal" => pk.msg.proposal \in ordered'
  BY <1>1, <1>3 DEF MinedInv, TakenKnown
<1>5. ASSUME NEW k \in Node, NEW q \in Proposal, IsLeader(k)',
             InMined(q)' \/ InSeq(q, MessagePool[k])'
      PROVE  q \in ordered' /\ (Fresh(k, q)' => ~ OnItsWay(k, q)')
  <2>1. q \in ordered /\ (Fresh(k, q) => ~ OnItsWay(k, q))
    BY <1>1, <1>2, <1>5 DEF MinedInv, TakenKnown, IsLeader
  <2>2. Fresh(k, q)' <=> Fresh(k, q)
    BY <1>1 DEF Fresh
  <2>3. OnItsWay(k, q)' => OnItsWay(k, q)
    BY <1>1, <1>3, <2>1 DEF OnItsWay
  <2> QED
    BY <1>1, <2>1, <2>2, <2>3
<1> QED
  BY <1>2, <1>4, <1>5 DEF MinedInv, TakenKnown

LEMMA MinedInterrupt ==
  ASSUME OneView, ViewInv, MinedInv, UNCHANGED View, NEW n \in Up, Interrupt(n)
  PROVE  MinedInv'
<1>1. /\ TypeOK /\ n \in Node /\ MessagePool[n] \in Seq(Proposal) /\ ledger[n] \in LedgerType
  BY NodeType DEF ViewInv, TypeOK, LeaderTypeOK
<1>2. /\ GenerateBlock(n, ledger[n], MessagePool[n], BlockConfirm[n], net)
      /\ UNCHANGED <<ProposalsCache, ordered>>
  BY DEF Interrupt, nodeVars, clientVars
<1>3. Unmined(MessagePool[n]) /\ (MessagePool[n] # << >> => IsLeader(n)) /\ PoolsUnmined /\ MinedOnce
  BY <1>1 DEF MinedInv, PoolsUnmined
<1>4. /\ MinedOnce' /\ PoolsUnmined'
      /\ \A k \in Node : \A q :
           IsLeader(k) /\ (InMined(q)' \/ InSeq(q, MessagePool'[k]))
             => InMined(q) \/ InSeq(q, MessagePool[k])
      /\ \A pk \in net' : pk \in net \/ pk.msg.type = "Block"
  BY <1>1, <1>2, <1>3, MiningKeepsPools
<1> QED
  BY <1>2, <1>4, MinedInvKept

\* A node that restarts forgets which proposals it took, and with them go the
\* pool and the packets on their way to it.
LEMMA MinedRestart ==
  ASSUME ViewInv, MinedInv, UNCHANGED View, NEW n \in Up, Restart(n)
  PROVE  MinedInv'
<1>1. /\ n \in Node /\ MessagePool \in [Node -> Seq(Proposal)]
      /\ ProposalsCache \in [Node -> [Proposal -> ProposalState]]
  BY NodeType DEF ViewInv, TypeOK, NodeTypeOK, LeaderTypeOK
<1>2. /\ MessagePool' = [MessagePool EXCEPT ![n] = << >>]
      /\ \A k \in Node \ {n} : ProposalsCache'[k] = ProposalsCache[k]
      /\ net' = {pk \in net : pk.to # n} /\ UNCHANGED <<ordered, mined>>
  BY <1>1 DEF Restart, history
<1>3. \A k \in Node : MessagePool'[k] = MessagePool[k] \/ MessagePool'[k] = << >>
  BY <1>1, <1>2
<1>4. ASSUME NEW k \in Node PROVE Unmined(MessagePool[k])' /\ (MessagePool'[k] # << >> => IsLeader(k)')
  BY <1>2, <1>3 DEF MinedInv, PoolsUnmined, Unmined, InMined, IsLeader
<1>5. MinedOnce' /\ PoolsUnmined'
  BY <1>2, <1>4 DEF MinedInv, MinedOnce, PoolsUnmined
<1>6. ASSUME NEW k \in Node, NEW q \in Proposal, IsLeader(k)',
             InMined(q)' \/ InSeq(q, MessagePool[k])'
      PROVE  q \in ordered' /\ (Fresh(k, q)' => ~ OnItsWay(k, q)')
  <2>1. IsLeader(k) /\ (InMined(q) \/ InSeq(q, MessagePool[k]))
    <3>1. InMined(q)' => InMined(q)
      BY <1>2 DEF InMined
    <3>2. InSeq(q, MessagePool[k])' => InSeq(q, MessagePool[k])
      BY <1>3 DEF InSeq
    <3> QED
      BY <1>6, <3>1, <3>2 DEF IsLeader
  <2>2. q \in ordered /\ (Fresh(k, q) => ~ OnItsWay(k, q))
    BY <2>1 DEF MinedInv, TakenKnown
  <2>3. CASE k = n
    BY <1>2, <2>2, <2>3 DEF OnItsWay
  <2>4. CASE k # n
    BY <1>2, <2>2, <2>4 DEF OnItsWay, Fresh
  <2> QED
    BY <2>3, <2>4
<1>7. \A pk \in net' : pk.msg.type = "Proposal" => pk.msg.proposal \in ordered'
  BY <1>2 DEF MinedInv, TakenKnown
<1> QED
  BY <1>5, <1>6, <1>7 DEF MinedInv, TakenKnown

LEMMA MinedInvInit == Init => MinedInv
BY DEF Init, MinedInv, MinedOnce, PoolsUnmined, Unmined, TakenKnown, InMined, InSeq

LEMMA MinedInvNext ==
  ASSUME OneView, ViewInv, ViewInv', MinedInv, Step
  PROVE  MinedInv'
<1>1. UNCHANGED View /\ TypeOK
  BY ViewsStay DEF ViewInv
<1>2. ProposalsCache \in [Node -> [Proposal -> ProposalState]]
  BY <1>1 DEF TypeOK, NodeTypeOK
<1>3. ASSUME NEW n \in Up, NEW m \in BlockMessage, Takes(n, m) PROVE MinedInv'
  <2>1. /\ ProposalsCache' = [ProposalsCache EXCEPT ![n] = ModifyProposalState(@, <<m>>)]
        /\ UNCHANGED <<MessagePool, mined, ordered>>
        /\ \A pk \in net' : pk \in net \/ pk.msg.type # "Proposal"
    BY <1>3 DEF Takes, leaderVars
  <2>2. \A k \in Node, p \in Proposal :
          ProposalsCache[k][p] # "unknown" => ProposalsCache'[k][p] # "unknown"
    BY <1>2, <2>1, KnownStays, NodeType
  <2> QED
    BY <1>1, <2>1, <2>2, MinedInvQuiet
<1>4. ASSUME NEW n \in Up, NEW m \in BlockMessage, Defers(n, m) PROVE MinedInv'
  <2>1. \A pk \in net' : pk \in net \/ pk.msg.type # "Proposal"
    BY <1>4, StartDataSyncSends DEF Defers, DeferBlock
  <2>2. UNCHANGED <<MessagePool, mined, ordered, ProposalsCache>>
    BY <1>4 DEF Defers, DeferBlock, leaderVars, history
  <2> QED
    BY <1>1, <2>1, <2>2, MinedInvQuiet
<1>5. CASE Idles
  <2>1. UNCHANGED <<MessagePool, mined, ordered, ProposalsCache>>
    BY <1>5 DEF Idles, history
  <2>2. \A pk \in net' : pk \in net \/ pk.msg.type # "Proposal"
    BY <1>5 DEF Idles
  <2> QED
    BY <1>1, <2>1, <2>2, MinedInvQuiet
<1> QED
  BY <1>1, <1>3, <1>4, <1>5, MinedExecutes, MinedAccepts, MinedOrder, MinedInterrupt, MinedRestart
     DEF Step

\* Where the election gave every node the same view, no proposal is put into two
\* blocks, however often it is delivered and whichever node restarts: a proposal
\* in the pool or in a block is in ProposalsCache of the leader, or will not
\* reach it again.
THEOREM NoProposalMinedTwice == OneView => (Spec => []MinedOnce)
<1> SUFFICES ASSUME OneView PROVE Spec => []MinedOnce
  OBVIOUS
<1> DEFINE Inv == ViewInv /\ CertInv /\ MinedInv
<1>1. Init => Inv
  BY ViewInvInit, CertInit, MinedInvInit
<1>2. Inv /\ [Next]_vars => Inv'
  <2> SUFFICES ASSUME Inv, [Next]_vars PROVE Inv'
    OBVIOUS
  <2>1. ViewInv' /\ CertInv' /\ Step
    BY ViewInvNext, CertNext, StepKinds
  <2> QED
    BY <2>1, MinedInvNext
<1>3. Inv => MinedOnce
  BY DEF MinedInv
<1> QED
  BY <1>1, <1>2, <1>3, PTL DEF Spec

----------------------------------------------------------------------------
(* Every block message is of a mined block.                                *)

IsMined(blk) == \E x \in mined : x.blk = blk

MinedMessages == {m \in BlockMessage : IsMined(m.blk)}

BlocksMined ==
  /\ \A pk \in net : pk.msg.type = "Block" => IsMined(pk.msg.blk)
  /\ \A n \in Node : /\ BlockMessages[n] \in Seq(MinedMessages)
                     /\ blockChan[n] \in Seq(MinedMessages)
                     /\ Block[n] \subseteq MinedMessages

LEMMA BlocksMinedStep ==
  ASSUME BlocksMined, mined \subseteq mined',
         \A pk \in net' : pk \in net \/ pk.msg.type # "Block" \/ IsMined(pk.msg.blk)',
         \A n \in Node : /\ BlockMessages'[n] \in Seq(MinedMessages)
                         /\ blockChan'[n] \in Seq(MinedMessages)
                         /\ Block'[n] \subseteq MinedMessages
  PROVE  BlocksMined'
<1>1. \A blk : IsMined(blk) => IsMined(blk)'
  BY DEF IsMined
<1>2. MinedMessages \subseteq MinedMessages'
  BY <1>1 DEF MinedMessages
<1>3. ASSUME NEW s \in Seq(MinedMessages) PROVE s \in Seq(MinedMessages')
  <2>1. Len(s) \in Nat /\ DOMAIN s = 1..Len(s) /\ \A i \in 1..Len(s) : s[i] \in MinedMessages
    BY LenProperties, ElementOfSeq
  <2>2. \A i \in DOMAIN s : s[i] \in MinedMessages'
    BY <1>2, <2>1
  <2> QED
    BY <2>2, ElementsOfSeq
<1>4. \A pk \in net' : pk.msg.type = "Block" => IsMined(pk.msg.blk)'
  BY <1>1 DEF BlocksMined
<1> QED
  BY <1>2, <1>3, <1>4 DEF BlocksMined

\* Mining sends what it adds to mined.
LEMMA MiningSends ==
  ASSUME TypeOK, NEW n \in Node, NEW l \in LedgerType, NEW pool \in Seq(Proposal),
         NEW confirm, NEW packets,
         GenerateBlock(n, l, pool, confirm, packets) \/ NoMine(n, pool, confirm, packets)
  PROVE  /\ mined \subseteq mined'
         /\ \A pk \in net' : pk \in packets \/ (pk.msg.type = "Block" /\ IsMined(pk.msg.blk)')
<1>1. CASE NoMine(n, pool, confirm, packets)
  BY <1>1 DEF NoMine
<1>2. CASE \E blk \in BlockId : Mines(n, l, pool, packets, blk)
  <2>1. PICK blk \in BlockId : Mines(n, l, pool, packets, blk)
    BY <1>2
  <2>2. PICK abandoned : net' = packets \cup Broadcast({BlockMsg(View[n], blk, abandoned)})
    BY <2>1 DEF Mines
  <2> DEFINE x == [by |-> n, blk |-> blk]
  <2>3. x.blk = blk /\ mined' = mined \cup {x}
    BY <2>1 DEF Mines
  <2> HIDE DEF x
  <2>4. IsMined(blk)'
    BY <2>3 DEF IsMined
  <2>5. \A pk \in net' : pk \in packets \/ (pk.msg.type = "Block" /\ pk.msg.blk = blk)
    BY <2>2 DEF Broadcast, BlockMsg
  <2> QED
    BY <2>3, <2>4, <2>5 DEF IsMined
<1> QED
  BY <1>1, <1>2, MinesOrNot

LEMMA SequenceParts ==
  ASSUME NEW S, NEW s \in Seq(S), NEW t \in Seq(S)
  PROVE  /\ s \o t \in Seq(S) /\ << >> \in Seq(S)
         /\ s # << >> => Head(s) \in S /\ Tail(s) \in Seq(S)
BY ConcatProperties, HeadTailProperties

LEMMA ArrivedMined ==
  ASSUME BlocksMined, NEW n \in Node, NEW m \in BlockMessage, Arrived(n, m)
  PROVE  m \in MinedMessages
<1>1. CASE \E pk \in net : pk.msg = m /\ m.type = "Block"
  BY <1>1 DEF BlocksMined, MinedMessages
<1>2. CASE blockChan[n] # << >> /\ m = Head(blockChan[n])
  BY <1>2, SequenceParts DEF BlocksMined
<1> QED
  BY <1>1, <1>2 DEF Arrived

LEMMA ChanLeftMined ==
  ASSUME BlocksMined, NEW n \in Node, NEW chan, ChanLeft(n, chan)
  PROVE  chan \in Seq(MinedMessages)
<1>1. blockChan[n] \in Seq(MinedMessages)
  BY DEF BlocksMined
<1> QED
  BY <1>1, SequenceParts DEF ChanLeft

LEMMA BlocksMinedNext ==
  ASSUME TypeOK, BlocksMined, Step
  PROVE  BlocksMined'
<1> DEFINE M == MinedMessages
<1>1. /\ TypeOK
      /\ BlockMessages \in [Node -> Seq(BlockMessage)] /\ blockChan \in [Node -> Seq(BlockMessage)]
      /\ Block \in [Node -> SUBSET BlockMessage]
  BY DEF TypeOK, NodeTypeOK
<1>2. \A n \in Node : BlockMessages[n] \in Seq(M) /\ blockChan[n] \in Seq(M) /\ Block[n] \subseteq M
  BY DEF BlocksMined
<1> HIDE DEF M
<1>3. ASSUME NEW n \in Up, NEW b \in ConfirmedBlocks, Executes(n, b) PROVE BlocksMined'
  <2>1. /\ n \in Node /\ b \in BlockValidated /\ MessagePool[n] \in Seq(Proposal)
        /\ ledger[n] \in LedgerType /\ AddBlock(ledger[n], b) \in LedgerType
    BY <1>1, NodeType, AddBlockType DEF ConfirmedBlocks, TypeOK, LeaderTypeOK
  <2>2a. PICK packets \in SUBSET net : \E cache, chan :
          ExecuteBlock(n, b, cache, chan, packets) /\ ChanLeft(n, chan)
    BY <1>3 DEF Executes
  <2>2. PICK cache, chan :
          ExecuteBlock(n, b, cache, chan, packets) /\ ChanLeft(n, chan)
    BY <2>2a
  <2>3. chan \in Seq(M)
    BY <2>1, <2>2, ChanLeftMined DEF M
  <2>4. \E l \in LedgerType : \E confirm :
          \/ GenerateBlock(n, l, MessagePool[n], confirm, packets)
          \/ NoMine(n, MessagePool[n], confirm, packets)
    <3>1. \E l \in {ledger[n], AddBlock(ledger[n], b)} : \E confirm :
            \/ GenerateBlock(n, l, MessagePool[n], confirm, packets)
            \/ NoMine(n, MessagePool[n], confirm, packets)
      BY <2>2 DEF ExecuteBlock
    <3> QED
      BY <2>1, <3>1
  <2>5. /\ mined \subseteq mined'
        /\ \A pk \in net' : pk \in packets \/ (pk.msg.type = "Block" /\ IsMined(pk.msg.blk)')
    BY <1>1, <2>1, <2>4, MiningSends
  <2>6. \/ UNCHANGED BlockMessages /\ blockChan' = [blockChan EXCEPT ![n] = chan]
        \/ \E next : /\ BlockMessages' = [BlockMessages EXCEPT ![n] = Rest(BlockMessages[n], next)]
                     /\ blockChan' = [blockChan EXCEPT
                          ![n] = chan \o Pick(BlockMessages[n], Due(BlockMessages[n], next))]
    BY <2>2 DEF ExecuteBlock
  <2>7. \A next : /\ Rest(BlockMessages[n], next) \in Seq(M)
                  /\ chan \o Pick(BlockMessages[n], Due(BlockMessages[n], next)) \in Seq(M)
    BY <1>2, <2>1, <2>3, RestType, PickedType, SequenceParts
  <2>8. \A k \in Node : BlockMessages'[k] \in Seq(M) /\ blockChan'[k] \in Seq(M)
    <3>1. CASE UNCHANGED BlockMessages /\ blockChan' = [blockChan EXCEPT ![n] = chan]
      BY <1>1, <1>2, <2>1, <2>3, <3>1
    <3>2. ASSUME NEW next,
                 BlockMessages' = [BlockMessages EXCEPT ![n] = Rest(BlockMessages[n], next)],
                 blockChan' = [blockChan EXCEPT
                   ![n] = chan \o Pick(BlockMessages[n], Due(BlockMessages[n], next))]
          PROVE  \A k \in Node : BlockMessages'[k] \in Seq(M) /\ blockChan'[k] \in Seq(M)
      <4> DEFINE q == Rest(BlockMessages[n], next)
                 c == chan \o Pick(BlockMessages[n], Due(BlockMessages[n], next))
      <4>1. q \in Seq(M) /\ c \in Seq(M)
        BY <2>7
      <4>2. BlockMessages' = [BlockMessages EXCEPT ![n] = q] /\ blockChan' = [blockChan EXCEPT ![n] = c]
        BY <3>2
      <4> HIDE DEF q, c
      <4> QED
        BY <1>1, <1>2, <2>1, <4>1, <4>2
    <3> QED
      BY <2>6, <3>1, <3>2
  <2>9. \A k \in Node : Block'[k] \subseteq M
    BY <1>1, <1>2, <1>3, <2>1 DEF Executes
  <2> QED
    BY <2>5, <2>8, <2>9, BlocksMinedStep DEF M
<1>4. ASSUME NEW n \in Up, NEW m \in BlockMessage, Takes(n, m) PROVE BlocksMined'
  <2>1. n \in Node /\ m \in M
    BY <1>4, NodeType, ArrivedMined DEF Takes, M
  <2>2. PICK chan : ChanLeft(n, chan) /\ blockChan' = [blockChan EXCEPT ![n] = chan]
    BY <1>4 DEF Takes
  <2>3. chan \in Seq(M)
    BY <2>1, <2>2, ChanLeftMined DEF M
  <2>4. /\ UNCHANGED <<BlockMessages, mined>>
        /\ Block' = [Block EXCEPT ![n] = {o \in @ : o.blk # m.blk} \cup {m}]
        /\ \A pk \in net' : pk \in net \/ pk.msg.type # "Block"
    BY <1>4 DEF Takes
  <2>5. \A k \in Node : /\ BlockMessages'[k] \in Seq(M) /\ blockChan'[k] \in Seq(M)
                        /\ Block'[k] \subseteq M
    BY <1>1, <1>2, <2>1, <2>2, <2>3, <2>4
  <2> QED
    BY <2>4, <2>5, BlocksMinedStep DEF M
<1>5. ASSUME NEW n \in Up, NEW m \in BlockMessage, Defers(n, m) PROVE BlocksMined'
  <2>1. n \in Node /\ m \in M
    BY <1>5, NodeType, ArrivedMined DEF Defers, M
  <2>2a. PICK packets \in SUBSET net : \E chan :
          DeferBlock(n, m, chan, packets) /\ ChanLeft(n, chan)
    BY <1>5 DEF Defers
  <2>2. PICK chan :
          DeferBlock(n, m, chan, packets) /\ ChanLeft(n, chan)
    BY <2>2a
  <2>3. chan \in Seq(M)
    BY <2>1, <2>2, ChanLeftMined DEF M
  <2>4. \A pk \in net' : pk \in net \/ pk.msg.type # "Block"
    BY <2>2, StartDataSyncSends DEF DeferBlock
  <2>5. /\ UNCHANGED <<Block, mined>> /\ blockChan' = [blockChan EXCEPT ![n] = chan]
        /\ BlockMessages' = [BlockMessages EXCEPT ![n] = Enqueue(@, m)]
    BY <2>2 DEF DeferBlock, history
  <2>6. Enqueue(BlockMessages[n], m) \in Seq(M)
    BY <1>2, <2>1, EnqueueType
  <2>7. \A k \in Node : /\ BlockMessages'[k] \in Seq(M) /\ blockChan'[k] \in Seq(M)
                        /\ Block'[k] \subseteq M
    BY <1>1, <1>2, <2>1, <2>3, <2>5, <2>6
  <2> QED
    BY <2>4, <2>5, <2>7, BlocksMinedStep DEF M
<1>6. ASSUME NEW n \in Up, NEW p \in Proposal, Accepts(n, p) PROVE BlocksMined'
  <2> DEFINE pool == IF IsLeader(n) THEN Append(MessagePool[n], p) ELSE MessagePool[n]
             l    == WithLookup(ledger[n], p.zone)
  <2>1. n \in Node /\ l \in LedgerType /\ pool \in Seq(Proposal)
    BY <1>1, NodeType, WithLookupType, AppendProperties DEF TypeOK, LeaderTypeOK, Zone
  <2>2. PICK packets \in SUBSET net : AcceptProposal(n, p, packets)
    BY <1>6 DEF Accepts
  <2>3. /\ \/ GenerateBlock(n, l, pool, BlockConfirm[n], packets)
           \/ NoMine(n, pool, BlockConfirm[n], packets)
        /\ UNCHANGED <<BlockMessages, Block, blockChan>>
    BY <2>2 DEF AcceptProposal
  <2>4. /\ mined \subseteq mined'
        /\ \A pk \in net' : pk \in packets \/ (pk.msg.type = "Block" /\ IsMined(pk.msg.blk)')
    BY <1>1, <2>1, <2>3, MiningSends
  <2> QED
    BY <1>2, <2>3, <2>4, BlocksMinedStep DEF M
<1>7. ASSUME NEW p \in Orders, Order(p) PROVE BlocksMined'
  <2>1. UNCHANGED <<BlockMessages, Block, blockChan, mined>>
    BY <1>7 DEF Order, nodeVars, history
  <2>2. \A pk \in net' : pk \in net \/ pk.msg.type # "Block"
    BY <1>7 DEF Order, ProposalMsg
  <2> QED
    BY <1>2, <2>1, <2>2, BlocksMinedStep DEF M
<1>8. ASSUME NEW n \in Up, Interrupt(n) PROVE BlocksMined'
  <2>1. n \in Node /\ ledger[n] \in LedgerType /\ MessagePool[n] \in Seq(Proposal)
    BY <1>1, NodeType DEF TypeOK, LeaderTypeOK
  <2>2. /\ GenerateBlock(n, ledger[n], MessagePool[n], BlockConfirm[n], net)
        /\ UNCHANGED <<BlockMessages, Block, blockChan>>
    BY <1>8 DEF Interrupt, nodeVars
  <2>3. /\ mined \subseteq mined'
        /\ \A pk \in net' : pk \in net \/ (pk.msg.type = "Block" /\ IsMined(pk.msg.blk)')
    BY <1>1, <2>1, <2>2, MiningSends
  <2> QED
    BY <1>2, <2>2, <2>3, BlocksMinedStep DEF M
<1>9. ASSUME NEW n \in Up, Restart(n) PROVE BlocksMined'
  <2>1. /\ n \in Node /\ UNCHANGED mined /\ net' \subseteq net
        /\ BlockMessages' = [BlockMessages EXCEPT ![n] = << >>]
        /\ Block' = [Block EXCEPT ![n] = {}] /\ blockChan' = [blockChan EXCEPT ![n] = << >>]
    BY <1>9, NodeType DEF Restart, history
  <2>2. << >> \in Seq(M)
    OBVIOUS
  <2>3. \A k \in Node : /\ BlockMessages'[k] \in Seq(M) /\ blockChan'[k] \in Seq(M)
                        /\ Block'[k] \subseteq M
    BY <1>1, <1>2, <2>1, <2>2
  <2> QED
    BY <2>1, <2>3, BlocksMinedStep DEF M
<1>10. CASE Idles
  <2>1. UNCHANGED <<BlockMessages, Block, mined>>
    BY <1>10 DEF Idles, history
  <2>2. \A k \in Node : blockChan'[k] \in Seq(M)
    <3>1. CASE UNCHANGED blockChan
      BY <1>2, <3>1
    <3>2. ASSUME NEW n \in Up, NEW chan, ChanLeft(n, chan),
                 blockChan' = [blockChan EXCEPT ![n] = chan]
          PROVE  \A k \in Node : blockChan'[k] \in Seq(M)
      BY <1>1, <1>2, <3>2, NodeType, ChanLeftMined DEF M
    <3> QED
      BY <1>10, <3>1, <3>2 DEF Idles
  <2>3. \A pk \in net' : pk \in net \/ pk.msg.type # "Block"
    BY <1>10 DEF Idles
  <2> QED
    BY <1>2, <2>1, <2>2, <2>3, BlocksMinedStep DEF M
<1> QED
  BY <1>1, <1>3, <1>4, <1>5, <1>6, <1>7, <1>8, <1>9, <1>10 DEF Step

----------------------------------------------------------------------------
(* The leader's chain.  The leader executes nothing but its own blocks,    *)
(* each as the next one, so it is never behind and never asks for blocks.  *)

Leader == InitView[0] % N

\* The leader is not restarted, and the interrupt that its timer asked for is
\* handled before the leader has mined again.
UndisturbedStep ==
  \A n \in Up : IsLeader(n) => ~ Restart(n) /\ (Interrupt(n) => BlockConfirm[n])

Undisturbed == [][UndisturbedStep]_vars

\* The leader's blocks are above what it had on disk, one per height, and the
\* last of them, of height UnConfirmedH, is at most the next one to execute.
MinedInTurn ==
  /\ \A x \in mined : /\ x.by = Leader
                      /\ Height(Disk[Leader]) < Height(x.blk)
                      /\ Height(x.blk) <= UnConfirmedH[Leader]
  /\ OneBlockPerHeight
  /\ UnConfirmedH[Leader] <= Height(ledger[Leader].tip) + 1
  /\ BlockConfirm[Leader] => UnConfirmedH[Leader] <= Height(ledger[Leader].tip)

\* Nothing waits at the leader, and nobody answers a question it never asked.
LeaderInFront ==
  /\ \A b \in ledger[Leader].db : Height(b.blk) <= Height(ledger[Leader].tip)
  /\ Height(Disk[Leader]) <= Height(ledger[Leader].tip)
  /\ \A o \in Block[Leader] : Height(o.blk) = Height(ledger[Leader].tip) + 1
  /\ Blocks[Leader] = << >> /\ BlockMessages[Leader] = << >> /\ blockChan[Leader] = << >>
  /\ \A pk \in net : /\ ~ (pk.msg.type = "DataSync" /\ pk.msg.from = Leader)
                     /\ ~ (pk.msg.type = "DataSyncResp" /\ pk.to = Leader)

LeadInv == MinedInTurn /\ LeaderInFront

LEMMA LeaderIs ==
  ASSUME OneView, ViewInv
  PROVE  Leader \in Node /\ \A n \in Node : IsLeader(n) <=> n = Leader
<1>1. 0 \in Node /\ N \in Nat \ {0}
  BY NAssumption DEF Node
<1>2. Leader \in Node
  <2>1. InitView[0] \in Nat
    BY <1>1, NodesAssumption
  <2> QED
    BY <1>1, <2>1 DEF Leader, Node
<1>3. \A n \in Node : View[n] = InitView[0]
  BY <1>1, SameView DEF OneView
<1> QED
  BY <1>2, <1>3 DEF IsLeader, Leader

\* What the leader mines on its latest block, when all it mined is executed.
LEMMA LeaderMines ==
  ASSUME OneView, ViewInv, MinedInTurn,
         NEW l \in LedgerType, NEW pool \in Seq(Proposal), NEW confirm, NEW packets,
         \/ GenerateBlock(Leader, l, pool, confirm, packets)
         \/ NoMine(Leader, pool, confirm, packets),
         UnConfirmedH[Leader] <= Height(l.tip), Height(Disk[Leader]) <= Height(l.tip)
  PROVE  /\ \A x \in mined' : /\ x.by = Leader
                              /\ Height(Disk[Leader]) < Height(x.blk)
                              /\ Height(x.blk) <= UnConfirmedH'[Leader]
         /\ OneBlockPerHeight'
         /\ UnConfirmedH'[Leader] <= Height(l.tip) + 1
         /\ BlockConfirm'[Leader] => UnConfirmedH'[Leader] <= Height(l.tip)
         /\ \A pk \in net' : pk \in packets \/ pk.msg.type = "Block"
<1>1. /\ TypeOK /\ Leader \in Node
      /\ BlockConfirm \in [Node -> BOOLEAN] /\ UnConfirmedH \in [Node -> Nat]
      /\ mined \subseteq [by : Node, blk : BlockId]
  BY LeaderIs DEF ViewInv, TypeOK, LeaderTypeOK, HistoryTypeOK
<1>2. /\ Height(l.tip) \in Nat /\ UnConfirmedH[Leader] \in Nat /\ Height(Disk[Leader]) \in Nat
      /\ \A x \in mined : Height(x.blk) \in Nat
  BY <1>1, HeightType, DiskAssumption DEF LedgerType
<1>3. \A pk \in net' : pk \in packets \/ pk.msg.type = "Block"
  BY GenerateBlockSends
<1>4. CASE NoMine(Leader, pool, confirm, packets)
  <2>1. UNCHANGED <<UnConfirmedH, mined>>
    BY <1>4 DEF NoMine
  <2> QED
    BY <1>2, <1>3, <2>1 DEF MinedInTurn, OneBlockPerHeight
<1>5. CASE \E blk \in BlockId : Mines(Leader, l, pool, packets, blk)
  <2>1. PICK blk \in BlockId : Mines(Leader, l, pool, packets, blk)
    BY <1>5
  <2>2. /\ Height(blk) = Height(l.tip) + 1 /\ mined' = mined \cup {[by |-> Leader, blk |-> blk]}
        /\ UnConfirmedH'[Leader] = Height(blk) /\ BlockConfirm'[Leader] = FALSE
    BY <1>1, <2>1 DEF Mines, AwaitBlock
  <2>3. ASSUME NEW x \in mined'
        PROVE  /\ x.by = Leader /\ Height(Disk[Leader]) < Height(x.blk)
               /\ Height(x.blk) <= UnConfirmedH'[Leader]
               /\ x \in mined => Height(x.blk) < Height(blk)
               /\ x \notin mined => x = [by |-> Leader, blk |-> blk] /\ Height(x.blk) = Height(blk)
    BY <1>2, <2>2 DEF MinedInTurn
  <2>4. OneBlockPerHeight'
    <3> SUFFICES ASSUME NEW x \in mined', NEW y \in mined', x.by = y.by, Height(x.blk) = Height(y.blk)
                 PROVE  x = y
      BY DEF OneBlockPerHeight
    <3>1. CASE x \in mined /\ y \in mined
      BY <3>1 DEF MinedInTurn, OneBlockPerHeight
    <3>2. CASE x \notin mined /\ y \notin mined
      BY <2>3, <3>2
    <3>3. Height(blk) \in Nat
      BY <1>2, <2>2
    <3> QED
      BY <2>3, <3>1, <3>2, <3>3
  <2> QED
    BY <1>2, <1>3, <2>2, <2>3, <2>4
<1> QED
  BY <1>1, <1>4, <1>5, MinesOrNot

\* The other nodes mine nothing.
LEMMA FollowerMines ==
  ASSUME OneView, ViewInv, NEW n \in Node, n # Leader, NEW l, NEW pool, NEW confirm, NEW packets,
         GenerateBlock(n, l, pool, confirm, packets) \/ NoMine(n, pool, confirm, packets)
  PROVE  /\ UNCHANGED <<mined, UnConfirmedH>> /\ net' = packets
         /\ BlockConfirm'[Leader] = BlockConfirm[Leader]
<1>1. NoMine(n, pool, confirm, packets)
  BY LeaderIs DEF GenerateBlock, CanMine
<1> QED
  BY <1>1, LeaderIs DEF NoMine, ViewInv, TypeOK, LeaderTypeOK

\* The queues when nothing waits.
LEMMA NothingWaiting ==
  ASSUME NEW h
  PROVE  Popped(<< >>, h) = {} /\ Rest(<< >>, h) = << >> /\ Pick(<< >>, Due(<< >>, h)) = << >>
<1>1. Popped(<< >>, h) = {} /\ Due(<< >>, h) = {} /\ Cardinality({}) = 0
  BY FS_EmptySet DEF Popped, Due
<1>2. Rest(<< >>, h) = << >>
  <2>1. Rest(<< >>, h) = SubSeq(<< >>, 1, 0)
    <3>1. Len(<< >>) = 0
      OBVIOUS
    <3>2. Cardinality(Popped(<< >>, h)) = 0
      BY <1>1
    <3>3. Rest(<< >>, h) = SubSeq(<< >>, 0 + 1, 0)
      BY <3>1, <3>2 DEF Rest
    <3> QED
      BY <3>3
  <2> QED
    BY <2>1, SubSeqEmpty
<1>3. Pick(<< >>, {}) = << >>
  <2>1. Pick(<< >>, {}) = [k \in 1..0 |-> << >>[Nth({}, k)]]
    BY <1>1 DEF Pick
  <2> QED
    BY <2>1
<1> QED
  BY <1>1, <1>2, <1>3

LEMMA OneWaiting ==
  ASSUME NEW S, NEW x \in S, Height(x.blk) \in Nat
  PROVE  LET q == Enqueue(<< >>, x)
             h == Height(x.blk)
         IN  q = <<x>> /\ Due(q, h) # {} /\ Cardinality(Popped(q, h)) = 1 /\ Rest(q, h) = << >>
<1> DEFINE h == Height(x.blk)
<1>1. Enqueue(<< >>, x) = <<x>>
  <2>1. {i \in DOMAIN << >> : Height(<< >>[i].blk) < Height(x.blk)} = {} /\ Cardinality({}) = 0
    BY FS_EmptySet
  <2>2. SubSeq(<< >>, 1, 0) = << >>
    BY SubSeqEmpty
  <2>3. Enqueue(<< >>, x) = SubSeq(<< >>, 1, 0) \o <<x>> \o SubSeq(<< >>, 0 + 1, 0)
    BY <2>1 DEF Enqueue
  <2>4. << >> \o <<x>> = <<x>> /\ <<x>> \o << >> = <<x>>
    OBVIOUS
  <2> QED
    BY <2>2, <2>3, <2>4
<1>2. Popped(<<x>>, h) = {1} /\ Due(<<x>>, h) = {1}
  <2>1. DOMAIN <<x>> = {1} /\ <<x>>[1] = x /\ \A j \in 1..1 : j = 1
    OBVIOUS
  <2>2. Popped(<<x>>, h) = {1}
    BY <2>1 DEF Popped
  <2> QED
    BY <2>1, <2>2 DEF Due
<1>3. Cardinality({1}) = 1
  BY FS_Singleton
<1>4. Rest(<<x>>, h) = << >>
  <2>1. Rest(<<x>>, h) = SubSeq(<<x>>, 2, 1)
    BY <1>2, <1>3 DEF Rest
  <2> QED
    BY <2>1, SubSeqEmpty
<1> QED
  BY <1>1, <1>2, <1>3, <1>4

\* A node that is in front executes its next block at once.
LEMMA ExecutesInFront ==
  ASSUME TypeOK, NEW n \in Node, NEW b \in BlockValidated, NEW cache, NEW chan, NEW packets,
         ExecuteBlock(n, b, cache, chan, packets),
         TipStored(ledger[n]), IsLeader(n),
         Blocks[n] = << >>, BlockMessages[n] = << >>,
         Height(b.blk) = Height(ledger[n].tip) + 1,
         UnConfirmedH[n] <= Height(ledger[n].tip) + 1,
         \A c \in ledger[n].db : Height(c.blk) <= Height(ledger[n].tip)
  PROVE  /\ ledger'[n] \in LedgerType /\ ledger'[n].tip = b.blk
         /\ ledger'[n].db = ledger[n].db \cup {b}
         /\ Blocks'[n] = << >> /\ BlockMessages'[n] = << >> /\ blockChan'[n] = chan \o << >>
         /\ \/ GenerateBlock(n, ledger'[n], MessagePool[n], TRUE, packets)
            \/ NoMine(n, MessagePool[n], TRUE, packets)
<1> DEFINE l == ledger[n]
           q == Enqueue(<< >>, b)
           h == Height(b.blk)
           a == AddBlock(l, b)
<1>1. /\ l \in LedgerType /\ ledger \in [Node -> LedgerType] /\ UnConfirmedH[n] \in Nat
      /\ Blocks \in [Node -> Seq(BlockValidated)] /\ BlockMessages \in [Node -> Seq(BlockMessage)]
      /\ blockChan \in [Node -> Seq(BlockMessage)]
      /\ h \in Nat /\ Height(l.tip) \in Nat /\ h = Height(l.tip) + 1
  BY HeightType DEF TypeOK, NodeTypeOK, LeaderTypeOK, LedgerType, BlockValidated
<1>2. Due(q, h) # {} /\ Cardinality(Popped(q, h)) = 1 /\ Rest(q, h) = << >>
  BY <1>1, OneWaiting
<1>3. /\ Rest(<< >>, h + 1) = << >> /\ Pick(<< >>, Due(<< >>, h + 1)) = << >>
  BY NothingWaiting
<1>4. a \in LedgerType /\ a.tip = b.blk /\ a.db = l.db \cup {b}
  <2>1. ~ Stored(l, b.blk)
    <3>1. ASSUME NEW c \in l.db PROVE c.blk # b.blk
      <4>1. Height(c.blk) <= Height(l.tip) /\ h > Height(l.tip)
        BY <1>1
      <4> QED
        BY <1>1, <4>1
    <3> QED
      BY <3>1 DEF Stored
  <2> QED
    <3>1. a \in LedgerType
      BY <1>1, AddBlockType
    <3>2. Height(b.blk) > Height(l.tip)
      BY <1>1
    <3> QED
      BY <2>1, <3>1, <3>2 DEF AddBlock
<1>5. h + 1 > UnConfirmedH[n]
  BY <1>1
<1> HIDE DEF q, h
<1>6. /\ ledger' = [ledger EXCEPT ![n] = a]
      /\ Blocks' = [Blocks EXCEPT ![n] = Rest(q, h)]
      /\ BlockMessages' = [BlockMessages EXCEPT ![n] = Rest(<< >>, h + 1)]
      /\ blockChan' = [blockChan EXCEPT ![n] = chan \o Pick(<< >>, Due(<< >>, h + 1))]
      /\ \/ GenerateBlock(n, a, MessagePool[n], TRUE, packets)
         \/ NoMine(n, MessagePool[n], TRUE, packets)
  BY <1>1, <1>2, <1>5 DEF ExecuteBlock, q
<1> HIDE DEF a
<1> QED
  BY <1>1, <1>2, <1>3, <1>4, <1>6

\* A block message on the leader's tip is of the next height: it is not genesis.
LEMMA NextOfLeader ==
  ASSUME OneView, ViewInv, BlocksMined, LeadInv, NEW m \in BlockMessage,
         Arrived(Leader, m), PrevBlock(m.blk) = ledger[Leader].tip
  PROVE  Height(m.blk) = Height(ledger[Leader].tip) + 1
<1>1. Leader \in Node /\ Height(Disk[Leader]) \in Nat
  BY LeaderIs, HeightType, DiskAssumption
<1>2. IsMined(m.blk) /\ m.blk \in BlockId
  BY <1>1, ArrivedMined, BlockMessageFields DEF MinedMessages
<1>3. Height(m.blk) > 0 /\ Height(m.blk) \in Nat
  <2>1. Height(m.blk) \in Nat
    BY <1>2, HeightType
  <2> QED
    BY <1>1, <1>2, <2>1 DEF IsMined, LeadInv, MinedInTurn
<1>4. Height(PrevBlock(m.blk)) = Height(m.blk) - 1
  BY <1>2, <1>3, AncestorType DEF PrevBlock, Ancestor, BlockId, Height
<1> QED
  BY <1>3, <1>4

\* What the leader executes is one of its blocks, and the next one.
LEMMA LeaderWarranted ==
  ASSUME OneView, ViewInv, BlocksMined, LeadInv, NEW b \in ConfirmedBlocks, Warranted(Leader, b)
  PROVE  IsMined(b.blk) /\ Height(b.blk) = Height(ledger[Leader].tip) + 1
<1>1. Leader \in Node /\ Height(Disk[Leader]) \in Nat
  BY LeaderIs, HeightType, DiskAssumption
<1>2. CASE \E o \in Block[Leader] : b.blk = o.blk
  BY <1>1, <1>2 DEF BlocksMined, MinedMessages, LeadInv, LeaderInFront
<1>3. CASE \E m \in BlockMessage : Arrived(Leader, m) /\ Acceptable(Leader, m) /\ b.blk = m.blk
  <2>1. PICK m \in BlockMessage : Arrived(Leader, m) /\ Acceptable(Leader, m) /\ b.blk = m.blk
    BY <1>3
  <2>2. IsMined(m.blk)
    BY <1>1, <2>1, ArrivedMined DEF MinedMessages
  <2>3. Height(m.blk) = Height(ledger[Leader].tip) + 1
    BY <2>1, NextOfLeader DEF Acceptable
  <2> QED
    BY <2>1, <2>2, <2>3
<1>4. ~ \E pk \in net : pk.to = Leader /\ pk.msg.type = "DataSyncResp" /\ pk.msg.block = b
  BY DEF LeadInv, LeaderInFront
<1> QED
  BY <1>2, <1>3, <1>4 DEF Warranted

\* The leader's block at a height, if there is one.
LEMMA OneMinedBlock ==
  ASSUME LeadInv, NEW a, NEW b, IsMined(a), IsMined(b), Height(a) = Height(b)
  PROVE  a = b
<1>1. PICK x \in mined : x.blk = a
  BY DEF IsMined
<1>2. PICK y \in mined : y.blk = b
  BY DEF IsMined
<1> QED
  BY <1>1, <1>2 DEF LeadInv, MinedInTurn, OneBlockPerHeight

\* A step that neither mines nor touches the leader's blocks.
LEMMA LeadInvKept ==
  ASSUME LeadInv, UNCHANGED mined,
         UnConfirmedH'[Leader] = UnConfirmedH[Leader], BlockConfirm'[Leader] = BlockConfirm[Leader],
         ledger'[Leader].db = ledger[Leader].db, ledger'[Leader].tip = ledger[Leader].tip,
         \A o \in Block'[Leader] : o \in Block[Leader] \/ Height(o.blk) = Height(ledger[Leader].tip) + 1,
         Blocks'[Leader] = << >>, BlockMessages'[Leader] = << >>, blockChan'[Leader] = << >>,
         \A pk \in net' :
           \/ pk \in net
           \/ /\ ~ (pk.msg.type = "DataSync" /\ pk.msg.from = Leader)
              /\ ~ (pk.msg.type = "DataSyncResp" /\ pk.to = Leader)
  PROVE  LeadInv'
<1>1. MinedInTurn'
  BY DEF LeadInv, MinedInTurn, OneBlockPerHeight
<1>2. LeaderInFront'
  BY DEF LeadInv, LeaderInFront
<1> QED
  BY <1>1, <1>2 DEF LeadInv

LEMMA LeadExecutes ==
  ASSUME OneView, ViewInv, BlocksMined, LeadInv, NEW b \in ConfirmedBlocks,
         Leader \in Up, Executes(Leader, b)
  PROVE  LeadInv'
<1> DEFINE t == Height(ledger[Leader].tip)
<1>1. /\ TypeOK /\ Leader \in Node /\ IsLeader(Leader) /\ b \in BlockValidated
      /\ Block \in [Node -> SUBSET BlockMessage] /\ MessagePool[Leader] \in Seq(Proposal)
      /\ ledger[Leader] \in LedgerType /\ t \in Nat /\ UnConfirmedH[Leader] \in Nat
      /\ BlockConfirm \in [Node -> BOOLEAN] /\ blockChan \in [Node -> Seq(BlockMessage)]
      /\ Height(Disk[Leader]) \in Nat
  BY LeaderIs, HeightType, DiskAssumption
     DEF ViewInv, TypeOK, NodeTypeOK, LeaderTypeOK, LedgerType, ConfirmedBlocks
<1>2. IsMined(b.blk) /\ Height(b.blk) = t + 1
  BY LeaderWarranted DEF Executes
<1>3. Block'[Leader] = {o \in Block[Leader] : o.blk # b.blk}
  BY <1>1 DEF Executes, LeadInv, LeaderInFront
<1>4. Block'[Leader] = {}
  <2>1. ASSUME NEW o \in Block[Leader] PROVE o.blk = b.blk
    <3>1. IsMined(o.blk) /\ Height(o.blk) = Height(b.blk)
      BY <1>1, <1>2 DEF BlocksMined, MinedMessages, LeadInv, LeaderInFront
    <3> QED
      BY <1>2, <3>1, OneMinedBlock
  <2> QED
    BY <1>3, <2>1
<1>5a. PICK packets \in SUBSET net : \E cache, chan :
        ExecuteBlock(Leader, b, cache, chan, packets) /\ ChanLeft(Leader, chan)
  BY DEF Executes
<1>5. PICK cache, chan :
        ExecuteBlock(Leader, b, cache, chan, packets) /\ ChanLeft(Leader, chan)
  BY <1>5a
<1>6. chan = << >> /\ chan \o << >> = << >>
  BY <1>5 DEF ChanLeft, LeadInv, LeaderInFront
<1>7. CASE ~ TipStored(ledger[Leader])
  <2>1. /\ NoMine(Leader, MessagePool[Leader], BlockConfirm[Leader], packets)
        /\ UNCHANGED <<ledger, Blocks, BlockMessages>>
        /\ blockChan' = [blockChan EXCEPT ![Leader] = chan]
    BY <1>5, <1>7 DEF ExecuteBlock
  <2>2. /\ UNCHANGED <<mined, UnConfirmedH>> /\ BlockConfirm'[Leader] = BlockConfirm[Leader]
        /\ net' = packets /\ blockChan'[Leader] = << >>
    BY <1>1, <1>6, <2>1 DEF NoMine
  <2>3. Blocks[Leader] = << >> /\ BlockMessages[Leader] = << >>
    BY DEF LeadInv, LeaderInFront
  <2> QED
    BY <1>4, <2>1, <2>2, <2>3, LeadInvKept
<1>8. CASE TipStored(ledger[Leader])
  <2>1. /\ ledger'[Leader] \in LedgerType /\ ledger'[Leader].tip = b.blk
        /\ ledger'[Leader].db = ledger[Leader].db \cup {b}
        /\ Blocks'[Leader] = << >> /\ BlockMessages'[Leader] = << >>
        /\ blockChan'[Leader] = chan \o << >>
        /\ \/ GenerateBlock(Leader, ledger'[Leader], MessagePool[Leader], TRUE, packets)
           \/ NoMine(Leader, MessagePool[Leader], TRUE, packets)
    <3>1. /\ Blocks[Leader] = << >> /\ BlockMessages[Leader] = << >>
          /\ UnConfirmedH[Leader] <= t + 1
          /\ \A c \in ledger[Leader].db : Height(c.blk) <= t
      BY DEF LeadInv, LeaderInFront, MinedInTurn
    <3> QED
      BY <1>1, <1>2, <1>5, <1>8, <3>1, ExecutesInFront
  <2>2. /\ Height(ledger'[Leader].tip) = t + 1
        /\ UnConfirmedH[Leader] <= t + 1 /\ Height(Disk[Leader]) <= t + 1
    BY <1>1, <1>2, <2>1 DEF LeadInv, LeaderInFront, MinedInTurn
  <2>3. /\ \A x \in mined' : /\ x.by = Leader
                             /\ Height(Disk[Leader]) < Height(x.blk)
                             /\ Height(x.blk) <= UnConfirmedH'[Leader]
        /\ OneBlockPerHeight'
        /\ UnConfirmedH'[Leader] <= Height(ledger'[Leader].tip) + 1
        /\ BlockConfirm'[Leader] => UnConfirmedH'[Leader] <= Height(ledger'[Leader].tip)
        /\ \A pk \in net' : pk \in packets \/ pk.msg.type = "Block"
    <3>1. PICK l \in LedgerType : l = ledger'[Leader]
      BY <2>1
    <3>2. /\ Height(l.tip) = t + 1 /\ MinedInTurn
          /\ \/ GenerateBlock(Leader, l, MessagePool[Leader], TRUE, packets)
             \/ NoMine(Leader, MessagePool[Leader], TRUE, packets)
      BY <2>1, <2>2, <3>1 DEF LeadInv
    <3>3. /\ \A x \in mined' : /\ x.by = Leader
                               /\ Height(Disk[Leader]) < Height(x.blk)
                               /\ Height(x.blk) <= UnConfirmedH'[Leader]
          /\ OneBlockPerHeight'
          /\ UnConfirmedH'[Leader] <= Height(l.tip) + 1
          /\ BlockConfirm'[Leader] => UnConfirmedH'[Leader] <= Height(l.tip)
          /\ \A pk \in net' : pk \in packets \/ pk.msg.type = "Block"
      BY <1>1, <2>2, <3>2, LeaderMines
    <3> QED
      BY <3>1, <3>3
  <2>4. MinedInTurn'
    BY <2>3 DEF MinedInTurn
  <2>5. \A c \in ledger'[Leader].db : Height(c.blk) <= t + 1
    <3>1. \A c \in ledger[Leader].db : Height(c.blk) <= t /\ Height(c.blk) \in Nat
      BY <1>1, HeightType DEF LeadInv, LeaderInFront, LedgerType, BlockValidated
    <3> QED
      BY <1>1, <1>2, <2>1, <3>1
  <2>6. \A pk \in net' : /\ ~ (pk.msg.type = "DataSync" /\ pk.msg.from = Leader)
                         /\ ~ (pk.msg.type = "DataSyncResp" /\ pk.to = Leader)
    BY <2>3 DEF LeadInv, LeaderInFront
  <2>7. LeaderInFront'
    BY <1>4, <1>6, <2>1, <2>2, <2>5, <2>6 DEF LeaderInFront
  <2> QED
    BY <2>4, <2>7 DEF LeadInv
<1> QED
  BY <1>7, <1>8

\* What another node executes does not touch the leader.
LEMMA FollowerExecutes ==
  ASSUME OneView, ViewInv, LeadInv, NEW n \in Up, n # Leader,
         NEW b \in ConfirmedBlocks, Executes(n, b)
  PROVE  LeadInv'
<1>1. /\ n \in Node /\ Leader \in Node
      /\ ledger \in [Node -> LedgerType] /\ Blocks \in [Node -> Seq(BlockValidated)]
      /\ BlockMessages \in [Node -> Seq(BlockMessage)] /\ blockChan \in [Node -> Seq(BlockMessage)]
      /\ Block \in [Node -> SUBSET BlockMessage]
  BY LeaderIs, NodeType DEF ViewInv, TypeOK, NodeTypeOK
<1>2a. PICK packets \in SUBSET net : \E cache, chan : ExecuteBlock(n, b, cache, chan, packets)
  BY DEF Executes
<1>2. PICK cache, chan : ExecuteBlock(n, b, cache, chan, packets)
  BY <1>2a
<1>3. /\ UNCHANGED <<mined, UnConfirmedH>> /\ net' = packets
      /\ BlockConfirm'[Leader] = BlockConfirm[Leader]
  <2>1. \E l, confirm : \/ GenerateBlock(n, l, MessagePool[n], confirm, packets)
                        \/ NoMine(n, MessagePool[n], confirm, packets)
    BY <1>2 DEF ExecuteBlock
  <2> QED
    BY <1>1, <2>1, FollowerMines
<1>4. /\ UNCHANGED ledger \/ \E l : ledger' = [ledger EXCEPT ![n] = l]
      /\ UNCHANGED Blocks \/ \E q : Blocks' = [Blocks EXCEPT ![n] = q]
      /\ UNCHANGED BlockMessages \/ \E q : BlockMessages' = [BlockMessages EXCEPT ![n] = q]
      /\ \E c : blockChan' = [blockChan EXCEPT ![n] = c]
  <2>1. UNCHANGED ledger \/ \E l : ledger' = [ledger EXCEPT ![n] = l]
    BY <1>2 DEF ExecuteBlock
  <2>2. UNCHANGED Blocks \/ \E q : Blocks' = [Blocks EXCEPT ![n] = q]
    BY <1>2 DEF ExecuteBlock
  <2>3. UNCHANGED BlockMessages \/ \E q : BlockMessages' = [BlockMessages EXCEPT ![n] = q]
    BY <1>2 DEF ExecuteBlock
  <2>4. \E c : blockChan' = [blockChan EXCEPT ![n] = c]
    BY <1>2 DEF ExecuteBlock
  <2> QED
    BY <2>1, <2>2, <2>3, <2>4
<1>5. /\ ledger'[Leader] = ledger[Leader] /\ Blocks'[Leader] = Blocks[Leader]
      /\ BlockMessages'[Leader] = BlockMessages[Leader] /\ blockChan'[Leader] = blockChan[Leader]
  BY <1>1, <1>4
<1>6. Block'[Leader] = Block[Leader]
  BY <1>1 DEF Executes
<1>7. Blocks[Leader] = << >> /\ BlockMessages[Leader] = << >> /\ blockChan[Leader] = << >>
  BY DEF LeadInv, LeaderInFront
<1> QED
  BY <1>3, <1>5, <1>6, <1>7, LeadInvKept

LEMMA LeadTakes ==
  ASSUME OneView, ViewInv, BlocksMined, LeadInv, NEW n \in Up, NEW m \in BlockMessage, Takes(n, m)
  PROVE  LeadInv'
<1>1. /\ n \in Node /\ Leader \in Node
      /\ blockChan \in [Node -> Seq(BlockMessage)] /\ Block \in [Node -> SUBSET BlockMessage]
  BY LeaderIs, NodeType DEF ViewInv, TypeOK, NodeTypeOK
<1>2. PICK chan : ChanLeft(n, chan) /\ blockChan' = [blockChan EXCEPT ![n] = chan]
  BY DEF Takes
<1>3. /\ UNCHANGED <<ledger, Blocks, BlockMessages, mined, UnConfirmedH, BlockConfirm>>
      /\ Block' = [Block EXCEPT ![n] = {o \in @ : o.blk # m.blk} \cup {m}]
      /\ \A pk \in net' : pk \in net \/ pk.msg.type = "BlockConfirm"
  BY DEF Takes, leaderVars
<1>4. Blocks[Leader] = << >> /\ BlockMessages[Leader] = << >> /\ blockChan[Leader] = << >>
  BY DEF LeadInv, LeaderInFront
<1>5. blockChan'[Leader] = << >>
  BY <1>1, <1>2, <1>4 DEF ChanLeft
<1>6. n = Leader => Height(m.blk) = Height(ledger[Leader].tip) + 1
  <2> SUFFICES ASSUME n = Leader PROVE Height(m.blk) = Height(ledger[Leader].tip) + 1
    OBVIOUS
  <2>1. PrevBlock(m.blk) = ledger[Leader].tip /\ Arrived(Leader, m)
    BY DEF Takes, Acceptable
  <2> QED
    BY <1>1, <2>1, NextOfLeader
<1>7. \A o \in Block'[Leader] : o \in Block[Leader] \/ Height(o.blk) = Height(ledger[Leader].tip) + 1
  BY <1>1, <1>3, <1>6
<1> QED
  BY <1>3, <1>4, <1>5, <1>7, LeadInvKept

\* A block message is at most one above the leader's tip.
LEMMA LeadDefers ==
  ASSUME OneView, ViewInv, BlocksMined, LeadInv, NEW n \in Up, NEW m \in BlockMessage, Defers(n, m)
  PROVE  LeadInv'
<1>1. /\ n \in Node /\ Leader \in Node
      /\ blockChan \in [Node -> Seq(BlockMessage)] /\ BlockMessages \in [Node -> Seq(BlockMessage)]
      /\ UnConfirmedH[Leader] \in Nat /\ Height(ledger[Leader].tip) \in Nat /\ Height(m.blk) \in Nat
  BY LeaderIs, NodeType, HeightType, BlockMessageFields
     DEF ViewInv, TypeOK, NodeTypeOK, LeaderTypeOK, LedgerType
<1>2. n # Leader
  <2> SUFFICES ASSUME n = Leader PROVE FALSE
    OBVIOUS
  <2>1. PICK x \in mined : x.blk = m.blk
    BY <1>1, ArrivedMined DEF Defers, MinedMessages, IsMined
  <2>2. Height(m.blk) <= UnConfirmedH[Leader] /\ UnConfirmedH[Leader] <= Height(ledger[Leader].tip) + 1
    BY <2>1 DEF LeadInv, MinedInTurn
  <2>3. Height(ledger[Leader].tip) < Height(m.blk) - 1
    BY DEF Defers, Ahead
  <2> QED
    BY <1>1, <2>2, <2>3
<1>3a. PICK packets \in SUBSET net : \E chan : DeferBlock(n, m, chan, packets)
  BY DEF Defers
<1>3. PICK chan : DeferBlock(n, m, chan, packets)
  BY <1>3a
<1>4. \A pk \in net' : pk \in net \/ (pk.msg.type = "DataSync" /\ pk.msg.from = n)
  BY <1>3 DEF DeferBlock, StartDataSync, DataSyncMsg
<1>5. /\ UNCHANGED <<ledger, Blocks, Block, mined, UnConfirmedH, BlockConfirm>>
      /\ BlockMessages'[Leader] = BlockMessages[Leader] /\ blockChan'[Leader] = blockChan[Leader]
  BY <1>1, <1>2, <1>3 DEF DeferBlock, leaderVars, history
<1>6. Blocks[Leader] = << >> /\ BlockMessages[Leader] = << >> /\ blockChan[Leader] = << >>
  BY DEF LeadInv, LeaderInFront
<1> QED
  BY <1>2, <1>4, <1>5, <1>6, LeadInvKept

\* The leader mines on its tip when its last block is executed, or it does not
\* mine.
LEMMA LeadMines ==
  ASSUME OneView, ViewInv, LeadInv, NEW n \in Node, NEW l \in LedgerType, NEW pool \in Seq(Proposal),
         NEW packets \in SUBSET net,
         \/ GenerateBlock(n, l, pool, BlockConfirm[n], packets) /\ (n = Leader => BlockConfirm[n])
         \/ NoMine(n, pool, BlockConfirm[n], packets),
         l.db = ledger[n].db, l.tip = ledger[n].tip, ledger' = [ledger EXCEPT ![n] = l],
         UNCHANGED <<Blocks, BlockMessages, Block, blockChan>>
  PROVE  LeadInv'
<1>1. /\ Leader \in Node /\ TypeOK /\ ledger \in [Node -> LedgerType]
      /\ BlockConfirm \in [Node -> BOOLEAN] /\ UnConfirmedH \in [Node -> Nat]
  BY LeaderIs DEF ViewInv, TypeOK, LeaderTypeOK
<1>2. ledger'[Leader].db = ledger[Leader].db /\ ledger'[Leader].tip = ledger[Leader].tip
  BY <1>1
<1>3. Blocks[Leader] = << >> /\ BlockMessages[Leader] = << >> /\ blockChan[Leader] = << >>
  BY DEF LeadInv, LeaderInFront
<1>4. CASE n # Leader \/ NoMine(n, pool, BlockConfirm[n], packets)
  <2>1. CASE n # Leader
    <3>1. /\ UNCHANGED <<mined, UnConfirmedH>> /\ net' = packets
          /\ BlockConfirm'[Leader] = BlockConfirm[Leader]
      BY <2>1, FollowerMines
    <3> QED
      BY <1>2, <1>3, <3>1, LeadInvKept
  <2>2. CASE NoMine(n, pool, BlockConfirm[n], packets)
    <3>1. /\ UNCHANGED <<mined, UnConfirmedH>> /\ net' = packets
          /\ BlockConfirm'[Leader] = BlockConfirm[Leader]
      BY <1>1, <2>2 DEF NoMine
    <3> QED
      BY <1>2, <1>3, <3>1, LeadInvKept
  <2> QED
    BY <1>4, <2>1, <2>2
<1>5. CASE n = Leader /\ BlockConfirm[n] /\ GenerateBlock(n, l, pool, BlockConfirm[n], packets)
  <2>1. UnConfirmedH[Leader] <= Height(l.tip) /\ Height(Disk[Leader]) <= Height(l.tip) /\ MinedInTurn
    BY <1>5 DEF LeadInv, MinedInTurn, LeaderInFront
  <2>2. /\ \A x \in mined' : /\ x.by = Leader
                             /\ Height(Disk[Leader]) < Height(x.blk)
                             /\ Height(x.blk) <= UnConfirmedH'[Leader]
        /\ OneBlockPerHeight'
        /\ UnConfirmedH'[Leader] <= Height(l.tip) + 1
        /\ BlockConfirm'[Leader] => UnConfirmedH'[Leader] <= Height(l.tip)
        /\ \A pk \in net' : pk \in packets \/ pk.msg.type = "Block"
    BY <1>5, <2>1, LeaderMines
  <2>3. MinedInTurn'
    BY <1>2, <1>5, <2>2 DEF MinedInTurn
  <2>4. LeaderInFront'
    BY <1>2, <2>2 DEF LeadInv, LeaderInFront
  <2> QED
    BY <2>3, <2>4 DEF LeadInv
<1> QED
  BY <1>4, <1>5

LEMMA LeadAccepts ==
  ASSUME OneView, ViewInv, LeadInv, NEW n \in Up, NEW p \in Proposal, Accepts(n, p)
  PROVE  LeadInv'
<1> DEFINE pool == IF IsLeader(n) THEN Append(MessagePool[n], p) ELSE MessagePool[n]
           l    == WithLookup(ledger[n], p.zone)
<1>1. n \in Node /\ ledger[n] \in LedgerType /\ l \in LedgerType /\ pool \in Seq(Proposal)
  BY NodeType, WithLookupType, AppendProperties DEF ViewInv, TypeOK, LeaderTypeOK, Zone
<1>2. l.db = ledger[n].db /\ l.tip = ledger[n].tip
  BY <1>1, WithLookupKeeps
<1>3. PICK packets \in SUBSET net : AcceptProposal(n, p, packets)
  BY DEF Accepts
<1>4. /\ ledger' = [ledger EXCEPT ![n] = l]
      /\ \/ GenerateBlock(n, l, pool, BlockConfirm[n], packets) /\ BlockConfirm[n]
         \/ NoMine(n, pool, BlockConfirm[n], packets)
      /\ UNCHANGED <<Blocks, BlockMessages, Block, blockChan>>
  BY <1>3 DEF AcceptProposal, MineAtOnce
<1> HIDE DEF l, pool
<1> QED
  BY <1>1, <1>2, <1>4, LeadMines

LEMMA LeadInterrupt ==
  ASSUME OneView, ViewInv, LeadInv, UndisturbedStep, NEW n \in Up, Interrupt(n)
  PROVE  LeadInv'
<1>1. /\ n \in Node /\ ledger \in [Node -> LedgerType] /\ ledger[n] \in LedgerType
      /\ MessagePool[n] \in Seq(Proposal)
  BY NodeType DEF ViewInv, TypeOK, LeaderTypeOK
<1>2. n = Leader => BlockConfirm[n]
  BY <1>1, LeaderIs DEF UndisturbedStep
<1>3. /\ GenerateBlock(n, ledger[n], MessagePool[n], BlockConfirm[n], net)
      /\ UNCHANGED <<ledger, Blocks, BlockMessages, Block, blockChan>>
  BY DEF Interrupt, nodeVars
<1>4. ledger' = [ledger EXCEPT ![n] = ledger[n]]
  BY <1>1, <1>3
<1> QED
  BY <1>1, <1>2, <1>3, <1>4, LeadMines

LEMMA LeadRestart ==
  ASSUME OneView, ViewInv, LeadInv, UndisturbedStep, NEW n \in Up, Restart(n)
  PROVE  LeadInv'
<1>1. n \in Node /\ Leader \in Node /\ n # Leader /\ TypeOK
  BY NodeType, LeaderIs DEF UndisturbedStep, ViewInv
<1>2. \E l : ledger' = [ledger EXCEPT ![n] = l]
  BY DEF Restart
<1>3. /\ UNCHANGED mined /\ net' \subseteq net
      /\ UnConfirmedH'[Leader] = UnConfirmedH[Leader] /\ BlockConfirm'[Leader] = BlockConfirm[Leader]
      /\ ledger'[Leader] = ledger[Leader] /\ Block'[Leader] = Block[Leader]
      /\ Blocks'[Leader] = Blocks[Leader] /\ BlockMessages'[Leader] = BlockMessages[Leader]
      /\ blockChan'[Leader] = blockChan[Leader]
  BY <1>1, <1>2 DEF Restart, history, TypeOK, NodeTypeOK, LeaderTypeOK
<1>4. Blocks[Leader] = << >> /\ BlockMessages[Leader] = << >> /\ blockChan[Leader] = << >>
  BY DEF LeadInv, LeaderInFront
<1> QED
  BY <1>3, <1>4, LeadInvKept

LEMMA LeadInvNext ==
  ASSUME OneView, ViewInv, BlocksMined, LeadInv, Step, [UndisturbedStep]_vars
  PROVE  LeadInv'
<1>1. TypeOK /\ Leader \in Node
  BY LeaderIs DEF ViewInv
<1>2. Blocks[Leader] = << >> /\ BlockMessages[Leader] = << >> /\ blockChan[Leader] = << >>
  BY DEF LeadInv, LeaderInFront
<1>3. CASE UNCHANGED vars
  BY <1>2, <1>3, LeadInvKept DEF vars, nodeVars, leaderVars, history
<1>4. ASSUME NEW n \in Up, NEW b \in ConfirmedBlocks, Executes(n, b) PROVE LeadInv'
  BY <1>4, LeadExecutes, FollowerExecutes
<1>5. ASSUME NEW p \in Orders, Order(p) PROVE LeadInv'
  <2>1. /\ UNCHANGED <<Block, Blocks, BlockMessages, blockChan, mined, UnConfirmedH, BlockConfirm>>
        /\ \A pk \in net' : pk \in net \/ pk.msg.type = "Proposal"
    BY <1>5 DEF Order, nodeVars, leaderVars, history, ProposalMsg
  <2>2. ledger'[Leader].db = ledger[Leader].db /\ ledger'[Leader].tip = ledger[Leader].tip
    BY <1>1, <1>5, OrderLooksUp, LookedUpKeeps
  <2> QED
    BY <1>2, <2>1, <2>2, LeadInvKept
<1>6. CASE Idles
  <2>1. UNCHANGED <<Block, Blocks, BlockMessages, mined, UnConfirmedH, BlockConfirm>>
    BY <1>6 DEF Idles, history
  <2>2. ledger'[Leader].db = ledger[Leader].db /\ ledger'[Leader].tip = ledger[Leader].tip
    BY <1>1, <1>6, LookedUpKeeps DEF Idles
  <2>3. blockChan'[Leader] = << >>
    <3>1. CASE UNCHANGED blockChan
      BY <1>2, <3>1
    <3>2. ASSUME NEW n \in Up, NEW chan, ChanLeft(n, chan),
                 blockChan' = [blockChan EXCEPT ![n] = chan]
          PROVE  blockChan'[Leader] = << >>
      <4>1. n = Leader => chan = << >>
        BY <1>2, <3>2 DEF ChanLeft
      <4> QED
        BY <1>1, <1>2, <3>2, <4>1 DEF TypeOK, NodeTypeOK
    <3> QED
      BY <1>6, <3>1, <3>2 DEF Idles
  <2>4. \A pk \in net' :
          \/ pk \in net
          \/ /\ ~ (pk.msg.type = "DataSync" /\ pk.msg.from = Leader)
             /\ ~ (pk.msg.type = "DataSyncResp" /\ pk.to = Leader)
    <3>1. \A pk \in net : ~ (pk.msg.type = "DataSync" /\ pk.msg.from = Leader)
      BY DEF LeadInv, LeaderInFront
    <3> QED
      BY <1>6, <3>1 DEF Idles
  <2> QED
    BY <1>2, <2>1, <2>2, <2>3, <2>4, LeadInvKept
<1> QED
  BY <1>1, <1>3, <1>4, <1>5, <1>6, LeadTakes, LeadDefers, LeadAccepts, LeadInterrupt, LeadRestart
     DEF Step

\* The initial state: nothing is mined, and the leader has what is on its disk.
LEMMA LeadInvInit == OneView /\ Init => LeadInv
<1> SUFFICES ASSUME OneView, Init PROVE LeadInv
  OBVIOUS
<1>1. Leader \in Node /\ Disk[Leader] \in BlockId /\ Height(Disk[Leader]) \in Nat
  BY ViewInvInit, LeaderIs, DiskAssumption, HeightType
<1>2. ledger[Leader] = LoadedLedger(Disk[Leader])
  BY <1>1 DEF Init
<1>3. ledger[Leader].tip = Disk[Leader]
  BY <1>2 DEF LoadedLedger
<1>4. \A b \in ledger[Leader].db : Height(b.blk) <= Height(Disk[Leader])
  <2> SUFFICES ASSUME NEW b \in ledger[Leader].db PROVE Height(b.blk) <= Height(Disk[Leader])
    OBVIOUS
  <2>1. PICK h \in 0..Height(Disk[Leader]) : b.blk = Ancestor(Disk[Leader], h)
    BY <1>2 DEF LoadedLedger
  <2>2. Height(b.blk) = h
    BY <1>1, <2>1, AncestorType DEF BlockId
  <2> QED
    BY <1>1, <2>2
<1>5. MinedInTurn
  BY <1>1, <1>3 DEF Init, MinedInTurn, OneBlockPerHeight
<1>6. LeaderInFront
  BY <1>1, <1>3, <1>4 DEF Init, LeaderInFront
<1> QED
  BY <1>5, <1>6 DEF LeadInv

LEMMA BlocksMinedInit == Init => BlocksMined
<1> SUFFICES ASSUME Init PROVE BlocksMined
  OBVIOUS
<1>1. << >> \in Seq(MinedMessages)
  OBVIOUS
<1> QED
  BY <1>1 DEF Init, BlocksMined

ChainInv == ViewInv /\ BlocksMined /\ LeadInv

LEMMA ChainInvInit == OneView /\ Init => ChainInv
BY ViewInvInit, BlocksMinedInit, LeadInvInit DEF ChainInv

LEMMA ChainInvNext ==
  ASSUME OneView, ChainInv, ViewInv', Step, [UndisturbedStep]_vars
  PROVE  ChainInv'
BY BlocksMinedNext, LeadInvNext DEF ChainInv, ViewInv

LEMMA ConfirmsExecuted ==
  ASSUME OneView, ChainInv
  PROVE  ConfirmMeansExecuted
<1> SUFFICES ASSUME NEW n \in Node, IsLeader(n), BlockConfirm[n], NEW x \in mined
             PROVE  Height(x.blk) <= Height(ledger[n].tip)
  BY DEF ConfirmMeansExecuted
<1>1. n = Leader /\ TypeOK
  BY LeaderIs DEF ChainInv, ViewInv
<1>2. Height(x.blk) \in Nat /\ UnConfirmedH[n] \in Nat /\ Height(ledger[n].tip) \in Nat
  BY <1>1, HeightType DEF TypeOK, LeaderTypeOK, HistoryTypeOK, LedgerType
<1> QED
  BY <1>1, <1>2 DEF ChainInv, LeadInv, MinedInTurn

\* The invariants of a network of MyBft nodes with one view, and that its steps
\* are those of Step.
MyBftInv == ViewInv /\ CertInv

LEMMA MyBftInvInit == Init => MyBftInv
BY ViewInvInit, CertInit DEF MyBftInv

LEMMA MyBftInvNext ==
  ASSUME OneView, MyBftInv, [Next]_vars
  PROVE  MyBftInv' /\ Step
BY ViewInvNext, CertNext, StepKinds DEF MyBftInv

\* The leader that is not disturbed puts out one block per height, whatever is
\* lost, late or handled twice and whichever of the others restart: each of its
\* blocks is executed before it mines the next.
THEOREM LeaderKeepsTurn == OneView => (Spec /\ Undisturbed => []OneBlockPerHeight)
<1> SUFFICES ASSUME OneView PROVE Spec /\ Undisturbed => []OneBlockPerHeight
  OBVIOUS
<1>1. Init => MyBftInv /\ ChainInv
  BY MyBftInvInit, ChainInvInit
<1>2. MyBftInv /\ ChainInv /\ [Next]_vars /\ [UndisturbedStep]_vars => (MyBftInv /\ ChainInv)'
  BY MyBftInvNext, ChainInvNext DEF MyBftInv
<1>3. ChainInv => OneBlockPerHeight
  BY DEF ChainInv, LeadInv, MinedInTurn
<1> QED
  BY <1>1, <1>2, <1>3, PTL DEF Spec, Undisturbed

\* BlockConfirm tells the leader that is not disturbed that it has executed every
\* block it mined.
THEOREM ConfirmIsExecuted == OneView => (Spec /\ Undisturbed => []ConfirmMeansExecuted)
<1> SUFFICES ASSUME OneView PROVE Spec /\ Undisturbed => []ConfirmMeansExecuted
  OBVIOUS
<1>1. Init => MyBftInv /\ ChainInv
  BY MyBftInvInit, ChainInvInit
<1>2. MyBftInv /\ ChainInv /\ [Next]_vars /\ [UndisturbedStep]_vars => (MyBftInv /\ ChainInv)'
  BY MyBftInvNext, ChainInvNext DEF MyBftInv
<1>3. ChainInv => ConfirmMeansExecuted
  BY ConfirmsExecuted
<1> QED
  BY <1>1, <1>2, <1>3, PTL DEF Spec, Undisturbed

----------------------------------------------------------------------------
(* One certificate per height.                                             *)

\* The chain on every disk is the leader's, as far as it goes.
DisksOnOneChain ==
  \A n \in Node : /\ Height(Disk[n]) <= Height(Disk[Leader])
                  /\ Disk[n] = Ancestor(Disk[Leader], Height(Disk[n]))

\* Nodes vote for blocks that were mined, and for those on disk.
VotesMined ==
  \A k \in Node : \A blk \in signed[k] :
    IsMined(blk) \/ \E h \in 1..Height(Disk[Leader]) : blk = Ancestor(Disk[Leader], h)

LEMMA QuorumNotEmpty ==
  ASSUME NEW Q \in SUBSET Node, IsQuorum(N, Q)
  PROVE  Q # {}
<1>1. F(N) \in Int /\ F(N) >= 0
  BY NodeType DEF F
<1>2. Cardinality({}) = 0
  BY FS_EmptySet
<1> QED
  BY <1>1, <1>2 DEF IsQuorum, Check

LEMMA ConfirmedSigner ==
  ASSUME NEW blk, Confirmed(blk)
  PROVE  \E k \in Node : blk \in signed[k]
<1> DEFINE Q == {k \in Node : blk \in signed[k]}
<1>1. Q \in SUBSET Node /\ IsQuorum(N, Q)
  BY DEF Confirmed
<1>2. Q # {}
  BY <1>1, QuorumNotEmpty
<1> QED
  BY <1>2

\* Whoever confirmed them: a quorum has a member.
LEMMA ConfirmedAreOne ==
  ASSUME OneCertificate, NEW a, NEW b, Confirmed(a), Confirmed(b), Height(a) = Height(b)
  PROVE  a = b
<1>1. PICK n \in Node : a \in signed[n]
  BY ConfirmedSigner
<1>2. PICK k \in Node : b \in signed[k]
  BY ConfirmedSigner
<1> QED
  BY <1>1, <1>2 DEF OneCertificate

LEMMA MinedGrows ==
  ASSUME Step
  PROVE  mined \subseteq mined'
<1>1. ASSUME NEW n, NEW l, NEW pool, NEW confirm, NEW packets,
             GenerateBlock(n, l, pool, confirm, packets) \/ NoMine(n, pool, confirm, packets)
      PROVE  mined \subseteq mined'
  BY <1>1 DEF GenerateBlock, Mine, NoMine
<1>2. ASSUME NEW n \in Up, NEW b \in ConfirmedBlocks, Executes(n, b) PROVE mined \subseteq mined'
  <2>1. \E l, confirm, packets :
          \/ GenerateBlock(n, l, MessagePool[n], confirm, packets)
          \/ NoMine(n, MessagePool[n], confirm, packets)
    BY <1>2 DEF Executes, ExecuteBlock
  <2> QED
    BY <1>1, <2>1
<1>3. ASSUME NEW n \in Up, NEW p \in Proposal, Accepts(n, p) PROVE mined \subseteq mined'
  <2>1. \E l, pool, packets :
          \/ GenerateBlock(n, l, pool, BlockConfirm[n], packets)
          \/ NoMine(n, pool, BlockConfirm[n], packets)
    BY <1>3 DEF Accepts, AcceptProposal
  <2> QED
    BY <1>1, <2>1
<1>4. ASSUME NEW n \in Up, Interrupt(n) PROVE mined \subseteq mined'
  BY <1>1, <1>4 DEF Interrupt
<1>5. ASSUME NEW n \in Up, NEW m, Takes(n, m) \/ Defers(n, m) PROVE mined \subseteq mined'
  BY <1>5 DEF Takes, Defers, DeferBlock, history
<1>6. ASSUME NEW n \in Up, Restart(n) PROVE mined \subseteq mined'
  BY <1>6 DEF Restart, history
<1>7. ASSUME NEW p \in Orders, Order(p) PROVE mined \subseteq mined'
  BY <1>7 DEF Order, history
<1>8. Idles => mined \subseteq mined'
  BY DEF Idles, history
<1> QED
  BY <1>2, <1>3, <1>4, <1>5, <1>6, <1>7, <1>8 DEF Step

LEMMA VotesMinedInit == OneView /\ DisksOnOneChain /\ Init => VotesMined
<1> SUFFICES ASSUME OneView, DisksOnOneChain, Init, NEW k \in Node, NEW blk \in signed[k]
             PROVE  \E h \in 1..Height(Disk[Leader]) : blk = Ancestor(Disk[Leader], h)
  BY DEF VotesMined
<1>1. Leader \in Node /\ Disk[Leader] \in Seq(Entry) /\ Height(Disk[Leader]) \in Nat
  BY ViewInvInit, LeaderIs, DiskAssumption, HeightType DEF BlockId
<1>2. PICK n \in Node : \E h \in 1..Height(Disk[n]) : blk = Ancestor(Disk[n], h)
  BY DEF Init
<1>3. PICK h \in 1..Height(Disk[n]) : blk = Ancestor(Disk[n], h)
  BY <1>2
<1>4. Height(Disk[n]) \in Nat
  BY DiskAssumption, HeightType
<1>5. Height(Disk[n]) \in 0..Height(Disk[Leader]) /\ Disk[n] = Ancestor(Disk[Leader], Height(Disk[n]))
  BY <1>1, <1>4 DEF DisksOnOneChain
<1>6. h \in 0..Height(Disk[n]) /\ h \in 1..Height(Disk[Leader])
  BY <1>1, <1>4, <1>5
<1>7. Ancestor(Ancestor(Disk[Leader], Height(Disk[n])), h) = Ancestor(Disk[Leader], h)
  BY <1>1, <1>5, <1>6, AncestorOfAncestor
<1> QED
  BY <1>3, <1>5, <1>6, <1>7

LEMMA VotesMinedNext ==
  ASSUME TypeOK, BlocksMined, VotesMined, Step
  PROVE  VotesMined'
<1>1. \A blk : IsMined(blk) => IsMined(blk)'
  BY MinedGrows DEF IsMined
<1>2. signed \in [Node -> SUBSET BlockId]
  BY DEF TypeOK, HistoryTypeOK
<1>3. CASE UNCHANGED signed
  BY <1>1, <1>3 DEF VotesMined
<1>4. ASSUME NEW n \in Up, NEW m \in BlockMessage,
             signed' = [signed EXCEPT ![n] = @ \cup {m.blk}], Arrived(n, m)
      PROVE  VotesMined'
  <2>1. IsMined(m.blk)
    BY <1>4, NodeType, ArrivedMined DEF MinedMessages
  <2>2. \A k \in Node : \A blk \in signed'[k] : blk \in signed[k] \/ blk = m.blk
    BY <1>2, <1>4
  <2> QED
    BY <1>1, <2>1, <2>2 DEF VotesMined
<1> QED
  BY <1>3, <1>4, SignedStep

\* The votes for one height are for one block.
LEMMA OneVotePerHeight ==
  ASSUME OneView, DisksOnOneChain, ChainInv, VotesMined,
         NEW i \in Node, NEW k \in Node, NEW a \in signed[i], NEW b \in signed[k],
         Height(a) = Height(b)
  PROVE  a = b
<1>1. Leader \in Node /\ Disk[Leader] \in Seq(Entry) /\ Height(Disk[Leader]) \in Nat
  BY LeaderIs, DiskAssumption, HeightType DEF BlockId, ChainInv
<1>2. \A blk : IsMined(blk) => Height(blk) > Height(Disk[Leader])
  BY DEF IsMined, ChainInv, LeadInv, MinedInTurn
<1>3. ASSUME NEW h \in 1..Height(Disk[Leader])
      PROVE  Height(Ancestor(Disk[Leader], h)) = h /\ ~ (h > Height(Disk[Leader]))
  BY <1>1, AncestorType
<1>4. CASE IsMined(a) /\ IsMined(b)
  BY <1>4, OneMinedBlock DEF ChainInv
<1>5. CASE ~ IsMined(a)
  <2>1. PICK h \in 1..Height(Disk[Leader]) : a = Ancestor(Disk[Leader], h)
    BY <1>5 DEF VotesMined
  <2>2. ~ IsMined(b)
    BY <1>2, <1>3, <2>1
  <2>3. PICK g \in 1..Height(Disk[Leader]) : b = Ancestor(Disk[Leader], g)
    BY <2>2 DEF VotesMined
  <2> QED
    BY <1>3, <2>1, <2>3
<1>6. CASE ~ IsMined(b)
  <2>1. PICK h \in 1..Height(Disk[Leader]) : b = Ancestor(Disk[Leader], h)
    BY <1>6 DEF VotesMined
  <2>2. ~ IsMined(a)
    BY <1>2, <1>3, <2>1
  <2>3. PICK g \in 1..Height(Disk[Leader]) : a = Ancestor(Disk[Leader], g)
    BY <2>2 DEF VotesMined
  <2> QED
    BY <1>3, <2>1, <2>3
<1> QED
  BY <1>4, <1>5, <1>6

LEMMA VotesAgree ==
  ASSUME OneView, DisksOnOneChain, ChainInv, VotesMined
  PROVE  OneCertificate
<1> SUFFICES ASSUME NEW i \in Node, NEW k \in Node, NEW a \in signed[i], NEW b \in signed[k],
                    Height(a) = Height(b)
             PROVE  a = b
  BY DEF OneCertificate
<1> QED
  BY OneVotePerHeight

\* The other way to it: in a network whose quorums meet, one vote per node and
\* height, the guard that ValidateBlock lacks, is enough, whatever the leader does.
THEOREM SingleVotesSuffice ==
  QuorumsMeet(N) =>
    [](  (\A k \in Node : \A a, b \in signed[k] : Height(a) = Height(b) => a = b)
       => OneCertificate)
<1> SUFFICES ASSUME QuorumsMeet(N)
             PROVE  []((\A k \in Node : \A a, b \in signed[k] : Height(a) = Height(b) => a = b)
                         => OneCertificate)
  OBVIOUS
<1>1. (\A k \in Node : \A a, b \in signed[k] : Height(a) = Height(b) => a = b) => OneCertificate
  <2> SUFFICES ASSUME \A k \in Node : \A a, b \in signed[k] : Height(a) = Height(b) => a = b,
                      NEW a, NEW b, Confirmed(a), Confirmed(b), Height(a) = Height(b)
               PROVE  a = b
    BY DEF OneCertificate
  <2> DEFINE Q == {k \in Node : a \in signed[k]}
             R == {k \in Node : b \in signed[k]}
  <2>1. Q \in SUBSET Node /\ R \in SUBSET Node /\ IsQuorum(N, Q) /\ IsQuorum(N, R)
    BY DEF Confirmed
  <2>2. Q \cap R # {}
    <3> HIDE DEF Q, R
    <3> QED
      BY <2>1, QuorumsIntersect
  <2> QED
    BY <2>2
<1> QED
  BY <1>1, PTL

LEMMA OnlyGenesisAtZero ==
  ASSUME NEW blk \in BlockId
  PROVE  Height(blk) = 0 <=> blk = Genesis
BY EmptySeq DEF BlockId, Height, Genesis

\* With one certificate per height, the stored blocks agree.
LEMMA CertificatesAgree ==
  ASSUME TypeOK, StoredConfirmed, OneCertificate
  PROVE  Agreement
<1> SUFFICES ASSUME NEW n \in Node, NEW k \in Node, NEW b \in ledger[n].db, NEW c \in ledger[k].db,
                    Height(b.blk) = Height(c.blk)
             PROVE  b.blk = c.blk
  BY DEF Agreement
<1>1. b.blk \in BlockId /\ c.blk \in BlockId
  BY DEF TypeOK, LedgerType, BlockValidated
<1>2. b.blk = Genesis <=> c.blk = Genesis
  BY <1>1, OnlyGenesisAtZero
<1>3. CASE b.blk # Genesis
  BY <1>1, <1>2, <1>3, ConfirmedAreOne DEF StoredConfirmed
<1> QED
  BY <1>2, <1>3

\* Where the leader is not disturbed and the disks hold one chain, a quorum
\* confirms at most one block of each height...
THEOREM OneBlockConfirmed == OneView /\ DisksOnOneChain => (Spec /\ Undisturbed => []OneCertificate)
<1> SUFFICES ASSUME OneView, DisksOnOneChain PROVE Spec /\ Undisturbed => []OneCertificate
  OBVIOUS
<1> DEFINE Inv == MyBftInv /\ ChainInv /\ VotesMined
<1>1. Init => Inv
  BY MyBftInvInit, ChainInvInit, VotesMinedInit
<1>2. Inv /\ [Next]_vars /\ [UndisturbedStep]_vars => Inv'
  BY MyBftInvNext, ChainInvNext, VotesMinedNext DEF MyBftInv, ChainInv, ViewInv
<1>3. ChainInv /\ VotesMined => OneCertificate
  BY VotesAgree
<1> QED
  BY <1>1, <1>2, <1>3, PTL DEF Spec, Undisturbed

\* ...and all nodes store the same block at every height, also in a network of
\* 2, 3 or 6 nodes, whose quorums need not meet.
THEOREM NodesAgree == OneView /\ DisksOnOneChain => (Spec /\ Undisturbed => []Agreement)
<1> SUFFICES ASSUME OneView, DisksOnOneChain PROVE Spec /\ Undisturbed => []Agreement
  OBVIOUS
<1>1. Init => CertInv
  BY CertInit
<1>2. CertInv /\ [Next]_vars => CertInv'
  BY CertNext
<1>3. CertInv /\ OneCertificate => Agreement
  BY CertificatesStored, CertificatesAgree DEF CertInv
<1>4. Spec /\ Undisturbed => []OneCertificate
  BY OneBlockConfirmed
<1> QED
  BY <1>1, <1>2, <1>3, <1>4, PTL DEF Spec

----------------------------------------------------------------------------
(* The chain on one node's disk.  Where no two blocks of one height are    *)
(* confirmed, what a node executes either extends its chain or is on it.   *)

\* Who confirmed a block had stored its predecessor, which a quorum confirmed.
ParentsConfirmed ==
  \A k \in Node : \A blk \in signed[k] : PrevBlock(blk) = Genesis \/ Confirmed(PrevBlock(blk))

TipIsHighest == \A n \in Node : \A b \in ledger[n].db : Height(b.blk) <= Height(ledger[n].tip)

PathInv == ViewInv /\ StoredConfirmed /\ QueuesWait /\ ParentsConfirmed /\ TipIsHighest /\ ChainUnbroken

\* What a quorum confirmed stays confirmed.
LEMMA ConfirmedStays ==
  ASSUME \A k \in Node : signed[k] \subseteq signed'[k], NEW blk, Confirmed(blk)
  PROVE  Confirmed(blk)'
<1> DEFINE Q == {k \in Node : blk \in signed[k]}
           R == {k \in Node : blk \in signed'[k]}
<1>1. Q \subseteq R /\ IsQuorum(N, Q)
  BY DEF Confirmed
<1>2. IsQuorum(N, R)
  BY <1>1, QuorumGrows
<1> QED
  BY <1>2 DEF Confirmed

LEMMA SignedGrows ==
  ASSUME TypeOK, Step, NEW k \in Node
  PROVE  signed[k] \subseteq signed'[k]
<1>1. signed \in [Node -> SUBSET BlockId]
  BY DEF TypeOK, HistoryTypeOK
<1> QED
  BY <1>1, SignedStep, NodeType

\* The tip, once it is stored, is confirmed, as every block a node executed.
LEMMA TipConfirmed ==
  ASSUME TypeOK, StoredConfirmed, NEW n \in Node, NEW blk, Stored(ledger[n], blk), blk # Genesis
  PROVE  Confirmed(blk) /\ blk \in BlockId
<1>1. PICK b \in ledger[n].db : b.blk = blk
  BY DEF Stored
<1> QED
  BY <1>1 DEF StoredConfirmed, TypeOK, LedgerType, BlockValidated

LEMMA ParentsConfirmedNext ==
  ASSUME TypeOK, StoredConfirmed, ParentsConfirmed, Step
  PROVE  ParentsConfirmed'
<1>1. signed \in [Node -> SUBSET BlockId]
  BY DEF TypeOK, HistoryTypeOK
<1>2. ASSUME NEW n \in Up, NEW m \in BlockMessage, TipStored(ledger[n]),
             PrevBlock(m.blk) = ledger[n].tip
      PROVE  PrevBlock(m.blk) = Genesis \/ Confirmed(PrevBlock(m.blk))
  BY <1>2, NodeType, TipConfirmed DEF TipStored
<1> SUFFICES ASSUME NEW k \in Node, NEW blk \in signed'[k]
             PROVE  PrevBlock(blk) = Genesis \/ Confirmed(PrevBlock(blk))'
  BY DEF ParentsConfirmed
<1>3. PrevBlock(blk) = Genesis \/ Confirmed(PrevBlock(blk))
  BY <1>1, <1>2, SignedStep DEF ParentsConfirmed
<1> QED
  BY <1>3, SignedGrows, ConfirmedStays

\* A confirmed block of at most the next height is on the chain of the node, or
\* its predecessor is the tip.
LEMMA OnChainOrNext ==
  ASSUME PathInv, OneCertificate, NEW n \in Node, NEW blk \in BlockId, Confirmed(blk),
         Height(blk) <= Height(ledger[n].tip) + 1
  PROVE  \/ /\ Height(blk) <= Height(ledger[n].tip)
            /\ blk = Ancestor(ledger[n].tip, Height(blk)) /\ Stored(ledger[n], blk)
         \/ /\ Height(blk) = Height(ledger[n].tip) + 1
            /\ PrevBlock(blk) = ledger[n].tip
<1> DEFINE tip == ledger[n].tip
           h   == Height(blk)
<1>1. /\ tip \in BlockId /\ tip \in Seq(Entry) /\ blk \in Seq(Entry)
      /\ Height(tip) \in Nat /\ h \in Nat
  BY HeightType DEF PathInv, ViewInv, TypeOK, LedgerType, BlockId
<1>2. ASSUME NEW j \in 0..Height(tip)
      PROVE  /\ Stored(ledger[n], Ancestor(tip, j)) /\ Height(Ancestor(tip, j)) = j
             /\ Ancestor(tip, j) \in BlockId
             /\ j > 0 => Confirmed(Ancestor(tip, j))
  <2>1. Stored(ledger[n], Ancestor(tip, j))
    BY DEF PathInv, ChainUnbroken, ReadableTo
  <2>2. Height(Ancestor(tip, j)) = j /\ Ancestor(tip, j) \in BlockId
    BY <1>1, AncestorType DEF BlockId
  <2>3. j > 0 => Ancestor(tip, j) # Genesis
    BY <2>2, OnlyGenesisAtZero
  <2> QED
    BY <2>1, <2>2, <2>3, TipConfirmed DEF PathInv, ViewInv
<1>3. CASE h <= Height(tip)
  <2>1. h \in 0..Height(tip)
    BY <1>1, <1>3
  <2>2. ASSUME h = 0 PROVE blk = Ancestor(tip, h)
    BY <1>2, <2>1, <2>2, OnlyGenesisAtZero
  <2>3. ASSUME h # 0 PROVE blk = Ancestor(tip, h)
    BY <1>1, <1>2, <2>1, <2>3, ConfirmedAreOne
  <2>4. blk = Ancestor(tip, h)
    BY <2>2, <2>3
  <2> QED
    BY <1>2, <1>3, <2>1, <2>4
<1>4. CASE h = Height(tip) + 1
  <2>1. PICK k \in Node : blk \in signed[k]
    BY ConfirmedSigner
  <2>2. PrevBlock(blk) = Genesis \/ Confirmed(PrevBlock(blk))
    BY <2>1 DEF PathInv, ParentsConfirmed
  <2>3. PrevBlock(blk) \in BlockId /\ Height(PrevBlock(blk)) = Height(tip)
    BY <1>1, <1>4, AncestorsOfPrev, PrevBlockType DEF BlockId
  <2>4. ASSUME Height(tip) = 0 PROVE PrevBlock(blk) = tip
    BY <1>1, <2>3, <2>4, OnlyGenesisAtZero
  <2>5. ASSUME Height(tip) # 0 PROVE PrevBlock(blk) = tip
    <3>1. Height(tip) \in 0..Height(tip) /\ Height(tip) > 0 /\ Ancestor(tip, Height(tip)) = tip
      BY <1>1, <2>5, AncestorsOfPrev
    <3>2. Confirmed(tip)
      BY <1>2, <3>1
    <3>3. Confirmed(PrevBlock(blk))
      BY <2>2, <2>3, <2>5, OnlyGenesisAtZero
    <3> QED
      BY <1>1, <2>3, <3>2, <3>3, ConfirmedAreOne
  <2> QED
    BY <1>4, <2>4, <2>5
<1> QED
  BY <1>1, <1>3, <1>4

\* What executing b makes of the ledger of n: nothing but fewer lookups, or b on
\* top.  Either way the old chain is part of the new one, and b is on it.
Extended(l, k, b) ==
  /\ Height(l.tip) <= Height(k.tip)
  /\ \A h \in 0..Height(l.tip) : Ancestor(k.tip, h) = Ancestor(l.tip, h)
  /\ Height(b.blk) <= Height(k.tip) /\ b.blk = Ancestor(k.tip, Height(b.blk))
  /\ k.zdb = {e \in l.zdb : e.zone \notin ZonesOf(b.blk)}
  /\ \/ k.db = l.db /\ k.tip = l.tip
     \/ /\ k.db = l.db \cup {b} /\ k.tip = b.blk
        /\ Height(b.blk) = Height(l.tip) + 1 /\ PrevBlock(b.blk) = l.tip

LEMMA AddBlockExtends ==
  ASSUME PathInv, OneCertificate, NEW n \in Node, NEW b \in ConfirmedBlocks,
         Height(b.blk) <= Height(ledger[n].tip) + 1
  PROVE  Extended(ledger[n], AddBlock(ledger[n], b), b)
<1> DEFINE l == ledger[n]
           k == AddBlock(l, b)
<1>1. /\ l.tip \in Seq(Entry) /\ Height(l.tip) \in Nat
      /\ b.blk \in Seq(Entry) /\ Height(b.blk) \in Nat
      /\ b.blk \in BlockId /\ Confirmed(b.blk)
  BY HeightType DEF PathInv, ViewInv, TypeOK, LedgerType, BlockId, ConfirmedBlocks, BlockValidated
<1>2. CASE /\ Height(b.blk) <= Height(l.tip)
           /\ b.blk = Ancestor(l.tip, Height(b.blk)) /\ Stored(l, b.blk)
  BY <1>1, <1>2 DEF AddBlock, Extended
<1>3. CASE Height(b.blk) = Height(l.tip) + 1 /\ PrevBlock(b.blk) = l.tip
  <2>1. ~ Stored(l, b.blk)
    BY <1>1, <1>3 DEF Stored, PathInv, TipIsHighest
  <2>2. k.db = l.db \cup {b} /\ k.tip = b.blk /\ k.zdb = {e \in l.zdb : e.zone \notin ZonesOf(b.blk)}
    BY <1>1, <1>3, <2>1 DEF AddBlock
  <2>3. /\ Ancestor(b.blk, Height(b.blk)) = b.blk
        /\ \A h \in 0..Height(l.tip) : Ancestor(b.blk, h) = Ancestor(l.tip, h)
    BY <1>1, <1>3, AncestorsOfPrev
  <2>4. Height(b.blk) <= Height(b.blk) /\ Height(l.tip) <= Height(b.blk)
    BY <1>1, <1>3
  <2> HIDE DEF l, k
  <2>5. Extended(l, k, b)
    BY <1>3, <2>2, <2>3, <2>4 DEF Extended
  <2> QED
    BY <2>5 DEF l, k
<1> QED
  BY <1>1, <1>2, <1>3, OnChainOrNext

\* What becomes of the ledgers and of what was reported: a node executes a block
\* of at most its next height, lookups are cached, or a node is restarted.
Stores(n, b) ==
  /\ ledger' = [ledger EXCEPT ![n] = AddBlock(@, b)]
  /\ replied' = [replied EXCEPT ![n] =
       @ \cup {ProposalsOf(b.blk)[i] : i \in DOMAIN ProposalsOf(b.blk)}]
  /\ Height(b.blk) <= Height(ledger[n].tip) + 1

Restarts(n) ==
  /\ \/ UNCHANGED ledger
     \/ RestartWipes /\ ledger' = [ledger EXCEPT ![n] = GenesisLedger]
  /\ UNCHANGED replied

LEMMA LedgerStep ==
  ASSUME TypeOK, QueuesWait, Step
  PROVE  \/ \E n \in Node, b \in ConfirmedBlocks : Stores(n, b)
         \/ \E n \in Node : Restarts(n)
         \/ LookedUp /\ UNCHANGED replied
<1>1. Up \subseteq Node /\ ledger \in [Node -> LedgerType]
  BY NodeType DEF TypeOK
<1>2. ASSUME UNCHANGED ledger PROVE LookedUp
  BY <1>2 DEF LookedUp
<1>3. ASSUME NEW n \in Up, NEW b \in ConfirmedBlocks, Executes(n, b)
      PROVE  Stores(n, b) \/ (LookedUp /\ UNCHANGED replied)
  <2>1. n \in Node /\ b \in BlockValidated
    BY <1>1 DEF ConfirmedBlocks
  <2>2. \E cache, chan, packets : ExecuteBlock(n, b, cache, chan, packets)
    BY <1>3 DEF Executes
  <2> QED
    BY <1>1, <1>2, <2>1, <2>2, ExecuteBlockQueues DEF Stores
<1>4. ASSUME NEW n \in Up, NEW m \in BlockMessage, Takes(n, m) \/ Defers(n, m)
      PROVE  LookedUp /\ UNCHANGED replied
  BY <1>2, <1>4 DEF Takes, Defers, DeferBlock, history
<1>5. ASSUME NEW n \in Up, NEW p \in Proposal, Accepts(n, p)
      PROVE  LookedUp /\ UNCHANGED replied
  BY <1>1, <1>5, AcceptLooksUp DEF Accepts, AcceptProposal
<1>6. ASSUME NEW p \in Orders, Order(p) PROVE LookedUp /\ UNCHANGED replied
  BY <1>1, <1>6, OrderLooksUp DEF Order, history
<1>7. ASSUME NEW n \in Up, Interrupt(n) PROVE LookedUp /\ UNCHANGED replied
  BY <1>2, <1>7 DEF Interrupt
<1>8. ASSUME NEW n \in Up, Restart(n) PROVE Restarts(n)
  BY <1>1, <1>8 DEF Restart, Restarts, history
<1>9. Idles => LookedUp /\ UNCHANGED replied
  BY DEF Idles, history
<1> QED
  BY <1>1, <1>3, <1>4, <1>5, <1>6, <1>7, <1>8, <1>9 DEF Step

\* A ledger that can be walked from its tip to genesis, and holds nothing above.
Walkable(l) == ReadableTo(l, 0) /\ \A b \in l.db : Height(b.blk) <= Height(l.tip)

LEMMA PathInvMeans ==
  PathInv <=> /\ ViewInv /\ StoredConfirmed /\ QueuesWait /\ ParentsConfirmed
              /\ \A n \in Node : Walkable(ledger[n])
BY DEF PathInv, TipIsHighest, ChainUnbroken, Walkable

LEMMA ExtendedWalkable ==
  ASSUME NEW l \in LedgerType, NEW k \in LedgerType, NEW b \in BlockValidated,
         Extended(l, k, b), Walkable(l)
  PROVE  Walkable(k)
<1>1. /\ Height(l.tip) \in Nat /\ Height(k.tip) \in Nat /\ Height(b.blk) \in Nat
      /\ b.blk \in Seq(Entry)
      /\ \A c \in l.db : Height(c.blk) \in Nat
  BY HeightType DEF LedgerType, BlockValidated, BlockId
<1>2. CASE k.db = l.db /\ k.tip = l.tip
  BY <1>2 DEF Walkable, ReadableTo, Stored
<1>3. CASE /\ k.db = l.db \cup {b} /\ k.tip = b.blk
           /\ Height(b.blk) = Height(l.tip) + 1
  <2>1. \A c \in k.db : Height(c.blk) <= Height(k.tip)
    BY <1>1, <1>3 DEF Walkable
  <2>2. ASSUME NEW j \in 0..Height(k.tip) PROVE Stored(k, Ancestor(k.tip, j))
    <3>1. CASE j = Height(k.tip)
      BY <1>1, <1>3, <3>1, AncestorsOfPrev DEF Stored
    <3>2. CASE j # Height(k.tip)
      <4>1. j \in 0..Height(l.tip)
        BY <1>1, <1>3, <3>2
      <4>2. Stored(l, Ancestor(l.tip, j)) /\ Ancestor(k.tip, j) = Ancestor(l.tip, j)
        BY <4>1 DEF Walkable, ReadableTo, Extended
      <4> QED
        BY <1>3, <4>2 DEF Stored
    <3> QED
      BY <3>1, <3>2
  <2> QED
    BY <2>1, <2>2 DEF Walkable, ReadableTo
<1> QED
  BY <1>2, <1>3 DEF Extended

LEMMA GenesisWalkable == Walkable(GenesisLedger)
<1>1. Len(Genesis) = 0
  BY DEF Genesis
<1>2. /\ Height(GenesisLedger.tip) = 0
      /\ \A b \in GenesisLedger.db : Height(b.blk) = 0
  BY <1>1 DEF Height, GenesisLedger
<1>3. Ancestor(Genesis, 0) = Genesis
  BY SubSeqEmpty DEF Ancestor, Genesis
<1>4. Stored(GenesisLedger, Genesis)
  BY DEF Stored, GenesisLedger
<1>5. \A j \in 0..0 : j = 0
  OBVIOUS
<1> QED
  BY <1>2, <1>3, <1>4, <1>5 DEF Walkable, ReadableTo, GenesisLedger

LEMMA PathInvNext ==
  ASSUME PathInv, OneCertificate, ViewInv', StoredConfirmed', Step
  PROVE  PathInv'
<1>1. /\ ViewInv /\ TypeOK /\ StoredConfirmed /\ QueuesWait /\ ParentsConfirmed
      /\ \A n \in Node : Walkable(ledger[n])
  BY PathInvMeans DEF ViewInv
<1>2. QueuesWait' /\ ParentsConfirmed'
  BY <1>1, QueuesWaitNext, ParentsConfirmedNext
<1>3. /\ ledger \in [Node -> LedgerType] /\ ledger' \in [Node -> LedgerType]
      /\ ConfirmedBlocks \subseteq BlockValidated
  BY DEF PathInv, ViewInv, TypeOK, ConfirmedBlocks
<1>4. ASSUME NEW n \in Node PROVE Walkable(ledger'[n])
  <2>1. ASSUME NEW i \in Node, NEW b \in ConfirmedBlocks, Stores(i, b)
        PROVE  Walkable(ledger'[n])
    <3>1. CASE n = i
      <4>1. ledger'[n] = AddBlock(ledger[n], b) /\ Height(b.blk) <= Height(ledger[n].tip) + 1
        BY <1>3, <2>1, <3>1 DEF Stores
      <4>2. Extended(ledger[n], ledger'[n], b)
        BY <4>1, AddBlockExtends
      <4> QED
        BY <1>1, <1>3, <4>2, ExtendedWalkable
    <3>2. CASE n # i
      BY <1>1, <1>3, <2>1, <3>2 DEF Stores
    <3> QED
      BY <3>1, <3>2
  <2>2. ASSUME NEW i \in Node, Restarts(i) PROVE Walkable(ledger'[n])
    BY <1>1, <1>3, <2>2, GenesisWalkable DEF Restarts
  <2>3. ASSUME LookedUp PROVE Walkable(ledger'[n])
    <3>1. ledger'[n].db = ledger[n].db /\ ledger'[n].tip = ledger[n].tip
      BY <1>1, <2>3, LookedUpKeeps DEF ViewInv
    <3> QED
      BY <1>1, <3>1 DEF Walkable, ReadableTo, Stored
  <2> QED
    BY <1>1, <2>1, <2>2, <2>3, LedgerStep
<1>5. ChainUnbroken' /\ TipIsHighest'
  BY <1>4 DEF Walkable, ReadableTo, Stored, ChainUnbroken, TipIsHighest
<1> QED
  BY <1>2, <1>5 DEF PathInv

\* Every disk starts out with an unbroken chain, which the signers confirmed.
LEMMA LoadedWalkable ==
  ASSUME NEW chain \in BlockId
  PROVE  Walkable(LoadedLedger(chain))
<1> DEFINE l == LoadedLedger(chain)
<1>1. l.tip = chain /\ chain \in Seq(Entry) /\ Height(chain) \in Nat
  BY HeightType DEF LoadedLedger, BlockId
<1>2. ASSUME NEW j \in 0..Height(chain) PROVE Stored(l, Ancestor(chain, j))
  <2> DEFINE b == [blk |-> Ancestor(chain, j), sigs |-> IF j = 0 THEN {} ELSE DiskSigs]
  <2>1. b \in l.db /\ b.blk = Ancestor(chain, j)
    BY DEF LoadedLedger
  <2> HIDE DEF b, l
  <2> QED
    BY <2>1 DEF Stored
<1>3. ASSUME NEW b \in l.db PROVE Height(b.blk) <= Height(chain)
  <2>1. PICK h \in 0..Height(chain) : b.blk = Ancestor(chain, h)
    BY DEF LoadedLedger
  <2> QED
    BY <1>1, <2>1, AncestorType
<1> HIDE DEF l
<1>4. Walkable(l)
  BY <1>1, <1>2, <1>3 DEF Walkable, ReadableTo
<1> QED
  BY <1>4 DEF l

LEMMA PathInvInit == Init => PathInv
<1> SUFFICES ASSUME Init PROVE PathInv
  OBVIOUS
<1>1. ViewInv /\ StoredConfirmed
  BY ViewInvInit, CertInit, CertificatesStored
<1>2. QueuesWait
  BY DEF Init, QueuesWait, Waits, Ascends
<1>3. \A n \in Node : Walkable(ledger[n])
  <2>1. \A n \in Node : ledger[n] = LoadedLedger(Disk[n]) /\ Disk[n] \in BlockId
    BY DiskAssumption DEF Init
  <2> QED
    BY <2>1, LoadedWalkable
<1>4. ASSUME NEW k \in Node, NEW blk \in signed[k]
      PROVE  PrevBlock(blk) = Genesis \/ Confirmed(PrevBlock(blk))
  <2>1. PICK n \in Node : \E h \in 1..Height(Disk[n]) : blk = Ancestor(Disk[n], h)
    BY <1>4 DEF Init
  <2>2. PICK h \in 1..Height(Disk[n]) : blk = Ancestor(Disk[n], h)
    BY <2>1
  <2>3. Disk[n] \in Seq(Entry) /\ Height(Disk[n]) \in Nat
    BY DiskAssumption, HeightType DEF BlockId
  <2>4. PrevBlock(blk) = Ancestor(Disk[n], h - 1)
    BY <2>2, <2>3, PrevOfAncestor
  <2>5. CASE h = 1
    BY <2>4, <2>5, SubSeqEmpty DEF Ancestor, Genesis
  <2>6. CASE h # 1
    <3> DEFINE prev == Ancestor(Disk[n], h - 1)
               Q    == {i \in Node : prev \in signed[i]}
    <3>1. h - 1 \in 1..Height(Disk[n])
      BY <2>3, <2>6
    <3>2. \A i \in DiskSigs : prev \in signed[i]
      BY <3>1, DiskAssumption DEF Init
    <3>3. DiskSigs \in SUBSET Node /\ Q \in SUBSET Node /\ DiskSigs \subseteq Q /\ IsQuorum(N, DiskSigs)
      BY <3>2, DiskAssumption
    <3>4. IsQuorum(N, Q)
      BY <3>3, QuorumGrows
    <3> QED
      BY <2>4, <3>4 DEF Confirmed
  <2> QED
    BY <2>5, <2>6
<1> QED
  BY <1>1, <1>2, <1>3, <1>4, PathInvMeans DEF ParentsConfirmed

LEMMA MyBftPathNext ==
  ASSUME OneView, MyBftInv, PathInv, OneCertificate, [Next]_vars
  PROVE  Step /\ MyBftInv' /\ PathInv'
<1>1. Step /\ MyBftInv'
  BY MyBftInvNext
<1>2. CertInv'
  BY <1>1 DEF MyBftInv
<1>3. StoredConfirmed'
  BY <1>2, CertificatesStored, PTL
<1> QED
  BY <1>1, <1>3, PathInvNext DEF MyBftInv

\* Where no two blocks of one height are confirmed, no node's chain ever has a
\* hole: although AddBlock does not look at PrevBlock, and data sync answers are
\* executed in whatever order they come, from its tip a node can walk down to
\* genesis.
THEOREM ChainsUnbroken == OneView => (Spec /\ []OneCertificate => []ChainUnbroken)
<1> SUFFICES ASSUME OneView PROVE Spec /\ []OneCertificate => []ChainUnbroken
  OBVIOUS
<1>1. Init => MyBftInv /\ PathInv
  BY MyBftInvInit, PathInvInit
<1>2. MyBftInv /\ PathInv /\ OneCertificate /\ [Next]_vars => (MyBftInv /\ PathInv)'
  BY MyBftPathNext
<1>3. PathInv => ChainUnbroken
  BY DEF PathInv
<1> QED
  BY <1>1, <1>2, <1>3, PTL DEF Spec

\* One step leaves a node's chain a part of its next one, unless its disk is
\* emptied.
LEMMA ChainGrows ==
  ASSUME PathInv, OneCertificate, ~ RestartWipes, Step, NEW n \in Node
  PROVE  \/ /\ ledger'[n].tip = ledger[n].tip
            /\ replied'[n] = replied[n]
         \/ \E b \in ConfirmedBlocks :
              /\ Extended(ledger[n], ledger'[n], b)
              /\ replied'[n] = replied[n] \cup {ProposalsOf(b.blk)[i] : i \in DOMAIN ProposalsOf(b.blk)}
<1>1. /\ QueuesWait /\ TypeOK
      /\ ledger \in [Node -> LedgerType] /\ replied \in [Node -> SUBSET Proposal]
  BY DEF PathInv, ViewInv, TypeOK, HistoryTypeOK
<1>2. ASSUME NEW i \in Node, NEW b \in ConfirmedBlocks, Stores(i, b)
      PROVE  \/ ledger'[n].tip = ledger[n].tip /\ replied'[n] = replied[n]
             \/ /\ Extended(ledger[n], ledger'[n], b)
                /\ replied'[n] = replied[n] \cup {ProposalsOf(b.blk)[j] : j \in DOMAIN ProposalsOf(b.blk)}
  <2>1. CASE n = i
    <3>1. /\ ledger'[n] = AddBlock(ledger[n], b) /\ Height(b.blk) <= Height(ledger[n].tip) + 1
          /\ replied'[n] = replied[n] \cup {ProposalsOf(b.blk)[j] : j \in DOMAIN ProposalsOf(b.blk)}
      BY <1>1, <1>2, <2>1 DEF Stores
    <3> QED
      BY <3>1, AddBlockExtends
  <2>2. CASE n # i
    BY <1>1, <1>2, <2>2 DEF Stores
  <2> QED
    BY <2>1, <2>2
<1>3. ASSUME NEW i \in Node, Restarts(i)
      PROVE  ledger'[n].tip = ledger[n].tip /\ replied'[n] = replied[n]
  BY <1>3 DEF Restarts
<1>4. ASSUME LookedUp, UNCHANGED replied
      PROVE  ledger'[n].tip = ledger[n].tip /\ replied'[n] = replied[n]
  BY <1>1, <1>4, LookedUpKeeps
<1> QED
  BY <1>1, <1>2, <1>3, <1>4, LedgerStep

LEMMA ReplyMeansNext ==
  ASSUME PathInv, ViewInv', OneCertificate, ~ RestartWipes, Step, ReplyMeansOnChain
  PROVE  ReplyMeansOnChain'
<1> SUFFICES ASSUME NEW n \in Node, NEW p \in replied'[n]
             PROVE  ChainHolds(ledger'[n], p)
  BY DEF ReplyMeansOnChain, ChainHolds, InSeq
<1>1. Height(ledger[n].tip) \in Nat /\ Height(ledger'[n].tip) \in Nat
  BY HeightType DEF PathInv, ViewInv, TypeOK, LedgerType
<1>2. ASSUME p \in replied[n], Height(ledger[n].tip) <= Height(ledger'[n].tip),
             \A h \in 0..Height(ledger[n].tip) :
               Ancestor(ledger'[n].tip, h) = Ancestor(ledger[n].tip, h)
      PROVE  ChainHolds(ledger'[n], p)
  <2>1. PICK h \in 1..Height(ledger[n].tip) : InSeq(p, ProposalsOf(Ancestor(ledger[n].tip, h)))
    BY <1>2 DEF ReplyMeansOnChain, ChainHolds
  <2>2. h \in 1..Height(ledger'[n].tip) /\ h \in 0..Height(ledger[n].tip)
    BY <1>1, <1>2
  <2> QED
    BY <1>2, <2>1, <2>2 DEF ChainHolds
<1>3. ASSUME NEW b \in ConfirmedBlocks, Extended(ledger[n], ledger'[n], b),
             NEW i \in DOMAIN ProposalsOf(b.blk), p = ProposalsOf(b.blk)[i]
      PROVE  ChainHolds(ledger'[n], p)
  <2>1. Height(b.blk) \in Nat /\ b.blk \in BlockId
    BY HeightType DEF ConfirmedBlocks, BlockValidated
  <2>2. b.blk # Genesis
    BY <1>3 DEF ProposalsOf
  <2>3. Height(b.blk) \in 1..Height(ledger'[n].tip) /\ b.blk = Ancestor(ledger'[n].tip, Height(b.blk))
    BY <1>1, <1>3, <2>1, <2>2, OnlyGenesisAtZero DEF Extended
  <2>4. InSeq(p, ProposalsOf(b.blk))
    BY <1>3 DEF InSeq
  <2> QED
    BY <2>3, <2>4 DEF ChainHolds
<1>4. CASE ledger'[n].tip = ledger[n].tip /\ replied'[n] = replied[n]
  BY <1>4 DEF ReplyMeansOnChain, ChainHolds
<1>5. ASSUME NEW b \in ConfirmedBlocks, Extended(ledger[n], ledger'[n], b),
             replied'[n] = replied[n] \cup {ProposalsOf(b.blk)[i] : i \in DOMAIN ProposalsOf(b.blk)}
      PROVE  ChainHolds(ledger'[n], p)
  BY <1>2, <1>3, <1>5 DEF Extended
<1> QED
  BY <1>4, <1>5, ChainGrows

\* There, and where a restart keeps the disk, the reply to a proposer is kept:
\* a proposal a node reported as executed is on the chain of that node from then
\* on, also when the block was executed for a second time.
THEOREM RepliesAreKept ==
  OneView /\ ~ RestartWipes => (Spec /\ []OneCertificate => []ReplyMeansOnChain)
<1> SUFFICES ASSUME OneView, ~ RestartWipes PROVE Spec /\ []OneCertificate => []ReplyMeansOnChain
  OBVIOUS
<1> DEFINE Inv == MyBftInv /\ PathInv /\ ReplyMeansOnChain
<1>1. Init => Inv
  BY MyBftInvInit, PathInvInit DEF Init, ReplyMeansOnChain
<1>2. Inv /\ OneCertificate /\ [Next]_vars => Inv'
  BY MyBftPathNext, ReplyMeansNext DEF MyBftInv
<1>3. Inv => ReplyMeansOnChain
  OBVIOUS
<1> QED
  BY <1>1, <1>2, <1>3, PTL DEF Spec

----------------------------------------------------------------------------
(* The cache of lookups.                                                   *)

Coherent(l) == \A e \in l.zdb : e.last = OnChain(l, e.zone)

LEMMA LookupCoherent ==
  ASSUME NEW l \in LedgerType, NEW z, Coherent(l)
  PROVE  Coherent(WithLookup(l, z))
<1> DEFINE k == WithLookup(l, z)
           x == [zone |-> z, last |-> GetZoneName(l, z)]
<1>1. k.tip = l.tip /\ \A e \in k.zdb : e \in l.zdb \/ e = x
  BY DEF WithLookup, LedgerType
<1>2. GetZoneName(l, z) = OnChain(l, z)
  <2>1. CASE IsCached(l, z)
    <3> DEFINE e == CHOOSE e \in l.zdb : e.zone = z
    <3>1. e \in l.zdb /\ e.zone = z
      BY <2>1 DEF IsCached
    <3> HIDE DEF e
    <3>2. e.last = OnChain(l, z)
      BY <3>1 DEF Coherent
    <3> QED
      BY <2>1, <3>2 DEF GetZoneName, e
  <2> QED
    BY <2>1 DEF GetZoneName
<1>3. x.zone = z /\ x.last = OnChain(l, z)
  BY <1>2
<1> HIDE DEF k, x
<1>4. Coherent(k)
  BY <1>1, <1>3, SameTipSameLookup DEF Coherent
<1> QED
  BY <1>4 DEF k

LEMMA ExtendedCoherent ==
  ASSUME NEW l \in LedgerType, NEW k \in LedgerType, NEW b \in BlockValidated,
         Extended(l, k, b), Coherent(l)
  PROVE  Coherent(k)
<1> SUFFICES ASSUME NEW e \in k.zdb PROVE e.last = OnChain(k, e.zone)
  BY DEF Coherent
<1>1. e \in l.zdb /\ e.zone \notin ZonesOf(b.blk) /\ e.last = OnChain(l, e.zone)
  BY DEF Extended, Coherent
<1>2. CASE k.tip = l.tip
  BY <1>1, <1>2, SameTipSameLookup
<1>3. CASE k.tip = b.blk /\ Height(b.blk) = Height(l.tip) + 1 /\ PrevBlock(b.blk) = l.tip
  <2>1. k.tip \in Seq(Entry) /\ Height(l.tip) \in Nat /\ Height(k.tip) > 0
    BY <1>3, HeightType DEF LedgerType, BlockId
  <2>2. PrevBlock(k.tip) = l.tip /\ e.zone \notin ZonesOf(k.tip)
    BY <1>1, <1>3
  <2>3. OnChain(k, e.zone) = OnChain(l, e.zone)
    BY <2>1, <2>2, LookupOfExtended
  <2> QED
    BY <1>1, <2>3
<1> QED
  BY <1>2, <1>3 DEF Extended

LEMMA CacheCoherentNext ==
  ASSUME PathInv, ViewInv', OneCertificate, Step, CacheCoherent
  PROVE  CacheCoherent'
<1>1. /\ QueuesWait /\ TypeOK
      /\ ledger \in [Node -> LedgerType] /\ ConfirmedBlocks \subseteq BlockValidated
  BY DEF PathInv, ViewInv, TypeOK, ConfirmedBlocks
<1>2. ledger' \in [Node -> LedgerType]
  BY DEF ViewInv, TypeOK
<1>3. \A n \in Node : Coherent(ledger[n])
  BY DEF CacheCoherent, Coherent
<1> SUFFICES ASSUME NEW n \in Node PROVE Coherent(ledger'[n])
  BY DEF CacheCoherent, Coherent, OnChain, Mentions, LastMention
<1>4. ASSUME NEW i \in Node, NEW b \in ConfirmedBlocks, Stores(i, b) PROVE Coherent(ledger'[n])
  <2>1. CASE n = i
    <3>1. ledger'[n] = AddBlock(ledger[n], b) /\ Height(b.blk) <= Height(ledger[n].tip) + 1
      BY <1>1, <1>4, <2>1 DEF Stores
    <3>2. Extended(ledger[n], ledger'[n], b)
      BY <3>1, AddBlockExtends
    <3> QED
      BY <1>1, <1>2, <1>3, <3>2, ExtendedCoherent
  <2>2. CASE n # i
    BY <1>1, <1>3, <1>4, <2>2 DEF Stores
  <2> QED
    BY <2>1, <2>2
<1>5. ASSUME NEW i \in Node, Restarts(i) PROVE Coherent(ledger'[n])
  <2>1. Coherent(GenesisLedger)
    BY DEF Coherent, GenesisLedger
  <2> QED
    BY <1>1, <1>3, <1>5, <2>1 DEF Restarts
<1>6. ASSUME LookedUp PROVE Coherent(ledger'[n])
  BY <1>1, <1>3, <1>6, LookupCoherent DEF LookedUp
<1> QED
  BY <1>1, <1>4, <1>5, <1>6, LedgerStep

\* There, what GetZoneName answers from its cache is what a walk over the chain
\* would find, whichever blocks and lookups come between: AddBlock drops the
\* cached answers for the zones of a block even when it stores nothing, and no
\* other block changes what a lookup finds.
THEOREM CachesCoherent == OneView => (Spec /\ []OneCertificate => []CacheCoherent)
<1> SUFFICES ASSUME OneView PROVE Spec /\ []OneCertificate => []CacheCoherent
  OBVIOUS
<1> DEFINE Inv == MyBftInv /\ PathInv /\ CacheCoherent
<1>1. Init => Inv
  BY MyBftInvInit, PathInvInit DEF Init, LoadedLedger, CacheCoherent
<1>2. Inv /\ OneCertificate /\ [Next]_vars => Inv'
  BY MyBftPathNext, CacheCoherentNext DEF MyBftInv
<1>3. Inv => CacheCoherent
  OBVIOUS
<1> QED
  BY <1>1, <1>2, <1>3, PTL DEF Spec

----------------------------------------------------------------------------

\* With a leader that is not disturbed and disks that hold one chain, no further
\* condition is left: the chain of every node is unbroken and its cache coherent.
THEOREM UndisturbedChain ==
  OneView /\ DisksOnOneChain => (Spec /\ Undisturbed => [](ChainUnbroken /\ CacheCoherent))
<1> SUFFICES ASSUME OneView, DisksOnOneChain
             PROVE  Spec /\ Undisturbed => [](ChainUnbroken /\ CacheCoherent)
  OBVIOUS
<1>1. Spec /\ Undisturbed => []OneCertificate
  BY OneBlockConfirmed
<1>2. Spec /\ []OneCertificate => []ChainUnbroken
  BY ChainsUnbroken
<1>3. Spec /\ []OneCertificate => []CacheCoherent
  BY CachesCoherent
<1> QED
  BY <1>1, <1>2, <1>3, PTL
=============================================================================
