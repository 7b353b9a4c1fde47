---------------------------- MODULE MyBftProofs ----------------------------
(***************************************************************************)
(* Proofs about MyBft, for every network size and every value of the other *)
(* constants: its types, what is stored was confirmed by a quorum, a fork  *)
(* needs a node that confirms two blocks of one height, a view change      *)
(* never leads to a view nobody was elected into, and the consensus        *)
(* implements CertChain.                                                   *)
(***************************************************************************)
EXTENDS MyBft, LedgerProofs

----------------------------------------------------------------------------
(* Operators of the ledger.                                                *)

LEMMA AddBlockType ==
  ASSUME NEW l \in LedgerType, NEW b \in BlockValidated
  PROVE  AddBlock(l, b) \in LedgerType
<1>1. l.db \in SUBSET BlockValidated /\ l.tip \in BlockId /\ b.blk \in BlockId
  BY DEF LedgerType, BlockValidated
<1>2. {e \in l.zdb : e.zone \notin ZonesOf(b.blk)} \in SUBSET [zone : Zone, last : SUBSET Proposal]
  BY DEF LedgerType
<1>3. (IF Stored(l, b.blk) THEN l.db ELSE l.db \cup {b}) \in SUBSET BlockValidated
  BY <1>1
<1>4. (IF ~ Stored(l, b.blk) /\ Height(b.blk) > Height(l.tip) THEN b.blk ELSE l.tip) \in BlockId
  BY <1>1
<1> QED
  BY <1>2, <1>3, <1>4 DEF AddBlock, LedgerType

LEMMA RevokeBlockType ==
  ASSUME NEW l \in LedgerType
  PROVE  RevokeBlock(l) \in LedgerType
<1>1. PrevBlock(l.tip) \in BlockId
  BY PrevBlockType DEF LedgerType, BlockId
<1> QED
  BY <1>1 DEF RevokeBlock, LedgerType

LEMMA WithLookupType ==
  ASSUME NEW l \in LedgerType, NEW z \in Zone
  PROVE  WithLookup(l, z) \in LedgerType
<1>1. GetZoneName(l, z) \in SUBSET Proposal
  <2>1. CASE IsCached(l, z)
    <3> DEFINE e == CHOOSE e \in l.zdb : e.zone = z
    <3>1. e \in l.zdb
      BY <2>1 DEF IsCached
    <3> HIDE DEF e
    <3>2. e.last \in SUBSET Proposal
      BY <3>1 DEF LedgerType
    <3> QED
      BY <2>1, <3>2 DEF GetZoneName, e
  <2>2. CASE ~ IsCached(l, z)
    <3>1. l.tip \in Seq([ps : Seq(Proposal), stamp : Stamp])
      BY DEF LedgerType, BlockId, Entry
    <3>2. Mentions(l, z) # {} => LastMention(l, z) \in Proposal
      BY <3>1, LastMentionType
    <3>3. OnChain(l, z) \in SUBSET Proposal
      BY <3>2 DEF OnChain
    <3> QED
      BY <2>2, <3>3 DEF GetZoneName
  <2> QED
    BY <2>1, <2>2
<1> DEFINE zdb == l.zdb \cup {[zone |-> z, last |-> GetZoneName(l, z)]}
<1>2. zdb \in SUBSET [zone : Zone, last : SUBSET Proposal]
  BY <1>1 DEF LedgerType
<1> HIDE DEF zdb
<1>3. [l EXCEPT !.zdb = zdb] \in LedgerType
  BY <1>2 DEF LedgerType
<1>4. WithLookup(l, z) = IF ZoneReadable(l, z) THEN [l EXCEPT !.zdb = zdb] ELSE l
  BY DEF WithLookup, zdb
<1> QED
  BY <1>3, <1>4

\* A lookup changes nothing but the cache of lookups.
LEMMA WithLookupKeeps ==
  ASSUME NEW l \in LedgerType, NEW z
  PROVE  WithLookup(l, z).db = l.db /\ WithLookup(l, z).tip = l.tip
BY DEF WithLookup, LedgerType

LEMMA LatestBlockType ==
  ASSUME NEW l \in LedgerType, TipStored(l)
  PROVE  LatestBlock(l) \in l.db /\ LatestBlock(l) \in BlockValidated
<1>1. LatestBlock(l) \in l.db
  BY DEF LatestBlock, TipStored, Stored
<1> QED
  BY <1>1 DEF LedgerType

LEMMA BlockByHeightType ==
  ASSUME NEW l \in LedgerType, NEW h \in Nat, HasBlockAt(l, h)
  PROVE  BlockByHeight(l, h) \in l.db /\ BlockByHeight(l, h) \in BlockValidated
<1>1. Height(l.tip) \in Nat
  BY LenProperties DEF LedgerType, BlockId, Height
<1>2. h \in h..Height(l.tip)
  BY <1>1 DEF HasBlockAt
<1>3. Stored(l, Ancestor(l.tip, h))
  BY <1>2 DEF HasBlockAt, ReadableTo
<1>4. BlockByHeight(l, h) \in l.db
  BY <1>3 DEF BlockByHeight, Stored
<1> QED
  BY <1>4 DEF LedgerType

LEMMA HeightType ==
  ASSUME NEW blk \in BlockId
  PROVE  Height(blk) \in Nat
BY LenProperties DEF BlockId, Height

----------------------------------------------------------------------------
(* Operators of the queues.                                                *)

\* A part of the positions of a sequence has at most as many elements.
LEMMA PositionsCount ==
  ASSUME NEW m \in Nat, NEW V \in SUBSET (1..m)
  PROVE  Cardinality(V) \in 0..m
<1>1. IsFiniteSet(1..m) /\ Cardinality(1..m) = m
  BY FS_Interval
<1>2. Cardinality(V) <= Cardinality(1..m)
  BY <1>1, FS_Subset
<1>3. Cardinality(V) \in Nat
  BY PositionsFinite
<1> QED
  BY <1>1, <1>2, <1>3

LEMMA SubSeqType ==
  ASSUME NEW S, NEW s \in Seq(S), NEW i \in Nat \ {0}, NEW j \in 0..Len(s)
  PROVE  SubSeq(s, i, j) \in Seq(S)
<1>1. Len(s) \in Nat /\ \A k \in i..j : s[k] \in S
  BY LenProperties, ElementOfSeq
<1> QED
  BY <1>1, SubSeqProperties

\* A queue receives the element it is given and no other.
LEMMA EnqueueType ==
  ASSUME NEW S, NEW q \in Seq(S), NEW x \in S
  PROVE  Enqueue(q, x) \in Seq(S)
<1> DEFINE V == {i \in DOMAIN q : Height(q[i].blk) < Height(x.blk)}
           below == Cardinality(V)
<1>1. Len(q) \in Nat /\ DOMAIN q = 1..Len(q)
  BY LenProperties
<1>2. below \in 0..Len(q)
  <2>1. V \in SUBSET (1..Len(q))
    BY <1>1
  <2> QED
    BY <1>1, <2>1, PositionsCount
<1> HIDE DEF below
<1>3. SubSeq(q, 1, below) \in Seq(S) /\ SubSeq(q, below + 1, Len(q)) \in Seq(S)
  BY <1>1, <1>2, SubSeqType
<1>4. SubSeq(q, 1, below) \o <<x>> \o SubSeq(q, below + 1, Len(q)) \in Seq(S)
  BY <1>3
<1> QED
  BY <1>4 DEF Enqueue, below

LEMMA PoppedType ==
  ASSUME NEW S, NEW q \in Seq(S), NEW h
  PROVE  /\ Popped(q, h) \in SUBSET (1..Len(q))
         /\ Cardinality(Popped(q, h)) \in 0..Len(q)
<1>1. Len(q) \in Nat /\ DOMAIN q = 1..Len(q)
  BY LenProperties
<1>2. Popped(q, h) \in SUBSET (1..Len(q))
  BY <1>1 DEF Popped
<1> QED
  BY <1>1, <1>2, PositionsCount

LEMMA RestType ==
  ASSUME NEW S, NEW q \in Seq(S), NEW h
  PROVE  Rest(q, h) \in Seq(S)
<1>1. Cardinality(Popped(q, h)) \in 0..Len(q) /\ Len(q) \in Nat
  BY PoppedType, LenProperties
<1> QED
  BY <1>1, SubSeqType DEF Rest

LEMMA PickedType ==
  ASSUME NEW S, NEW q \in Seq(S), NEW h
  PROVE  Pick(q, Due(q, h)) \in Seq(S) /\ Pick(q, Overtaken(q, h)) \in Seq(S)
<1>1. Due(q, h) \in SUBSET (1..Len(q)) /\ Overtaken(q, h) \in SUBSET (1..Len(q))
  BY PoppedType DEF Due, Overtaken
<1> QED
  BY <1>1, PickType

LEMMA ModifyProposalStateType ==
  ASSUME NEW cache \in [Proposal -> ProposalState], NEW ms
  PROVE  ModifyProposalState(cache, ms) \in [Proposal -> ProposalState]
BY DEF ModifyProposalState, ProposalState

----------------------------------------------------------------------------
(* Messages.                                                               *)

LEMMA GenesisType == Genesis \in BlockId
BY DEF Genesis, BlockId

LEMMA NodeType == N \in Nat \ {0} /\ Node \in SUBSET Nat /\ Up \in SUBSET Node
BY NAssumption, NodesAssumption DEF Node

LEMMA ProposalMsgType ==
  ASSUME NEW p \in Proposal
  PROVE  ProposalMsg(p) \in Message /\ ProposalConfirmMsg(p) \in Message
BY DEF ProposalMsg, ProposalConfirmMsg, Message

LEMMA BlockMsgType ==
  ASSUME NEW view \in Nat, NEW blk \in BlockId, NEW abandoned \in Seq(Proposal)
  PROVE  BlockMsg(view, blk, abandoned) \in BlockMessage
BY DEF BlockMsg, BlockMessage

LEMMA NoBlockMsgType == NoBlockMsg \in BlockMessage
<1>1. << >> \in Seq(Proposal)
  OBVIOUS
<1> QED
  BY <1>1, GenesisType, BlockMsgType DEF NoBlockMsg

LEMMA BlockMessageFields ==
  ASSUME NEW m \in BlockMessage
  PROVE  m \in Message /\ m.blk \in BlockId /\ m.abandoned \in Seq(Proposal)
BY DEF BlockMessage, Message

LEMMA BlockConfirmMsgType ==
  ASSUME NEW view \in Nat, NEW n \in Node, NEW blk \in BlockId
  PROVE  BlockConfirmMsg(view, n, blk) \in Message
BY DEF BlockConfirmMsg, Message

LEMMA DataSyncMsgType ==
  ASSUME NEW n \in Node, NEW h \in Nat \ {0}
  PROVE  DataSyncMsg(n, h) \in Message
BY DEF DataSyncMsg, Message

LEMMA DataSyncRespMsgType ==
  ASSUME NEW b \in BlockValidated
  PROVE  DataSyncRespMsg(b) \in Message
BY DEF DataSyncRespMsg, Message

LEMMA ViewChangeMsgType ==
  ASSUME NEW view \in Nat, NEW n \in Node, NEW header \in BlockValidated,
         NEW pending \in BlockMessage
  PROVE  ViewChangeMsg(view, n, header, pending) \in Message
BY DEF ViewChangeMsg, Message, ViewChangeMessage

LEMMA NewViewMsgType ==
  ASSUME NEW view \in Nat, NEW pending \in BlockMessage, NEW senders \in SUBSET Node
  PROVE  NewViewMsg(view, pending, senders) \in Message
BY DEF NewViewMsg, Message

\* What a message of a type consists of.
LEMMA MessageFields ==
  ASSUME NEW m \in Message
  PROVE  /\ m.type \in {"Proposal", "ProposalConfirm"} => m.proposal \in Proposal
         /\ m.type = "Block" => m \in BlockMessage
         /\ m.type = "BlockConfirm" => m.view \in Nat /\ m.from \in Node /\ m.blk \in BlockId
         /\ m.type = "DataSync" => m.from \in Node /\ m.height \in Nat \ {0}
         /\ m.type = "DataSyncResp" => m.block \in BlockValidated
         /\ m.type = "ViewChange" => m \in ViewChangeMessage
         /\ m.type = "NewView" => m.view \in Nat /\ m.pending \in BlockMessage
BY DEF Message, BlockMessage, ViewChangeMessage

LEMMA BroadcastType ==
  ASSUME NEW msgs \in SUBSET Message
  PROVE  Broadcast(msgs) \in SUBSET Packet
BY NodeType DEF Broadcast, Packet

LEMMA PacketsType ==
  ASSUME NEW to \in SUBSET Node, NEW msgs \in SUBSET Message
  PROVE  [to : to, msg : msgs] \in SUBSET Packet
BY DEF Packet

\* The helpers asked for the heights low to high.
LEMMA StartDataSyncType ==
  ASSUME NEW n \in Node, NEW low \in Nat \ {0}, NEW high \in Nat
  PROVE  StartDataSync(n, low, high) \in SUBSET Packet
<1>1. \A h \in low..high : DataSyncMsg(n, h) \in Message
  BY DataSyncMsgType
<1>2. {DataSyncMsg(n, h) : h \in low..high} \in SUBSET Message
  BY <1>1
<1>3. Helpers \in SUBSET Node
  BY NodesAssumption
<1> QED
  BY <1>2, <1>3, PacketsType DEF StartDataSync

LEMMA ConfirmBroadcastsTo ==
  ASSUME NEW n \in Node, NEW m, NEW sent \in ConfirmBroadcasts(n, m)
  PROVE  sent \in SUBSET [to : Up, msg : {m}]
<1>1. \A k : [to : Up \ {k}, msg : {m}] \in SUBSET [to : Up, msg : {m}]
  OBVIOUS
<1>2. \/ sent = [to : Up, msg : {m}]
      \/ \E k \in Node : sent = [to : Up \ {k}, msg : {m}]
  BY DEF ConfirmBroadcasts, Broadcast
<1> QED
  BY <1>1, <1>2

LEMMA ConfirmBroadcastsType ==
  ASSUME NEW n \in Node, NEW m \in Message, NEW sent \in ConfirmBroadcasts(n, m)
  PROVE  sent \in SUBSET [to : Up, msg : {m}] /\ sent \in SUBSET Packet
<1>1. sent \in SUBSET [to : Up, msg : {m}]
  BY ConfirmBroadcastsTo
<1>2. [to : Up, msg : {m}] \in SUBSET Packet
  BY NodeType, PacketsType
<1> QED
  BY <1>1, <1>2

\* Handling a packet sends nothing.
LEMMA HandledType ==
  ASSUME NEW pk, NEW packets \in Handled(pk)
  PROVE  packets \subseteq net
BY DEF Handled

\* The sequences of messages and blocks of a batch.
LEMMA MinedBlockType ==
  ASSUME NEW tip \in BlockId, NEW pool \in Seq(Proposal), NEW s \in Stamp
  PROVE  LET bound == IF Len(pool) < BlockMaxSize THEN Len(pool) ELSE BlockMaxSize
             batch == CheckProposals(SubSeq(pool, 1, bound))
         IN  /\ Append(tip, [ps |-> batch.valid, stamp |-> s]) \in BlockId
             /\ Height(Append(tip, [ps |-> batch.valid, stamp |-> s])) = Height(tip) + 1
             /\ batch.abandoned \in Seq(Proposal)
             /\ SubSeq(pool, bound + 1, Len(pool)) \in Seq(Proposal)
<1> DEFINE bound == IF Len(pool) < BlockMaxSize THEN Len(pool) ELSE BlockMaxSize
           batch == CheckProposals(SubSeq(pool, 1, bound))
<1>1. bound \in 0..Len(pool) /\ Len(pool) \in Nat
  BY BoundsAssumption, LenProperties
<1> HIDE DEF bound
<1>2. SubSeq(pool, 1, bound) \in Seq(Proposal) /\ SubSeq(pool, bound + 1, Len(pool)) \in Seq(Proposal)
  BY <1>1, SubSeqType
<1>3. batch \in [valid : Seq(Proposal), abandoned : Seq(Proposal)]
  BY <1>2, CheckProposalsType
<1> HIDE DEF batch
<1>4. [ps |-> batch.valid, stamp |-> s] \in Entry
  BY <1>3 DEF Entry
<1>5. /\ Append(tip, [ps |-> batch.valid, stamp |-> s]) \in BlockId
      /\ Height(Append(tip, [ps |-> batch.valid, stamp |-> s])) = Height(tip) + 1
  BY <1>4, AppendProperties DEF BlockId, Height
<1> QED
  BY <1>2, <1>3, <1>5 DEF bound, batch

----------------------------------------------------------------------------
(* Steps that several actions share.                                       *)

\* Mining or not, the leader's variables and the packets keep their types.
LEMMA GenerateBlockType ==
  ASSUME TypeOK, NEW n \in Node, NEW l \in LedgerType, NEW pool \in Seq(Proposal),
         NEW confirm \in BOOLEAN, NEW packets \in SUBSET Packet,
         GenerateBlock(n, l, pool, confirm, packets) \/ NoMine(n, pool, confirm, packets)
  PROVE  /\ net' \in SUBSET Packet
         /\ MessagePool' \in [Node -> Seq(Proposal)]
         /\ BlockConfirm' \in [Node -> BOOLEAN]
         /\ UnConfirmedH' \in [Node -> Nat]
         /\ mined' \subseteq [by : Node, blk : BlockId]
<1>1. /\ MessagePool \in [Node -> Seq(Proposal)] /\ BlockConfirm \in [Node -> BOOLEAN]
      /\ UnConfirmedH \in [Node -> Nat] /\ mined \subseteq [by : Node, blk : BlockId]
      /\ View[n] \in Nat
  BY DEF TypeOK, LeaderTypeOK, ViewTypeOK, HistoryTypeOK
<1>2. CASE NoMine(n, pool, confirm, packets)
  BY <1>1, <1>2 DEF NoMine
<1>3. CASE Mine(n, l, pool, packets)
  <2> DEFINE bound == IF Len(pool) < BlockMaxSize THEN Len(pool) ELSE BlockMaxSize
             batch == CheckProposals(SubSeq(pool, 1, bound))
             rest  == SubSeq(pool, bound + 1, Len(pool))
             blk(s) == Append(l.tip, [ps |-> batch.valid, stamp |-> s])
             m(s)   == BlockMsg(View[n], blk(s), batch.abandoned)
  <2>1. PICK s \in Stamp :
          /\ net' = packets \cup Broadcast({m(s)})
          /\ MessagePool' = [MessagePool EXCEPT ![n] = rest]
          /\ AwaitBlock(n, blk(s))
          /\ mined' = mined \cup {[by |-> n, blk |-> blk(s)]}
    BY <1>3 DEF Mine
  <2>2. /\ blk(s) \in BlockId /\ batch.abandoned \in Seq(Proposal) /\ rest \in Seq(Proposal)
    BY MinedBlockType DEF LedgerType
  <2> HIDE DEF blk, rest
  <2>3. m(s) \in Message
    BY <1>1, <2>2, BlockMsgType, BlockMessageFields
  <2> HIDE DEF m
  <2>4. net' \in SUBSET Packet
    <3>1. Broadcast({m(s)}) \in SUBSET Packet
      BY <2>3, BroadcastType
    <3> QED
      BY <2>1, <3>1
  <2>5. Height(blk(s)) \in Nat
    BY <2>2, HeightType
  <2>6. BlockConfirm' \in [Node -> BOOLEAN] /\ UnConfirmedH' \in [Node -> Nat]
    BY <1>1, <2>1, <2>5 DEF AwaitBlock
  <2>7. MessagePool' \in [Node -> Seq(Proposal)]
    BY <1>1, <2>1, <2>2
  <2>8. [by |-> n, blk |-> blk(s)] \in [by : Node, blk : BlockId]
    BY <2>2
  <2> QED
    BY <1>1, <2>1, <2>4, <2>6, <2>7, <2>8
<1> QED
  BY <1>2, <1>3 DEF GenerateBlock

\* ExecuteBlock keeps the types of everything it changes.
LEMMA ExecuteBlockType ==
  ASSUME TypeOK, NEW n \in Node, NEW b \in BlockValidated,
         NEW cache \in [Proposal -> ProposalState], NEW chan \in Seq(BlockMessage),
         NEW packets \in SUBSET Packet,
         ExecuteBlock(n, b, cache, chan, packets)
  PROVE  /\ ledger' \in [Node -> LedgerType]
         /\ ProposalsCache' \in [Node -> [Proposal -> ProposalState]]
         /\ Blocks' \in [Node -> Seq(BlockValidated)]
         /\ BlockMessages' \in [Node -> Seq(BlockMessage)]
         /\ blockChan' \in [Node -> Seq(BlockMessage)]
         /\ net' \in SUBSET Packet
         /\ LeaderTypeOK'
         /\ mined' \subseteq [by : Node, blk : BlockId]
         /\ replied' \in [Node -> SUBSET Proposal]
<1> DEFINE l     == ledger[n]
           queue == Enqueue(Blocks[n], b)
           h     == Height(l.tip) + 1
           met   == Due(queue, h) # {}
           after == IF met THEN AddBlock(l, b) ELSE l
           next  == h + Cardinality(Popped(queue, h))
           msgs  == BlockMessages[n]
           ready == Pick(msgs, Due(msgs, next))
           over  == Pick(msgs, Overtaken(msgs, next))
           mayMine == IsLeader(n) /\ next > UnConfirmedH[n]
           done  == {ProposalsOf(b.blk)[i] : i \in DOMAIN ProposalsOf(b.blk)}
<1>1. /\ ledger \in [Node -> LedgerType] /\ NodeTypeOK /\ LeaderTypeOK
      /\ mined \subseteq [by : Node, blk : BlockId]
      /\ replied \in [Node -> SUBSET Proposal]
  BY DEF TypeOK, HistoryTypeOK
<1>2. /\ l \in LedgerType /\ msgs \in Seq(BlockMessage) /\ queue \in Seq(BlockValidated)
      /\ MessagePool[n] \in Seq(Proposal) /\ BlockConfirm[n] \in BOOLEAN
  BY <1>1, EnqueueType DEF NodeTypeOK, LeaderTypeOK
<1>3. after \in LedgerType
  BY <1>2, AddBlockType
<1>4. Rest(queue, h) \in Seq(BlockValidated) /\ Rest(msgs, next) \in Seq(BlockMessage)
  BY <1>2, RestType
<1>5. ready \in Seq(BlockMessage)
  BY <1>2, PickedType
<1>6. ModifyProposalState(cache, over) \in [Proposal -> ProposalState]
  BY ModifyProposalStateType
<1>7. done \in SUBSET Proposal
  <2>1. ProposalsOf(b.blk) \in Seq(Proposal)
    BY ProposalsOfType DEF BlockValidated, BlockId, Entry
  <2>2. \A i \in DOMAIN ProposalsOf(b.blk) : ProposalsOf(b.blk)[i] \in Proposal
    BY <2>1
  <2> QED
    BY <2>2
<1>8. CASE ~ TipStored(l)
  <2>1. /\ ProposalsCache' = [ProposalsCache EXCEPT ![n] = cache]
        /\ blockChan' = [blockChan EXCEPT ![n] = chan]
        /\ NoMine(n, MessagePool[n], BlockConfirm[n], packets)
        /\ UNCHANGED <<ledger, Blocks, BlockMessages, interrupt, replied>>
    BY <1>8 DEF ExecuteBlock
  <2>2. /\ net' \in SUBSET Packet /\ MessagePool' \in [Node -> Seq(Proposal)]
        /\ BlockConfirm' \in [Node -> BOOLEAN] /\ UnConfirmedH' \in [Node -> Nat]
        /\ mined' \subseteq [by : Node, blk : BlockId]
    BY <1>2, <2>1, GenerateBlockType
  <2> QED
    BY <1>1, <2>1, <2>2 DEF NodeTypeOK, LeaderTypeOK
<1>9. CASE TipStored(l)
  <2>1. /\ ledger' = [ledger EXCEPT ![n] = after]
        /\ Blocks' = [Blocks EXCEPT ![n] = Rest(queue, h)]
        /\ replied' = [replied EXCEPT ![n] = IF met THEN @ \cup done ELSE @]
        /\ BlockMessages' = [BlockMessages EXCEPT ![n] = Rest(msgs, next)]
        /\ blockChan' = [blockChan EXCEPT ![n] = chan \o ready]
        /\ ProposalsCache' = [ProposalsCache EXCEPT ![n] = ModifyProposalState(cache, over)]
        /\ \/ /\ GenerateBlock(n, after, MessagePool[n], TRUE, packets)
              /\ UNCHANGED interrupt \/ interrupt' = [interrupt EXCEPT ![n] = TRUE]
           \/ /\ NoMine(n, MessagePool[n], mayMine \/ BlockConfirm[n], packets)
              /\ UNCHANGED interrupt
    BY <1>9 DEF ExecuteBlock
  <2> HIDE DEF after, queue, h, met, next, msgs, ready, over, mayMine, done
  <2>2. /\ net' \in SUBSET Packet /\ MessagePool' \in [Node -> Seq(Proposal)]
        /\ BlockConfirm' \in [Node -> BOOLEAN] /\ UnConfirmedH' \in [Node -> Nat]
        /\ mined' \subseteq [by : Node, blk : BlockId]
    <3>1. (mayMine \/ BlockConfirm[n]) \in BOOLEAN
      OBVIOUS
    <3> QED
      BY <1>2, <1>3, <2>1, <3>1, GenerateBlockType, Zenon
  <2>3. interrupt' \in [Node -> BOOLEAN]
    BY <1>1, <2>1 DEF LeaderTypeOK
  <2>4. ledger' \in [Node -> LedgerType]
    BY <1>1, <1>3, <2>1
  <2>5. /\ ProposalsCache' \in [Node -> [Proposal -> ProposalState]]
        /\ Blocks' \in [Node -> Seq(BlockValidated)]
        /\ BlockMessages' \in [Node -> Seq(BlockMessage)]
    BY <1>1, <1>4, <1>6, <2>1 DEF NodeTypeOK
  <2>6. blockChan' \in [Node -> Seq(BlockMessage)]
    BY <1>1, <1>5, <2>1 DEF NodeTypeOK
  <2>7. replied' \in [Node -> SUBSET Proposal]
    BY <1>1, <1>7, <2>1
  <2> QED
    BY <2>2, <2>3, <2>4, <2>5, <2>6, <2>7 DEF LeaderTypeOK
<1> QED
  BY <1>8, <1>9

\* A packet in the inbox of a node carries a message; the packets that remain
\* when it is handled were there before.
LEMMA InboxType ==
  ASSUME TypeOK, NEW n, NEW type, NEW pk \in Inbox(n, type), NEW packets \in Handled(pk)
  PROVE  /\ pk.msg \in Message /\ pk.msg.type = type
         /\ packets \in SUBSET Packet /\ packets \subseteq net /\ pk \in net
<1>1. pk \in net /\ pk.msg.type = type
  BY DEF Inbox
<1>2. packets \subseteq net
  BY HandledType
<1> QED
  BY <1>1, <1>2 DEF TypeOK, Packet

----------------------------------------------------------------------------
(* The actions one by one.                                                 *)

\* What may become of a block message that is not executed at once.
LEMMA BlockMessageKeptType ==
  ASSUME TypeOK, NEW n \in Up, NEW m \in BlockMessage, NEW chan \in Seq(BlockMessage),
         NEW packets \in SUBSET Packet,
         \/ IgnoreBlock(n, chan, packets)
         \/ Ahead(n, m) /\ DeferBlock(n, m, chan, packets)
         \/ VoteForBlock(n, m, chan, packets),
         UNCHANGED <<viewVars, clientVars>>
  PROVE  TypeOK'
<1>1. /\ ledger \in [Node -> LedgerType] /\ NodeTypeOK /\ LeaderTypeOK /\ ViewTypeOK
      /\ ClientTypeOK /\ HistoryTypeOK
      /\ n \in Node /\ m \in Message /\ m.blk \in BlockId /\ m.abandoned \in Seq(Proposal)
  BY NodeType, BlockMessageFields DEF TypeOK
<1>2. ViewTypeOK' /\ ClientTypeOK'
  BY <1>1 DEF ViewTypeOK, ClientTypeOK, viewVars, clientVars
<1>3. blockChan' = [blockChan EXCEPT ![n] = chan] => blockChan' \in [Node -> Seq(BlockMessage)]
  BY <1>1 DEF NodeTypeOK
<1>4. CASE IgnoreBlock(n, chan, packets)
  BY <1>1, <1>2, <1>3, <1>4
     DEF IgnoreBlock, TypeOK, NodeTypeOK, LeaderTypeOK, HistoryTypeOK, leaderVars, history
<1>5. CASE Ahead(n, m) /\ DeferBlock(n, m, chan, packets)
  <2>1. Enqueue(BlockMessages[n], m) \in Seq(BlockMessage)
    BY <1>1, EnqueueType DEF NodeTypeOK
  <2>2. BlockMessages' \in [Node -> Seq(BlockMessage)]
    BY <1>1, <1>5, <2>1 DEF DeferBlock, NodeTypeOK
  <2>3. net' \in SUBSET Packet
    <3>1. \A low \in Nat \ {0}, high \in Nat : StartDataSync(n, low, high) \in SUBSET Packet
      BY <1>1, StartDataSyncType
    <3>2. Height(ledger[n].tip) \in Nat /\ Height(m.blk) \in Nat
      BY <1>1, HeightType DEF LedgerType
    <3>3. Height(ledger[n].tip) + 1 \in Nat \ {0} /\ (Ahead(n, m) => Height(m.blk) - 1 \in Nat)
      BY <3>2 DEF Ahead
    <3> QED
      BY <1>5, <3>1, <3>3 DEF DeferBlock
  <2> QED
    BY <1>1, <1>2, <1>3, <1>5, <2>2, <2>3
       DEF DeferBlock, TypeOK, NodeTypeOK, LeaderTypeOK, HistoryTypeOK, leaderVars, history
<1>6. CASE VoteForBlock(n, m, chan, packets)
  <2>1. PICK sent \in ConfirmBroadcasts(n, BlockConfirmMsg(View[n], n, m.blk)) :
          net' = packets \cup sent
    BY <1>6 DEF VoteForBlock
  <2>2. BlockConfirmMsg(View[n], n, m.blk) \in Message
    BY <1>1, BlockConfirmMsgType DEF ViewTypeOK
  <2>3. net' \in SUBSET Packet
    BY <1>1, <2>1, <2>2, ConfirmBroadcastsType
  <2>4. signed' \in [Node -> SUBSET BlockId]
    BY <1>1, <1>6 DEF VoteForBlock, HistoryTypeOK
  <2>5. Block' \in [Node -> SUBSET BlockMessage]
    BY <1>1, <1>6 DEF VoteForBlock, NodeTypeOK
  <2>6. ProposalsCache' \in [Node -> [Proposal -> ProposalState]]
    <3>1. ModifyProposalState(ProposalsCache[n], <<m>>) \in [Proposal -> ProposalState]
      BY <1>1, ModifyProposalStateType DEF NodeTypeOK
    <3> QED
      BY <1>1, <1>6, <3>1 DEF VoteForBlock, NodeTypeOK
  <2> QED
    BY <1>1, <1>2, <1>3, <1>6, <2>3, <2>4, <2>5, <2>6
       DEF VoteForBlock, TypeOK, NodeTypeOK, LeaderTypeOK, HistoryTypeOK, leaderVars
<1> QED
  BY <1>4, <1>5, <1>6

LEMMA ProcessBlockMessageType ==
  ASSUME TypeOK, NEW n \in Up, NEW m \in BlockMessage, NEW chan \in Seq(BlockMessage),
         NEW packets \in SUBSET Packet,
         \/ ProcessBlockMessage(n, m, chan, packets)
         \/ IgnoreBlock(n, chan, packets),
         UNCHANGED <<viewVars, clientVars>>
  PROVE  TypeOK'
<1>1. /\ NodeTypeOK /\ ViewTypeOK /\ ClientTypeOK /\ HistoryTypeOK
      /\ n \in Node /\ m.blk \in BlockId
  BY NodeType, BlockMessageFields DEF TypeOK
<1>2. ViewTypeOK' /\ ClientTypeOK'
  BY <1>1 DEF ViewTypeOK, ClientTypeOK, viewVars, clientVars
<1>3. CASE \/ IgnoreBlock(n, chan, packets)
           \/ Ahead(n, m) /\ DeferBlock(n, m, chan, packets)
           \/ VoteForBlock(n, m, chan, packets)
  BY <1>3, BlockMessageKeptType
<1>4. CASE ExecuteConfirmed(n, m, chan, packets)
  <2> DEFINE b     == [blk |-> m.blk, sigs |-> Confirmations(n, m.blk)]
             cache == ModifyProposalState(ProposalsCache[n], <<m>>)
  <2>1. ExecuteBlock(n, b, cache, chan, packets)
    BY <1>4 DEF ExecuteConfirmed
  <2>2. b \in BlockValidated
    BY <1>1 DEF BlockValidated, Confirmations
  <2>3. cache \in [Proposal -> ProposalState]
    BY <1>1, ModifyProposalStateType DEF NodeTypeOK
  <2> HIDE DEF b, cache
  <2>4. Block' \in [Node -> SUBSET BlockMessage]
    BY <1>1, <1>4 DEF ExecuteConfirmed, NodeTypeOK
  <2>5. BlockPrepareMsg' \in [Node -> SUBSET (BlockId \X Node)]
    BY <1>1, <1>4 DEF ExecuteConfirmed, NodeTypeOK
  <2>6. /\ ledger' \in [Node -> LedgerType]
        /\ ProposalsCache' \in [Node -> [Proposal -> ProposalState]]
        /\ Blocks' \in [Node -> Seq(BlockValidated)]
        /\ BlockMessages' \in [Node -> Seq(BlockMessage)]
        /\ blockChan' \in [Node -> Seq(BlockMessage)]
        /\ net' \in SUBSET Packet
        /\ LeaderTypeOK'
        /\ mined' \subseteq [by : Node, blk : BlockId]
        /\ replied' \in [Node -> SUBSET Proposal]
    BY <1>1, <2>1, <2>2, <2>3, ExecuteBlockType
  <2>7. signed' \in [Node -> SUBSET BlockId]
    BY <1>1, <1>4 DEF ExecuteConfirmed, HistoryTypeOK
  <2> QED
    BY <1>2, <2>4, <2>5, <2>6, <2>7 DEF TypeOK, NodeTypeOK, HistoryTypeOK
<1> QED
  BY <1>3, <1>4 DEF ProcessBlockMessage

LEMMA ReceiveBlockType ==
  ASSUME TypeOK, NEW n \in Up, ReceiveBlock(n) \/ ReceiveDeferredBlock(n)
  PROVE  TypeOK'
<1>1. n \in Node /\ blockChan[n] \in Seq(BlockMessage) /\ net \in SUBSET Packet
  BY NodeType DEF TypeOK, NodeTypeOK
<1>2. CASE ReceiveBlock(n)
  <2>0. PICK pk \in Inbox(n, "Block") : \E packets \in Handled(pk) :
          /\ \/ IgnoreBlock(n, blockChan[n], packets)
             \/ ProcessBlockMessage(n, pk.msg, blockChan[n], packets)
          /\ UNCHANGED <<viewVars, clientVars>>
    BY <1>2 DEF ReceiveBlock
  <2>1. PICK packets \in Handled(pk) :
          /\ \/ IgnoreBlock(n, blockChan[n], packets)
             \/ ProcessBlockMessage(n, pk.msg, blockChan[n], packets)
          /\ UNCHANGED <<viewVars, clientVars>>
    BY <2>0
  <2>2. pk.msg \in BlockMessage /\ packets \in SUBSET Packet
    BY InboxType, MessageFields
  <2> QED
    BY <1>1, <2>1, <2>2, ProcessBlockMessageType, Zenon
<1>3. CASE ReceiveDeferredBlock(n)
  <2>1. Head(blockChan[n]) \in BlockMessage /\ Tail(blockChan[n]) \in Seq(BlockMessage)
    BY <1>1, <1>3, HeadTailProperties DEF ReceiveDeferredBlock
  <2> QED
    BY <1>1, <1>3, <2>1, ProcessBlockMessageType DEF ReceiveDeferredBlock
<1> QED
  BY <1>2, <1>3

LEMMA OrderType ==
  ASSUME TypeOK, NEW p \in Orders, Order(p)
  PROVE  TypeOK'
<1>1. p \in Proposal /\ p.from \in Node /\ p.zone \in Zone /\ Listeners \in SUBSET Node
  BY ProposalAssumption, NodesAssumption DEF Zone
<1>2. [to : Listeners, msg : {ProposalMsg(p)}] \in SUBSET Packet
  BY <1>1, ProposalMsgType, PacketsType
<1>3. WithLookup(ledger[p.from], p.zone) \in LedgerType
  BY <1>1, WithLookupType DEF TypeOK
<1>4. ledger' \in [Node -> LedgerType]
  BY <1>1, <1>3 DEF TypeOK, Order
<1> QED
  BY <1>1, <1>2, <1>4
     DEF Order, TypeOK, NodeTypeOK, LeaderTypeOK, ViewTypeOK, ClientTypeOK, HistoryTypeOK,
         nodeVars, leaderVars, viewVars, history

LEMMA ProposalTimeoutType ==
  ASSUME TypeOK, NEW p \in Orders, ProposalTimeout(p)
  PROVE  TypeOK'
<1>1. p \in Proposal /\ Listeners \in SUBSET Node
  BY ProposalAssumption, NodesAssumption
<1>2. [to : Listeners, msg : {ProposalConfirmMsg(p)}] \in SUBSET Packet
  BY <1>1, ProposalMsgType, PacketsType
<1> QED
  BY <1>1, <1>2
     DEF ProposalTimeout, TypeOK, NodeTypeOK, LeaderTypeOK, ViewTypeOK, ClientTypeOK,
         HistoryTypeOK, nodeVars, leaderVars, viewVars, history

LEMMA ReceiveProposalType ==
  ASSUME TypeOK, NEW n \in Up, ReceiveProposal(n)
  PROVE  TypeOK'
<1>0. PICK pk \in Inbox(n, "Proposal") : \E packets \in Handled(pk) :
        /\ \/ AcceptProposal(n, pk.msg.proposal, packets)
           \/ IgnoreProposal(n, pk.msg.proposal, packets)
        /\ UNCHANGED <<viewVars, clientVars>>
  BY DEF ReceiveProposal
<1>1. PICK packets \in Handled(pk) :
        /\ \/ AcceptProposal(n, pk.msg.proposal, packets)
           \/ IgnoreProposal(n, pk.msg.proposal, packets)
        /\ UNCHANGED <<viewVars, clientVars>>
  BY <1>0
<1> DEFINE p    == pk.msg.proposal
           l    == WithLookup(ledger[n], p.zone)
           pool == IF IsLeader(n) THEN Append(MessagePool[n], p) ELSE MessagePool[n]
<1>2. p \in Proposal /\ packets \in SUBSET Packet
  BY InboxType, MessageFields
<1>3. /\ n \in Node /\ ledger \in [Node -> LedgerType] /\ NodeTypeOK /\ LeaderTypeOK
      /\ ViewTypeOK /\ ClientTypeOK /\ HistoryTypeOK
  BY NodeType DEF TypeOK
<1>4. l \in LedgerType
  BY <1>2, <1>3, WithLookupType DEF Zone
<1>5. pool \in Seq(Proposal)
  BY <1>2, <1>3, AppendProperties DEF LeaderTypeOK
<1>6. ViewTypeOK' /\ ClientTypeOK'
  BY <1>1, <1>3 DEF ViewTypeOK, ClientTypeOK, viewVars, clientVars
<1>7. CASE IgnoreProposal(n, p, packets)
  <2>1. ledger' = [ledger EXCEPT ![n] = IF Fresh(n, p) THEN l ELSE @]
    BY <1>7 DEF IgnoreProposal
  <2>2. ledger' \in [Node -> LedgerType]
    <3> HIDE DEF l
    <3> QED
      BY <1>3, <1>4, <2>1
  <2> QED
    BY <1>2, <1>3, <1>6, <1>7, <2>2
       DEF IgnoreProposal, TypeOK, NodeTypeOK, LeaderTypeOK, HistoryTypeOK, nodeVars,
           leaderVars, history
<1>8. CASE AcceptProposal(n, p, packets)
  <2>1. /\ ledger' = [ledger EXCEPT ![n] = l]
        /\ ProposalsCache' = [ProposalsCache EXCEPT ![n][p] = "unreceived"]
        /\ \/ GenerateBlock(n, l, pool, BlockConfirm[n], packets)
           \/ NoMine(n, pool, BlockConfirm[n], packets)
        /\ UNCHANGED <<Blocks, BlockMessages, Block, BlockPrepareMsg, blockChan, interrupt,
                       signed, replied>>
    BY <1>8 DEF AcceptProposal
  <2>2. BlockConfirm[n] \in BOOLEAN
    BY <1>3 DEF LeaderTypeOK
  <2> HIDE DEF l, pool
  <2>3. /\ net' \in SUBSET Packet
        /\ MessagePool' \in [Node -> Seq(Proposal)]
        /\ BlockConfirm' \in [Node -> BOOLEAN]
        /\ UnConfirmedH' \in [Node -> Nat]
        /\ mined' \subseteq [by : Node, blk : BlockId]
    BY <1>2, <1>3, <1>4, <1>5, <2>1, <2>2, GenerateBlockType, Zenon
  <2>4. ProposalsCache' \in [Node -> [Proposal -> ProposalState]]
    BY <1>2, <1>3, <2>1 DEF NodeTypeOK, ProposalState
  <2>5. ledger' \in [Node -> LedgerType]
    BY <1>3, <1>4, <2>1
  <2> QED
    BY <1>3, <1>6, <2>1, <2>3, <2>4, <2>5
       DEF TypeOK, NodeTypeOK, LeaderTypeOK, HistoryTypeOK
<1> QED
  BY <1>1, <1>7, <1>8

LEMMA ReceiveBlockConfirmType ==
  ASSUME TypeOK, NEW n \in Up, ReceiveBlockConfirm(n)
  PROVE  TypeOK'
<1>0. PICK pk \in Inbox(n, "BlockConfirm") : \E packets \in Handled(pk) :
        LET m     == pk.msg
            votes == Confirmations(n, m.blk) \cup {m.from}
        IN  /\ \/ /\ net' = packets
                  /\ UNCHANGED <<ledger, nodeVars, leaderVars, history>>
               \/ ExecuteOnQuorum(n, m.blk, votes, packets)
               \/ CountConfirm(n, m.blk, m.from, packets)
            /\ UNCHANGED <<viewVars, clientVars>>
  BY DEF ReceiveBlockConfirm
<1>1. PICK packets \in Handled(pk) :
        LET m     == pk.msg
            votes == Confirmations(n, m.blk) \cup {m.from}
        IN  /\ \/ /\ net' = packets
                  /\ UNCHANGED <<ledger, nodeVars, leaderVars, history>>
               \/ ExecuteOnQuorum(n, m.blk, votes, packets)
               \/ CountConfirm(n, m.blk, m.from, packets)
            /\ UNCHANGED <<viewVars, clientVars>>
  BY <1>0
<1> DEFINE m == pk.msg
           b == [blk |-> m.blk, sigs |-> Confirmations(n, m.blk) \cup {m.from}]
<1>2. m.from \in Node /\ m.blk \in BlockId /\ packets \in SUBSET Packet
  BY InboxType, MessageFields
<1>3. /\ n \in Node /\ ledger \in [Node -> LedgerType] /\ NodeTypeOK /\ LeaderTypeOK
      /\ ViewTypeOK /\ ClientTypeOK /\ HistoryTypeOK
  BY NodeType DEF TypeOK
<1>4. ViewTypeOK' /\ ClientTypeOK'
  BY <1>1, <1>3 DEF ViewTypeOK, ClientTypeOK, viewVars, clientVars
<1>5. CASE net' = packets /\ UNCHANGED <<ledger, nodeVars, leaderVars, history>>
  BY <1>2, <1>3, <1>4, <1>5
     DEF TypeOK, NodeTypeOK, LeaderTypeOK, HistoryTypeOK, nodeVars, leaderVars, history
<1>6. CASE ExecuteOnQuorum(n, m.blk, b.sigs, packets)
  <2>1. ExecuteBlock(n, b, ProposalsCache[n], blockChan[n], packets)
    BY <1>6 DEF ExecuteOnQuorum
  <2>2. b \in BlockValidated
    BY <1>2 DEF BlockValidated, Confirmations
  <2>3. ProposalsCache[n] \in [Proposal -> ProposalState] /\ blockChan[n] \in Seq(BlockMessage)
    BY <1>3 DEF NodeTypeOK
  <2>4. Block' \in [Node -> SUBSET BlockMessage]
    BY <1>3, <1>6 DEF ExecuteOnQuorum, NodeTypeOK
  <2>5. BlockPrepareMsg' \in [Node -> SUBSET (BlockId \X Node)]
    BY <1>3, <1>6 DEF ExecuteOnQuorum, NodeTypeOK
  <2>6. signed' \in [Node -> SUBSET BlockId]
    BY <1>3, <1>6 DEF ExecuteOnQuorum, HistoryTypeOK
  <2> HIDE DEF b
  <2>7. /\ ledger' \in [Node -> LedgerType]
        /\ ProposalsCache' \in [Node -> [Proposal -> ProposalState]]
        /\ Blocks' \in [Node -> Seq(BlockValidated)]
        /\ BlockMessages' \in [Node -> Seq(BlockMessage)]
        /\ blockChan' \in [Node -> Seq(BlockMessage)]
        /\ net' \in SUBSET Packet
        /\ LeaderTypeOK'
        /\ mined' \subseteq [by : Node, blk : BlockId]
        /\ replied' \in [Node -> SUBSET Proposal]
    BY <1>2, <1>3, <2>1, <2>2, <2>3, ExecuteBlockType
  <2> QED
    BY <1>4, <2>4, <2>5, <2>6, <2>7 DEF TypeOK, NodeTypeOK, HistoryTypeOK
<1>7. CASE CountConfirm(n, m.blk, m.from, packets)
  <2>1. BlockPrepareMsg' \in [Node -> SUBSET (BlockId \X Node)]
    BY <1>2, <1>3, <1>7 DEF CountConfirm, NodeTypeOK
  <2> QED
    BY <1>2, <1>3, <1>4, <1>7, <2>1
       DEF CountConfirm, TypeOK, NodeTypeOK, LeaderTypeOK, HistoryTypeOK, leaderVars, history
<1> QED
  BY <1>1, <1>5, <1>6, <1>7

LEMMA ReceiveDataSyncType ==
  ASSUME TypeOK, NEW n \in Up, ReceiveDataSync(n)
  PROVE  TypeOK'
<1>1. PICK pk \in Inbox(n, "DataSync") : \E packets \in Handled(pk) :
        /\ net' = packets \cup
             (IF HasBlockAt(ledger[n], pk.msg.height)
              THEN [to  : {pk.msg.from},
                    msg : {DataSyncRespMsg(BlockByHeight(ledger[n], pk.msg.height))}]
              ELSE {})
        /\ UNCHANGED <<ledger, nodeVars, leaderVars, viewVars, clientVars, history>>
  BY DEF ReceiveDataSync
<1> DEFINE m == pk.msg
           b == BlockByHeight(ledger[n], m.height)
<1>2. PICK packets \in Handled(pk) :
        net' = packets \cup (IF HasBlockAt(ledger[n], m.height)
                             THEN [to : {m.from}, msg : {DataSyncRespMsg(b)}] ELSE {})
  BY <1>1
<1>3. m.from \in Node /\ m.height \in Nat /\ packets \in SUBSET Packet
  BY InboxType, MessageFields
<1>4. ledger[n] \in LedgerType
  BY NodeType DEF TypeOK
<1>5. ASSUME HasBlockAt(ledger[n], m.height)
      PROVE  [to : {m.from}, msg : {DataSyncRespMsg(b)}] \in SUBSET Packet
  BY <1>3, <1>4, <1>5, BlockByHeightType, DataSyncRespMsgType, PacketsType
<1>6. net' \in SUBSET Packet
  BY <1>2, <1>3, <1>5
<1> QED
  BY <1>1, <1>6 DEF TypeOK, NodeTypeOK, LeaderTypeOK, ViewTypeOK, ClientTypeOK, HistoryTypeOK,
                    nodeVars, leaderVars, viewVars, clientVars, history

LEMMA ReceiveDataSyncRespType ==
  ASSUME TypeOK, NEW n \in Up, ReceiveDataSyncResp(n)
  PROVE  TypeOK'
<1>1. PICK pk \in Inbox(n, "DataSyncResp") : \E packets \in Handled(pk) :
        /\ ExecuteBlock(n, pk.msg.block, ProposalsCache[n], blockChan[n], packets)
        /\ UNCHANGED <<Block, BlockPrepareMsg, signed, viewVars, clientVars>>
  BY DEF ReceiveDataSyncResp
<1>2. PICK packets \in Handled(pk) :
        ExecuteBlock(n, pk.msg.block, ProposalsCache[n], blockChan[n], packets)
  BY <1>1
<1>3. pk.msg.block \in BlockValidated /\ packets \in SUBSET Packet
  BY InboxType, MessageFields
<1>4. /\ n \in Node /\ ProposalsCache[n] \in [Proposal -> ProposalState]
      /\ blockChan[n] \in Seq(BlockMessage)
  BY NodeType DEF TypeOK, NodeTypeOK
<1>5. /\ ledger' \in [Node -> LedgerType]
      /\ ProposalsCache' \in [Node -> [Proposal -> ProposalState]]
      /\ Blocks' \in [Node -> Seq(BlockValidated)]
      /\ BlockMessages' \in [Node -> Seq(BlockMessage)]
      /\ blockChan' \in [Node -> Seq(BlockMessage)]
      /\ net' \in SUBSET Packet
      /\ LeaderTypeOK'
      /\ mined' \subseteq [by : Node, blk : BlockId]
      /\ replied' \in [Node -> SUBSET Proposal]
  BY <1>2, <1>3, <1>4, ExecuteBlockType
<1> QED
  BY <1>1, <1>5
     DEF TypeOK, NodeTypeOK, ViewTypeOK, ClientTypeOK, HistoryTypeOK, viewVars, clientVars

LEMMA ReceiveProposalConfirmType ==
  ASSUME TypeOK, NEW n \in Up, ReceiveProposalConfirm(n)
  PROVE  TypeOK'
<1>1. PICK pk \in Inbox(n, "ProposalConfirm") : \E packets \in Handled(pk) :
        /\ \/ TipStored(ledger[n]) /\ StartViewChange(n, packets)
           \/ net' = packets
        /\ UNCHANGED <<ledger, nodeVars, leaderVars, viewVars, clientVars, history>>
  BY DEF ReceiveProposalConfirm
<1>2. PICK packets \in Handled(pk) :
        (TipStored(ledger[n]) /\ StartViewChange(n, packets)) \/ net' = packets
  BY <1>1
<1>3. packets \in SUBSET Packet
  BY InboxType
<1>4. /\ n \in Node /\ ledger[n] \in LedgerType /\ Block[n] \in SUBSET BlockMessage
      /\ View[n] \in Nat
  BY NodeType DEF TypeOK, NodeTypeOK, ViewTypeOK
<1>5. ASSUME TipStored(ledger[n]), StartViewChange(n, packets)
      PROVE  net' \in SUBSET Packet
  <2>1. PICK o \in Block[n] \cup {NoBlockMsg} :
          net' = packets \cup
                   Broadcast({ViewChangeMsg(View[n], n, LatestBlock(ledger[n]), o)})
    BY <1>5 DEF StartViewChange
  <2>2. o \in BlockMessage
    BY <1>4, <2>1, NoBlockMsgType
  <2>3. ViewChangeMsg(View[n], n, LatestBlock(ledger[n]), o) \in Message
    BY <1>4, <1>5, <2>2, LatestBlockType, ViewChangeMsgType
  <2> QED
    BY <1>3, <2>1, <2>3, BroadcastType
<1>6. net' \in SUBSET Packet
  BY <1>2, <1>3, <1>5
<1> QED
  BY <1>1, <1>6 DEF TypeOK, NodeTypeOK, LeaderTypeOK, ViewTypeOK, ClientTypeOK, HistoryTypeOK,
                    nodeVars, leaderVars, viewVars, clientVars, history

LEMMA InterruptType ==
  ASSUME TypeOK, NEW n \in Up, Interrupt(n) \/ Tick(n)
  PROVE  TypeOK'
<1>1. /\ n \in Node /\ ledger[n] \in LedgerType /\ MessagePool[n] \in Seq(Proposal)
      /\ BlockConfirm[n] \in BOOLEAN /\ net \in SUBSET Packet
      /\ interrupt \in [Node -> BOOLEAN]
  BY NodeType DEF TypeOK, LeaderTypeOK
<1>2. CASE Interrupt(n)
  <2>1. /\ net' \in SUBSET Packet
        /\ MessagePool' \in [Node -> Seq(Proposal)]
        /\ BlockConfirm' \in [Node -> BOOLEAN]
        /\ UnConfirmedH' \in [Node -> Nat]
        /\ mined' \subseteq [by : Node, blk : BlockId]
    BY <1>1, <1>2, GenerateBlockType DEF Interrupt
  <2> QED
    BY <1>1, <1>2, <2>1
       DEF Interrupt, TypeOK, NodeTypeOK, LeaderTypeOK, ViewTypeOK, ClientTypeOK,
           HistoryTypeOK, nodeVars, viewVars, clientVars
<1>3. CASE Tick(n)
  BY <1>1, <1>3
     DEF Tick, TypeOK, NodeTypeOK, LeaderTypeOK, ViewTypeOK, ClientTypeOK, HistoryTypeOK,
         nodeVars, viewVars, clientVars, history
<1> QED
  BY <1>2, <1>3

LEMMA ReceiveViewChangeType ==
  ASSUME TypeOK, NEW n \in Up, ReceiveViewChange(n)
  PROVE  TypeOK'
<1>0. PICK pk \in Inbox(n, "ViewChange") : \E packets \in Handled(pk) :
        LET msgs == {v \in ViewChangeMsgs[n] : v.from # pk.msg.from} \cup {pk.msg}
        IN  /\ \/ net' = packets /\ UNCHANGED <<OnChange, ViewChangeMsgs>>
               \/ /\ ViewChangeMsgs' = [ViewChangeMsgs EXCEPT ![n] = msgs]
                  /\ \/ StartChange(n, msgs, packets)
                     \/ net' = packets /\ UNCHANGED OnChange
            /\ UNCHANGED <<ledger, nodeVars, leaderVars, View, clientVars, history>>
  BY DEF ReceiveViewChange
<1> DEFINE msgs == {v \in ViewChangeMsgs[n] : v.from # pk.msg.from} \cup {pk.msg}
<1>1. PICK packets \in Handled(pk) :
        /\ \/ net' = packets /\ UNCHANGED <<OnChange, ViewChangeMsgs>>
           \/ /\ ViewChangeMsgs' = [ViewChangeMsgs EXCEPT ![n] = msgs]
              /\ \/ StartChange(n, msgs, packets)
                 \/ net' = packets /\ UNCHANGED OnChange
        /\ UNCHANGED <<ledger, nodeVars, leaderVars, View, clientVars, history>>
  BY <1>0
<1>2. pk.msg \in ViewChangeMessage /\ packets \in SUBSET Packet
  BY InboxType, MessageFields
<1>3. n \in Node /\ ViewTypeOK
  BY NodeType DEF TypeOK
<1>4. msgs \in SUBSET ViewChangeMessage
  BY <1>2, <1>3 DEF ViewTypeOK
<1> HIDE DEF msgs
<1>5. ViewChangeMsgs' \in [Node -> SUBSET ViewChangeMessage]
  BY <1>1, <1>3, <1>4 DEF ViewTypeOK
<1>6. ASSUME StartChange(n, msgs, packets)
      PROVE  net' \in SUBSET Packet /\ OnChange' \in [Node -> BOOLEAN]
  <2>1. OnChange' \in [Node -> BOOLEAN]
    BY <1>3, <1>6 DEF StartChange, ViewTypeOK
  <2>2. ASSUME NEW o \in Reported(msgs) \ {NoBlockMsg},
               net' = packets \cup Broadcast({NewViewMsg(View[n], o, {v.from : v \in msgs})})
        PROVE  net' \in SUBSET Packet
    <3>1. o \in BlockMessage
      BY <1>4 DEF Reported, ViewChangeMessage
    <3>2. {v.from : v \in msgs} \in SUBSET Node
      BY <1>4 DEF ViewChangeMessage
    <3>3. NewViewMsg(View[n], o, {v.from : v \in msgs}) \in Message
      BY <1>3, <3>1, <3>2, NewViewMsgType DEF ViewTypeOK
    <3> QED
      BY <1>2, <2>2, <3>3, BroadcastType
  <2> QED
    BY <1>2, <1>6, <2>1, <2>2 DEF StartChange
<1>7. net' \in SUBSET Packet /\ OnChange' \in [Node -> BOOLEAN]
  BY <1>1, <1>2, <1>3, <1>6 DEF ViewTypeOK
<1> QED
  BY <1>1, <1>5, <1>7 DEF TypeOK, NodeTypeOK, LeaderTypeOK, ViewTypeOK, ClientTypeOK,
                          HistoryTypeOK, nodeVars, leaderVars, clientVars, history

LEMMA ReceiveNewViewType ==
  ASSUME TypeOK, NEW n \in Up, ReceiveNewView(n)
  PROVE  TypeOK'
<1>0. PICK pk \in Inbox(n, "NewView") : \E packets \in Handled(pk) :
        \/ EnterView(n, pk.msg, packets)
        \/ /\ net' = packets
           /\ UNCHANGED <<ledger, nodeVars, leaderVars, viewVars, clientVars, history>>
  BY DEF ReceiveNewView
<1>1. PICK packets \in Handled(pk) :
        \/ EnterView(n, pk.msg, packets)
        \/ /\ net' = packets
           /\ UNCHANGED <<ledger, nodeVars, leaderVars, viewVars, clientVars, history>>
  BY <1>0
<1> DEFINE m == pk.msg
           l == ledger[n]
           height == Height(m.pending.blk)
           behind == TipStored(l) /\ Height(l.tip) < height
           ahead  == TipStored(l) /\ Height(l.tip) > height
<1>2. m.view \in Nat /\ m.pending \in BlockMessage /\ packets \in SUBSET Packet
  BY InboxType, MessageFields
<1>3. /\ n \in Node /\ ledger \in [Node -> LedgerType] /\ NodeTypeOK /\ LeaderTypeOK
      /\ ViewTypeOK /\ ClientTypeOK /\ HistoryTypeOK
  BY NodeType DEF TypeOK
<1>4. CASE net' = packets /\ UNCHANGED <<ledger, nodeVars, leaderVars, viewVars, clientVars, history>>
  BY <1>2, <1>3, <1>4
     DEF TypeOK, NodeTypeOK, LeaderTypeOK, ViewTypeOK, ClientTypeOK, HistoryTypeOK,
         nodeVars, leaderVars, viewVars, clientVars, history
<1>5. CASE EnterView(n, m, packets)
  <2>1. net' \in SUBSET Packet
    <3>1. net' = packets \cup
            (IF behind THEN StartDataSync(n, Height(l.tip) + 1, height) ELSE {})
      BY <1>5 DEF EnterView
    <3>2. Height(l.tip) + 1 \in Nat \ {0} /\ height \in Nat
      BY <1>2, <1>3, BlockMessageFields, HeightType DEF LedgerType
    <3> HIDE DEF behind, height
    <3>3. StartDataSync(n, Height(l.tip) + 1, height) \in SUBSET Packet
      BY <1>3, <3>2, StartDataSyncType
    <3> QED
      BY <1>2, <3>1, <3>3
  <2>2. ledger' \in [Node -> LedgerType]
    <3>1. ledger' = [ledger EXCEPT ![n] = IF ahead THEN RevokeBlock(@) ELSE @]
      BY <1>5 DEF EnterView
    <3>2. RevokeBlock(l) \in LedgerType
      BY <1>3, RevokeBlockType
    <3> QED
      BY <1>3, <3>1, <3>2
  <2>3. NodeTypeOK'
    <3>1. BlockMessages' \in [Node -> Seq(BlockMessage)]
      <4>1. BlockMessages' = [BlockMessages EXCEPT ![n] =
                                IF behind THEN <<m.pending>> ELSE << >>]
        BY <1>5 DEF EnterView
      <4>2. <<m.pending>> \in Seq(BlockMessage) /\ << >> \in Seq(BlockMessage)
        BY <1>2
      <4> QED
        BY <1>3, <4>1, <4>2 DEF NodeTypeOK
    <3>2. ProposalsCache' \in [Node -> [Proposal -> ProposalState]]
      BY <1>3, <1>5 DEF EnterView, NodeTypeOK, ProposalState
    <3>3. Block' \in [Node -> SUBSET BlockMessage]
      BY <1>3, <1>5 DEF EnterView, NodeTypeOK
    <3>4. BlockPrepareMsg' \in [Node -> SUBSET (BlockId \X Node)]
      BY <1>3, <1>5 DEF EnterView, NodeTypeOK
    <3> QED
      BY <1>3, <1>5, <3>1, <3>2, <3>3, <3>4 DEF EnterView, NodeTypeOK
  <2>4. LeaderTypeOK'
    <3>1. MessagePool' \in [Node -> Seq(Proposal)]
      <4>1. << >> \in Seq(Proposal)
        OBVIOUS
      <4> QED
        BY <1>3, <1>5, <4>1 DEF EnterView, LeaderTypeOK
    <3>2. BlockConfirm' \in [Node -> BOOLEAN]
      BY <1>3, <1>5 DEF EnterView, LeaderTypeOK, IsLeader
    <3> QED
      BY <1>3, <1>5, <3>1, <3>2 DEF EnterView, LeaderTypeOK
  <2>5. ViewTypeOK'
    <3>1. View' \in [Node -> Nat]
      BY <1>2, <1>3, <1>5 DEF EnterView, ViewTypeOK
    <3>2. ViewChangeMsgs' \in [Node -> SUBSET ViewChangeMessage]
      BY <1>3, <1>5 DEF EnterView, ViewTypeOK
    <3>3. OnChange' \in [Node -> BOOLEAN]
      BY <1>3, <1>5 DEF EnterView, ViewTypeOK, TipStored
    <3> QED
      BY <3>1, <3>2, <3>3 DEF ViewTypeOK
  <2> QED
    BY <1>3, <1>5, <2>1, <2>2, <2>3, <2>4, <2>5
       DEF EnterView, TypeOK, ClientTypeOK, HistoryTypeOK, clientVars, history
<1> QED
  BY <1>1, <1>4, <1>5

LEMMA GenesisLedgerType == GenesisLedger \in LedgerType
BY GenesisType DEF GenesisLedger, LedgerType, BlockValidated

LEMMA RestartType ==
  ASSUME TypeOK, NEW n \in Up, Restart(n)
  PROVE  TypeOK'
<1>1. /\ n \in Node /\ ledger \in [Node -> LedgerType] /\ NodeTypeOK /\ LeaderTypeOK
      /\ ViewTypeOK /\ ClientTypeOK /\ HistoryTypeOK /\ Up \in SUBSET Node
  BY NodeType DEF TypeOK
<1>2. ledger' \in [Node -> LedgerType]
  <2>1. ledger' = [ledger EXCEPT ![n] = IF RestartWipes THEN GenesisLedger ELSE @]
    BY DEF Restart
  <2> QED
    BY <1>1, <2>1, GenesisLedgerType
<1>3. NodeTypeOK'
  <2>1. << >> \in Seq(BlockValidated) /\ << >> \in Seq(BlockMessage)
    OBVIOUS
  <2>2. ProposalsCache' \in [Node -> [Proposal -> ProposalState]]
    BY <1>1 DEF Restart, NodeTypeOK, ProposalState
  <2>3. Block' \in [Node -> SUBSET BlockMessage]
    BY <1>1 DEF Restart, NodeTypeOK
  <2>4. BlockPrepareMsg' \in [Node -> SUBSET (BlockId \X Node)]
    BY <1>1 DEF Restart, NodeTypeOK
  <2> QED
    BY <1>1, <2>1, <2>2, <2>3, <2>4 DEF Restart, NodeTypeOK
<1>4. LeaderTypeOK'
  <2>1. << >> \in Seq(Proposal)
    OBVIOUS
  <2> QED
    BY <1>1, <2>1 DEF Restart, LeaderTypeOK
<1>5. ViewTypeOK'
  <2>1. View' \in [Node -> Nat]
    BY <1>1 DEF Restart, ViewTypeOK
  <2>2. OnChange' \in [Node -> BOOLEAN]
    BY <1>1 DEF Restart, ViewTypeOK
  <2>3. ViewChangeMsgs' \in [Node -> SUBSET ViewChangeMessage]
    BY <1>1 DEF Restart, ViewTypeOK
  <2> QED
    BY <2>1, <2>2, <2>3 DEF ViewTypeOK
<1>6. net' \in SUBSET Packet
  BY DEF Restart, TypeOK
<1>7. ClientTypeOK'
  BY <1>1, BoundsAssumption DEF Restart, ClientTypeOK
<1> QED
  BY <1>1, <1>2, <1>3, <1>4, <1>5, <1>6, <1>7 DEF Restart, TypeOK, HistoryTypeOK, history

LEMMA InitType ==
  ASSUME Init
  PROVE  TypeOK
<1>1. \A n \in Node : LoadedLedger(Disk[n]) \in LedgerType
  <2> SUFFICES ASSUME NEW n \in Node PROVE LoadedLedger(Disk[n]) \in LedgerType
    OBVIOUS
  <2>1. Disk[n] \in BlockId /\ Height(Disk[n]) \in Nat /\ DiskSigs \in SUBSET Node
    BY DiskAssumption, HeightType
  <2>2. \A h \in 0..Height(Disk[n]) : Ancestor(Disk[n], h) \in BlockId
    BY <2>1, AncestorType DEF BlockId
  <2>3. \A h \in 0..Height(Disk[n]) :
          [blk  |-> Ancestor(Disk[n], h), sigs |-> IF h = 0 THEN {} ELSE DiskSigs]
            \in BlockValidated
    BY <2>1, <2>2 DEF BlockValidated
  <2>4. {[blk |-> Ancestor(Disk[n], h), sigs |-> IF h = 0 THEN {} ELSE DiskSigs]
           : h \in 0..Height(Disk[n])} \in SUBSET BlockValidated
    BY <2>3
  <2> QED
    BY <2>1, <2>4 DEF LoadedLedger, LedgerType
<1>2. NodeTypeOK
  <2>1. << >> \in Seq(BlockValidated) /\ << >> \in Seq(BlockMessage)
    OBVIOUS
  <2> QED
    BY <2>1 DEF Init, NodeTypeOK, ProposalState
<1>3. LeaderTypeOK
  <2>1. << >> \in Seq(Proposal)
    OBVIOUS
  <2> QED
    BY <2>1 DEF Init, LeaderTypeOK
<1>4. ViewTypeOK
  BY NodesAssumption DEF Init, ViewTypeOK
<1>5. ClientTypeOK
  BY BoundsAssumption DEF Init, ClientTypeOK
<1>6. HistoryTypeOK
  <2>1. \A k \in Node : \A h \in 1..Height(Disk[k]) : Ancestor(Disk[k], h) \in BlockId
    BY DiskAssumption, HeightType, AncestorType DEF BlockId
  <2>2. UNION {{Ancestor(Disk[k], h) : h \in 1..Height(Disk[k])} : k \in Node} \in SUBSET BlockId
    BY <2>1
  <2> QED
    BY <2>2 DEF Init, HistoryTypeOK
<1> QED
  BY <1>1, <1>2, <1>3, <1>4, <1>5, <1>6 DEF Init, TypeOK

----------------------------------------------------------------------------

LEMMA NextType == TypeOK /\ [Next]_vars => TypeOK'
<1> SUFFICES ASSUME TypeOK, [Next]_vars PROVE TypeOK'
  OBVIOUS
<1>1. ASSUME NEW p \in Orders, Order(p) PROVE TypeOK'
  BY <1>1, OrderType
<1>2. ASSUME NEW p \in Orders, ProposalTimeout(p) PROVE TypeOK'
  BY <1>2, ProposalTimeoutType
<1>3. ASSUME NEW n \in Up, Handle(n) PROVE TypeOK'
  BY <1>3, ReceiveProposalType, ReceiveBlockType, ReceiveBlockConfirmType,
     ReceiveDataSyncType, ReceiveDataSyncRespType, ReceiveProposalConfirmType,
     ReceiveViewChangeType, ReceiveNewViewType, InterruptType DEF Handle
<1>4. ASSUME NEW n \in Up, Tick(n) PROVE TypeOK'
  BY <1>4, InterruptType
<1>5. ASSUME NEW n \in Up, Restart(n) PROVE TypeOK'
  BY <1>5, RestartType
<1>6. CASE UNCHANGED vars
  BY <1>6 DEF TypeOK, NodeTypeOK, LeaderTypeOK, ViewTypeOK, ClientTypeOK, HistoryTypeOK,
              vars, nodeVars, leaderVars, viewVars, clientVars, history
<1> QED
  BY <1>1, <1>2, <1>3, <1>4, <1>5, <1>6 DEF Next

\* Every reachable state has the declared types, whatever the network size and
\* the workload: the queues hold what Enqueue put there, no pool or packet ever
\* holds a value of another kind, and no height asked for with StartDataSync is
\* below one (heights are unsigned in the code, and genesis carries no
\* signatures).
THEOREM TypeCorrect == Spec => []TypeOK
<1>1. Init => TypeOK
  BY InitType
<1>2. TypeOK /\ [Next]_vars => TypeOK'
  BY NextType
<1> QED
  BY <1>1, <1>2, PTL DEF Spec

----------------------------------------------------------------------------
(* What the shared steps send.                                             *)

LEMMA GenerateBlockSends ==
  ASSUME NEW n, NEW l, NEW pool, NEW confirm, NEW packets,
         GenerateBlock(n, l, pool, confirm, packets) \/ NoMine(n, pool, confirm, packets)
  PROVE  \A pk \in net' : pk \in packets \/ pk.msg.type = "Block"
<1>1. CASE NoMine(n, pool, confirm, packets)
  BY <1>1 DEF NoMine
<1>2. CASE Mine(n, l, pool, packets)
  <2>1. \E blk, abandoned : net' = packets \cup Broadcast({BlockMsg(View[n], blk, abandoned)})
    BY <1>2 DEF Mine
  <2> QED
    BY <2>1 DEF Broadcast, BlockMsg
<1> QED
  BY <1>1, <1>2 DEF GenerateBlock

LEMMA ExecuteBlockSends ==
  ASSUME NEW n, NEW b, NEW cache, NEW chan, NEW packets,
         ExecuteBlock(n, b, cache, chan, packets)
  PROVE  \A pk \in net' : pk \in packets \/ pk.msg.type = "Block"
<1>1. \E l, pool, confirm :
        GenerateBlock(n, l, pool, confirm, packets) \/ NoMine(n, pool, confirm, packets)
  BY DEF ExecuteBlock
<1> QED
  BY <1>1, GenerateBlockSends

LEMMA StartDataSyncSends ==
  ASSUME NEW n, NEW low, NEW high
  PROVE  \A pk \in StartDataSync(n, low, high) : pk.msg.type = "DataSync"
BY DEF StartDataSync, DataSyncMsg

LEMMA VoteSends ==
  ASSUME NEW n \in Node, NEW view, NEW blk,
         NEW sent \in ConfirmBroadcasts(n, BlockConfirmMsg(view, n, blk))
  PROVE  \A pk \in sent : pk.msg = BlockConfirmMsg(view, n, blk)
<1>1. \A to : \A pk \in [to : to, msg : {BlockConfirmMsg(view, n, blk)}] :
        pk.msg = BlockConfirmMsg(view, n, blk)
  OBVIOUS
<1>2. \E to : sent = [to : to, msg : {BlockConfirmMsg(view, n, blk)}]
  BY DEF ConfirmBroadcasts, Broadcast
<1> QED
  BY <1>1, <1>2

\* What handling a block message sends beyond the packets that remain: blocks,
\* requests for blocks, and one's own confirmation of that block.
LEMMA ProcessBlockMessageSends ==
  ASSUME NEW n \in Node, NEW m, NEW chan, NEW packets,
         ProcessBlockMessage(n, m, chan, packets) \/ IgnoreBlock(n, chan, packets)
  PROVE  \A pk \in net' : \/ pk \in packets
                          \/ pk.msg.type \in {"Block", "DataSync"}
                          \/ /\ pk.msg = BlockConfirmMsg(View[n], n, m.blk)
                             /\ signed' = [signed EXCEPT ![n] = @ \cup {m.blk}]
<1>1. CASE IgnoreBlock(n, chan, packets)
  BY <1>1 DEF IgnoreBlock
<1>2. CASE DeferBlock(n, m, chan, packets)
  BY <1>2, StartDataSyncSends DEF DeferBlock
<1>3. CASE VoteForBlock(n, m, chan, packets)
  BY <1>3, VoteSends DEF VoteForBlock
<1>4. CASE ExecuteConfirmed(n, m, chan, packets)
  BY <1>4, ExecuteBlockSends DEF ExecuteConfirmed
<1> QED
  BY <1>1, <1>2, <1>3, <1>4 DEF ProcessBlockMessage

----------------------------------------------------------------------------
(* Views.                                                                  *)

\* The views the nodes left the election with.
Elected(view) == \E k \in Node : view = InitView[k]

\* NoFreshView with what makes it inductive: a NewView on its way names the
\* view its sender was in.
NewViewsElected == \A pk \in net : pk.msg.type = "NewView" => Elected(pk.msg.view)

ViewInv == TypeOK /\ NoFreshView /\ NewViewsElected

LEMMA ViewInvInit == Init => ViewInv
<1> SUFFICES ASSUME Init PROVE ViewInv
  OBVIOUS
<1>1. TypeOK
  BY InitType
<1>2. NoFreshView
  BY DEF Init, NoFreshView
<1>3. NewViewsElected
  BY DEF Init, NewViewsElected
<1> QED
  BY <1>1, <1>2, <1>3 DEF ViewInv

\* A step that leaves the views alone and announces none.
LEMMA QuietStep ==
  ASSUME ViewInv, UNCHANGED View,
         \A pk \in net' : pk \in net \/ pk.msg.type # "NewView"
  PROVE  NoFreshView' /\ NewViewsElected'
BY DEF ViewInv, NoFreshView, NewViewsElected, Elected

LEMMA ViewInvNext == ViewInv /\ [Next]_vars => ViewInv'
<1> SUFFICES ASSUME ViewInv, [Next]_vars PROVE ViewInv'
  OBVIOUS
<1>1. TypeOK /\ TypeOK'
  BY NextType DEF ViewInv
<1>2. ASSUME NEW n \in Node PROVE Elected(View[n])
  BY DEF ViewInv, NoFreshView, Elected
<1>3. ASSUME NEW p \in Orders, Order(p) \/ ProposalTimeout(p)
      PROVE  NoFreshView' /\ NewViewsElected'
  <2>1. UNCHANGED View /\ \A pk \in net' : pk \in net \/ pk.msg.type # "NewView"
    BY <1>3 DEF Order, ProposalTimeout, ProposalMsg, ProposalConfirmMsg, viewVars
  <2> QED
    BY <2>1, QuietStep
<1>4. ASSUME NEW n \in Up, ReceiveProposal(n)
      PROVE  NoFreshView' /\ NewViewsElected'
  <2>1. PICK pk \in Inbox(n, "Proposal") : \E packets \in Handled(pk) :
          /\ \/ AcceptProposal(n, pk.msg.proposal, packets)
             \/ IgnoreProposal(n, pk.msg.proposal, packets)
          /\ UNCHANGED viewVars
    BY <1>4 DEF ReceiveProposal
  <2>2. PICK packets \in Handled(pk) :
          /\ \/ AcceptProposal(n, pk.msg.proposal, packets)
             \/ IgnoreProposal(n, pk.msg.proposal, packets)
          /\ UNCHANGED viewVars
    BY <2>1
  <2>3. packets \subseteq net
    BY HandledType
  <2>4. \A q \in net' : q \in packets \/ q.msg.type = "Block"
    <3>1. CASE AcceptProposal(n, pk.msg.proposal, packets)
      <4>1. \E l, pool, confirm :
              GenerateBlock(n, l, pool, confirm, packets) \/ NoMine(n, pool, confirm, packets)
        BY <3>1 DEF AcceptProposal
      <4> QED
        BY <4>1, GenerateBlockSends
    <3>2. CASE IgnoreProposal(n, pk.msg.proposal, packets)
      BY <3>2 DEF IgnoreProposal
    <3> QED
      BY <2>2, <3>1, <3>2
  <2>5. UNCHANGED View /\ \A q \in net' : q \in net \/ q.msg.type # "NewView"
    BY <2>2, <2>3, <2>4 DEF viewVars
  <2> QED
    BY <2>5, QuietStep
<1>5. ASSUME NEW n \in Up, ReceiveBlock(n) \/ ReceiveDeferredBlock(n)
      PROVE  NoFreshView' /\ NewViewsElected'
  <2>1. \E m, chan, packets :
          /\ packets \subseteq net
          /\ ProcessBlockMessage(n, m, chan, packets) \/ IgnoreBlock(n, chan, packets)
          /\ UNCHANGED viewVars
    <3>1. CASE ReceiveBlock(n)
      BY <3>1, HandledType DEF ReceiveBlock
    <3>2. CASE ReceiveDeferredBlock(n)
      BY <3>2 DEF ReceiveDeferredBlock
    <3> QED
      BY <1>5, <3>1, <3>2
  <2>2. UNCHANGED View /\ \A q \in net' : q \in net \/ q.msg.type # "NewView"
    <3>1. PICK m, chan, packets :
            /\ packets \subseteq net
            /\ ProcessBlockMessage(n, m, chan, packets) \/ IgnoreBlock(n, chan, packets)
            /\ UNCHANGED viewVars
      BY <2>1
    <3>2. n \in Node
      BY NodeType
    <3>3. \A q \in net' : \/ q \in packets \/ q.msg.type \in {"Block", "DataSync"}
                           \/ q.msg = BlockConfirmMsg(View[n], n, m.blk)
      BY <3>1, <3>2, ProcessBlockMessageSends
    <3> QED
      BY <3>1, <3>3 DEF viewVars, BlockConfirmMsg
  <2> QED
    BY <2>2, QuietStep
<1>6. ASSUME NEW n \in Up, ReceiveBlockConfirm(n) \/ ReceiveDataSyncResp(n)
      PROVE  NoFreshView' /\ NewViewsElected'
  <2>1. UNCHANGED viewVars /\ \E packets \in SUBSET net :
          net' = packets \/ \E b, cache, chan : ExecuteBlock(n, b, cache, chan, packets)
    <3>1. CASE ReceiveBlockConfirm(n)
      BY <3>1, HandledType DEF ReceiveBlockConfirm, ExecuteOnQuorum, CountConfirm
    <3>2. CASE ReceiveDataSyncResp(n)
      BY <3>2, HandledType DEF ReceiveDataSyncResp
    <3> QED
      BY <1>6, <3>1, <3>2
  <2>2. UNCHANGED View /\ \A q \in net' : q \in net \/ q.msg.type # "NewView"
    BY <2>1, ExecuteBlockSends DEF viewVars
  <2> QED
    BY <2>2, QuietStep
<1>7. ASSUME NEW n \in Up, ReceiveDataSync(n) \/ ReceiveProposalConfirm(n)
      PROVE  NoFreshView' /\ NewViewsElected'
  <2>1. UNCHANGED View /\ \A q \in net' : q \in net \/ q.msg.type # "NewView"
    <3>1. CASE ReceiveDataSync(n)
      BY <3>1, HandledType DEF ReceiveDataSync, DataSyncRespMsg, viewVars
    <3>2. CASE ReceiveProposalConfirm(n)
      BY <3>2, HandledType
         DEF ReceiveProposalConfirm, StartViewChange, Broadcast, ViewChangeMsg, viewVars
    <3> QED
      BY <1>7, <3>1, <3>2
  <2> QED
    BY <2>1, QuietStep
<1>8. ASSUME NEW n \in Up, Interrupt(n) \/ Tick(n)
      PROVE  NoFreshView' /\ NewViewsElected'
  <2>1. UNCHANGED View /\ \A q \in net' : q \in net \/ q.msg.type # "NewView"
    BY <1>8, GenerateBlockSends DEF Interrupt, Tick, viewVars
  <2> QED
    BY <2>1, QuietStep
<1>9. ASSUME NEW n \in Up, ReceiveViewChange(n)
      PROVE  NoFreshView' /\ NewViewsElected'
  <2>1. UNCHANGED View
    BY <1>9 DEF ReceiveViewChange
  <2>2. \A q \in net' : q \in net \/ (q.msg.type = "NewView" /\ q.msg.view = View[n])
    <3>1. PICK packets :
            /\ packets \subseteq net
            /\ \/ net' = packets
               \/ \E o, senders : net' = packets \cup Broadcast({NewViewMsg(View[n], o, senders)})
      BY <1>9, HandledType DEF ReceiveViewChange, StartChange
    <3>2. \A o, senders : \A q \in Broadcast({NewViewMsg(View[n], o, senders)}) :
            q.msg.type = "NewView" /\ q.msg.view = View[n]
      BY DEF Broadcast, NewViewMsg
    <3>3. CASE net' = packets
      BY <3>1, <3>3
    <3>4. CASE \E o, senders : net' = packets \cup Broadcast({NewViewMsg(View[n], o, senders)})
      <4>1. PICK o, senders : net' = packets \cup Broadcast({NewViewMsg(View[n], o, senders)})
        BY <3>4
      <4>2. \A q \in net' : q \in packets \/ q \in Broadcast({NewViewMsg(View[n], o, senders)})
        BY <4>1
      <4> QED
        BY <3>1, <3>2, <4>2
    <3> QED
      BY <3>1, <3>3, <3>4
  <2>3. Elected(View[n])
    BY <1>2, NodeType
  <2> QED
    BY <2>1, <2>2, <2>3 DEF ViewInv, NoFreshView, NewViewsElected, Elected
<1>10. ASSUME NEW n \in Up, ReceiveNewView(n)
       PROVE  NoFreshView' /\ NewViewsElected'
  <2>1. PICK pk \in Inbox(n, "NewView") : \E packets \in Handled(pk) :
          \/ EnterView(n, pk.msg, packets)
          \/ (net' = packets /\ UNCHANGED viewVars)
    BY <1>10 DEF ReceiveNewView
  <2>2. \E packets \in Handled(pk) :
          \A q \in net' : q \in packets \/ q.msg.type = "DataSync"
    BY <2>1, StartDataSyncSends DEF EnterView
  <2>3. \A q \in net' : q \in net \/ q.msg.type = "DataSync"
    BY <2>2, HandledType
  <2>4. NewViewsElected'
    BY <2>3 DEF ViewInv, NewViewsElected, Elected
  <2>5. View' = View \/ View' = [View EXCEPT ![n] = pk.msg.view]
    BY <2>1 DEF EnterView, viewVars
  <2>6. Elected(pk.msg.view)
    BY <2>1 DEF Inbox, ViewInv, NewViewsElected
  <2> QED
    BY <1>1, <2>4, <2>5, <2>6 DEF ViewInv, NoFreshView, Elected, TypeOK, ViewTypeOK
<1>11. ASSUME NEW n \in Up, Restart(n)
       PROVE  NoFreshView' /\ NewViewsElected'
  <2>1. PICK k \in Up : View' = [View EXCEPT ![n] = View[k]]
    BY <1>11 DEF Restart
  <2>2. Elected(View[k])
    BY <1>2, NodeType
  <2>3. NoFreshView'
    BY <1>1, <2>1, <2>2 DEF ViewInv, NoFreshView, Elected, TypeOK, ViewTypeOK
  <2>4. NewViewsElected'
    BY <1>11 DEF Restart, ViewInv, NewViewsElected, Elected
  <2> QED
    BY <2>3, <2>4
<1>12. CASE UNCHANGED vars
  <2>1. UNCHANGED View /\ \A q \in net' : q \in net \/ q.msg.type # "NewView"
    BY <1>12 DEF vars, viewVars
  <2> QED
    BY <1>1, <2>1, QuietStep DEF ViewInv
<1> QED
  BY <1>1, <1>3, <1>4, <1>5, <1>6, <1>7, <1>8, <1>9, <1>10, <1>11, <1>12
     DEF Next, Handle, ViewInv

\* The view change does not get a network out of the views its nodes were
\* elected into: for every network size and every course of events, the view of
\* a node is one that some node left the election with (StartChange announces
\* the current view, ProcessNewViewMsg waits for the one after it).
THEOREM ViewsStayElected == Spec => []NoFreshView
<1>1. ViewInv => NoFreshView
  BY DEF ViewInv
<1> QED
  BY <1>1, ViewInvInit, ViewInvNext, PTL DEF Spec

----------------------------------------------------------------------------
(* Certificates.                                                           *)

\* The blocks a quorum confirmed.
Certificates == {b \in BlockValidated : HasCertificate(b)}

\* Certified alone is not inductive: a quorum is counted in BlockPrepareMsg,
\* from the confirmations on their way.
CertInv == TypeOK /\ Certified /\ VotesCast

\* What a step may do to the blocks and votes: no confirmation is taken back...
VotesStand == \A k \in Node : signed[k] \subseteq signed'[k]

\* ...only certified blocks are stored (a restart may bring genesis back)...
StoresCertified ==
  \A k \in Node : \A b \in ledger'[k].db :
    b \in ledger[k].db \/ b.blk = Genesis \/ b \in Certificates

\* ...only certified blocks wait...
QueuesCertified == \A k \in Node : Blocks'[k] = Blocks[k] \/ Blocks'[k] \in Seq(Certificates)

\* ...and only cast votes are counted or sent, and certified blocks handed out.
CountsVotes ==
  \A k \in Node : \A c \in BlockPrepareMsg'[k] :
    c \in BlockPrepareMsg[k] \/ c[1] \in signed[c[2]]

SendsVotes ==
  \A pk \in net' :
    \/ pk \in net
    \/ pk.msg.type \notin {"BlockConfirm", "DataSyncResp"}
    \/ pk.msg.type = "BlockConfirm" /\ pk.msg.blk \in signed'[pk.msg.from]
    \/ pk.msg.type = "DataSyncResp" /\ pk.msg.block \in Certificates

LEMMA VotesCastStep ==
  ASSUME TypeOK, TypeOK', VotesCast, VotesStand, CountsVotes,
         \A pk \in net' : \/ pk \in net \/ pk.msg.type # "BlockConfirm"
                          \/ pk.msg.blk \in signed'[pk.msg.from]
  PROVE  VotesCast'
<1>1. \A n \in Node : \A c \in BlockPrepareMsg'[n] : c[1] \in signed'[c[2]]
  <2> SUFFICES ASSUME NEW n \in Node, NEW c \in BlockPrepareMsg'[n]
               PROVE  c[1] \in signed'[c[2]]
    OBVIOUS
  <2>1. c[2] \in Node
    BY DEF TypeOK, NodeTypeOK
  <2>2. c[1] \in signed[c[2]]
    BY DEF CountsVotes, VotesCast
  <2> QED
    BY <2>1, <2>2 DEF VotesStand
<1>2. \A pk \in net' : pk.msg.type = "BlockConfirm" => pk.msg.blk \in signed'[pk.msg.from]
  <2> SUFFICES ASSUME NEW pk \in net', pk.msg.type = "BlockConfirm"
               PROVE  pk.msg.blk \in signed'[pk.msg.from]
    OBVIOUS
  <2>1. CASE pk \in net
    <3>1. pk.msg.from \in Node
      BY <2>1, MessageFields DEF TypeOK, Packet
    <3>2. pk.msg.blk \in signed[pk.msg.from]
      BY <2>1 DEF VotesCast
    <3> QED
      BY <3>1, <3>2 DEF VotesStand
  <2> QED
    BY <2>1
<1> QED
  BY <1>1, <1>2 DEF VotesCast

LEMMA CertStep ==
  ASSUME CertInv, TypeOK', VotesStand, StoresCertified, QueuesCertified, CountsVotes, SendsVotes
  PROVE  CertInv'
<1>1. TypeOK /\ StoredCertified /\ WaitingCertified /\ HandedOutCertified /\ VotesCast
  BY DEF CertInv, Certified
<1>2. ASSUME NEW b \in BlockValidated, HasCertificate(b) PROVE HasCertificate(b)'
  BY <1>2 DEF HasCertificate, BlockValidated, VotesStand
<1>3. ASSUME NEW b \in Certificates PROVE HasCertificate(b)'
  BY <1>2, <1>3 DEF Certificates
<1>4. StoredCertified'
  <2> SUFFICES ASSUME NEW n \in Node, NEW b \in ledger'[n].db, b.blk # Genesis
               PROVE  HasCertificate(b)'
    BY DEF StoredCertified
  <2>1. b \in ledger[n].db \/ b \in Certificates
    BY DEF StoresCertified
  <2>2. ASSUME b \in ledger[n].db PROVE HasCertificate(b)'
    <3>1. b \in BlockValidated
      BY <1>1, <2>2 DEF TypeOK, LedgerType
    <3>2. HasCertificate(b)
      BY <1>1, <2>2 DEF StoredCertified
    <3> QED
      BY <1>2, <3>1, <3>2
  <2> QED
    BY <1>3, <2>1, <2>2
<1>5. WaitingCertified'
  <2> SUFFICES ASSUME NEW n \in Node, NEW i \in DOMAIN Blocks'[n]
               PROVE  HasCertificate(Blocks[n][i])'
    BY DEF WaitingCertified
  <2>1. CASE Blocks'[n] = Blocks[n]
    <3>1. Blocks[n] \in Seq(BlockValidated) /\ i \in DOMAIN Blocks[n]
      BY <1>1, <2>1 DEF TypeOK, NodeTypeOK
    <3>2. Blocks[n][i] \in BlockValidated /\ HasCertificate(Blocks[n][i])
      BY <1>1, <3>1 DEF WaitingCertified
    <3> QED
      BY <1>2, <2>1, <3>2
  <2>2. CASE Blocks'[n] \in Seq(Certificates)
    <3>1. Blocks'[n][i] \in Certificates
      BY <2>2
    <3> QED
      BY <1>3, <3>1
  <2> QED
    BY <2>1, <2>2 DEF QueuesCertified
<1>6. HandedOutCertified'
  <2> SUFFICES ASSUME NEW pk \in net', pk.msg.type = "DataSyncResp"
               PROVE  HasCertificate(pk.msg.block)'
    BY DEF HandedOutCertified
  <2>1. pk \in net \/ pk.msg.block \in Certificates
    BY DEF SendsVotes
  <2>2. ASSUME pk \in net PROVE HasCertificate(pk.msg.block)'
    <3>1. pk.msg.block \in BlockValidated
      BY <1>1, <2>2, MessageFields DEF TypeOK, Packet
    <3>2. HasCertificate(pk.msg.block)
      BY <1>1, <2>2 DEF HandedOutCertified
    <3> QED
      BY <1>2, <3>1, <3>2
  <2> QED
    BY <1>3, <2>1, <2>2
<1>7. VotesCast'
  BY <1>1, VotesCastStep DEF SendsVotes
<1> QED
  BY <1>4, <1>5, <1>6, <1>7 DEF CertInv, Certified

\* A sequence whose elements are all in T is a sequence over T.
LEMMA ElementsOfSeq ==
  ASSUME NEW S, NEW T, NEW s \in Seq(S), \A i \in DOMAIN s : s[i] \in T
  PROVE  s \in Seq(T)
<1>1. Len(s) \in Nat /\ DOMAIN s = 1..Len(s) /\ s \in [1..Len(s) -> S]
  BY LenProperties
<1>2. s \in [1..Len(s) -> T]
  BY <1>1
<1> QED
  BY <1>1, <1>2

LEMMA ExecuteBlockCertifies ==
  ASSUME CertInv, NEW n \in Node, NEW b \in Certificates, NEW cache, NEW chan, NEW packets,
         ExecuteBlock(n, b, cache, chan, packets)
  PROVE  StoresCertified /\ QueuesCertified
<1> DEFINE l     == ledger[n]
           queue == Enqueue(Blocks[n], b)
           h     == Height(l.tip) + 1
           after == IF Due(queue, h) # {} THEN AddBlock(l, b) ELSE l
<1>1. TypeOK /\ ledger \in [Node -> LedgerType] /\ Blocks \in [Node -> Seq(BlockValidated)]
  BY DEF CertInv, TypeOK, NodeTypeOK
<1>2. Rest(queue, h) \in Seq(Certificates)
  <2>1. \A i \in DOMAIN Blocks[n] : Blocks[n][i] \in Certificates
    BY <1>1 DEF CertInv, Certified, WaitingCertified, Certificates
  <2>2. Blocks[n] \in Seq(Certificates)
    BY <1>1, <2>1, ElementsOfSeq
  <2>3. queue \in Seq(Certificates)
    BY <2>2, EnqueueType
  <2> QED
    BY <2>3, RestType
<1>3. \A c \in after.db : c \in l.db \/ c = b
  BY DEF AddBlock
<1> HIDE DEF after, queue, h
<1>4. CASE UNCHANGED <<ledger, Blocks>>
  BY <1>4 DEF StoresCertified, QueuesCertified
<1>5. CASE ledger' = [ledger EXCEPT ![n] = after] /\ Blocks' = [Blocks EXCEPT ![n] = Rest(queue, h)]
  <2>1. StoresCertified
    BY <1>1, <1>3, <1>5 DEF StoresCertified
  <2>2. QueuesCertified
    BY <1>1, <1>2, <1>5 DEF QueuesCertified
  <2> QED
    BY <2>1, <2>2
<1> QED
  BY <1>4, <1>5 DEF ExecuteBlock, after, queue, h

\* Confirmations a node holds were cast.
LEMMA ConfirmationsCast ==
  ASSUME CertInv, NEW n \in Node, NEW blk \in BlockId, IsQuorum(N, Confirmations(n, blk))
  PROVE  [blk |-> blk, sigs |-> Confirmations(n, blk)] \in Certificates
<1>1. \A k \in Confirmations(n, blk) : blk \in signed[k]
  <2> SUFFICES ASSUME NEW k \in Confirmations(n, blk) PROVE blk \in signed[k]
    OBVIOUS
  <2>1. <<blk, k>> \in BlockPrepareMsg[n]
    BY DEF Confirmations
  <2>2. <<blk, k>>[1] \in signed[<<blk, k>>[2]]
    BY <2>1 DEF CertInv, VotesCast
  <2> QED
    BY <2>2
<1>2. Confirmations(n, blk) \in SUBSET Node
  BY DEF Confirmations
<1> QED
  BY <1>1, <1>2 DEF Certificates, HasCertificate, BlockValidated

\* So were they with the confirmation that completes the quorum.
LEMMA CompletedQuorum ==
  ASSUME CertInv, NEW n \in Node, NEW blk \in BlockId, NEW from \in Node,
         blk \in signed[from], IsQuorum(N, Confirmations(n, blk) \cup {from})
  PROVE  [blk |-> blk, sigs |-> Confirmations(n, blk) \cup {from}] \in Certificates
<1>1. \A k \in Confirmations(n, blk) : blk \in signed[k]
  <2> SUFFICES ASSUME NEW k \in Confirmations(n, blk) PROVE blk \in signed[k]
    OBVIOUS
  <2>1. <<blk, k>> \in BlockPrepareMsg[n]
    BY DEF Confirmations
  <2>2. <<blk, k>>[1] \in signed[<<blk, k>>[2]]
    BY <2>1 DEF CertInv, VotesCast
  <2> QED
    BY <2>2
<1>2. Confirmations(n, blk) \cup {from} \in SUBSET Node
  BY DEF Confirmations
<1> QED
  BY <1>1, <1>2 DEF Certificates, HasCertificate, BlockValidated

LEMMA ProcessBlockMessageCertifies ==
  ASSUME CertInv, NEW n \in Up, NEW m \in BlockMessage, NEW chan, NEW packets \in SUBSET net,
         ProcessBlockMessage(n, m, chan, packets) \/ IgnoreBlock(n, chan, packets)
  PROVE  VotesStand /\ StoresCertified /\ QueuesCertified /\ CountsVotes /\ SendsVotes
<1>1. /\ n \in Node /\ m.blk \in BlockId /\ signed \in [Node -> SUBSET BlockId]
      /\ BlockPrepareMsg \in [Node -> SUBSET (BlockId \X Node)]
  BY NodeType, BlockMessageFields DEF CertInv, TypeOK, NodeTypeOK, HistoryTypeOK
<1>2. SendsVotes
  <2> SUFFICES ASSUME NEW pk \in net', pk \notin net,
                      pk.msg.type \in {"BlockConfirm", "DataSyncResp"}
               PROVE  pk.msg.type = "BlockConfirm" /\ pk.msg.blk \in signed'[pk.msg.from]
    BY DEF SendsVotes
  <2>1. /\ pk.msg = BlockConfirmMsg(View[n], n, m.blk)
        /\ signed' = [signed EXCEPT ![n] = @ \cup {m.blk}]
    BY <1>1, ProcessBlockMessageSends
  <2> QED
    BY <1>1, <2>1 DEF BlockConfirmMsg
<1>3. CASE UNCHANGED <<ledger, Blocks, BlockPrepareMsg>> /\ VotesStand
  BY <1>2, <1>3 DEF StoresCertified, QueuesCertified, CountsVotes
<1>4. CASE IgnoreBlock(n, chan, packets) \/ DeferBlock(n, m, chan, packets)
  BY <1>3, <1>4 DEF IgnoreBlock, DeferBlock, history, VotesStand
<1>5. CASE VoteForBlock(n, m, chan, packets)
  <2>1. VotesStand
    BY <1>1, <1>5 DEF VoteForBlock, VotesStand
  <2> QED
    BY <1>3, <1>5, <2>1 DEF VoteForBlock
<1>6. CASE IsQuorum(N, Confirmations(n, m.blk)) /\ ExecuteConfirmed(n, m, chan, packets)
  <2>1. [blk |-> m.blk, sigs |-> Confirmations(n, m.blk)] \in Certificates
    BY <1>1, <1>6, ConfirmationsCast
  <2>2. StoresCertified /\ QueuesCertified
    BY <1>1, <1>6, <2>1, ExecuteBlockCertifies DEF ExecuteConfirmed
  <2>3. CountsVotes
    BY <1>1, <1>6 DEF ExecuteConfirmed, CountsVotes
  <2>4. VotesStand
    BY <1>6 DEF ExecuteConfirmed, VotesStand
  <2> QED
    BY <1>2, <2>2, <2>3, <2>4
<1> QED
  BY <1>4, <1>5, <1>6 DEF ProcessBlockMessage

\* The steps that neither vote for a block nor execute one.
Shared ==
  \/ \E p \in Orders : Order(p) \/ ProposalTimeout(p)
  \/ \E n \in Up :
       \/ ReceiveProposal(n)
       \/ ReceiveDataSync(n)
       \/ ReceiveProposalConfirm(n)
       \/ ReceiveViewChange(n)
       \/ ReceiveNewView(n)
       \/ Interrupt(n)
       \/ Tick(n)
       \/ Restart(n)
  \/ UNCHANGED vars

\* They store, queue and count nothing new, send no votes, and hand out only
\* what is stored.
KeepsBlocks ==
  /\ UNCHANGED signed
  /\ \A k \in Node : \A b \in ledger'[k].db : b \in ledger[k].db \/ b.blk = Genesis
  /\ \A k \in Node : Blocks'[k] \in {Blocks[k], << >>}
  /\ \A k \in Node : BlockPrepareMsg'[k] \subseteq BlockPrepareMsg[k]
  /\ \A pk \in net' :
       \/ pk \in net
       \/ pk.msg.type \notin {"BlockConfirm", "DataSyncResp"}
       \/ /\ pk.msg.type = "DataSyncResp" /\ pk.msg.block.blk # Genesis
          /\ \E k \in Node : pk.msg.block \in ledger[k].db

LEMMA KeepsBlocksOrder ==
  ASSUME TypeOK, NEW p \in Orders, Order(p) \/ ProposalTimeout(p)
  PROVE  KeepsBlocks
<1>1. UNCHANGED <<Blocks, signed, BlockPrepareMsg>>
  BY DEF Order, ProposalTimeout, nodeVars, history
<1>2. \A pk \in net' : pk \in net \/ pk.msg.type \notin {"BlockConfirm", "DataSyncResp"}
  BY DEF Order, ProposalTimeout, ProposalMsg, ProposalConfirmMsg
<1>3. ledger \in [Node -> LedgerType] /\ p.from \in Node
  BY ProposalAssumption DEF TypeOK
<1>4. \/ ledger' = ledger
      \/ ledger' = [ledger EXCEPT ![p.from] =
                       IF p.type = "Mod" THEN WithLookup(@, p.zone) ELSE @]
  BY DEF Order, ProposalTimeout
<1>5. \A k \in Node : ledger'[k].db \subseteq ledger[k].db
  BY <1>3, <1>4, WithLookupKeeps
<1> QED
  BY <1>1, <1>2, <1>5 DEF KeepsBlocks

LEMMA KeepsBlocksProposal ==
  ASSUME TypeOK, NEW n \in Up, ReceiveProposal(n)
  PROVE  KeepsBlocks
<1>1. PICK pk \in Inbox(n, "Proposal") : \E packets \in Handled(pk) :
        \/ AcceptProposal(n, pk.msg.proposal, packets)
        \/ IgnoreProposal(n, pk.msg.proposal, packets)
  BY DEF ReceiveProposal
<1> DEFINE p == pk.msg.proposal
<1>2. PICK packets \in Handled(pk) :
        AcceptProposal(n, p, packets) \/ IgnoreProposal(n, p, packets)
  BY <1>1
<1>3. packets \subseteq net /\ n \in Node /\ ledger \in [Node -> LedgerType]
  BY HandledType, NodeType DEF TypeOK
<1>4. CASE AcceptProposal(n, p, packets)
  <2>1. /\ UNCHANGED <<Blocks, BlockPrepareMsg, signed>>
        /\ ledger' = [ledger EXCEPT ![n] = WithLookup(ledger[n], p.zone)]
        /\ \E l, pool, confirm :
             GenerateBlock(n, l, pool, confirm, packets) \/ NoMine(n, pool, confirm, packets)
    BY <1>4 DEF AcceptProposal
  <2>2. \A q \in net' : q \in packets \/ q.msg.type = "Block"
    BY <2>1, GenerateBlockSends
  <2>3. \A k \in Node : ledger'[k].db \subseteq ledger[k].db
    BY <1>3, <2>1, WithLookupKeeps
  <2> QED
    BY <1>3, <2>1, <2>2, <2>3 DEF KeepsBlocks
<1>5. CASE IgnoreProposal(n, p, packets)
  <2>1. /\ UNCHANGED <<Blocks, BlockPrepareMsg, signed>> /\ net' = packets
        /\ ledger' = [ledger EXCEPT ![n] = IF Fresh(n, p) THEN WithLookup(@, p.zone) ELSE @]
    BY <1>5 DEF IgnoreProposal, nodeVars, history
  <2>2. \A k \in Node : ledger'[k].db \subseteq ledger[k].db
    BY <1>3, <2>1, WithLookupKeeps
  <2> QED
    BY <1>3, <2>1, <2>2 DEF KeepsBlocks
<1> QED
  BY <1>2, <1>4, <1>5

LEMMA KeepsBlocksDataSync ==
  ASSUME TypeOK, NEW n \in Up, ReceiveDataSync(n)
  PROVE  KeepsBlocks
<1> DEFINE l == ledger[n]
<1>1. PICK pk \in Inbox(n, "DataSync") : \E packets \in Handled(pk) :
        net' = packets \cup
          (IF HasBlockAt(l, pk.msg.height)
           THEN [to  : {pk.msg.from}, msg : {DataSyncRespMsg(BlockByHeight(l, pk.msg.height))}]
           ELSE {})
  BY DEF ReceiveDataSync
<1> DEFINE h == pk.msg.height
           b == BlockByHeight(l, h)
<1>2. PICK packets \in Handled(pk) :
        net' = packets \cup (IF HasBlockAt(l, h)
                             THEN [to : {pk.msg.from}, msg : {DataSyncRespMsg(b)}] ELSE {})
  BY <1>1
<1>3. h \in Nat \ {0} /\ packets \subseteq net /\ n \in Node /\ l \in LedgerType
  <2>1. pk.msg \in Message /\ pk.msg.type = "DataSync" /\ packets \subseteq net
    BY InboxType
  <2>2. h \in Nat \ {0}
    BY <2>1, MessageFields
  <2>3. n \in Node /\ l \in LedgerType
    BY NodeType DEF TypeOK
  <2> QED
    BY <2>1, <2>2, <2>3
<1>4. ASSUME HasBlockAt(l, h) PROVE b \in l.db /\ b.blk # Genesis
  <2>1. b \in l.db
    BY <1>3, <1>4, BlockByHeightType
  <2>2. Height(l.tip) \in Nat /\ h <= Height(l.tip) /\ l.tip \in Seq(Entry)
    BY <1>3, <1>4, HeightType DEF HasBlockAt, LedgerType, BlockId
  <2>3. Stored(l, Ancestor(l.tip, h))
    BY <1>3, <1>4, <2>2 DEF HasBlockAt, ReadableTo
  <2>4. b.blk = Ancestor(l.tip, h)
    BY <2>3 DEF Stored, BlockByHeight
  <2>5. Len(Ancestor(l.tip, h)) = h
    BY <1>3, <2>2, AncestorType DEF Height
  <2> QED
    BY <1>3, <2>1, <2>4, <2>5 DEF Genesis
<1>5. \A q \in net' : q \in net \/ (HasBlockAt(l, h) /\ q.msg = DataSyncRespMsg(b))
  BY <1>2, <1>3
<1>6. UNCHANGED <<ledger, Blocks, signed, BlockPrepareMsg>>
  BY DEF ReceiveDataSync, nodeVars, history
<1> QED
  BY <1>3, <1>4, <1>5, <1>6 DEF KeepsBlocks, DataSyncRespMsg

LEMMA KeepsBlocksViewChange ==
  ASSUME TypeOK, NEW n \in Up,
         ReceiveProposalConfirm(n) \/ ReceiveViewChange(n) \/ ReceiveNewView(n)
  PROVE  KeepsBlocks
<1>1. CASE ReceiveProposalConfirm(n)
  <2>1. UNCHANGED <<ledger, Blocks, signed, BlockPrepareMsg>>
    BY <1>1 DEF ReceiveProposalConfirm, nodeVars, history
  <2>2. \A q \in net' : q \in net \/ q.msg.type = "ViewChange"
    BY <1>1, HandledType DEF ReceiveProposalConfirm, StartViewChange, Broadcast, ViewChangeMsg
  <2> QED
    BY <2>1, <2>2 DEF KeepsBlocks
<1>2. CASE ReceiveViewChange(n)
  <2>1. UNCHANGED <<ledger, Blocks, signed, BlockPrepareMsg>>
    BY <1>2 DEF ReceiveViewChange, nodeVars, history
  <2>2. \A q \in net' : q \in net \/ q.msg.type = "NewView"
    <3>1. PICK packets :
            /\ packets \subseteq net
            /\ \/ net' = packets
               \/ \E o, senders : net' = packets \cup Broadcast({NewViewMsg(View[n], o, senders)})
      BY <1>2, HandledType DEF ReceiveViewChange, StartChange
    <3> QED
      BY <3>1 DEF Broadcast, NewViewMsg
  <2> QED
    BY <2>1, <2>2 DEF KeepsBlocks
<1>3. CASE ReceiveNewView(n)
  <2>1. PICK pk \in Inbox(n, "NewView") : \E packets \in Handled(pk) :
          \/ EnterView(n, pk.msg, packets)
          \/ net' = packets /\ UNCHANGED <<ledger, nodeVars, history>>
    BY <1>3 DEF ReceiveNewView
  <2>2. PICK packets \in Handled(pk) :
          \/ EnterView(n, pk.msg, packets)
          \/ net' = packets /\ UNCHANGED <<ledger, nodeVars, history>>
    BY <2>1
  <2>3. /\ packets \subseteq net /\ n \in Node /\ ledger \in [Node -> LedgerType]
        /\ BlockPrepareMsg \in [Node -> SUBSET (BlockId \X Node)]
    BY HandledType, NodeType DEF TypeOK, NodeTypeOK
  <2>4. UNCHANGED <<Blocks, signed>>
    BY <2>2 DEF EnterView, nodeVars, history
  <2>5. \A q \in net' : q \in net \/ q.msg.type = "DataSync"
    BY <2>2, <2>3, StartDataSyncSends DEF EnterView
  <2>6. \A k \in Node : BlockPrepareMsg'[k] \subseteq BlockPrepareMsg[k]
    BY <2>2, <2>3 DEF EnterView, nodeVars
  <2>7. \A k \in Node : ledger'[k].db \subseteq ledger[k].db
    <3>1. RevokeBlock(ledger[n]).db \subseteq ledger[n].db
      BY <2>3 DEF RevokeBlock, LedgerType
    <3>2. ledger' = ledger \/ \E c \in BOOLEAN :
            ledger' = [ledger EXCEPT ![n] = IF c THEN RevokeBlock(@) ELSE @]
      BY <2>2 DEF EnterView, TipStored
    <3> QED
      BY <2>3, <3>1, <3>2
  <2> QED
    BY <2>4, <2>5, <2>6, <2>7 DEF KeepsBlocks
<1> QED
  BY <1>1, <1>2, <1>3

LEMMA KeepsBlocksRestart ==
  ASSUME TypeOK, NEW n \in Up, Restart(n)
  PROVE  KeepsBlocks
<1>1. /\ n \in Node /\ ledger \in [Node -> LedgerType] /\ Blocks \in [Node -> Seq(BlockValidated)]
      /\ BlockPrepareMsg \in [Node -> SUBSET (BlockId \X Node)]
  BY NodeType DEF TypeOK, NodeTypeOK
<1>2. \A k \in Node : \A b \in ledger'[k].db : b \in ledger[k].db \/ b.blk = Genesis
  <2>1. ledger' = [ledger EXCEPT ![n] = IF RestartWipes THEN GenesisLedger ELSE @]
    BY DEF Restart
  <2> QED
    BY <1>1, <2>1 DEF GenesisLedger
<1> QED
  BY <1>1, <1>2 DEF Restart, KeepsBlocks, history

LEMMA SharedKeepsBlocks ==
  ASSUME TypeOK, Shared
  PROVE  KeepsBlocks
<1>1. ASSUME NEW n \in Up, Interrupt(n) \/ Tick(n) PROVE KeepsBlocks
  <2>1. UNCHANGED <<ledger, Blocks, signed, BlockPrepareMsg>>
    BY <1>1 DEF Interrupt, Tick, nodeVars, history
  <2>2. \A q \in net' : q \in net \/ q.msg.type = "Block"
    BY <1>1, GenerateBlockSends DEF Interrupt, Tick
  <2> QED
    BY <2>1, <2>2 DEF KeepsBlocks
<1>2. CASE UNCHANGED vars
  BY <1>2 DEF KeepsBlocks, vars, nodeVars, history
<1> QED
  BY <1>1, <1>2, KeepsBlocksOrder, KeepsBlocksProposal, KeepsBlocksDataSync,
     KeepsBlocksViewChange, KeepsBlocksRestart DEF Shared

LEMMA CertShared ==
  ASSUME CertInv, TypeOK', KeepsBlocks
  PROVE  CertInv'
<1>1. SendsVotes
  <2>1. ASSUME NEW k \in Node, NEW b \in ledger[k].db, b.blk # Genesis PROVE b \in Certificates
    <3>1. b \in BlockValidated
      BY DEF CertInv, TypeOK, LedgerType
    <3> QED
      BY <2>1, <3>1 DEF CertInv, Certified, StoredCertified, Certificates
  <2> QED
    BY <2>1 DEF KeepsBlocks, SendsVotes
<1>2. QueuesCertified
  <2>1. << >> \in Seq(Certificates)
    OBVIOUS
  <2> QED
    BY <2>1 DEF KeepsBlocks, QueuesCertified
<1>3. VotesStand /\ StoresCertified /\ CountsVotes
  BY DEF KeepsBlocks, VotesStand, StoresCertified, CountsVotes
<1> QED
  BY <1>1, <1>2, <1>3, CertStep

LEMMA CertReceiveBlock ==
  ASSUME CertInv, TypeOK', NEW n \in Up, ReceiveBlock(n) \/ ReceiveDeferredBlock(n)
  PROVE  CertInv'
<1>1. \E m \in BlockMessage, packets \in SUBSET net : \E chan :
        ProcessBlockMessage(n, m, chan, packets) \/ IgnoreBlock(n, chan, packets)
  <2>1. CASE ReceiveBlock(n)
    <3>1. PICK pk \in Inbox(n, "Block") : \E packets \in Handled(pk) :
            \/ IgnoreBlock(n, blockChan[n], packets)
            \/ ProcessBlockMessage(n, pk.msg, blockChan[n], packets)
      BY <2>1 DEF ReceiveBlock
    <3>2. \A packets \in Handled(pk) : pk.msg \in BlockMessage /\ packets \in SUBSET net
      BY InboxType, MessageFields DEF CertInv
    <3> QED
      BY <3>1, <3>2
  <2>2. CASE ReceiveDeferredBlock(n)
    <3>1. blockChan[n] \in Seq(BlockMessage)
      BY NodeType DEF CertInv, TypeOK, NodeTypeOK
    <3>2. Head(blockChan[n]) \in BlockMessage
      BY <2>2, <3>1, HeadTailProperties DEF ReceiveDeferredBlock
    <3> QED
      BY <2>2, <3>2 DEF ReceiveDeferredBlock
  <2> QED
    BY <2>1, <2>2
<1> QED
  BY <1>1, ProcessBlockMessageCertifies, CertStep

LEMMA CertReceiveBlockConfirm ==
  ASSUME CertInv, TypeOK', NEW n \in Up, ReceiveBlockConfirm(n)
  PROVE  CertInv'
<1>1. PICK pk \in Inbox(n, "BlockConfirm") : \E packets \in Handled(pk) :
        LET votes == Confirmations(n, pk.msg.blk) \cup {pk.msg.from}
        IN  \/ net' = packets /\ UNCHANGED <<ledger, nodeVars, leaderVars, history>>
            \/ IsQuorum(N, votes) /\ ExecuteOnQuorum(n, pk.msg.blk, votes, packets)
            \/ CountConfirm(n, pk.msg.blk, pk.msg.from, packets)
  BY DEF ReceiveBlockConfirm
<1> DEFINE m     == pk.msg
           votes == Confirmations(n, m.blk) \cup {m.from}
           b     == [blk |-> m.blk, sigs |-> votes]
<1>2. PICK packets \in Handled(pk) :
        \/ net' = packets /\ UNCHANGED <<ledger, nodeVars, leaderVars, history>>
        \/ IsQuorum(N, votes) /\ ExecuteOnQuorum(n, m.blk, votes, packets)
        \/ CountConfirm(n, m.blk, m.from, packets)
  BY <1>1
<1>3. /\ n \in Node /\ packets \subseteq net /\ m.from \in Node /\ m.blk \in BlockId
      /\ BlockPrepareMsg \in [Node -> SUBSET (BlockId \X Node)]
  BY NodeType, InboxType, MessageFields DEF CertInv, TypeOK, NodeTypeOK
<1>4. m.blk \in signed[m.from]
  BY DEF CertInv, VotesCast, Inbox
<1>5. CASE net' = packets /\ UNCHANGED <<ledger, nodeVars, leaderVars, history>>
  BY <1>3, <1>5, CertShared DEF KeepsBlocks, nodeVars, history
<1>6. CASE IsQuorum(N, votes) /\ ExecuteOnQuorum(n, m.blk, votes, packets)
  <2>1. ExecuteBlock(n, b, ProposalsCache[n], blockChan[n], packets)
    BY <1>6 DEF ExecuteOnQuorum
  <2>2. b \in Certificates
    BY <1>3, <1>4, <1>6, CompletedQuorum
  <2> HIDE DEF b
  <2>3. StoresCertified /\ QueuesCertified
    BY <1>3, <2>1, <2>2, ExecuteBlockCertifies
  <2>4. CountsVotes
    BY <1>3, <1>6 DEF ExecuteOnQuorum, CountsVotes
  <2>5. VotesStand
    BY <1>6 DEF ExecuteOnQuorum, VotesStand
  <2>6. SendsVotes
    BY <1>3, <2>1, ExecuteBlockSends DEF SendsVotes
  <2> QED
    BY <2>3, <2>4, <2>5, <2>6, CertStep
<1>7. CASE CountConfirm(n, m.blk, m.from, packets)
  <2>1. CountsVotes
    BY <1>3, <1>4, <1>7 DEF CountConfirm, CountsVotes
  <2>2. VotesStand /\ StoresCertified /\ QueuesCertified /\ SendsVotes
    BY <1>3, <1>7
       DEF CountConfirm, history, VotesStand, StoresCertified, QueuesCertified, SendsVotes
  <2> QED
    BY <2>1, <2>2, CertStep
<1> QED
  BY <1>2, <1>5, <1>6, <1>7

LEMMA CertReceiveDataSyncResp ==
  ASSUME CertInv, TypeOK', NEW n \in Up, ReceiveDataSyncResp(n)
  PROVE  CertInv'
<1>1. PICK pk \in Inbox(n, "DataSyncResp") : \E packets \in Handled(pk) :
        ExecuteBlock(n, pk.msg.block, ProposalsCache[n], blockChan[n], packets)
  BY DEF ReceiveDataSyncResp
<1>2. PICK packets \in Handled(pk) :
        ExecuteBlock(n, pk.msg.block, ProposalsCache[n], blockChan[n], packets)
  BY <1>1
<1>3. packets \subseteq net /\ n \in Node /\ pk.msg.block \in Certificates
  BY InboxType, MessageFields, NodeType
     DEF CertInv, Certified, HandedOutCertified, Certificates
<1>4. StoresCertified /\ QueuesCertified
  BY <1>2, <1>3, ExecuteBlockCertifies
<1>5. SendsVotes
  BY <1>2, <1>3, ExecuteBlockSends DEF SendsVotes
<1>6. VotesStand /\ CountsVotes
  BY DEF ReceiveDataSyncResp, VotesStand, CountsVotes
<1> QED
  BY <1>4, <1>5, <1>6, CertStep

LEMMA CertInit == Init => CertInv
<1> SUFFICES ASSUME Init PROVE CertInv
  OBVIOUS
<1>1. TypeOK
  BY InitType
<1>2. StoredCertified
  <2> SUFFICES ASSUME NEW n \in Node, NEW b \in ledger[n].db, b.blk # Genesis
               PROVE  HasCertificate(b)
    BY DEF StoredCertified
  <2>1. PICK h \in 0..Height(Disk[n]) :
          b = [blk |-> Ancestor(Disk[n], h), sigs |-> IF h = 0 THEN {} ELSE DiskSigs]
    BY DEF Init, LoadedLedger
  <2>2. Disk[n] \in BlockId /\ Height(Disk[n]) \in Nat
    BY DiskAssumption, HeightType
  <2>3. h # 0
    <3>1. h = 0 => Ancestor(Disk[n], h) = << >>
      BY <2>2 DEF Ancestor, BlockId
    <3> QED
      BY <2>1, <3>1 DEF Genesis
  <2>4. b.sigs = DiskSigs /\ h \in 1..Height(Disk[n]) /\ b.blk = Ancestor(Disk[n], h)
    BY <2>1, <2>2, <2>3
  <2>5. \A k \in DiskSigs : b.blk \in signed[k]
    BY <2>4, DiskAssumption DEF Init
  <2> QED
    BY <2>4, <2>5, DiskAssumption DEF HasCertificate
<1>3. WaitingCertified
  BY DEF Init, WaitingCertified
<1>4. HandedOutCertified /\ VotesCast
  BY DEF Init, HandedOutCertified, VotesCast
<1> QED
  BY <1>1, <1>2, <1>3, <1>4 DEF CertInv, Certified

LEMMA CertNext == CertInv /\ [Next]_vars => CertInv'
<1> SUFFICES ASSUME CertInv, [Next]_vars PROVE CertInv'
  OBVIOUS
<1>1. TypeOK /\ TypeOK'
  BY NextType DEF CertInv
<1>2. CASE Shared
  BY <1>1, <1>2, SharedKeepsBlocks, CertShared
<1>3. ASSUME NEW n \in Up,
             \/ ReceiveBlock(n) \/ ReceiveDeferredBlock(n)
             \/ ReceiveBlockConfirm(n) \/ ReceiveDataSyncResp(n)
      PROVE  CertInv'
  BY <1>1, <1>3, CertReceiveBlock, CertReceiveBlockConfirm, CertReceiveDataSyncResp
<1> QED
  BY <1>2, <1>3 DEF Next, Handle, Shared

\* For every network size, set of live nodes, view assignment and course of
\* events, restarts and Byzantine omissions included: a block that is stored,
\* waits in Blocks or is handed out by data sync carries the signatures of a
\* quorum of nodes that confirmed it.  The DataSyncResp case and AddBlock do
\* not count signatures, so this rests on all three places keeping it.
THEOREM BlocksCertified == Spec => []Certified
<1>1. CertInv => Certified
  BY DEF CertInv
<1> QED
  BY <1>1, CertInit, CertNext, PTL DEF Spec

\* Every confirmation that is counted or on its way was cast by the node it
\* names.
THEOREM VotesAreCast == Spec => []VotesCast
<1>1. CertInv => VotesCast
  BY DEF CertInv
<1> QED
  BY <1>1, CertInit, CertNext, PTL DEF Spec

----------------------------------------------------------------------------
(* Forks.                                                                  *)

\* Two quorums of CAX509.Check share a node in the networks QuorumsMeet admits.
LEMMA QuorumsIntersect ==
  ASSUME NEW Q \in SUBSET Node, NEW R \in SUBSET Node,
         IsQuorum(N, Q), IsQuorum(N, R), QuorumsMeet(N)
  PROVE  Q \cap R # {}
<1>1. IsFiniteSet(Node) /\ Cardinality(Node) = N
  <2>1. 0 \in Int /\ N - 1 \in Int /\ N \in Nat \ {0}
    BY NodeType
  <2> QED
    BY <2>1, FS_Interval DEF Node
<1>2. /\ IsFiniteSet(Q) /\ Cardinality(Q) \in Nat
      /\ IsFiniteSet(R) /\ Cardinality(R) \in Nat
  BY <1>1, FS_Subset, FS_CardinalityType
<1>3. F(N) \in Int
  BY NodeType DEF F
<1>4. Cardinality(Q) + Cardinality(R) > Cardinality(Node)
  BY <1>1, <1>2, <1>3, NodeType DEF IsQuorum, Check, QuorumsMeet
<1> QED
  BY <1>1, <1>4, FS_MajoritiesIntersect

\* CAX509.Check asks for votes that always meet, except in three networks: with
\* one faulty node of six, and with none of two or three, two disjoint sets of
\* nodes pass it.
THEOREM QuorumSizes == \A n \in Nat \ {0} : QuorumsMeet(n) <=> n \notin {2, 3, 6}
<1> SUFFICES ASSUME NEW n \in Nat \ {0} PROVE QuorumsMeet(n) <=> n \notin {2, 3, 6}
  OBVIOUS
<1> DEFINE f == F(n)
           r == (n - 1) % 3
<1>1. f \in Nat /\ r \in 0..2 /\ n = 3 * f + r + 1
  BY DEF F
<1>2. QuorumsMeet(n) <=> 2 * (2 * f + 1) > n
  BY DEF QuorumsMeet
<1> HIDE DEF f, r
<1> QED
  BY <1>1, <1>2

LEMMA CertifiedForks ==
  ASSUME QuorumsMeet(N), CertInv
  PROVE  ForkNeedsDoubleVote
<1> SUFFICES ASSUME NEW n \in Node, NEW k \in Node,
                    NEW b \in ledger[n].db, NEW c \in ledger[k].db,
                    Height(b.blk) = Height(c.blk), b.blk # c.blk
             PROVE  \E v \in Node : {b.blk, c.blk} \subseteq signed[v]
  BY DEF ForkNeedsDoubleVote
<1>1. b \in BlockValidated /\ c \in BlockValidated
  BY DEF CertInv, TypeOK, LedgerType
<1>2. b.blk # Genesis /\ c.blk # Genesis
  <2>1. b.blk \in Seq(Entry) /\ c.blk \in Seq(Entry)
    BY <1>1 DEF BlockValidated, BlockId
  <2>2. \A s \in Seq(Entry) : Len(s) = 0 <=> s = << >>
    BY EmptySeq
  <2> QED
    BY <2>1, <2>2 DEF Genesis, Height
<1>3. HasCertificate(b) /\ HasCertificate(c)
  BY <1>2 DEF CertInv, Certified, StoredCertified
<1>4. b.sigs \cap c.sigs # {}
  BY <1>1, <1>3, QuorumsIntersect DEF HasCertificate, BlockValidated
<1>5. PICK v \in Node : v \in b.sigs /\ v \in c.sigs
  BY <1>1, <1>4 DEF BlockValidated
<1> QED
  BY <1>3, <1>5 DEF HasCertificate

\* In a network whose quorums meet (every size but 2, 3 and 6), two different
\* blocks of one height are stored only when one node confirmed both: the guard
\* that ValidateBlock lacks, one confirmation per height, is all that stands
\* between the code and agreement.
THEOREM ForksNeedDoubleVotes == QuorumsMeet(N) => (Spec => []ForkNeedsDoubleVote)
<1> SUFFICES ASSUME QuorumsMeet(N) PROVE Spec => []ForkNeedsDoubleVote
  OBVIOUS
<1>1. CertInv => ForkNeedsDoubleVote
  BY CertifiedForks
<1> QED
  BY <1>1, CertInit, CertNext, PTL DEF Spec

----------------------------------------------------------------------------
(* MyBft implements CertChain: every step of the consensus casts one vote, *)
(* stores one certified block, drops one block, empties one disk, or does  *)
(* none of these.                                                          *)

LEMMA QuorumGrows ==
  ASSUME NEW Q \in SUBSET Node, NEW R \in SUBSET Node, Q \subseteq R, IsQuorum(N, Q)
  PROVE  IsQuorum(N, R)
<1>1. IsFiniteSet(Node)
  <2>1. 0 \in Int /\ N - 1 \in Int
    BY NodeType
  <2> QED
    BY <2>1, FS_Interval DEF Node
<1>2. /\ IsFiniteSet(R) /\ Cardinality(R) \in Nat
      /\ Cardinality(Q) \in Nat /\ Cardinality(Q) <= Cardinality(R)
  BY <1>1, FS_Subset, FS_CardinalityType
<1>3. F(N) \in Int
  BY NodeType DEF F
<1> QED
  BY <1>2, <1>3 DEF IsQuorum, Check

LEMMA InboxMessage ==
  ASSUME TypeOK, NEW n, NEW type, NEW pk \in Inbox(n, type)
  PROVE  pk \in net /\ pk.msg \in Message /\ pk.msg.type = type
BY DEF Inbox, TypeOK, Packet

----------------------------------------------------------------------------
(* What a step does to the stored blocks.                                  *)

LEMMA SameStored ==
  ASSUME \A k \in Node : ledger'[k].db = ledger[k].db
  PROVE  UNCHANGED StoredBlocks
BY DEF StoredBlocks

\* A block that is executed is stored, or nothing is.
LEMMA ExecuteBlockStores ==
  ASSUME TypeOK, NEW n \in Node, NEW b \in BlockValidated, NEW cache, NEW chan, NEW packets,
         ExecuteBlock(n, b, cache, chan, packets)
  PROVE  \/ UNCHANGED StoredBlocks
         \/ /\ StoredBlocks' = [StoredBlocks EXCEPT ![n] = @ \cup {b.blk}]
            /\ b.blk \in StoredBlocks'[n]
<1>1. ledger \in [Node -> LedgerType] /\ ledger[n].db \in SUBSET BlockValidated
  BY DEF TypeOK, LedgerType
<1>2. \/ UNCHANGED ledger
      \/ \E met \in BOOLEAN :
           ledger' = [ledger EXCEPT ![n] = IF met THEN AddBlock(ledger[n], b) ELSE ledger[n]]
  BY DEF ExecuteBlock
<1>3. \/ \A k \in Node : ledger'[k].db = ledger[k].db
      \/ ledger' = [ledger EXCEPT ![n] = AddBlock(ledger[n], b)] /\ ~ Stored(ledger[n], b.blk)
  BY <1>1, <1>2 DEF AddBlock
<1>4. ASSUME ledger' = [ledger EXCEPT ![n] = AddBlock(ledger[n], b)], ~ Stored(ledger[n], b.blk)
      PROVE  \/ UNCHANGED StoredBlocks
             \/ /\ StoredBlocks' = [StoredBlocks EXCEPT ![n] = @ \cup {b.blk}]
                /\ b.blk \in StoredBlocks'[n]
  <2>1. ledger'[n].db = ledger[n].db \cup {b} /\ \A k \in Node \ {n} : ledger'[k] = ledger[k]
    BY <1>1, <1>4 DEF AddBlock
  <2>2. StoredBlocks' = [StoredBlocks EXCEPT ![n] = @ \cup ({b.blk} \ {Genesis})]
    BY <2>1 DEF StoredBlocks
  <2>3. b.blk = Genesis => StoredBlocks' = StoredBlocks
    BY <2>1 DEF StoredBlocks, Stored
  <2>4. b.blk # Genesis => /\ StoredBlocks' = [StoredBlocks EXCEPT ![n] = @ \cup {b.blk}]
                           /\ b.blk \in StoredBlocks'[n]
    BY <2>1, <2>2 DEF StoredBlocks
  <2> QED
    BY <2>3, <2>4
<1> QED
  BY <1>3, <1>4, SameStored

\* A node gives up its latest block, or all of them.
GivesUp ==
  \E n \in Node :
    \/ \E blk \in StoredBlocks[n] : StoredBlocks' = [StoredBlocks EXCEPT ![n] = @ \ {blk}]
    \/ StoredBlocks' = [StoredBlocks EXCEPT ![n] = {}]

LEMMA LookupStored ==
  ASSUME TypeOK,
         \/ \E p \in Orders : Order(p) \/ ProposalTimeout(p)
         \/ \E n \in Up : ReceiveProposal(n)
  PROVE  UNCHANGED StoredBlocks
<1>1. ledger \in [Node -> LedgerType]
  BY DEF TypeOK
<1>2. ASSUME NEW n, NEW z, NEW asked \in BOOLEAN,
             ledger' = [ledger EXCEPT ![n] = IF asked THEN WithLookup(@, z) ELSE @]
      PROVE  UNCHANGED StoredBlocks
  <2>1. \A k \in Node : ledger'[k].db = ledger[k].db
    BY <1>1, <1>2, WithLookupKeeps
  <2> QED
    BY <2>1, SameStored
<1>3. ASSUME NEW p \in Orders, Order(p) \/ ProposalTimeout(p) PROVE UNCHANGED StoredBlocks
  <2>1. \E asked \in BOOLEAN :
          ledger' = [ledger EXCEPT ![p.from] = IF asked THEN WithLookup(@, p.zone) ELSE @]
    BY <1>1, <1>3 DEF Order, ProposalTimeout
  <2> QED
    BY <1>2, <2>1
<1>4. ASSUME NEW n \in Up, ReceiveProposal(n) PROVE UNCHANGED StoredBlocks
  <2>1. PICK pk \in Inbox(n, "Proposal") : \E packets \in Handled(pk) :
          \/ AcceptProposal(n, pk.msg.proposal, packets)
          \/ IgnoreProposal(n, pk.msg.proposal, packets)
    BY <1>4 DEF ReceiveProposal
  <2>2. \E asked \in BOOLEAN :
          ledger' = [ledger EXCEPT ![n] =
                       IF asked THEN WithLookup(@, pk.msg.proposal.zone) ELSE @]
    BY <2>1 DEF AcceptProposal, IgnoreProposal, Fresh
  <2> QED
    BY <1>2, <2>2
<1> QED
  BY <1>3, <1>4

LEMMA ReceiveNewViewGivesUp ==
  ASSUME TypeOK, NEW n \in Up, ReceiveNewView(n)
  PROVE  UNCHANGED StoredBlocks \/ GivesUp
<1> DEFINE l == ledger[n]
<1>1. ledger \in [Node -> LedgerType] /\ n \in Node /\ l \in LedgerType
  BY NodeType DEF TypeOK
<1>2. PICK pk \in Inbox(n, "NewView") :
        (\E packets : EnterView(n, pk.msg, packets)) \/ UNCHANGED ledger
  BY DEF ReceiveNewView
<1>3. \/ UNCHANGED ledger
      \/ /\ ledger' = [ledger EXCEPT ![n] = RevokeBlock(@)]
         /\ TipStored(l) /\ Height(l.tip) > Height(pk.msg.pending.blk)
  BY <1>1, <1>2 DEF EnterView
<1>4. ASSUME ledger' = [ledger EXCEPT ![n] = RevokeBlock(@)],
             TipStored(l), Height(l.tip) > Height(pk.msg.pending.blk)
      PROVE  GivesUp
  <2>1. Height(pk.msg.pending.blk) \in Nat
    <3>1. pk.msg.pending \in BlockMessage
      BY InboxMessage, MessageFields
    <3> QED
      BY <3>1, BlockMessageFields, HeightType
  <2>2. l.tip # Genesis
    BY <1>4, <2>1 DEF Genesis, Height
  <2>3. l.tip \in StoredBlocks[n]
    BY <1>1, <1>4, <2>2 DEF StoredBlocks, TipStored, Stored
  <2>4. ledger'[n].db = {b \in l.db : b.blk # l.tip} /\ \A k \in Node \ {n} : ledger'[k] = ledger[k]
    BY <1>1, <1>4 DEF RevokeBlock, LedgerType
  <2>5. StoredBlocks'[n] = StoredBlocks[n] \ {l.tip}
    BY <1>1, <2>4 DEF StoredBlocks
  <2>6. \A k \in Node \ {n} : StoredBlocks'[k] = StoredBlocks[k]
    BY <2>4 DEF StoredBlocks
  <2>7. StoredBlocks' = [StoredBlocks EXCEPT ![n] = @ \ {l.tip}]
    BY <2>5, <2>6 DEF StoredBlocks
  <2> QED
    BY <1>1, <2>3, <2>7 DEF GivesUp
<1> QED
  BY <1>3, <1>4 DEF StoredBlocks

LEMMA RestartGivesUp ==
  ASSUME TypeOK, NEW n \in Up, Restart(n)
  PROVE  UNCHANGED StoredBlocks \/ GivesUp
<1>1. ledger \in [Node -> LedgerType] /\ n \in Node
  BY NodeType DEF TypeOK
<1>2. ASSUME ledger' = [ledger EXCEPT ![n] = GenesisLedger] PROVE GivesUp
  <2>1. StoredBlocks'[n] = {}
    BY <1>1, <1>2 DEF StoredBlocks, GenesisLedger
  <2>2. \A k \in Node \ {n} : StoredBlocks'[k] = StoredBlocks[k]
    BY <1>1, <1>2 DEF StoredBlocks
  <2>3. StoredBlocks' = [StoredBlocks EXCEPT ![n] = {}]
    BY <2>1, <2>2 DEF StoredBlocks
  <2> QED
    BY <1>1, <2>3 DEF GivesUp
<1>3. UNCHANGED ledger \/ ledger' = [ledger EXCEPT ![n] = GenesisLedger]
  BY <1>1 DEF Restart
<1> QED
  BY <1>2, <1>3, SameStored

LEMMA SharedGivesUp ==
  ASSUME TypeOK, Shared
  PROVE  UNCHANGED StoredBlocks \/ GivesUp
<1>1. ASSUME NEW n \in Up,
             \/ ReceiveDataSync(n) \/ ReceiveProposalConfirm(n) \/ ReceiveViewChange(n)
             \/ Interrupt(n) \/ Tick(n)
      PROVE  UNCHANGED StoredBlocks
  BY <1>1, SameStored
     DEF ReceiveDataSync, ReceiveProposalConfirm, ReceiveViewChange, Interrupt, Tick
<1>2. CASE UNCHANGED vars
  BY <1>2, SameStored DEF vars
<1> QED
  BY <1>1, <1>2, LookupStored, ReceiveNewViewGivesUp, RestartGivesUp DEF Shared

----------------------------------------------------------------------------
(* The steps as steps of CertChain.                                        *)

\* A step of CertChain, or one that CertChain does not see.
Refined == Cert!Next \/ UNCHANGED <<signed, StoredBlocks>>

LEMMA VoteSeen ==
  ASSUME TypeOK, NEW n \in Node, NEW blk, UNCHANGED ledger,
         signed' = [signed EXCEPT ![n] = @ \cup {blk}]
  PROVE  Refined
<1>1. signed \in [Node -> SUBSET BlockId]
  BY DEF TypeOK, HistoryTypeOK
<1>2. blk \in signed'[n] /\ UNCHANGED StoredBlocks
  BY <1>1 DEF StoredBlocks
<1>3. Cert!Vote(n)
  BY <1>2 DEF Cert!Vote
<1> QED
  BY <1>3 DEF Refined, Cert!Next

LEMMA CertificateConfirms ==
  ASSUME NEW b \in Certificates
  PROVE  Confirmed(b.blk) /\ b.blk \in BlockId
<1>1. b.sigs \subseteq {k \in Node : b.blk \in signed[k]} /\ b.sigs \in SUBSET Node
  BY DEF Certificates, HasCertificate, BlockValidated
<1>2. IsQuorum(N, b.sigs) /\ b.blk \in BlockId
  BY DEF Certificates, HasCertificate, BlockValidated
<1>3. IsQuorum(N, {k \in Node : b.blk \in signed[k]})
  BY <1>1, <1>2, QuorumGrows
<1> QED
  BY <1>2, <1>3 DEF Confirmed

LEMMA ConfirmedMeansCertified ==
  ASSUME NEW blk
  PROVE  Confirmed(blk) <=> Cert!Certified(blk)
BY DEF Confirmed, Cert!Certified, Quorum

LEMMA ExecuteBlockSeen ==
  ASSUME TypeOK, NEW n \in Node, NEW b \in Certificates, NEW cache, NEW chan, NEW packets,
         ExecuteBlock(n, b, cache, chan, packets), UNCHANGED signed
  PROVE  Refined
<1>1. b \in BlockValidated /\ Cert!Certified(b.blk)
  BY CertificateConfirms, ConfirmedMeansCertified DEF Certificates
<1>2. \/ UNCHANGED StoredBlocks
      \/ /\ StoredBlocks' = [StoredBlocks EXCEPT ![n] = @ \cup {b.blk}]
         /\ b.blk \in StoredBlocks'[n]
  BY <1>1, ExecuteBlockStores
<1> QED
  BY <1>1, <1>2 DEF Refined, Cert!Next, Cert!Store

LEMMA SharedSeen ==
  ASSUME TypeOK, Shared
  PROVE  Refined
<1>1. UNCHANGED signed
  BY SharedKeepsBlocks DEF KeepsBlocks
<1>2. UNCHANGED StoredBlocks \/ GivesUp
  BY SharedGivesUp
<1> QED
  BY <1>1, <1>2 DEF Refined, GivesUp, Cert!Next, Cert!Revoke, Cert!Wipe

LEMMA ProcessBlockMessageSeen ==
  ASSUME CertInv, NEW n \in Up, NEW m \in BlockMessage, NEW chan, NEW packets,
         ProcessBlockMessage(n, m, chan, packets) \/ IgnoreBlock(n, chan, packets)
  PROVE  Refined
<1>1. n \in Node /\ m.blk \in BlockId /\ TypeOK
  BY NodeType, BlockMessageFields DEF CertInv
<1>2. CASE IgnoreBlock(n, chan, packets) \/ DeferBlock(n, m, chan, packets)
  BY <1>2, SameStored DEF IgnoreBlock, DeferBlock, history, Refined
<1>3. CASE VoteForBlock(n, m, chan, packets)
  BY <1>1, <1>3, VoteSeen DEF VoteForBlock
<1>4. CASE IsQuorum(N, Confirmations(n, m.blk)) /\ ExecuteConfirmed(n, m, chan, packets)
  <2>1. [blk |-> m.blk, sigs |-> Confirmations(n, m.blk)] \in Certificates
    BY <1>1, <1>4, ConfirmationsCast
  <2> QED
    BY <1>1, <1>4, <2>1, ExecuteBlockSeen DEF ExecuteConfirmed
<1> QED
  BY <1>2, <1>3, <1>4 DEF ProcessBlockMessage

LEMMA ReceiveBlockSeen ==
  ASSUME CertInv, NEW n \in Up, ReceiveBlock(n) \/ ReceiveDeferredBlock(n)
  PROVE  Refined
<1>1. CASE ReceiveBlock(n)
  <2>1. PICK pk \in Inbox(n, "Block") : \E packets \in Handled(pk) :
          \/ IgnoreBlock(n, blockChan[n], packets)
          \/ ProcessBlockMessage(n, pk.msg, blockChan[n], packets)
    BY <1>1 DEF ReceiveBlock
  <2>2. pk.msg \in BlockMessage
    BY InboxMessage, MessageFields DEF CertInv
  <2> QED
    BY <2>1, <2>2, ProcessBlockMessageSeen
<1>2. CASE ReceiveDeferredBlock(n)
  <2>1. blockChan[n] \in Seq(BlockMessage)
    BY NodeType DEF CertInv, TypeOK, NodeTypeOK
  <2>2. Head(blockChan[n]) \in BlockMessage
    BY <1>2, <2>1, HeadTailProperties DEF ReceiveDeferredBlock
  <2> QED
    BY <1>2, <2>2, ProcessBlockMessageSeen DEF ReceiveDeferredBlock
<1> QED
  BY <1>1, <1>2

LEMMA ReceiveBlockConfirmSeen ==
  ASSUME CertInv, NEW n \in Up, ReceiveBlockConfirm(n)
  PROVE  Refined
<1>1. PICK pk \in Inbox(n, "BlockConfirm") : \E packets \in Handled(pk) :
        LET votes == Confirmations(n, pk.msg.blk) \cup {pk.msg.from}
        IN  \/ UNCHANGED <<ledger, history>>
            \/ IsQuorum(N, votes) /\ ExecuteOnQuorum(n, pk.msg.blk, votes, packets)
            \/ CountConfirm(n, pk.msg.blk, pk.msg.from, packets)
  BY DEF ReceiveBlockConfirm
<1> DEFINE m     == pk.msg
           votes == Confirmations(n, m.blk) \cup {m.from}
           b     == [blk |-> m.blk, sigs |-> votes]
<1>2. TypeOK /\ n \in Node /\ m.from \in Node /\ m.blk \in BlockId /\ m.blk \in signed[m.from]
  BY NodeType, InboxMessage, MessageFields DEF CertInv, VotesCast
<1>3. CASE UNCHANGED <<ledger, history>>
  BY <1>3, SameStored DEF history, Refined
<1>4. ASSUME NEW packets, IsQuorum(N, votes), ExecuteOnQuorum(n, m.blk, votes, packets)
      PROVE  Refined
  <2>1. b \in Certificates
    BY <1>2, <1>4, CompletedQuorum
  <2> QED
    BY <1>2, <1>4, <2>1, ExecuteBlockSeen DEF ExecuteOnQuorum
<1>5. ASSUME NEW packets, CountConfirm(n, m.blk, m.from, packets)
      PROVE  Refined
  BY <1>5, SameStored DEF CountConfirm, history, Refined
<1> QED
  BY <1>1, <1>3, <1>4, <1>5

LEMMA StepSeen == CertInv /\ [Next]_vars => Refined
<1> SUFFICES ASSUME CertInv, [Next]_vars PROVE Refined
  OBVIOUS
<1>1. TypeOK
  BY DEF CertInv
<1>2. CASE Shared
  BY <1>1, <1>2, SharedSeen
<1>3. ASSUME NEW n \in Up, ReceiveDataSyncResp(n) PROVE Refined
  <2>1. PICK pk \in Inbox(n, "DataSyncResp") : \E packets :
          ExecuteBlock(n, pk.msg.block, ProposalsCache[n], blockChan[n], packets)
    BY <1>3 DEF ReceiveDataSyncResp
  <2>2. n \in Node /\ pk.msg.block \in Certificates /\ UNCHANGED signed
    BY <1>3, InboxMessage, MessageFields, NodeType
       DEF CertInv, Certified, HandedOutCertified, Certificates, ReceiveDataSyncResp
  <2> QED
    BY <1>1, <2>1, <2>2, ExecuteBlockSeen
<1> QED
  BY <1>2, <1>3, ReceiveBlockSeen, ReceiveBlockConfirmSeen DEF Next, Handle, Shared

LEMMA InitSeen == Init => Cert!Init
<1> SUFFICES ASSUME Init PROVE Cert!Init
  OBVIOUS
<1>1. CertInv
  BY CertInit
<1>2. ASSUME NEW n \in Node, NEW blk \in StoredBlocks[n] PROVE Cert!Certified(blk)
  <2>1. PICK b \in ledger[n].db : b.blk = blk /\ blk # Genesis
    BY DEF StoredBlocks
  <2>2. b \in Certificates
    BY <1>1, <2>1 DEF CertInv, Certified, StoredCertified, Certificates, TypeOK, LedgerType
  <2> QED
    BY <2>1, <2>2, CertificateConfirms, ConfirmedMeansCertified
<1>3. DOMAIN signed = Node /\ DOMAIN StoredBlocks = Node
  BY <1>1 DEF CertInv, TypeOK, HistoryTypeOK, StoredBlocks
<1> QED
  BY <1>2, <1>3 DEF Cert!Init, Cert!AllCertified

\* MyBFT implements CertChain for every network size, disk, view assignment and
\* course of events: no step stores two blocks, stores one that lacked a quorum
\* when the step began, or takes back a vote.
THEOREM MyBftImplementsCertChain == Spec => ImplementsCertChain
<1>1. CertInv /\ [Next]_vars => [Cert!Next]_<<signed, StoredBlocks>>
  BY StepSeen DEF Refined
<1> QED
  BY <1>1, InitSeen, CertInit, CertNext, PTL DEF Spec, ImplementsCertChain, Cert!Spec
=============================================================================
