---------------------------- MODULE MyBftOneView ----------------------------
(***************************************************************************)
(* MyBft in a network whose nodes left the leader election with one view.  *)
(* No view is ever entered then, so no block is revoked and no cache is    *)
(* emptied but by a restart: what waits really waits, the predecessor of a *)
(* stored block is held by a quorum, and no proposal is mined twice.       *)
(***************************************************************************)
EXTENDS MyBftProofs

\* The election gave every node the same view.
OneView == \A n, k \in Node : InitView[n] = InitView[k]

----------------------------------------------------------------------------
(* Views.                                                                  *)

LEMMA SameView ==
  ASSUME OneView, ViewInv, NEW n \in Node, NEW k \in Node
  PROVE  View[n] \in Nat /\ View[n] = View[k] /\ View[n] = InitView[n]
<1>1. View[n] \in Nat
  BY DEF ViewInv, TypeOK, ViewTypeOK
<1> QED
  BY <1>1 DEF ViewInv, NoFreshView, OneView

\* The network has one leader.
LEMMA OneLeader ==
  ASSUME OneView, ViewInv, NEW n \in Node, NEW k \in Node, IsLeader(n), IsLeader(k)
  PROVE  n = k
BY SameView DEF IsLeader

LEMMA ViewsStay ==
  ASSUME OneView, ViewInv, ViewInv'
  PROVE  UNCHANGED View
<1>1. View \in [Node -> Nat] /\ View' \in [Node -> Nat]
  BY DEF ViewInv, TypeOK, ViewTypeOK
<1>2. \A n \in Node : View'[n] = View[n]
  BY DEF ViewInv, NoFreshView, OneView
<1> QED
  BY <1>1, <1>2

\* A NewView names the view the node is in: it is not entered.
LEMMA NewViewIgnored ==
  ASSUME OneView, ViewInv, NEW n \in Up, ReceiveNewView(n)
  PROVE  /\ UNCHANGED <<ledger, nodeVars, leaderVars, viewVars, clientVars, history>>
         /\ net' \subseteq net
<1>1. PICK pk \in Inbox(n, "NewView") : \E packets \in Handled(pk) :
        \/ pk.msg.view = View[n] + 1
        \/ net' = packets /\ UNCHANGED <<ledger, nodeVars, leaderVars, viewVars, clientVars, history>>
  BY DEF ReceiveNewView
<1>2. PICK k \in Node : pk.msg.view = InitView[k]
  BY DEF Inbox, ViewInv, NewViewsElected, Elected
<1>3. View[n] \in Nat /\ pk.msg.view = View[n]
  BY <1>2, SameView, NodeType DEF OneView
<1>4. pk.msg.view # View[n] + 1
  BY <1>3
<1> QED
  BY <1>1, <1>4, HandledType

----------------------------------------------------------------------------
(* What a step does, apart from what no property here is about.  PBFT mode *)
(* takes the same kinds of steps: there, a node that takes a block message *)
(* need not confirm it, and what it executes is signed by commits.         *)

\* The blocks a quorum confirmed, with whatever signatures.
ConfirmedBlocks == {b \in BlockValidated : Confirmed(b.blk)}

LEMMA CertificatesConfirmed == Certificates \subseteq ConfirmedBlocks
BY CertificateConfirms DEF Certificates, ConfirmedBlocks

\* A lookup may have been cached.
LookedUp ==
  \A k \in Node : ledger'[k] = ledger[k] \/ \E z \in Zone : ledger'[k] = WithLookup(ledger[k], z)

\* blockChan of n, perhaps without its head.
ChanLeft(n, chan) == chan = blockChan[n] \/ (blockChan[n] # << >> /\ chan = Tail(blockChan[n]))

\* The block message m came over the network or from blockChan.
Arrived(n, m) ==
  \/ \E pk \in net : pk.msg = m /\ m.type = "Block"
  \/ blockChan[n] # << >> /\ m = Head(blockChan[n])

\* Why n executes b: a message with a quorum behind it, a completed quorum for a
\* block n voted for, or an answer to a request of n.
Warranted(n, b) ==
  \/ \E m \in BlockMessage : Arrived(n, m) /\ Acceptable(n, m) /\ b.blk = m.blk
  \/ \E o \in Block[n] : b.blk = o.blk
  \/ \E pk \in net : pk.to = n /\ pk.msg.type = "DataSyncResp" /\ pk.msg.block = b

Executes(n, b) ==
  /\ \E packets \in SUBSET net : \E cache, chan :
       /\ ExecuteBlock(n, b, cache, chan, packets)
       /\ \/ cache = ProposalsCache[n]
          \/ \E m \in BlockMessage : cache = ModifyProposalState(ProposalsCache[n], <<m>>)
       /\ ChanLeft(n, chan)
  /\ Warranted(n, b)
  /\ \/ UNCHANGED Block /\ \E pk \in net : pk.to = n /\ pk.msg.type = "DataSyncResp"
     \/ Block' = [Block EXCEPT ![n] = {o \in @ : o.blk # b.blk}]
  /\ UNCHANGED <<signed, View, ordered>>

\* n takes m for the next block of its chain, and confirms it perhaps.
Takes(n, m) ==
  /\ Arrived(n, m) /\ TipStored(ledger[n]) /\ Acceptable(n, m)
  /\ Block' = [Block EXCEPT ![n] = {o \in @ : o.blk # m.blk} \cup {m}]
  /\ ProposalsCache' = [ProposalsCache EXCEPT ![n] = ModifyProposalState(@, <<m>>)]
  /\ \E chan : ChanLeft(n, chan) /\ blockChan' = [blockChan EXCEPT ![n] = chan]
  /\ \/ signed' = [signed EXCEPT ![n] = @ \cup {m.blk}]
     \/ UNCHANGED signed
  /\ \A pk \in net' : pk \in net \/ pk.msg.type = "BlockConfirm"
  /\ UNCHANGED <<ledger, Blocks, BlockMessages, leaderVars, View, ordered, mined, replied>>

Defers(n, m) ==
  /\ Arrived(n, m) /\ Ahead(n, m)
  /\ \E packets \in SUBSET net : \E chan : DeferBlock(n, m, chan, packets) /\ ChanLeft(n, chan)
  /\ UNCHANGED <<View, ordered>>

Accepts(n, p) ==
  /\ \E pk \in net : pk.to = n /\ pk.msg.type = "Proposal" /\ pk.msg.proposal = p
  /\ Fresh(n, p)
  /\ \E packets \in SUBSET net : AcceptProposal(n, p, packets)
  /\ UNCHANGED <<View, ordered>>

\* Everything else counts, answers, asks or forgets.
Idles ==
  /\ LookedUp
  /\ UNCHANGED <<ProposalsCache, Blocks, BlockMessages, Block, MessagePool, BlockConfirm,
                 UnConfirmedH, View, ordered, history>>
  /\ blockChan' = blockChan
       \/ \E n \in Up : \E chan : ChanLeft(n, chan) /\ blockChan' = [blockChan EXCEPT ![n] = chan]
  /\ \A pk \in net' :
       \/ pk \in net
       \/ pk.msg.type \in {"ProposalConfirm", "ViewChange", "NewView"}
       \/ /\ pk.msg.type = "DataSyncResp"
          /\ \E q \in net : q.msg.type = "DataSync" /\ q.msg.from = pk.to

Step ==
  \/ \E n \in Up, b \in ConfirmedBlocks : Executes(n, b)
  \/ \E n \in Up, m \in BlockMessage : Takes(n, m) \/ Defers(n, m)
  \/ \E n \in Up, p \in Proposal : Accepts(n, p)
  \/ \E p \in Orders : Order(p)
  \/ \E n \in Up : Interrupt(n) \/ Restart(n)
  \/ Idles

LEMMA StepOfBlock ==
  ASSUME CertInv, NEW n \in Up, NEW m \in BlockMessage, Arrived(n, m),
         NEW packets \in SUBSET net, NEW chan, ChanLeft(n, chan),
         ProcessBlockMessage(n, m, chan, packets) \/ IgnoreBlock(n, chan, packets),
         UNCHANGED <<viewVars, clientVars>>
  PROVE  Step
<1>1. n \in Node /\ m.blk \in BlockId /\ UNCHANGED <<View, ordered>>
  BY NodeType, BlockMessageFields DEF viewVars, clientVars
<1>2. CASE IgnoreBlock(n, chan, packets)
  <2>1. /\ UNCHANGED <<ledger, ProposalsCache, Blocks, BlockMessages, Block, leaderVars, history>>
        /\ blockChan' = [blockChan EXCEPT ![n] = chan] /\ net' \subseteq net
    BY <1>2 DEF IgnoreBlock
  <2> QED
    BY <1>1, <2>1 DEF Step, Idles, LookedUp, leaderVars
<1>3. CASE Ahead(n, m) /\ DeferBlock(n, m, chan, packets)
  BY <1>1, <1>3 DEF Step, Defers
<1>4. CASE /\ TipStored(ledger[n]) /\ Acceptable(n, m)
           /\ VoteForBlock(n, m, chan, packets)
  <2>1. \A pk \in net' : pk \in net \/ pk.msg.type = "BlockConfirm"
    BY <1>1, <1>4, VoteSends DEF VoteForBlock, BlockConfirmMsg
  <2>2. Takes(n, m)
    BY <1>1, <1>4, <2>1 DEF Takes, VoteForBlock
  <2> QED
    BY <2>2 DEF Step
<1>5. CASE /\ Acceptable(n, m) /\ IsQuorum(N, Confirmations(n, m.blk))
           /\ ExecuteConfirmed(n, m, chan, packets)
  <2> DEFINE b     == [blk |-> m.blk, sigs |-> Confirmations(n, m.blk)]
             cache == ModifyProposalState(ProposalsCache[n], <<m>>)
  <2>1. b \in ConfirmedBlocks
    BY <1>1, <1>5, ConfirmationsCast, CertificatesConfirmed
  <2>2. b.blk = m.blk
    OBVIOUS
  <2>3. /\ ExecuteBlock(n, b, cache, chan, packets)
        /\ Block' = [Block EXCEPT ![n] = {o \in @ : o.blk # m.blk}] /\ UNCHANGED signed
    BY <1>5 DEF ExecuteConfirmed
  <2>4. \E c : c = cache /\ ExecuteBlock(n, b, c, chan, packets)
    BY <2>3
  <2> HIDE DEF b
  <2>5. Warranted(n, b)
    BY <1>5, <2>2 DEF Warranted
  <2>6. Executes(n, b)
    BY <1>1, <2>2, <2>3, <2>4, <2>5 DEF Executes
  <2> QED
    BY <2>1, <2>6 DEF Step
<1> QED
  BY <1>2, <1>3, <1>4, <1>5 DEF ProcessBlockMessage

LEMMA StepOfReceiveBlock ==
  ASSUME CertInv, NEW n \in Up, ReceiveBlock(n) \/ ReceiveDeferredBlock(n)
  PROVE  Step
<1>1. CASE ReceiveBlock(n)
  <2>1. PICK pk \in Inbox(n, "Block") : \E packets \in Handled(pk) :
          /\ \/ IgnoreBlock(n, blockChan[n], packets)
             \/ ProcessBlockMessage(n, pk.msg, blockChan[n], packets)
          /\ UNCHANGED <<viewVars, clientVars>>
    BY <1>1 DEF ReceiveBlock
  <2>2. pk \in net /\ pk.msg.type = "Block" /\ pk.msg \in BlockMessage
    BY InboxMessage, MessageFields DEF CertInv
  <2>3. Arrived(n, pk.msg) /\ ChanLeft(n, blockChan[n])
    BY <2>2 DEF Arrived, ChanLeft
  <2>4. \A packets \in Handled(pk) : packets \in SUBSET net
    BY HandledType
  <2> QED
    BY <2>1, <2>2, <2>3, <2>4, StepOfBlock
<1>2. CASE ReceiveDeferredBlock(n)
  <2>1. blockChan[n] \in Seq(BlockMessage) /\ blockChan[n] # << >>
    BY <1>2, NodeType DEF CertInv, TypeOK, NodeTypeOK, ReceiveDeferredBlock
  <2>2. Head(blockChan[n]) \in BlockMessage
    BY <2>1, HeadTailProperties
  <2>3. Arrived(n, Head(blockChan[n])) /\ ChanLeft(n, Tail(blockChan[n]))
    BY <2>1 DEF Arrived, ChanLeft
  <2> QED
    BY <1>2, <2>2, <2>3, StepOfBlock DEF ReceiveDeferredBlock
<1> QED
  BY <1>1, <1>2

LEMMA StepOfReceiveBlockConfirm ==
  ASSUME CertInv, NEW n \in Up, ReceiveBlockConfirm(n)
  PROVE  Step
<1>1. PICK pk \in Inbox(n, "BlockConfirm") : \E packets \in Handled(pk) :
        LET votes == Confirmations(n, pk.msg.blk) \cup {pk.msg.from}
        IN  /\ \/ net' = packets /\ UNCHANGED <<ledger, nodeVars, leaderVars, history>>
               \/ /\ \E o \in Block[n] : o.blk = pk.msg.blk
                  /\ IsQuorum(N, votes) /\ ExecuteOnQuorum(n, pk.msg.blk, votes, packets)
               \/ CountConfirm(n, pk.msg.blk, pk.msg.from, packets)
            /\ UNCHANGED <<viewVars, clientVars>>
  BY DEF ReceiveBlockConfirm
<1> DEFINE m     == pk.msg
           votes == Confirmations(n, m.blk) \cup {m.from}
           b     == [blk |-> m.blk, sigs |-> votes]
<1>2. PICK packets \in Handled(pk) :
        /\ \/ net' = packets /\ UNCHANGED <<ledger, nodeVars, leaderVars, history>>
           \/ /\ \E o \in Block[n] : o.blk = m.blk
              /\ IsQuorum(N, votes) /\ ExecuteOnQuorum(n, m.blk, votes, packets)
           \/ CountConfirm(n, m.blk, m.from, packets)
        /\ UNCHANGED <<viewVars, clientVars>>
  BY <1>1
<1>3. /\ n \in Node /\ packets \in SUBSET net /\ m.from \in Node /\ m.blk \in BlockId
      /\ m.blk \in signed[m.from] /\ UNCHANGED <<View, ordered>>
  BY <1>2, NodeType, InboxType, MessageFields DEF CertInv, VotesCast, viewVars, clientVars
<1>4. CASE \/ net' = packets /\ UNCHANGED <<ledger, nodeVars, leaderVars, history>>
           \/ CountConfirm(n, m.blk, m.from, packets)
  <2>1. /\ UNCHANGED <<ledger, ProposalsCache, Blocks, BlockMessages, Block, blockChan,
                       leaderVars, history>>
        /\ net' = packets
    BY <1>4 DEF CountConfirm, nodeVars
  <2> QED
    BY <1>3, <2>1 DEF Step, Idles, LookedUp, leaderVars
<1>5. CASE /\ \E o \in Block[n] : o.blk = m.blk
           /\ IsQuorum(N, votes) /\ ExecuteOnQuorum(n, m.blk, votes, packets)
  <2>1. b \in ConfirmedBlocks /\ b.blk = m.blk
    BY <1>3, <1>5, CompletedQuorum, CertificatesConfirmed
  <2>2. /\ ExecuteBlock(n, b, ProposalsCache[n], blockChan[n], packets)
        /\ Block' = [Block EXCEPT ![n] = {o \in @ : o.blk # m.blk}] /\ UNCHANGED signed
    BY <1>5 DEF ExecuteOnQuorum
  <2> HIDE DEF b
  <2>3. Warranted(n, b)
    BY <1>5, <2>1 DEF Warranted
  <2>4. ChanLeft(n, blockChan[n])
    BY DEF ChanLeft
  <2>5. Executes(n, b)
    BY <1>3, <2>1, <2>2, <2>3, <2>4 DEF Executes
  <2> QED
    BY <2>1, <2>5 DEF Step
<1> QED
  BY <1>2, <1>4, <1>5

LEMMA StepOfReceiveProposal ==
  ASSUME TypeOK, NEW n \in Up, ReceiveProposal(n)
  PROVE  Step
<1>1. PICK pk \in Inbox(n, "Proposal") : \E packets \in Handled(pk) :
        /\ \/ Fresh(n, pk.msg.proposal) /\ AcceptProposal(n, pk.msg.proposal, packets)
           \/ IgnoreProposal(n, pk.msg.proposal, packets)
        /\ UNCHANGED <<viewVars, clientVars>>
  BY DEF ReceiveProposal
<1> DEFINE p == pk.msg.proposal
<1>2. PICK packets \in Handled(pk) :
        /\ \/ Fresh(n, p) /\ AcceptProposal(n, p, packets)
           \/ IgnoreProposal(n, p, packets)
        /\ UNCHANGED <<viewVars, clientVars>>
  BY <1>1
<1>3. /\ packets \in SUBSET net /\ n \in Node /\ ledger \in [Node -> LedgerType]
      /\ pk \in net /\ pk.to = n /\ pk.msg.type = "Proposal" /\ p \in Proposal
      /\ UNCHANGED <<View, ordered>>
  BY <1>2, NodeType, InboxType, InboxMessage, MessageFields
     DEF TypeOK, Inbox, viewVars, clientVars
<1>4. CASE Fresh(n, p) /\ AcceptProposal(n, p, packets)
  BY <1>3, <1>4 DEF Step, Accepts
<1>5. CASE IgnoreProposal(n, p, packets)
  <2>1. /\ UNCHANGED <<nodeVars, leaderVars, history>> /\ net' = packets
        /\ \/ ledger' = [ledger EXCEPT ![n] = WithLookup(@, p.zone)]
           \/ ledger' = ledger
    BY <1>3, <1>5 DEF IgnoreProposal
  <2>2. p.zone \in Zone
    BY <1>3 DEF Zone
  <2>3. LookedUp
    BY <1>3, <2>1, <2>2 DEF LookedUp
  <2> QED
    BY <1>3, <2>1, <2>3 DEF Step, Idles, nodeVars, leaderVars
<1> QED
  BY <1>2, <1>4, <1>5

LEMMA StepOfReceiveDataSync ==
  ASSUME NEW n \in Up, ReceiveDataSync(n)
  PROVE  Step
<1>1. /\ UNCHANGED <<ledger, nodeVars, leaderVars, viewVars, clientVars, history>>
      /\ \E pk \in Inbox(n, "DataSync") : \E packets \in Handled(pk) : \E b :
           \/ net' = packets
           \/ net' = packets \cup [to : {pk.msg.from}, msg : {DataSyncRespMsg(b)}]
  BY DEF ReceiveDataSync
<1>2. \A pk \in net' :
        \/ pk \in net
        \/ /\ pk.msg.type = "DataSyncResp"
           /\ \E q \in net : q.msg.type = "DataSync" /\ q.msg.from = pk.to
  BY <1>1, HandledType DEF DataSyncRespMsg, Inbox
<1> QED
  BY <1>1, <1>2 DEF Step, Idles, LookedUp, nodeVars, leaderVars, viewVars, clientVars

\* An answer is executed if a quorum confirmed what it holds.
LEMMA StepOfDataSyncResp ==
  ASSUME NEW n \in Up, NEW pk \in Inbox(n, "DataSyncResp"), NEW packets \in Handled(pk),
         pk.msg.block \in ConfirmedBlocks,
         ExecuteBlock(n, pk.msg.block, ProposalsCache[n], blockChan[n], packets),
         UNCHANGED <<Block, signed, viewVars, clientVars>>
  PROVE  Step
<1> DEFINE b == pk.msg.block
<1>1. pk \in net /\ pk.to = n /\ pk.msg.type = "DataSyncResp" /\ packets \in SUBSET net
  BY HandledType DEF Inbox
<1>2. Warranted(n, b)
  BY <1>1 DEF Warranted
<1>3. Executes(n, b)
  BY <1>1, <1>2 DEF Executes, ChanLeft, viewVars, clientVars
<1> QED
  BY <1>3 DEF Step

LEMMA StepOfReceiveDataSyncResp ==
  ASSUME CertInv, NEW n \in Up, ReceiveDataSyncResp(n)
  PROVE  Step
<1>1. PICK pk \in Inbox(n, "DataSyncResp") : \E packets \in Handled(pk) :
        /\ ExecuteBlock(n, pk.msg.block, ProposalsCache[n], blockChan[n], packets)
        /\ UNCHANGED <<Block, BlockPrepareMsg, signed, viewVars, clientVars>>
  BY DEF ReceiveDataSyncResp
<1>2. pk.msg.block \in Certificates
  BY InboxMessage, MessageFields DEF CertInv, Certified, HandedOutCertified, Certificates
<1>3. pk.msg.block \in ConfirmedBlocks
  BY <1>2, CertificatesConfirmed
<1> QED
  BY <1>1, <1>3, StepOfDataSyncResp

LEMMA StepOfViewChange ==
  ASSUME OneView, ViewInv, NEW n \in Up,
         ReceiveProposalConfirm(n) \/ ReceiveViewChange(n) \/ ReceiveNewView(n)
  PROVE  Step
<1>1. /\ UNCHANGED <<ledger, nodeVars, leaderVars, View, clientVars, history>>
      /\ \A pk \in net' : pk \in net \/ pk.msg.type \in {"ViewChange", "NewView"}
  <2>1. CASE ReceiveProposalConfirm(n)
    BY <2>1, HandledType
       DEF ReceiveProposalConfirm, StartViewChange, Broadcast, ViewChangeMsg, viewVars
  <2>2. CASE ReceiveViewChange(n)
    <3>1. UNCHANGED <<ledger, nodeVars, leaderVars, View, clientVars, history>>
      BY <2>2 DEF ReceiveViewChange
    <3>2. PICK packets :
            /\ packets \subseteq net
            /\ \/ net' = packets
               \/ \E o, senders : net' = packets \cup Broadcast({NewViewMsg(View[n], o, senders)})
      BY <2>2, HandledType DEF ReceiveViewChange, StartChange
    <3> QED
      BY <3>1, <3>2 DEF Broadcast, NewViewMsg
  <2>3. CASE ReceiveNewView(n)
    BY <2>3, NewViewIgnored DEF viewVars
  <2> QED
    BY <2>1, <2>2, <2>3
<1> QED
  BY <1>1 DEF Step, Idles, LookedUp, nodeVars, leaderVars, clientVars

\* What the two packages share.
LEMMA StepOfShared ==
  ASSUME OneView, ViewInv, Shared
  PROVE  Step
<1>1. ASSUME NEW p \in Orders, ProposalTimeout(p) PROVE Step
  <2>1. /\ UNCHANGED <<ledger, nodeVars, leaderVars, viewVars, ordered, history>>
        /\ \A pk \in net' : pk \in net \/ pk.msg.type = "ProposalConfirm"
    BY <1>1 DEF ProposalTimeout, ProposalConfirmMsg
  <2> QED
    BY <2>1 DEF Step, Idles, LookedUp, nodeVars, leaderVars, viewVars
<1>2. ASSUME NEW n \in Up, Tick(n) PROVE Step
  BY <1>2 DEF Tick, Step, Idles, LookedUp, nodeVars, viewVars, clientVars
<1>3. CASE UNCHANGED vars
  BY <1>3 DEF vars, Step, Idles, LookedUp, nodeVars, leaderVars, viewVars, clientVars
<1>4. ASSUME NEW p \in Orders, Order(p) PROVE Step
  BY <1>4 DEF Step
<1>5. ASSUME NEW n \in Up, Interrupt(n) \/ Restart(n) PROVE Step
  BY <1>5 DEF Step
<1>6. TypeOK
  BY DEF ViewInv
<1> QED
  BY <1>1, <1>2, <1>3, <1>4, <1>5, <1>6, StepOfReceiveProposal, StepOfReceiveDataSync,
     StepOfViewChange DEF Shared

\* Under one view, every step of the network is one of those of Step.
LEMMA StepKinds ==
  ASSUME OneView, ViewInv, CertInv, [Next]_vars
  PROVE  Step
<1>1. \/ Shared
      \/ \E n \in Up : \/ ReceiveBlock(n) \/ ReceiveDeferredBlock(n) \/ ReceiveBlockConfirm(n)
                       \/ ReceiveDataSyncResp(n)
  BY DEF Next, Handle, Shared
<1> QED
  BY <1>1, StepOfShared, StepOfReceiveBlock, StepOfReceiveBlockConfirm, StepOfReceiveDataSyncResp

----------------------------------------------------------------------------
(* The queues.                                                             *)

\* One element per height, in ascending order.
Ascends(q) == \A i \in DOMAIN q : \A j \in 1..(i - 1) : Height(q[j].blk) < Height(q[i].blk)

\* A queue of what waits for the predecessor, at a node whose tip has height t.
Waits(q, t) == Ascends(q) /\ \A i \in DOMAIN q : Height(q[i].blk) > t + 1

\* A set of positions that holds every position before one it holds.
LEMMA PrefixSet ==
  ASSUME NEW m \in Nat, NEW V \in SUBSET (1..m), \A i \in V : \A j \in 1..i : j \in V
  PROVE  V = 1..Cardinality(V)
<1>1. CASE V = {}
  BY <1>1, FS_EmptySet
<1>2. CASE V # {}
  <2>1. PICK x \in V : \A y \in V : y <= x
    BY <1>2, GreatestPosition
  <2>2. V = 1..x
    <3>1. x \in Nat /\ \A j \in 1..x : j \in V
      BY <2>1
    <3>2. \A y \in V : y \in 1..x
      BY <2>1
    <3> QED
      BY <3>1, <3>2
  <2>3. Cardinality(1..x) = x
    <3>1. 1 \in Int /\ x \in Int /\ 1 <= x
      BY <2>1
    <3> QED
      BY <3>1, FS_Interval
  <2> QED
    BY <2>2, <2>3
<1> QED
  BY <1>1, <1>2

\* The last elements of a sequence.
LEMMA SuffixElements ==
  ASSUME NEW S, NEW q \in Seq(S), NEW c \in 0..Len(q)
  PROVE  /\ SubSeq(q, c + 1, Len(q)) \in Seq(S)
         /\ Len(SubSeq(q, c + 1, Len(q))) = Len(q) - c
         /\ \A i \in 1..(Len(q) - c) : SubSeq(q, c + 1, Len(q))[i] = q[c + i]
<1> DEFINE m == c + 1
           n == Len(q)
           r == SubSeq(q, m, n)
<1> HIDE DEF m, n
<1>1. n \in Nat /\ m \in 1..(n + 1) /\ c \in Nat /\ m = c + 1
  BY LenProperties DEF m, n
<1>2. m \in Int /\ n \in Int /\ \A i \in m..n : q[i] \in S
  BY <1>1, ElementOfSeq DEF n
<1>3. /\ r \in Seq(S)
      /\ Len(r) = IF m <= n THEN n - m + 1 ELSE 0
      /\ \A i \in 1..(n - m + 1) : r[i] = q[m + i - 1]
  BY <1>2, SubSeqProperties
<1> HIDE DEF r, m, n
<1>4. Len(r) = n - c /\ n - m + 1 = n - c
  BY <1>1, <1>3
<1>5. \A i \in 1..(n - c) : m + i - 1 = c + i
  BY <1>1
<1>6. \A i \in 1..(n - c) : r[i] = q[c + i]
  BY <1>3, <1>4, <1>5
<1> QED
  BY <1>3, <1>4, <1>6 DEF r, m, n

\* The loop of ExecuteBlock pops a prefix of the queue.
LEMMA PoppedPrefix ==
  ASSUME NEW S, NEW q \in Seq(S), NEW h
  PROVE  Popped(q, h) = 1..Cardinality(Popped(q, h))
<1>1. Popped(q, h) \in SUBSET (1..Len(q)) /\ Len(q) \in Nat /\ DOMAIN q = 1..Len(q)
  BY PoppedType, LenProperties
<1>2. \A i \in Popped(q, h) : \A j \in 1..i : j \in Popped(q, h)
  BY <1>1 DEF Popped
<1> QED
  BY <1>1, <1>2, PrefixSet, Zenon

\* A new element keeps a queue ascending, and nothing else joins it.
LEMMA EnqueueAscends ==
  ASSUME NEW S, \A y \in S : y.blk \in BlockId,
         NEW q \in Seq(S), NEW x \in S, Ascends(q)
  PROVE  /\ Ascends(Enqueue(q, x))
         /\ \A i \in DOMAIN Enqueue(q, x) :
              Enqueue(q, x)[i] = x \/ \E j \in DOMAIN q : Enqueue(q, x)[i] = q[j]
<1> DEFINE V == {i \in DOMAIN q : Height(q[i].blk) < Height(x.blk)}
           k == Cardinality(V)
           e == SubSeq(q, 1, k) \o <<x>> \o SubSeq(q, k + 1, Len(q))
<1>1. /\ Len(q) \in Nat /\ DOMAIN q = 1..Len(q) /\ \A i \in 1..Len(q) : q[i] \in S
      /\ Height(x.blk) \in Nat /\ \A i \in 1..Len(q) : Height(q[i].blk) \in Nat
  BY LenProperties, ElementOfSeq, HeightType
<1>2. V = 1..k /\ k \in 0..Len(q)
  <2>1. V \in SUBSET (1..Len(q))
    BY <1>1
  <2>2. \A i \in V : \A j \in 1..i : j \in V
    <3> SUFFICES ASSUME NEW i \in V, NEW j \in 1..i PROVE j \in V
      OBVIOUS
    <3>1. j = i \/ Height(q[j].blk) < Height(q[i].blk)
      BY <1>1 DEF Ascends
    <3> QED
      BY <1>1, <3>1
  <2> HIDE DEF V
  <2> QED
    BY <1>1, <2>1, <2>2, PrefixSet, PositionsCount
<1>3. CASE \E i \in DOMAIN q : Height(q[i].blk) = Height(x.blk)
  BY <1>3 DEF Enqueue
<1>4. CASE ~ \E i \in DOMAIN q : Height(q[i].blk) = Height(x.blk)
  <2>1. Enqueue(q, x) = e
    BY <1>4 DEF Enqueue
  <2>2. \A i \in 1..k : Height(q[i].blk) < Height(x.blk)
    BY <1>2
  <2>3. \A i \in (k + 1)..Len(q) : Height(x.blk) < Height(q[i].blk)
    <3> SUFFICES ASSUME NEW i \in (k + 1)..Len(q) PROVE Height(x.blk) < Height(q[i].blk)
      OBVIOUS
    <3>1. i \in DOMAIN q /\ i \notin 1..k
      BY <1>1, <1>2
    <3>2. ~ (Height(q[i].blk) < Height(x.blk)) /\ Height(q[i].blk) # Height(x.blk)
      BY <1>2, <1>4, <3>1
    <3>3. Height(q[i].blk) \in Nat
      BY <1>1, <3>1
    <3> QED
      BY <1>1, <3>2, <3>3
  <2> HIDE DEF V, k
  <2>4. /\ SubSeq(q, 1, k) \in Seq(S) /\ Len(SubSeq(q, 1, k)) = k
        /\ \A i \in 1..k : SubSeq(q, 1, k)[i] = q[i]
    BY <1>1, <1>2, SubSeqProperties
  <2>5. /\ SubSeq(q, k + 1, Len(q)) \in Seq(S)
        /\ Len(SubSeq(q, k + 1, Len(q))) = Len(q) - k
        /\ \A i \in 1..(Len(q) - k) : SubSeq(q, k + 1, Len(q))[i] = q[k + i]
    BY <1>2, SuffixElements
  <2> DEFINE s == SubSeq(q, 1, k)
             t == SubSeq(q, k + 1, Len(q))
  <2> HIDE DEF s, t
  <2>6. /\ DOMAIN e = 1..(Len(q) + 1)
        /\ \A i \in 1..k : e[i] = q[i]
        /\ e[k + 1] = x
        /\ \A i \in (k + 2)..(Len(q) + 1) : e[i] = q[i - 1]
    <3>1. /\ s \in Seq(S) /\ Len(s) = k /\ \A i \in 1..k : s[i] = q[i]
          /\ t \in Seq(S) /\ Len(t) = Len(q) - k /\ \A i \in 1..(Len(q) - k) : t[i] = q[k + i]
          /\ e = s \o <<x>> \o t
      BY <2>4, <2>5 DEF s, t
    <3> DEFINE u == s \o <<x>>
    <3>2. /\ u \in Seq(S) /\ Len(u) = k + 1
          /\ \A i \in 1..k : u[i] = s[i]
          /\ u[k + 1] = x
      <4>1. <<x>> \in Seq(S) /\ Len(<<x>>) = 1 /\ <<x>>[1] = x
        OBVIOUS
      <4>2. /\ u \in Seq(S) /\ Len(u) = Len(s) + Len(<<x>>)
            /\ \A i \in 1..(Len(s) + Len(<<x>>)) :
                 u[i] = IF i <= Len(s) THEN s[i] ELSE <<x>>[i - Len(s)]
        BY <3>1, <4>1, ConcatProperties
      <4>3. \A i \in 1..k : i \in 1..(k + 1) /\ i <= k
        BY <1>2
      <4>4. k + 1 \in 1..(k + 1) /\ ~ (k + 1 <= k) /\ (k + 1) - k = 1
        BY <1>2
      <4> HIDE DEF u
      <4> QED
        BY <3>1, <4>1, <4>2, <4>3, <4>4
    <3>9. e = u \o t
      BY <3>1
    <3> HIDE DEF e, u
    <3>3. /\ e \in Seq(S) /\ Len(e) = Len(q) + 1
          /\ \A i \in 1..(k + 1) : e[i] = u[i]
          /\ \A i \in (k + 2)..(Len(q) + 1) : e[i] = t[i - (k + 1)]
      <4>1. u \o t \in Seq(S) /\ Len(u \o t) = Len(u) + Len(t)
        BY <3>1, <3>2, ConcatProperties
      <4>2. \A i \in 1..(Len(u) + Len(t)) :
              (u \o t)[i] = IF i <= Len(u) THEN u[i] ELSE t[i - Len(u)]
        BY <3>1, <3>2, ConcatProperties
      <4>3. Len(u) + Len(t) = Len(q) + 1
        BY <1>1, <1>2, <3>1, <3>2
      <4>4. \A i \in 1..(k + 1) : i \in 1..(Len(q) + 1) /\ i <= k + 1
        BY <1>1, <1>2
      <4>5. \A i \in (k + 2)..(Len(q) + 1) : i \in 1..(Len(q) + 1) /\ ~ (i <= k + 1)
        BY <1>1, <1>2
      <4> QED
        BY <3>2, <3>9, <4>1, <4>2, <4>3, <4>4, <4>5
    <3>4. \A i \in (k + 2)..(Len(q) + 1) : i - (k + 1) \in 1..(Len(q) - k) /\ k + (i - (k + 1)) = i - 1
      BY <1>1, <1>2
    <3>5. DOMAIN e = 1..(Len(q) + 1)
      BY <3>3, LenProperties
    <3>6. \A i \in 1..k : e[i] = q[i]
      <4>1. \A i \in 1..k : i \in 1..(k + 1)
        BY <1>2
      <4> QED
        BY <3>1, <3>2, <3>3, <4>1
    <3>7. e[k + 1] = x
      <4>1. k + 1 \in 1..(k + 1)
        BY <1>2
      <4> QED
        BY <3>2, <3>3, <4>1
    <3>8. \A i \in (k + 2)..(Len(q) + 1) : e[i] = q[i - 1]
      BY <3>1, <3>3, <3>4
    <3> QED
      BY <3>5, <3>6, <3>7, <3>8
  <2> HIDE DEF e
  <2>7. \A i \in DOMAIN e : e[i] = x \/ \E j \in DOMAIN q : e[i] = q[j]
    <3> SUFFICES ASSUME NEW i \in DOMAIN e, e[i] # x PROVE \E j \in DOMAIN q : e[i] = q[j]
      OBVIOUS
    <3>1. i \in 1..k \/ i \in (k + 2)..(Len(q) + 1)
      BY <1>1, <1>2, <2>6
    <3>2. i \in 1..k => i \in DOMAIN q
      BY <1>1, <1>2
    <3>3. i \in (k + 2)..(Len(q) + 1) => i - 1 \in DOMAIN q
      BY <1>1, <1>2
    <3> QED
      BY <2>6, <3>1, <3>2, <3>3
  <2>8. Ascends(e)
    <3> SUFFICES ASSUME NEW i \in 1..(Len(q) + 1), NEW j \in 1..(i - 1)
                 PROVE  Height(e[j].blk) < Height(e[i].blk)
      BY <2>6 DEF Ascends
    <3>1. \A a \in 1..Len(q) : \A b \in 1..(a - 1) : Height(q[b].blk) < Height(q[a].blk)
      BY <1>1 DEF Ascends
    <3>2. CASE i <= k
      BY <1>1, <1>2, <2>6, <3>1, <3>2
    <3>3. CASE i = k + 1
      BY <1>1, <1>2, <2>2, <2>6, <3>3
    <3>4. CASE i > k + 1
      <4>1. i - 1 \in (k + 1)..Len(q) /\ e[i] = q[i - 1]
        BY <1>2, <2>6, <3>4
      <4>2. CASE j <= k
        <5>1. e[j] = q[j] /\ i - 1 \in 1..Len(q) /\ j \in 1..((i - 1) - 1)
          BY <1>1, <1>2, <2>6, <3>4, <4>2
        <5> QED
          BY <3>1, <4>1, <5>1
      <4>3. CASE j = k + 1
        BY <2>3, <2>6, <4>1, <4>3
      <4>4. CASE j > k + 1
        <5>1. e[j] = q[j - 1] /\ i - 1 \in 1..Len(q) /\ j - 1 \in 1..((i - 1) - 1)
          BY <1>1, <1>2, <2>6, <3>4, <4>4
        <5> QED
          BY <3>1, <4>1, <5>1
      <4> QED
        BY <1>2, <4>2, <4>3, <4>4
    <3> QED
      BY <1>2, <3>2, <3>3, <3>4
  <2> QED
    BY <2>1, <2>7, <2>8
<1> QED
  BY <1>3, <1>4

\* What stays in a queue is above every height the loop has passed.
LEMMA RestAscends ==
  ASSUME NEW S, \A y \in S : y.blk \in BlockId, NEW q \in Seq(S), Ascends(q), NEW h \in Nat
  PROVE  /\ Ascends(Rest(q, h))
         /\ \A i \in DOMAIN Rest(q, h) :
              Height(Rest(q, h)[i].blk) > h + Cardinality(Popped(q, h))
<1> DEFINE c == Cardinality(Popped(q, h))
           r == Rest(q, h)
<1>1. /\ Len(q) \in Nat /\ DOMAIN q = 1..Len(q)
      /\ \A i \in 1..Len(q) : Height(q[i].blk) \in Nat
  BY LenProperties, ElementOfSeq, HeightType
<1>2. Popped(q, h) = 1..c /\ c \in 0..Len(q)
  BY PoppedPrefix, PoppedType
<1> HIDE DEF c
<1>3. /\ DOMAIN r = 1..(Len(q) - c)
      /\ \A i \in 1..(Len(q) - c) : r[i] = q[c + i]
  <2>1. /\ r \in Seq(S) /\ Len(r) = Len(q) - c
        /\ \A i \in 1..(Len(q) - c) : r[i] = q[c + i]
    <3>1. r = SubSeq(q, c + 1, Len(q))
      BY DEF Rest, c
    <3> HIDE DEF r
    <3> QED
      BY <1>2, <3>1, SuffixElements
  <2> HIDE DEF r
  <2> QED
    BY <1>1, <1>2, <2>1
<1> HIDE DEF r
<1>4. ASSUME c < Len(q) PROVE Height(q[c + 1].blk) > h + c
  <2>1. c + 1 \in DOMAIN q /\ c + 1 \notin Popped(q, h)
    BY <1>1, <1>2, <1>4
  <2>2. PICK j \in 1..(c + 1) : ~ (Height(q[j].blk) <= h + j - 1)
    BY <2>1 DEF Popped
  <2>3. j \notin 1..c
    <3>1. ASSUME j \in 1..c PROVE Height(q[j].blk) <= h + j - 1
      <4>1. j \in Popped(q, h)
        BY <1>2, <3>1
      <4> QED
        BY <4>1 DEF Popped
    <3> QED
      BY <2>2, <3>1
  <2>4. j = c + 1
    BY <1>2, <2>3
  <2>5. Height(q[c + 1].blk) \in Nat
    BY <1>1, <2>1
  <2> QED
    BY <1>2, <2>2, <2>4, <2>5
<1>5. ASSUME NEW i \in DOMAIN r PROVE Height(r[i].blk) > h + c
  <2>1. c < Len(q) /\ c + i \in 1..Len(q) /\ r[i] = q[c + i] /\ i \in 1..(Len(q) - c)
    BY <1>1, <1>2, <1>3
  <2>2. i = 1 \/ Height(q[c + 1].blk) < Height(q[c + i].blk)
    <3>1. i # 1 => c + 1 \in 1..((c + i) - 1)
      BY <1>2, <2>1
    <3> QED
      BY <1>1, <2>1, <3>1 DEF Ascends
  <2>3. Height(q[c + 1].blk) \in Nat /\ Height(q[c + i].blk) \in Nat /\ c \in Nat
    BY <1>1, <1>2, <2>1
  <2> QED
    BY <1>4, <2>1, <2>2, <2>3
<1>6. Ascends(r)
  <2> SUFFICES ASSUME NEW i \in DOMAIN r, NEW j \in 1..(i - 1)
               PROVE  Height(r[j].blk) < Height(r[i].blk)
    BY DEF Ascends
  <2>1. /\ r[i] = q[c + i] /\ r[j] = q[c + j]
        /\ c + i \in 1..Len(q) /\ c + j \in 1..((c + i) - 1)
    BY <1>1, <1>2, <1>3
  <2> QED
    BY <1>1, <2>1 DEF Ascends
<1> QED
  BY <1>5, <1>6 DEF c, r

----------------------------------------------------------------------------
(* What waits really waits.                                                *)

QueuesWait ==
  \A n \in Node : /\ Waits(Blocks[n], Height(ledger[n].tip))
                  /\ Waits(BlockMessages[n], Height(ledger[n].tip))

LEMMA QueuesWaitMeans == TypeOK /\ QueuesWait => NothingStranded
<1> SUFFICES ASSUME TypeOK, QueuesWait, NEW n \in Node,
                    NEW s \in {Blocks[n], BlockMessages[n]},
                    NEW q, q = [i \in DOMAIN s |-> Height(s[i].blk)],
                    NEW i \in DOMAIN q
             PROVE  /\ q[i] > Height(ledger[n].tip) + 1
                    /\ \A j \in 1..(i - 1) : q[j] < q[i]
  BY DEF NothingStranded
<1>1. Waits(s, Height(ledger[n].tip)) /\ i \in DOMAIN s
  BY DEF QueuesWait
<1>2. q[i] = Height(s[i].blk) /\ q[i] > Height(ledger[n].tip) + 1
  BY <1>1 DEF Waits
<1>3. \A j \in 1..(i - 1) : j \in DOMAIN s
  <2>1. \E S : s \in Seq(S)
    BY DEF TypeOK, NodeTypeOK
  <2>2. Len(s) \in Nat /\ DOMAIN s = 1..Len(s)
    BY <2>1, LenProperties
  <2> QED
    BY <1>1, <2>2
<1> QED
  BY <1>1, <1>2, <1>3 DEF Waits, Ascends

\* The loop meets an element of the next height only when it is given a block
\* of at most that height.
LEMMA MetIsNext ==
  ASSUME NEW S, \A y \in S : y.blk \in BlockId,
         NEW q \in Seq(S), NEW b \in S, NEW t \in Nat, Waits(q, t),
         Due(Enqueue(q, b), t + 1) # {}
  PROVE  /\ Height(b.blk) <= t + 1
         /\ Cardinality(Popped(Enqueue(q, b), t + 1)) >= 1
<1> DEFINE e == Enqueue(q, b)
           c == Cardinality(Popped(e, t + 1))
<1>1. e \in Seq(S)
  BY EnqueueType
<1>2. \A i \in DOMAIN e : e[i] = b \/ \E j \in DOMAIN q : e[i] = q[j]
  BY EnqueueAscends DEF Waits
<1>3. Popped(e, t + 1) = 1..c /\ c \in Nat
  BY <1>1, PoppedPrefix, PoppedType
<1>4. Popped(e, t + 1) # {}
  BY DEF Due
<1> HIDE DEF e, c
<1>5. 1 \in Popped(e, t + 1) /\ c >= 1
  BY <1>3, <1>4
<1>6. 1 \in DOMAIN e /\ Height(e[1].blk) <= t + 1
  <2>1. 1 \in DOMAIN e /\ Height(e[1].blk) <= (t + 1) + 1 - 1
    BY <1>5 DEF Popped
  <2> QED
    BY <2>1
<1>7. ASSUME NEW j \in DOMAIN q PROVE e[1] # q[j]
  <2>1. Height(q[j].blk) > t + 1 /\ Height(q[j].blk) \in Nat
    BY HeightType, ElementOfSeq, LenProperties DEF Waits
  <2> QED
    BY <1>6, <2>1
<1>8. e[1] = b
  BY <1>2, <1>6, <1>7
<1> QED
  BY <1>5, <1>6, <1>8 DEF e, c

\* The height of the tip after AddBlock.
LEMMA AddBlockHeight ==
  ASSUME NEW l \in LedgerType, NEW b \in BlockValidated
  PROVE  /\ AddBlock(l, b).tip \in {l.tip, b.blk}
         /\ Height(l.tip) <= Height(AddBlock(l, b).tip)
         /\ AddBlock(l, b).tip # l.tip => Height(b.blk) > Height(l.tip)
<1>1. Height(l.tip) \in Nat /\ Height(b.blk) \in Nat
  BY HeightType DEF LedgerType, BlockValidated
<1> QED
  BY <1>1 DEF AddBlock

\* ExecuteBlock either changes nothing or works the queues off, and stores b
\* only when its height is at most the next one.
LEMMA ExecuteBlockQueues ==
  ASSUME TypeOK, QueuesWait, NEW n \in Node, NEW b \in BlockValidated,
         NEW cache, NEW chan, NEW packets, ExecuteBlock(n, b, cache, chan, packets)
  PROVE  /\ QueuesWait'
         /\ \/ UNCHANGED <<ledger, replied>>
            \/ /\ ledger' = [ledger EXCEPT ![n] = AddBlock(@, b)]
               /\ replied' = [replied EXCEPT ![n] =
                    @ \cup {ProposalsOf(b.blk)[i] : i \in DOMAIN ProposalsOf(b.blk)}]
               /\ Height(b.blk) <= Height(ledger[n].tip) + 1
<1> DEFINE l     == ledger[n]
           t     == Height(l.tip)
           queue == Enqueue(Blocks[n], b)
           h     == t + 1
           met   == Due(queue, h) # {}
           after == IF met THEN AddBlock(l, b) ELSE l
           next  == h + Cardinality(Popped(queue, h))
           msgs  == BlockMessages[n]
<1>1. /\ l \in LedgerType /\ Blocks[n] \in Seq(BlockValidated) /\ msgs \in Seq(BlockMessage)
      /\ ledger \in [Node -> LedgerType] /\ Blocks \in [Node -> Seq(BlockValidated)]
      /\ BlockMessages \in [Node -> Seq(BlockMessage)] /\ replied \in [Node -> SUBSET Proposal]
  BY DEF TypeOK, NodeTypeOK, HistoryTypeOK
<1>2. /\ \A y \in BlockValidated : y.blk \in BlockId
      /\ \A y \in BlockMessage : y.blk \in BlockId
  BY DEF BlockValidated, BlockMessage
<1>3. t \in Nat /\ h \in Nat
  BY <1>1, HeightType DEF LedgerType
<1>4. Waits(Blocks[n], t) /\ Waits(msgs, t)
  BY DEF QueuesWait
<1>5. queue \in Seq(BlockValidated) /\ Ascends(queue)
  BY <1>1, <1>2, <1>4, EnqueueType, EnqueueAscends DEF Waits
<1>6. Cardinality(Popped(queue, h)) \in Nat /\ next \in Nat
  <2>1. Cardinality(Popped(queue, h)) \in Nat
    BY <1>5, PoppedType
  <2> QED
    BY <1>3, <2>1
<1>7. met => Height(b.blk) <= h /\ Cardinality(Popped(queue, h)) >= 1
  BY <1>1, <1>2, <1>3, <1>4, MetIsNext
<1>8. CASE UNCHANGED <<ledger, Blocks, BlockMessages, replied>>
  BY <1>8 DEF QueuesWait
<1>9. CASE /\ ledger' = [ledger EXCEPT ![n] = after]
           /\ Blocks' = [Blocks EXCEPT ![n] = Rest(queue, h)]
           /\ BlockMessages' = [BlockMessages EXCEPT ![n] = Rest(msgs, next)]
           /\ replied' = [replied EXCEPT ![n] =
                IF met THEN @ \cup {ProposalsOf(b.blk)[i] : i \in DOMAIN ProposalsOf(b.blk)}
                ELSE @]
  <2>1. Height(after.tip) \in Nat /\ Height(after.tip) + 1 <= next
    <3>1. Height(b.blk) \in Nat
      BY <1>2, HeightType
    <3>2. CASE met
      <4>1. after.tip = l.tip \/ after.tip = b.blk
        BY <1>1, <3>2, AddBlockHeight
      <4> QED
        BY <1>3, <1>6, <1>7, <3>1, <3>2, <4>1
    <3>3. CASE ~ met
      BY <1>3, <1>6, <3>3
    <3> QED
      BY <3>2, <3>3
  <2>2. /\ Ascends(Rest(queue, h))
        /\ \A i \in DOMAIN Rest(queue, h) : Height(Rest(queue, h)[i].blk) > next
    BY <1>2, <1>3, <1>5, RestAscends
  <2>3. /\ Ascends(Rest(msgs, next))
        /\ \A i \in DOMAIN Rest(msgs, next) :
             Height(Rest(msgs, next)[i].blk) > next + Cardinality(Popped(msgs, next))
    BY <1>1, <1>2, <1>4, <1>6, RestAscends DEF Waits
  <2>4. Cardinality(Popped(msgs, next)) \in Nat
    BY <1>1, PoppedType
  <2>5. /\ \A i \in DOMAIN Rest(queue, h) : Height(Rest(queue, h)[i].blk) \in Nat
        /\ \A i \in DOMAIN Rest(msgs, next) : Height(Rest(msgs, next)[i].blk) \in Nat
    <3>1. Rest(queue, h) \in Seq(BlockValidated) /\ Rest(msgs, next) \in Seq(BlockMessage)
      BY <1>1, <1>5, RestType
    <3> QED
      BY <1>2, <3>1, HeightType
  <2> HIDE DEF after, queue, met, next, msgs, h
  <2>6. Waits(Rest(queue, h), Height(after.tip))
    BY <1>6, <2>1, <2>2, <2>5 DEF Waits
  <2>7. Waits(Rest(msgs, next), Height(after.tip))
    BY <1>6, <2>1, <2>3, <2>4, <2>5 DEF Waits
  <2>8. QueuesWait'
    <3> SUFFICES ASSUME NEW k \in Node
                 PROVE  /\ Waits(Blocks'[k], Height(ledger'[k].tip))
                        /\ Waits(BlockMessages'[k], Height(ledger'[k].tip))
      BY DEF QueuesWait, Waits, Ascends
    <3>1. CASE k = n
      BY <1>1, <1>9, <2>6, <2>7, <3>1
    <3>2. CASE k # n
      BY <1>1, <1>9, <3>2 DEF QueuesWait
    <3> QED
      BY <3>1, <3>2
  <2>9. CASE met
    BY <1>1, <1>7, <1>9, <2>8, <2>9 DEF after, h
  <2>10. CASE ~ met
    BY <1>1, <1>9, <2>8, <2>10 DEF after
  <2> QED
    BY <2>9, <2>10
<1> QED
  BY <1>8, <1>9 DEF ExecuteBlock

\* A step that leaves the queues and the heights of the tips alone.
LEMMA QueuesKept ==
  ASSUME QueuesWait, UNCHANGED <<Blocks, BlockMessages>>,
         \A k \in Node : ledger'[k].tip = ledger[k].tip
  PROVE  QueuesWait'
BY DEF QueuesWait, Waits, Ascends

LEMMA LookedUpKeeps ==
  ASSUME TypeOK, LookedUp, NEW k \in Node
  PROVE  ledger'[k].db = ledger[k].db /\ ledger'[k].tip = ledger[k].tip
<1>1. ledger[k] \in LedgerType
  BY DEF TypeOK
<1> QED
  BY <1>1, WithLookupKeeps DEF LookedUp

LEMMA OrderLooksUp ==
  ASSUME TypeOK, NEW p \in Orders, Order(p)
  PROVE  LookedUp
<1>1. p \in Proposal /\ p.zone \in Zone /\ ledger \in [Node -> LedgerType] /\ p.from \in Node
  BY ProposalAssumption DEF Zone, TypeOK
<1>2. \/ ledger' = [ledger EXCEPT ![p.from] = WithLookup(@, p.zone)]
      \/ ledger' = ledger
  BY <1>1 DEF Order
<1> QED
  BY <1>1, <1>2 DEF LookedUp

LEMMA AcceptLooksUp ==
  ASSUME TypeOK, NEW n \in Up, NEW p \in Proposal, Accepts(n, p)
  PROVE  LookedUp
<1>1. p.zone \in Zone /\ ledger \in [Node -> LedgerType] /\ n \in Node
  BY NodeType DEF Zone, TypeOK
<1>2. ledger' = [ledger EXCEPT ![n] = WithLookup(ledger[n], p.zone)]
  BY DEF Accepts, AcceptProposal
<1> QED
  BY <1>1, <1>2 DEF LookedUp

LEMMA QueuesWaitNext ==
  ASSUME TypeOK, QueuesWait, Step
  PROVE  QueuesWait'
<1>1. Step /\ TypeOK
  OBVIOUS
<1>2. ASSUME NEW n \in Up, NEW b \in ConfirmedBlocks, Executes(n, b) PROVE QueuesWait'
  <2>1. n \in Node /\ b \in BlockValidated
    BY NodeType DEF ConfirmedBlocks
  <2>2. \E cache, chan, packets : ExecuteBlock(n, b, cache, chan, packets)
    BY <1>2 DEF Executes
  <2> QED
    BY <1>1, <2>1, <2>2, ExecuteBlockQueues
<1>3. ASSUME NEW n \in Up, NEW m \in BlockMessage, Takes(n, m) PROVE QueuesWait'
  BY <1>3, QueuesKept DEF Takes
<1>4. ASSUME NEW n \in Up, NEW m \in BlockMessage, Defers(n, m) PROVE QueuesWait'
  <2> DEFINE t == Height(ledger[n].tip)
             q == BlockMessages[n]
             e == Enqueue(q, m)
  <2>1. /\ n \in Node /\ q \in Seq(BlockMessage) /\ BlockMessages \in [Node -> Seq(BlockMessage)]
        /\ t \in Nat /\ Height(m.blk) \in Nat
    BY <1>1, NodeType, HeightType, BlockMessageFields DEF TypeOK, NodeTypeOK, LedgerType
  <2>2. \A y \in BlockMessage : y.blk \in BlockId
    BY BlockMessageFields
  <2>3. /\ UNCHANGED <<ledger, Blocks>> /\ BlockMessages' = [BlockMessages EXCEPT ![n] = e]
        /\ t < Height(m.blk) - 1
    BY <1>4 DEF Defers, DeferBlock, Ahead
  <2>4. Waits(q, t)
    BY <2>1 DEF QueuesWait
  <2>5. Ascends(e) /\ \A i \in DOMAIN e : e[i] = m \/ \E j \in DOMAIN q : e[i] = q[j]
    BY <2>1, <2>2, <2>4, EnqueueAscends DEF Waits
  <2> HIDE DEF e, q, t
  <2>6. Waits(e, t)
    BY <2>1, <2>3, <2>4, <2>5 DEF Waits
  <2> QED
    BY <2>1, <2>3, <2>6 DEF QueuesWait, Waits, Ascends, t, q
<1>5. ASSUME NEW n \in Up, NEW p \in Proposal, Accepts(n, p) PROVE QueuesWait'
  <2>1. UNCHANGED <<Blocks, BlockMessages>>
    BY <1>5 DEF Accepts, AcceptProposal
  <2> QED
    BY <1>1, <1>5, <2>1, AcceptLooksUp, LookedUpKeeps, QueuesKept
<1>6. ASSUME NEW p \in Orders, Order(p) PROVE QueuesWait'
  <2>1. UNCHANGED <<Blocks, BlockMessages>>
    BY <1>6 DEF Order, nodeVars
  <2> QED
    BY <1>1, <1>6, <2>1, OrderLooksUp, LookedUpKeeps, QueuesKept
<1>7. ASSUME NEW n \in Up, Interrupt(n) PROVE QueuesWait'
  BY <1>7, QueuesKept DEF Interrupt, nodeVars
<1>8. ASSUME NEW n \in Up, Restart(n) PROVE QueuesWait'
  <2>1. /\ n \in Node /\ ledger \in [Node -> LedgerType]
        /\ Blocks \in [Node -> Seq(BlockValidated)] /\ BlockMessages \in [Node -> Seq(BlockMessage)]
    BY <1>1, NodeType DEF TypeOK, NodeTypeOK
  <2>2. \E l : ledger' = [ledger EXCEPT ![n] = l]
    BY <1>8 DEF Restart
  <2>3. Blocks' = [Blocks EXCEPT ![n] = << >>] /\ BlockMessages' = [BlockMessages EXCEPT ![n] = << >>]
    BY <1>8 DEF Restart
  <2>4. \A t : Waits(<< >>, t)
    BY DEF Waits, Ascends
  <2> SUFFICES ASSUME NEW k \in Node
               PROVE  /\ Waits(Blocks'[k], Height(ledger'[k].tip))
                      /\ Waits(BlockMessages'[k], Height(ledger'[k].tip))
    BY DEF QueuesWait, Waits, Ascends
  <2>5. CASE k = n
    BY <2>1, <2>3, <2>4, <2>5
  <2>6. CASE k # n
    BY <2>1, <2>2, <2>3, <2>6 DEF QueuesWait
  <2> QED
    BY <2>5, <2>6
<1>9. CASE Idles
  BY <1>1, <1>9, LookedUpKeeps, QueuesKept DEF Idles
<1> QED
  BY <1>1, <1>2, <1>3, <1>4, <1>5, <1>6, <1>7, <1>8, <1>9 DEF Step

\* Where the election gave every node the same view: whatever the order of
\* blocks, data sync answers and restarts, what is in the two queues is at least
\* two above the tip, in ascending order: ExecuteBlock leaves nothing behind that
\* its loops would meet out of turn.
THEOREM NothingIsStranded == OneView => (Spec => []NothingStranded)
<1> SUFFICES ASSUME OneView PROVE Spec => []NothingStranded
  OBVIOUS
<1> DEFINE Inv == ViewInv /\ CertInv /\ QueuesWait
<1>1. Init => Inv
  BY ViewInvInit, CertInit DEF Init, QueuesWait, Waits, Ascends
<1>2. Inv /\ [Next]_vars => Inv'
  BY ViewInvNext, CertNext, StepKinds, QueuesWaitNext DEF ViewInv
<1>3. Inv => NothingStranded
  BY QueuesWaitMeans DEF ViewInv
<1> QED
  BY <1>1, <1>2, <1>3, PTL DEF Spec

----------------------------------------------------------------------------
(* Predecessors.                                                           *)

\* Who confirmed a block has stored its predecessor, and has it still.
VotersHoldParent ==
  \A k \in Node : \A blk \in signed[k] : Stored(ledger[k], PrevBlock(blk))

\* A quorum confirmed every block that is stored.
StoredConfirmed == \A n \in Node : \A b \in ledger[n].db : b.blk # Genesis => Confirmed(b.blk)

LEMMA CertificatesStored == CertInv => StoredConfirmed
<1> SUFFICES ASSUME CertInv, NEW n \in Node, NEW b \in ledger[n].db, b.blk # Genesis
             PROVE  Confirmed(b.blk)
  BY DEF StoredConfirmed
<1>1. b \in Certificates
  BY DEF CertInv, Certified, StoredCertified, TypeOK, LedgerType, Certificates
<1> QED
  BY <1>1, CertificateConfirms

LEMMA VotersGiveQuorum == StoredConfirmed /\ VotersHoldParent => ParentHeldByQuorum
<1> SUFFICES ASSUME StoredConfirmed, VotersHoldParent, NEW n \in Node, NEW b \in ledger[n].db,
                    b.blk # Genesis
             PROVE  IsQuorum(N, {k \in Node : Stored(ledger[k], PrevBlock(b.blk))})
  BY DEF ParentHeldByQuorum
<1> DEFINE Q == {k \in Node : b.blk \in signed[k]}
<1>1. IsQuorum(N, Q)
  BY DEF StoredConfirmed, Confirmed
<1>2. Q \subseteq {k \in Node : Stored(ledger[k], PrevBlock(b.blk))}
  BY DEF VotersHoldParent
<1> QED
  BY <1>1, <1>2, QuorumGrows

\* Without view changes and wiped disks, a node loses no block.
LEMMA DbGrows ==
  ASSUME TypeOK, ~ RestartWipes, Step, NEW k \in Node
  PROVE  ledger[k].db \subseteq ledger'[k].db
<1>1. Step /\ TypeOK /\ ledger \in [Node -> LedgerType]
  BY DEF TypeOK
<1>2. ASSUME NEW n \in Up, NEW b \in ConfirmedBlocks, Executes(n, b)
      PROVE  ledger[k].db \subseteq ledger'[k].db
  <2>1. n \in Node
    BY NodeType
  <2>2. \/ UNCHANGED ledger
        \/ \E met \in BOOLEAN :
             ledger' = [ledger EXCEPT ![n] = IF met THEN AddBlock(ledger[n], b) ELSE ledger[n]]
    BY <1>2 DEF Executes, ExecuteBlock
  <2> QED
    BY <1>1, <2>1, <2>2 DEF AddBlock
<1>3. ASSUME UNCHANGED ledger PROVE ledger[k].db \subseteq ledger'[k].db
  BY <1>3
<1>4. ASSUME NEW n \in Up, NEW m \in BlockMessage, Takes(n, m) \/ Defers(n, m) PROVE UNCHANGED ledger
  BY <1>4 DEF Takes, Defers, DeferBlock
<1>5. ASSUME NEW n \in Up, Interrupt(n) \/ Restart(n) PROVE UNCHANGED ledger
  BY <1>1, <1>5, NodeType DEF Interrupt, Restart
<1>6. LookedUp => ledger[k].db \subseteq ledger'[k].db
  BY <1>1, LookedUpKeeps
<1> QED
  BY <1>1, <1>2, <1>3, <1>4, <1>5, <1>6, AcceptLooksUp, OrderLooksUp DEF Step, Idles

\* A vote is all that joins signed, and it is for a block on the tip.
LEMMA SignedStep ==
  ASSUME Step
  PROVE  \/ UNCHANGED signed
         \/ \E n \in Up, m \in BlockMessage :
              /\ signed' = [signed EXCEPT ![n] = @ \cup {m.blk}]
              /\ Arrived(n, m) /\ TipStored(ledger[n]) /\ PrevBlock(m.blk) = ledger[n].tip
              /\ UNCHANGED ledger
<1>1. Step
  OBVIOUS
<1>2. ASSUME NEW n \in Up, NEW m \in BlockMessage, Takes(n, m)
      PROVE  \/ UNCHANGED signed
             \/ /\ signed' = [signed EXCEPT ![n] = @ \cup {m.blk}]
                /\ Arrived(n, m) /\ TipStored(ledger[n]) /\ PrevBlock(m.blk) = ledger[n].tip
                /\ UNCHANGED ledger
  BY <1>2 DEF Takes, Acceptable
<1>3. ASSUME NEW n \in Up, NEW m \in BlockMessage, Defers(n, m) PROVE UNCHANGED signed
  BY <1>3 DEF Defers, DeferBlock, history
<1>4. ASSUME NEW n \in Up, NEW b \in ConfirmedBlocks, Executes(n, b) PROVE UNCHANGED signed
  BY <1>4 DEF Executes
<1>5. ASSUME NEW n \in Up, NEW p \in Proposal, Accepts(n, p) PROVE UNCHANGED signed
  BY <1>5 DEF Accepts, AcceptProposal
<1>6. ASSUME NEW p \in Orders, Order(p) PROVE UNCHANGED signed
  BY <1>6 DEF Order, history
<1>7. ASSUME NEW n \in Up, Interrupt(n) \/ Restart(n) PROVE UNCHANGED signed
  BY <1>7 DEF Interrupt, Restart, history
<1>8. Idles => UNCHANGED signed
  BY DEF Idles, history
<1> QED
  BY <1>1, <1>2, <1>3, <1>4, <1>5, <1>6, <1>7, <1>8 DEF Step

LEMMA VotersHoldParentNext ==
  ASSUME TypeOK, ~ RestartWipes, VotersHoldParent, Step
  PROVE  VotersHoldParent'
<1>1. signed \in [Node -> SUBSET BlockId]
  BY DEF TypeOK, HistoryTypeOK
<1>2. ASSUME NEW k \in Node, NEW blk, Stored(ledger[k], blk) PROVE Stored(ledger[k], blk)'
  BY <1>2, DbGrows DEF Stored
<1>3. CASE UNCHANGED signed
  BY <1>2, <1>3 DEF VotersHoldParent
<1>4. ASSUME NEW n \in Up, NEW m \in BlockMessage,
             signed' = [signed EXCEPT ![n] = @ \cup {m.blk}],
             TipStored(ledger[n]), PrevBlock(m.blk) = ledger[n].tip
      PROVE  VotersHoldParent'
  <2> SUFFICES ASSUME NEW k \in Node, NEW blk \in signed'[k]
               PROVE  Stored(ledger[k], PrevBlock(blk))'
    BY DEF VotersHoldParent
  <2>1. blk \in signed[k] \/ (k = n /\ blk = m.blk)
    BY <1>1, <1>4, NodeType
  <2>2. Stored(ledger[k], PrevBlock(blk))
    BY <1>4, <2>1 DEF VotersHoldParent, TipStored
  <2> QED
    BY <1>2, <2>2
<1> QED
  BY <1>3, <1>4, SignedStep

\* The predecessor of an ancestor is the ancestor before it.
LEMMA PrevOfAncestor ==
  ASSUME NEW E, NEW blk \in Seq(E), NEW h \in 1..Height(blk)
  PROVE  PrevBlock(Ancestor(blk, h)) = Ancestor(blk, h - 1)
<1>1. Len(blk) \in Nat /\ \A i \in 1..Len(blk) : blk[i] \in E
  BY LenProperties, ElementOfSeq
<1>2. h \in 1..Len(blk) /\ h \in Nat /\ h - 1 \in Nat
  BY <1>1 DEF Height
<1>3. Len(Ancestor(blk, h)) = h
  BY <1>2, AncestorType DEF Height
<1>4. CASE h = 1
  <2>1. PrevBlock(Ancestor(blk, h)) = << >>
    BY <1>3, <1>4, SubSeqEmpty DEF PrevBlock
  <2>2. Ancestor(blk, h - 1) = << >>
    BY <1>4, SubSeqEmpty DEF Ancestor
  <2> QED
    BY <2>1, <2>2
<1>5. CASE h # 1
  <2>1. 1 \in 1..Len(blk) /\ h - 1 \in 1..(h - 1 + 1) /\ h - 1 \in 1..h
    BY <1>2, <1>5
  <2>2. SubSeq(SubSeq(blk, 1, h), 1, h - 1) = SubSeq(blk, 1, h - 1)
    <3>1. 1 + 1 - 1 = 1 /\ 1 + (h - 1) - 1 = h - 1 /\ 1 \in 1..(1 + h - 1) /\ h - 1 \in 1..(1 + h - 1)
      BY <1>2, <1>5
    <3> QED
      BY <1>2, <2>1, <3>1, SubSeqOfSubSeq
  <2> QED
    BY <1>3, <2>2 DEF PrevBlock, Ancestor
<1> QED
  BY <1>4, <1>5

LEMMA VotersHoldParentInit == Init => VotersHoldParent
<1> SUFFICES ASSUME Init, NEW s \in Node, NEW blk \in signed[s]
             PROVE  Stored(ledger[s], PrevBlock(blk))
  BY DEF VotersHoldParent
<1>1. s \in DiskSigs /\ \E n \in Node : \E h \in 1..Height(Disk[n]) : blk = Ancestor(Disk[n], h)
  BY DEF Init
<1>2a. PICK n \in Node : \E h \in 1..Height(Disk[n]) : blk = Ancestor(Disk[n], h)
  BY <1>1
<1>2. PICK h \in 1..Height(Disk[n]) : blk = Ancestor(Disk[n], h)
  BY <1>2a
<1>3. Disk[n] \in Seq(Entry) /\ Height(Disk[n]) \in Nat /\ Height(Disk[s]) \in Nat
  BY DiskAssumption, HeightType DEF BlockId
<1>4. PrevBlock(blk) = Ancestor(Disk[n], h - 1)
  BY <1>2, <1>3, PrevOfAncestor
<1>5. h - 1 \in 0..Height(Disk[s]) /\ Ancestor(Disk[s], h - 1) = Ancestor(Disk[n], h - 1)
  BY <1>1, <1>3, DiskAssumption
<1>6. ledger[s] = LoadedLedger(Disk[s])
  BY DEF Init
<1>7. ASSUME NEW chain, NEW j \in 0..Height(chain)
      PROVE  Stored(LoadedLedger(chain), Ancestor(chain, j))
  <2> DEFINE b == [blk |-> Ancestor(chain, j), sigs |-> IF j = 0 THEN {} ELSE DiskSigs]
  <2>1. b \in LoadedLedger(chain).db
    BY <1>7 DEF LoadedLedger
  <2>2. b.blk = Ancestor(chain, j)
    OBVIOUS
  <2> HIDE DEF b
  <2> QED
    BY <2>1, <2>2 DEF Stored
<1>8. Stored(LoadedLedger(Disk[s]), Ancestor(Disk[s], h - 1))
  BY <1>5, <1>7
<1> QED
  BY <1>4, <1>5, <1>6, <1>8

\* Where the election gave every node the same view and a restart keeps the
\* disk, a quorum holds the predecessor of every stored block, whatever is lost,
\* late or executed twice: who asks for the blocks below one it was sent
\* (StartDataSync) can be answered.
THEOREM ParentsAreHeld == OneView /\ ~ RestartWipes => (Spec => []ParentHeldByQuorum)
<1> SUFFICES ASSUME OneView, ~ RestartWipes PROVE Spec => []ParentHeldByQuorum
  OBVIOUS
<1> DEFINE Inv == ViewInv /\ CertInv /\ VotersHoldParent
<1>1. Init => Inv
  BY ViewInvInit, CertInit, VotersHoldParentInit
<1>2. Inv /\ [Next]_vars => Inv'
  BY ViewInvNext, CertNext, StepKinds, VotersHoldParentNext DEF ViewInv
<1>3. Inv => ParentHeldByQuorum
  BY CertificatesStored, VotersGiveQuorum
<1> QED
  BY <1>1, <1>2, <1>3, PTL DEF Spec

=============================================================================
