----------------------------- MODULE PbftProofs -----------------------------
(***************************************************************************)
(* Proofs about Pbft: what is stored was committed to by a quorum, a node  *)
(* commits only to what a quorum confirmed, both phases implement          *)
(* CertChain, and a client is told of a proposal only when a quorum stored *)
(* it.  Where the nodes have one view, PBFT takes the steps MyBftOneView   *)
(* and MyBftChain argue about, and keeps what they prove of MyBFT: its     *)
(* queues, its leader's turn, agreement, the chain and the lookups.        *)
(***************************************************************************)
EXTENDS MyBftChain, Pbft

----------------------------------------------------------------------------
(* Types.                                                                  *)

CommitMessage == [type : {"BlockCommit"}, view : Nat, from : Node, blk : BlockId]

CommitTypeOK ==
  /\ PrepareSent \in [Node -> SUBSET BlockId]
  /\ BlockCommitMsg \in [Node -> SUBSET (BlockId \X Node)]
  /\ commits \subseteq [to : Node, msg : CommitMessage]
  /\ committed \in [Node -> SUBSET BlockId]

ProposerTypeOK ==
  /\ Outstanding \subseteq Proposal
  /\ Replies \in [Proposal -> SUBSET Node]
  /\ replies \subseteq [proposal : Proposal, from : Node]
  /\ answered \subseteq Proposal

\* The types of the variables.
PbftTypeOK == TypeOK /\ CommitTypeOK /\ ProposerTypeOK

LEMMA ExecutedType ==
  ASSUME PbftTypeOK, NEW n \in Node, NEW b \in BlockValidated,
         NEW cache \in [Proposal -> ProposalState], NEW chan \in Seq(BlockMessage),
         NEW packets \in SUBSET Packet,
         PbftExecuteBlock(n, b, cache, chan, packets),
         Block' \in [Node -> SUBSET BlockMessage],
         BlockPrepareMsg' \in [Node -> SUBSET (BlockId \X Node)],
         UNCHANGED <<signed, viewVars, clientVars>>
  PROVE  TypeOK' /\ ProposerTypeOK'
<1>1. TypeOK /\ ProposerTypeOK /\ ExecuteBlock(n, b, cache, chan, packets)
  BY DEF PbftTypeOK, PbftExecuteBlock
<1>2. /\ ledger' \in [Node -> LedgerType]
      /\ ProposalsCache' \in [Node -> [Proposal -> ProposalState]]
      /\ Blocks' \in [Node -> Seq(BlockValidated)]
      /\ BlockMessages' \in [Node -> Seq(BlockMessage)]
      /\ blockChan' \in [Node -> Seq(BlockMessage)]
      /\ net' \in SUBSET Packet
      /\ LeaderTypeOK'
      /\ mined' \subseteq [by : Node, blk : BlockId]
      /\ replied' \in [Node -> SUBSET Proposal]
  BY <1>1, ExecuteBlockType
<1>3. TypeOK'
  BY <1>1, <1>2
     DEF TypeOK, NodeTypeOK, ViewTypeOK, ClientTypeOK, HistoryTypeOK, viewVars, clientVars
<1>4. replies' \subseteq [proposal : Proposal, from : Node]
  <2>1. \A q \in replies' :
          q \in replies \/ \E p \in replied'[n] : q = [proposal |-> p, from |-> n]
    BY DEF PbftExecuteBlock
  <2> QED
    BY <1>1, <1>2, <2>1 DEF ProposerTypeOK
<1>5. ProposerTypeOK'
  BY <1>1, <1>4 DEF PbftExecuteBlock, ProposerTypeOK
<1> QED
  BY <1>3, <1>5

\* The commits a node sends are its own, of the block.
LEMMA SendCommitSends ==
  ASSUME PbftTypeOK, NEW n \in Node, NEW blk \in BlockId, NEW sent \in SUBSET BlockId,
         SendCommit(n, blk, sent)
  PROVE  /\ CommitTypeOK'
         /\ \A pk \in commits' : pk \in commits \/ (pk.msg.blk = blk /\ pk.msg.from = n)
<1> DEFINE m == BlockCommitMessage(View[n], n, blk)
<1>1. CommitTypeOK /\ View[n] \in Nat /\ Up \in SUBSET Node
  BY NodeType DEF PbftTypeOK, TypeOK, ViewTypeOK
<1>2. PICK packets \in ConfirmBroadcasts(n, m) : commits' = commits \cup packets
  BY DEF SendCommit
<1>3. packets \in SUBSET [to : Up, msg : {m}]
  BY ConfirmBroadcastsTo
<1>4. m \in CommitMessage /\ m.blk = blk /\ m.from = n
  BY <1>1 DEF BlockCommitMessage, CommitMessage
<1> HIDE DEF m
<1>5. commits' \subseteq [to : Node, msg : CommitMessage]
  BY <1>1, <1>2, <1>3, <1>4 DEF CommitTypeOK
<1>6. CommitTypeOK'
  BY <1>1, <1>5 DEF SendCommit, CommitTypeOK
<1>7. \A pk \in packets : pk.msg = m
  BY <1>3
<1> QED
  BY <1>2, <1>4, <1>6, <1>7

\* A packet with a commit.
LEMMA CommitFields ==
  ASSUME PbftTypeOK, NEW pk \in commits
  PROVE  pk.msg.from \in Node /\ pk.msg.blk \in BlockId
BY DEF PbftTypeOK, CommitTypeOK, CommitMessage

----------------------------------------------------------------------------
(* The invariant.                                                          *)

\* The blocks with the commits of a quorum.
CommitCertificates == {b \in BlockValidated : HasCommits(b)}

\* A commit that is counted, or on its way, was sent.
CommitsCast ==
  /\ \A n \in Node : \A c \in BlockCommitMsg[n] : c[1] \in committed[c[2]]
  /\ \A pk \in commits : pk.msg.blk \in committed[pk.msg.from]

\* CommitCertified counts commits and CommitsFollowConfirms counts
\* confirmations: each is inductive only with what is still on its way.
PbftInv ==
  /\ PbftTypeOK
  /\ VotesCast
  /\ CommitsCast
  /\ CommitsFollowConfirms
  /\ CommitCertified

LEMMA PbftInitInv == PbftInit => PbftInv
<1> SUFFICES ASSUME PbftInit PROVE PbftInv
  OBVIOUS
<1>1. Init /\ committed = signed
  BY DEF PbftInit
<1>2. CertInv
  BY <1>1, CertInit
<1>3. PbftTypeOK
  BY <1>1, <1>2
     DEF CertInv, TypeOK, HistoryTypeOK, PbftInit, PbftTypeOK, CommitTypeOK, ProposerTypeOK
<1>4. CommitsCast
  BY DEF PbftInit, CommitsCast
<1>5. CommitsFollowConfirms
  <2> SUFFICES ASSUME NEW n \in Node, NEW blk \in committed[n]
               PROVE  IsQuorum(N, {k \in Node : blk \in signed[k]})
    BY DEF CommitsFollowConfirms
  <2>1. n \in DiskSigs /\ DiskSigs \in SUBSET Node /\ IsQuorum(N, DiskSigs)
    BY <1>1, DiskAssumption DEF Init
  <2>2. DiskSigs \subseteq {k \in Node : blk \in signed[k]}
    BY <1>1, <2>1 DEF Init
  <2> QED
    BY <2>1, <2>2, QuorumGrows
<1>6. CommitCertified
  BY <1>1, <1>2
     DEF CommitCertified, HasCommits, CertInv, Certified, StoredCertified, WaitingCertified,
         HandedOutCertified, HasCertificate
<1> QED
  BY <1>2, <1>3, <1>4, <1>5, <1>6 DEF PbftInv, CertInv

----------------------------------------------------------------------------
(* What a step does.                                                       *)

\* n executes b.
Executed(n, b) ==
  /\ \E packets \in SUBSET net : \E cache, chan : PbftExecuteBlock(n, b, cache, chan, packets)
  /\ \A k \in Node : /\ BlockPrepareMsg'[k] \subseteq BlockPrepareMsg[k]
                     /\ BlockCommitMsg'[k] \subseteq BlockCommitMsg[k]
  /\ commits' \subseteq commits
  /\ UNCHANGED <<signed, committed, View>>

\* Somebody votes, commits to a block a quorum confirmed, counts, asks, or gets
\* a reply.
Speaks ==
  /\ \/ UNCHANGED <<signed, committed>>
     \/ \E n \in Node, blk \in BlockId :
          signed' = [signed EXCEPT ![n] = @ \cup {blk}] /\ UNCHANGED committed
     \/ \E n \in Node, blk \in BlockId :
          /\ Confirmed(blk)
          /\ committed' = [committed EXCEPT ![n] = @ \cup {blk}] /\ UNCHANGED signed
  /\ \A k \in Node : \A c \in BlockPrepareMsg'[k] : c \in BlockPrepareMsg[k] \/ c[1] \in signed[c[2]]
  /\ \A k \in Node : \A c \in BlockCommitMsg'[k] : c \in BlockCommitMsg[k] \/ c[1] \in committed[c[2]]
  /\ \A pk \in net' :
       \/ pk \in net
       \/ pk.msg.type = "DataSync"
       \/ pk.msg.type = "BlockConfirm" /\ pk.msg.blk \in signed'[pk.msg.from]
  /\ \A pk \in commits' : pk \in commits \/ pk.msg.blk \in committed'[pk.msg.from]
  /\ UNCHANGED proposerVars \/ \E n \in Up : ReceiveReply(n)
  /\ UNCHANGED <<ledger, Blocks, View>>

\* A step of MyBft that neither votes nor executes.
Shares ==
  /\ Shared
  /\ \A k \in Node : BlockCommitMsg'[k] \subseteq BlockCommitMsg[k]
  /\ \A p \in Proposal : Replies'[p] \subseteq Replies[p]
  /\ commits' \subseteq commits
  /\ replies' \subseteq replies
  /\ UNCHANGED <<committed, answered>>

PbftStep ==
  \/ \E n \in Up, b \in CommitCertificates : Executed(n, b)
  \/ Speaks
  \/ Shares

\* Confirmations and commits a node has counted were cast.
LEMMA CountedConfirmed ==
  ASSUME PbftInv, NEW n \in Node, NEW blk,
         NEW Q, Q \in {Confirmations(n, blk)} \cup
                  {Confirmations(n, blk) \cup {k} : k \in {k \in Node : blk \in signed[k]}},
         IsQuorum(N, Q)
  PROVE  Confirmed(blk)
<1>1. \A k \in Confirmations(n, blk) : k \in Node /\ blk \in signed[k]
  <2> SUFFICES ASSUME NEW k \in Confirmations(n, blk) PROVE k \in Node /\ blk \in signed[k]
    OBVIOUS
  <2>1. k \in Node /\ <<blk, k>> \in BlockPrepareMsg[n]
    BY DEF Confirmations
  <2>2. <<blk, k>>[1] \in signed[<<blk, k>>[2]]
    BY <2>1 DEF PbftInv, VotesCast
  <2> QED
    BY <2>1, <2>2
<1>2. Q \subseteq {k \in Node : blk \in signed[k]}
  BY <1>1
<1> QED
  BY <1>2, QuorumGrows DEF Confirmed

LEMMA CountedCommitted ==
  ASSUME PbftInv, NEW n \in Node, NEW blk \in BlockId,
         NEW Q, Q \in {Commits(n, blk)} \cup
                  {Commits(n, blk) \cup {k} : k \in {k \in Node : blk \in committed[k]}},
         IsQuorum(N, Q)
  PROVE  [blk |-> blk, sigs |-> Q] \in CommitCertificates
<1>1. \A k \in Commits(n, blk) : k \in Node /\ blk \in committed[k]
  <2> SUFFICES ASSUME NEW k \in Commits(n, blk) PROVE k \in Node /\ blk \in committed[k]
    OBVIOUS
  <2>1. k \in Node /\ <<blk, k>> \in BlockCommitMsg[n]
    BY DEF Commits
  <2>2. <<blk, k>>[1] \in committed[<<blk, k>>[2]]
    BY <2>1 DEF PbftInv, CommitsCast
  <2> QED
    BY <2>1, <2>2
<1>2. Q \in SUBSET Node /\ \A k \in Q : blk \in committed[k]
  BY <1>1
<1> QED
  BY <1>2 DEF CommitCertificates, HasCommits, BlockValidated

LEMMA ExecuteCommittedStep ==
  ASSUME PbftInv, NEW n \in Up, NEW blk \in BlockId, NEW votes,
         [blk |-> blk, sigs |-> votes] \in CommitCertificates,
         NEW cache \in [Proposal -> ProposalState], NEW chan \in Seq(BlockMessage),
         NEW packets \in SUBSET net, NEW left \in SUBSET commits,
         ExecuteCommitted(n, blk, votes, cache, chan, packets, left),
         UNCHANGED <<viewVars, clientVars>>
  PROVE  PbftTypeOK' /\ PbftStep
<1> DEFINE b == [blk |-> blk, sigs |-> votes]
<1>1. /\ n \in Node /\ b \in BlockValidated /\ b \in CommitCertificates /\ packets \in SUBSET Packet
      /\ PbftTypeOK /\ CommitTypeOK /\ NodeTypeOK
  BY NodeType DEF PbftInv, PbftTypeOK, TypeOK, CommitCertificates
<1>2. PbftExecuteBlock(n, b, cache, chan, packets)
  BY DEF ExecuteCommitted
<1> HIDE DEF b
<1>3. /\ BlockCommitMsg' = [BlockCommitMsg EXCEPT ![n] = {c \in @ : c[1] # blk}]
      /\ BlockPrepareMsg' = [BlockPrepareMsg EXCEPT ![n] = {c \in @ : c[1] # blk}]
      /\ Block' = [Block EXCEPT ![n] = {o \in @ : o.blk # blk}]
      /\ commits' = left
      /\ UNCHANGED <<PrepareSent, committed, signed>>
  BY DEF ExecuteCommitted
<1>4. /\ Block' \in [Node -> SUBSET BlockMessage]
      /\ BlockPrepareMsg' \in [Node -> SUBSET (BlockId \X Node)]
  BY <1>1, <1>3 DEF NodeTypeOK
<1>5. TypeOK' /\ ProposerTypeOK'
  BY <1>1, <1>2, <1>3, <1>4, ExecutedType
<1>6. CommitTypeOK'
  BY <1>1, <1>3 DEF CommitTypeOK
<1>7. Executed(n, b)
  <2>1. \A k \in Node : /\ BlockPrepareMsg'[k] \subseteq BlockPrepareMsg[k]
                        /\ BlockCommitMsg'[k] \subseteq BlockCommitMsg[k]
    BY <1>1, <1>3 DEF NodeTypeOK, CommitTypeOK
  <2> QED
    BY <1>2, <1>3, <2>1 DEF Executed, viewVars
<1> QED
  BY <1>1, <1>5, <1>6, <1>7 DEF PbftTypeOK, PbftStep

\* A node commits to a block a quorum confirmed: its votes and blocks stay.
LEMMA SendCommitStep ==
  ASSUME PbftInv, NEW n \in Node, NEW blk \in BlockId, NEW sent \in SUBSET BlockId,
         Confirmed(blk), SendCommit(n, blk, sent),
         UNCHANGED <<ledger, Blocks, View, signed, proposerVars>>, net' \subseteq net,
         \A k \in Node : \A c \in BlockPrepareMsg'[k] :
           c \in BlockPrepareMsg[k] \/ c[1] \in signed[c[2]]
  PROVE  CommitTypeOK' /\ PbftStep
<1>1. /\ CommitTypeOK'
      /\ \A pk \in commits' : pk \in commits \/ (pk.msg.blk = blk /\ pk.msg.from = n)
  BY SendCommitSends DEF PbftInv
<1>2. committed' = [committed EXCEPT ![n] = @ \cup {blk}] /\ UNCHANGED BlockCommitMsg
  BY DEF SendCommit
<1>3. committed \in [Node -> SUBSET BlockId]
  BY DEF PbftInv, PbftTypeOK, CommitTypeOK
<1>4. \A pk \in commits' : pk \in commits \/ pk.msg.blk \in committed'[pk.msg.from]
  BY <1>1, <1>2, <1>3
<1>5. Speaks
  BY <1>2, <1>4 DEF Speaks
<1> QED
  BY <1>1, <1>5 DEF PbftStep

LEMMA BlockMessageStep ==
  ASSUME PbftInv, NEW n \in Up, NEW m \in BlockMessage, NEW chan \in Seq(BlockMessage),
         NEW packets \in SUBSET net,
         \/ PbftProcessBlockMessage(n, m, chan, packets)
         \/ IgnoreBlock(n, chan, packets) /\ UNCHANGED <<commitVars, proposerVars>>,
         UNCHANGED <<viewVars, clientVars>>
  PROVE  PbftTypeOK' /\ PbftStep
<1>1. /\ n \in Node /\ m.blk \in BlockId /\ packets \in SUBSET Packet /\ TypeOK /\ NodeTypeOK
      /\ CommitTypeOK /\ ProposerTypeOK /\ UNCHANGED View
  BY NodeType, BlockMessageFields DEF PbftInv, PbftTypeOK, TypeOK, viewVars
<1>2. ASSUME UNCHANGED <<commitVars, proposerVars>>,
             \/ IgnoreBlock(n, chan, packets)
             \/ Ahead(n, m) /\ DeferBlock(n, m, chan, packets)
             \/ VoteForBlock(n, m, chan, packets)
      PROVE  PbftTypeOK' /\ PbftStep
  <2>1. TypeOK'
    BY <1>1, <1>2, BlockMessageKeptType
  <2>2. PbftTypeOK'
    BY <1>1, <1>2, <2>1 DEF PbftTypeOK, CommitTypeOK, ProposerTypeOK, commitVars, proposerVars
  <2>3. UNCHANGED <<ledger, Blocks, BlockPrepareMsg>>
    BY <1>2 DEF IgnoreBlock, DeferBlock, VoteForBlock
  <2>4. CASE IgnoreBlock(n, chan, packets) \/ DeferBlock(n, m, chan, packets)
    <3>1. UNCHANGED signed /\ \A pk \in net' : pk \in net \/ pk.msg.type = "DataSync"
      BY <2>4, StartDataSyncSends DEF IgnoreBlock, DeferBlock, history
    <3> QED
      BY <1>1, <1>2, <2>2, <2>3, <3>1 DEF PbftStep, Speaks, commitVars
  <2>5. CASE VoteForBlock(n, m, chan, packets)
    <3>1. signed' = [signed EXCEPT ![n] = @ \cup {m.blk}]
      BY <2>5 DEF VoteForBlock
    <3>2. m.blk \in signed'[n]
      BY <1>1, <3>1 DEF TypeOK, HistoryTypeOK
    <3>3. \A pk \in net' : pk \in net \/ pk.msg = BlockConfirmMsg(View[n], n, m.blk)
      BY <1>1, <2>5, VoteSends DEF VoteForBlock
    <3>4. \A pk \in net' :
            \/ pk \in net
            \/ pk.msg.type = "BlockConfirm" /\ pk.msg.blk \in signed'[pk.msg.from]
      BY <3>2, <3>3 DEF BlockConfirmMsg
    <3> QED
      BY <1>1, <1>2, <2>2, <2>3, <3>1, <3>4 DEF PbftStep, Speaks, commitVars
  <2> QED
    BY <1>2, <2>4, <2>5
<1>3. ASSUME IsQuorum(N, Commits(n, m.blk)),
             ExecuteCommitted(n, m.blk, Commits(n, m.blk),
               ModifyProposalState(ProposalsCache[n], <<m>>), chan, packets, commits)
      PROVE  PbftTypeOK' /\ PbftStep
  <2>1. ModifyProposalState(ProposalsCache[n], <<m>>) \in [Proposal -> ProposalState]
    BY <1>1, ModifyProposalStateType DEF NodeTypeOK
  <2>2. [blk |-> m.blk, sigs |-> Commits(n, m.blk)] \in CommitCertificates
    BY <1>1, <1>3, CountedCommitted
  <2> QED
    BY <1>1, <1>3, <2>1, <2>2, ExecuteCommittedStep
<1>4. ASSUME IsQuorum(N, Confirmations(n, m.blk)), CommitAtOnce(n, m, chan, packets)
      PROVE  PbftTypeOK' /\ PbftStep
  <2>1. /\ net' = packets
        /\ Block' = [Block EXCEPT ![n] = {o \in @ : o.blk # m.blk} \cup {m}]
        /\ ProposalsCache' = [ProposalsCache EXCEPT ![n] = ModifyProposalState(@, <<m>>)]
        /\ blockChan' = [blockChan EXCEPT ![n] = chan]
        /\ SendCommit(n, m.blk, PrepareSent[n])
        /\ UNCHANGED <<ledger, Blocks, BlockMessages, BlockPrepareMsg, leaderVars, history,
                       proposerVars>>
    BY <1>4 DEF CommitAtOnce
  <2>2. PrepareSent[n] \in SUBSET BlockId /\ Confirmed(m.blk)
    BY <1>1, <1>4, CountedConfirmed DEF CommitTypeOK
  <2>3. CommitTypeOK' /\ PbftStep
    BY <1>1, <2>1, <2>2, SendCommitStep DEF history
  <2>4. NodeTypeOK'
    <3>1. ModifyProposalState(ProposalsCache[n], <<m>>) \in [Proposal -> ProposalState]
      BY <1>1, ModifyProposalStateType DEF NodeTypeOK
    <3>2. ProposalsCache' \in [Node -> [Proposal -> ProposalState]]
      BY <1>1, <2>1, <3>1 DEF NodeTypeOK
    <3>3. Block' \in [Node -> SUBSET BlockMessage] /\ blockChan' \in [Node -> Seq(BlockMessage)]
      BY <1>1, <2>1 DEF NodeTypeOK
    <3> QED
      BY <1>1, <2>1, <3>2, <3>3 DEF NodeTypeOK
  <2>5. TypeOK'
    BY <1>1, <2>1, <2>4 DEF TypeOK, LeaderTypeOK, ViewTypeOK, ClientTypeOK, HistoryTypeOK,
                            leaderVars, viewVars, clientVars, history
  <2>6. ProposerTypeOK'
    BY <1>1, <2>1 DEF ProposerTypeOK, proposerVars
  <2> QED
    BY <2>3, <2>5, <2>6 DEF PbftTypeOK
<1> QED
  BY <1>2, <1>3, <1>4 DEF PbftProcessBlockMessage

LEMMA ReceiveBlockStep ==
  ASSUME PbftInv, NEW n \in Up, PbftReceiveBlock(n) \/ PbftReceiveDeferredBlock(n)
  PROVE  PbftTypeOK' /\ PbftStep
<1>1. /\ n \in Node /\ blockChan[n] \in Seq(BlockMessage) /\ TypeOK /\ net \in SUBSET net
  BY NodeType DEF PbftInv, PbftTypeOK, TypeOK, NodeTypeOK
<1>2. CASE PbftReceiveBlock(n)
  <2>1. PICK pk \in Inbox(n, "Block") : \E packets \in Handled(pk) :
          /\ \/ PbftProcessBlockMessage(n, pk.msg, blockChan[n], packets)
             \/ IgnoreBlock(n, blockChan[n], packets) /\ UNCHANGED <<commitVars, proposerVars>>
          /\ UNCHANGED <<viewVars, clientVars>>
    BY <1>2 DEF PbftReceiveBlock
  <2>2. PICK packets \in Handled(pk) :
          /\ \/ PbftProcessBlockMessage(n, pk.msg, blockChan[n], packets)
             \/ IgnoreBlock(n, blockChan[n], packets) /\ UNCHANGED <<commitVars, proposerVars>>
          /\ UNCHANGED <<viewVars, clientVars>>
    BY <2>1
  <2>3. pk.msg \in BlockMessage /\ packets \in SUBSET net
    BY <1>1, InboxType, MessageFields
  <2> QED
    BY <1>1, <2>2, <2>3, BlockMessageStep, Zenon
<1>3. CASE PbftReceiveDeferredBlock(n)
  <2>1. Head(blockChan[n]) \in BlockMessage /\ Tail(blockChan[n]) \in Seq(BlockMessage)
    BY <1>1, <1>3, HeadTailProperties DEF PbftReceiveDeferredBlock
  <2> QED
    BY <1>1, <1>3, <2>1, BlockMessageStep DEF PbftReceiveDeferredBlock
<1> QED
  BY <1>2, <1>3

LEMMA ReceiveBlockConfirmStep ==
  ASSUME PbftInv, NEW n \in Up, PbftReceiveBlockConfirm(n)
  PROVE  PbftTypeOK' /\ PbftStep
<1>1. PICK pk \in Inbox(n, "BlockConfirm") : \E packets \in Handled(pk) :
        LET m     == pk.msg
            votes == Confirmations(n, m.blk) \cup {m.from}
            sent  == PrepareSent[n] \ (IF Confirmations(n, m.blk) = {} THEN {m.blk} ELSE {})
        IN  /\ \/ /\ net' = packets
                  /\ UNCHANGED <<ledger, nodeVars, leaderVars, history, commitVars>>
               \/ /\ CountConfirm(n, m.blk, m.from, packets)
                  /\ \/ IsQuorum(N, votes) /\ SendCommit(n, m.blk, sent)
                     \/ /\ PrepareSent' = [PrepareSent EXCEPT ![n] = sent]
                        /\ UNCHANGED <<BlockCommitMsg, commits, committed>>
            /\ UNCHANGED <<viewVars, clientVars, proposerVars>>
  BY DEF PbftReceiveBlockConfirm
<1> DEFINE m     == pk.msg
           votes == Confirmations(n, m.blk) \cup {m.from}
           sent  == PrepareSent[n] \ (IF Confirmations(n, m.blk) = {} THEN {m.blk} ELSE {})
<1>2. PICK packets \in Handled(pk) :
        /\ \/ /\ net' = packets
              /\ UNCHANGED <<ledger, nodeVars, leaderVars, history, commitVars>>
           \/ /\ CountConfirm(n, m.blk, m.from, packets)
              /\ \/ IsQuorum(N, votes) /\ SendCommit(n, m.blk, sent)
                 \/ /\ PrepareSent' = [PrepareSent EXCEPT ![n] = sent]
                    /\ UNCHANGED <<BlockCommitMsg, commits, committed>>
        /\ UNCHANGED <<viewVars, clientVars, proposerVars>>
  BY <1>1
<1>3. TypeOK /\ CommitTypeOK /\ ProposerTypeOK /\ VotesCast
  BY DEF PbftInv, PbftTypeOK
<1>4. /\ n \in Node /\ m.from \in Node /\ m.blk \in BlockId /\ m.blk \in signed[m.from]
      /\ packets \in SUBSET net /\ packets \in SUBSET Packet /\ sent \in SUBSET BlockId
  <2>1. m \in Message /\ m.type = "BlockConfirm" /\ pk \in net
    BY <1>3, InboxMessage
  <2>2. m.from \in Node /\ m.blk \in BlockId /\ m.blk \in signed[m.from]
    BY <1>3, <2>1, MessageFields DEF VotesCast
  <2>3. n \in Node /\ sent \in SUBSET BlockId
    BY <1>3, NodeType DEF CommitTypeOK
  <2>4. packets \in SUBSET net /\ packets \in SUBSET Packet
    BY <1>3, InboxType
  <2> QED
    BY <2>2, <2>3, <2>4
<1>5. ProposerTypeOK'
  BY <1>2, <1>3 DEF ProposerTypeOK, proposerVars
<1> HIDE DEF sent
<1>6. CASE net' = packets /\ UNCHANGED <<ledger, nodeVars, leaderVars, history, commitVars>>
  <2>1. TypeOK'
    BY <1>2, <1>3, <1>4, <1>6
       DEF TypeOK, NodeTypeOK, LeaderTypeOK, ViewTypeOK, ClientTypeOK, HistoryTypeOK,
           nodeVars, leaderVars, viewVars, clientVars, history
  <2>2. CommitTypeOK'
    BY <1>3, <1>6 DEF CommitTypeOK, commitVars
  <2>3. Speaks
    BY <1>2, <1>4, <1>6 DEF Speaks, nodeVars, viewVars, history, commitVars
  <2> QED
    BY <1>5, <2>1, <2>2, <2>3 DEF PbftTypeOK, PbftStep
<1>7. ASSUME CountConfirm(n, m.blk, m.from, packets),
             \/ IsQuorum(N, votes) /\ SendCommit(n, m.blk, sent)
             \/ /\ PrepareSent' = [PrepareSent EXCEPT ![n] = sent]
                /\ UNCHANGED <<BlockCommitMsg, commits, committed>>
      PROVE  PbftTypeOK' /\ PbftStep
  <2>1. /\ BlockPrepareMsg' = [BlockPrepareMsg EXCEPT ![n] = @ \cup {<<m.blk, m.from>>}]
        /\ net' = packets
        /\ UNCHANGED <<ledger, ProposalsCache, Blocks, BlockMessages, Block, blockChan,
                       leaderVars, history>>
    BY <1>7 DEF CountConfirm
  <2>2. BlockPrepareMsg' \in [Node -> SUBSET (BlockId \X Node)]
    BY <1>3, <1>4, <2>1 DEF TypeOK, NodeTypeOK
  <2>3. TypeOK'
    BY <1>2, <1>3, <1>4, <2>1, <2>2
       DEF TypeOK, NodeTypeOK, LeaderTypeOK, ViewTypeOK, ClientTypeOK, HistoryTypeOK,
           leaderVars, viewVars, clientVars, history
  <2>4. \A k \in Node : \A c \in BlockPrepareMsg'[k] :
          c \in BlockPrepareMsg[k] \/ c[1] \in signed[c[2]]
    BY <1>3, <1>4, <2>1 DEF TypeOK, NodeTypeOK
  <2>5. CASE IsQuorum(N, votes) /\ SendCommit(n, m.blk, sent)
    <3>1. Confirmed(m.blk)
      BY <1>4, <2>5, CountedConfirmed
    <3>2. UNCHANGED <<ledger, Blocks, View, signed, proposerVars>> /\ net' \subseteq net
      BY <1>2, <1>4, <2>1 DEF viewVars, history
    <3>3. CommitTypeOK' /\ PbftStep
      BY <1>4, <2>4, <2>5, <3>1, <3>2, SendCommitStep
    <3> QED
      BY <1>5, <2>3, <3>3 DEF PbftTypeOK
  <2>6. CASE /\ PrepareSent' = [PrepareSent EXCEPT ![n] = sent]
             /\ UNCHANGED <<BlockCommitMsg, commits, committed>>
    <3>1. CommitTypeOK'
      BY <1>3, <1>4, <2>6 DEF CommitTypeOK
    <3>2. Speaks
      BY <1>2, <1>4, <2>1, <2>4, <2>6 DEF Speaks, viewVars, history
    <3> QED
      BY <1>5, <2>3, <3>1, <3>2 DEF PbftTypeOK, PbftStep
  <2> QED
    BY <1>7, <2>5, <2>6
<1> QED
  BY <1>2, <1>6, <1>7

LEMMA ReceiveBlockCommitStep ==
  ASSUME PbftInv, NEW n \in Up, ReceiveBlockCommit(n)
  PROVE  PbftTypeOK' /\ PbftStep
<1>1. PICK pk \in commits : \E left \in SUBSET commits :
        LET m     == pk.msg
            votes == Commits(n, m.blk) \cup {m.from}
        IN  /\ \/ /\ IsQuorum(N, votes)
                  /\ ExecuteCommitted(n, m.blk, votes, ProposalsCache[n], blockChan[n], net, left)
               \/ /\ \/ BlockCommitMsg' = [BlockCommitMsg EXCEPT ![n] = @ \cup {<<m.blk, m.from>>}]
                     \/ UNCHANGED BlockCommitMsg
                  /\ commits' = left
                  /\ UNCHANGED <<ledger, nodeVars, leaderVars, net, history, PrepareSent,
                                 committed, proposerVars>>
            /\ UNCHANGED <<viewVars, clientVars>>
  BY DEF ReceiveBlockCommit
<1> DEFINE m     == pk.msg
           votes == Commits(n, m.blk) \cup {m.from}
<1>2. PICK left \in SUBSET commits :
        /\ \/ /\ IsQuorum(N, votes)
              /\ ExecuteCommitted(n, m.blk, votes, ProposalsCache[n], blockChan[n], net, left)
           \/ /\ \/ BlockCommitMsg' = [BlockCommitMsg EXCEPT ![n] = @ \cup {<<m.blk, m.from>>}]
                 \/ UNCHANGED BlockCommitMsg
              /\ commits' = left
              /\ UNCHANGED <<ledger, nodeVars, leaderVars, net, history, PrepareSent,
                             committed, proposerVars>>
        /\ UNCHANGED <<viewVars, clientVars>>
  BY <1>1
<1>3. TypeOK /\ CommitTypeOK /\ ProposerTypeOK /\ net \in SUBSET net
  BY DEF PbftInv, PbftTypeOK
<1>4. /\ n \in Node /\ m.from \in Node /\ m.blk \in BlockId /\ m.blk \in committed[m.from]
  BY NodeType, CommitFields DEF PbftInv, CommitsCast
<1>5. ASSUME IsQuorum(N, votes),
             ExecuteCommitted(n, m.blk, votes, ProposalsCache[n], blockChan[n], net, left)
      PROVE  PbftTypeOK' /\ PbftStep
  <2>1. [blk |-> m.blk, sigs |-> votes] \in CommitCertificates
    BY <1>4, <1>5, CountedCommitted
  <2>2. ProposalsCache[n] \in [Proposal -> ProposalState] /\ blockChan[n] \in Seq(BlockMessage)
    BY <1>3, <1>4 DEF TypeOK, NodeTypeOK
  <2> HIDE DEF votes
  <2> QED
    BY <1>2, <1>3, <1>4, <1>5, <2>1, <2>2, ExecuteCommittedStep
<1>6. ASSUME \/ BlockCommitMsg' = [BlockCommitMsg EXCEPT ![n] = @ \cup {<<m.blk, m.from>>}]
             \/ UNCHANGED BlockCommitMsg,
             commits' = left,
             UNCHANGED <<ledger, nodeVars, leaderVars, net, history, PrepareSent, committed,
                         proposerVars>>
      PROVE  PbftTypeOK' /\ PbftStep
  <2>1. TypeOK'
    BY <1>2, <1>3, <1>6
       DEF TypeOK, NodeTypeOK, LeaderTypeOK, ViewTypeOK, ClientTypeOK, HistoryTypeOK,
           nodeVars, leaderVars, viewVars, clientVars, history
  <2>2. BlockCommitMsg' \in [Node -> SUBSET (BlockId \X Node)]
    BY <1>3, <1>4, <1>6 DEF CommitTypeOK
  <2>3. CommitTypeOK' /\ ProposerTypeOK'
    BY <1>3, <1>6, <2>2 DEF CommitTypeOK, ProposerTypeOK, proposerVars
  <2>4. \A k \in Node : \A c \in BlockCommitMsg'[k] :
          c \in BlockCommitMsg[k] \/ c[1] \in committed[c[2]]
    BY <1>3, <1>4, <1>6 DEF CommitTypeOK
  <2>5. Speaks
    BY <1>2, <1>6, <2>4 DEF Speaks, nodeVars, viewVars, history
  <2> QED
    BY <2>1, <2>3, <2>5 DEF PbftTypeOK, PbftStep
<1> QED
  BY <1>2, <1>5, <1>6

LEMMA ReceiveDataSyncRespStep ==
  ASSUME PbftInv, NEW n \in Up, PbftReceiveDataSyncResp(n)
  PROVE  PbftTypeOK' /\ PbftStep
<1>1. PICK pk \in Inbox(n, "DataSyncResp") : \E packets \in Handled(pk) :
        /\ PbftExecuteBlock(n, pk.msg.block, ProposalsCache[n], blockChan[n], packets)
        /\ UNCHANGED <<Block, BlockPrepareMsg, signed, viewVars, clientVars, commitVars>>
  BY DEF PbftReceiveDataSyncResp
<1> DEFINE b == pk.msg.block
<1>2. PICK packets \in Handled(pk) :
        PbftExecuteBlock(n, b, ProposalsCache[n], blockChan[n], packets)
  BY <1>1
<1>3. TypeOK /\ CommitTypeOK /\ NodeTypeOK /\ PbftTypeOK
  BY DEF PbftInv, PbftTypeOK, TypeOK
<1>4. n \in Node /\ b \in CommitCertificates /\ packets \in SUBSET net /\ packets \in SUBSET Packet
  <2>1. /\ pk.msg \in Message /\ pk.msg.type = "DataSyncResp" /\ pk \in net
        /\ packets \in SUBSET net /\ packets \in SUBSET Packet
    BY <1>3, InboxType
  <2>2. b \in BlockValidated
    BY <2>1, MessageFields
  <2> QED
    BY <2>1, <2>2, NodeType DEF PbftInv, CommitCertified, CommitCertificates
<1>5. b \in BlockValidated
  BY <1>4 DEF CommitCertificates
<1> HIDE DEF b
<1>6. TypeOK' /\ ProposerTypeOK'
  <2>1. ProposalsCache[n] \in [Proposal -> ProposalState] /\ blockChan[n] \in Seq(BlockMessage)
    BY <1>3, <1>4 DEF NodeTypeOK
  <2>2. /\ Block' \in [Node -> SUBSET BlockMessage]
        /\ BlockPrepareMsg' \in [Node -> SUBSET (BlockId \X Node)]
    BY <1>1, <1>3 DEF NodeTypeOK
  <2> QED
    BY <1>1, <1>2, <1>3, <1>4, <1>5, <2>1, <2>2, ExecutedType
<1>7. CommitTypeOK'
  BY <1>1, <1>3 DEF CommitTypeOK, commitVars
<1>8. Executed(n, b)
  BY <1>1, <1>2, <1>4 DEF Executed, viewVars, commitVars
<1> QED
  BY <1>4, <1>6, <1>7, <1>8 DEF PbftTypeOK, PbftStep

LEMMA ReceiveReplyStep ==
  ASSUME PbftInv, NEW n \in Up, ReceiveReply(n)
  PROVE  PbftTypeOK' /\ PbftStep
<1>1. TypeOK /\ CommitTypeOK /\ ProposerTypeOK /\ UNCHANGED <<vars, commitVars>>
  BY DEF PbftInv, PbftTypeOK, ReceiveReply
<1>2. TypeOK' /\ CommitTypeOK'
  BY <1>1, NextType DEF CommitTypeOK, commitVars
<1>3. ProposerTypeOK'
  <2>1. PICK r \in replies :
          /\ replies' = replies \ {r}
          /\ Outstanding' \subseteq Outstanding
          /\ answered' \subseteq answered \cup {r.proposal}
          /\ \/ UNCHANGED Replies
             \/ Replies' = [Replies EXCEPT ![r.proposal] = {}]
             \/ Replies' = [Replies EXCEPT ![r.proposal] = @ \cup {r.from}]
    BY DEF ReceiveReply
  <2>2. r.proposal \in Proposal /\ r.from \in Node
    BY <1>1 DEF ProposerTypeOK
  <2>3. Replies' \in [Proposal -> SUBSET Node]
    BY <1>1, <2>1, <2>2 DEF ProposerTypeOK
  <2> QED
    BY <1>1, <2>1, <2>2, <2>3 DEF ProposerTypeOK
<1>4. Speaks
  BY <1>1 DEF Speaks, vars, nodeVars, viewVars, history, commitVars
<1> QED
  BY <1>2, <1>3, <1>4 DEF PbftTypeOK, PbftStep

LEMMA SharedStep ==
  ASSUME PbftInv, Shared, UNCHANGED commitVars,
         \/ UNCHANGED proposerVars
         \/ \E p \in Orders : PbftOrder(p)
  PROVE  PbftTypeOK' /\ PbftStep
<1>1. TypeOK /\ CommitTypeOK /\ ProposerTypeOK /\ Orders \subseteq Proposal
  BY ProposalAssumption DEF PbftInv, PbftTypeOK
<1>2. TypeOK'
  BY <1>1, NextType DEF Shared, Next, Handle
<1>3. CommitTypeOK'
  BY <1>1 DEF CommitTypeOK, commitVars
<1>4. ProposerTypeOK'
  BY <1>1 DEF ProposerTypeOK, proposerVars, PbftOrder
<1>5. Shares
  BY <1>1 DEF Shares, commitVars, proposerVars, PbftOrder, ProposerTypeOK
<1> QED
  BY <1>2, <1>3, <1>4, <1>5 DEF PbftTypeOK, PbftStep

LEMMA PbftRestartStep ==
  ASSUME PbftInv, NEW n \in Up, PbftRestart(n)
  PROVE  PbftTypeOK' /\ PbftStep
<1>1. TypeOK /\ CommitTypeOK /\ ProposerTypeOK /\ Restart(n)
  BY DEF PbftInv, PbftTypeOK, PbftRestart
<1>2. TypeOK'
  BY <1>1, RestartType
<1>3. CommitTypeOK' /\ ProposerTypeOK'
  BY <1>1 DEF PbftRestart, CommitTypeOK, ProposerTypeOK
<1>4. Shares
  BY <1>1 DEF PbftRestart, Shares, Shared, CommitTypeOK, ProposerTypeOK
<1> QED
  BY <1>2, <1>3, <1>4 DEF PbftTypeOK, PbftStep

LEMMA PbftStepKinds ==
  ASSUME PbftInv, [PbftNext]_pbftVars
  PROVE  PbftTypeOK' /\ PbftStep
<1>1. ASSUME NEW p \in Orders, PbftOrder(p) \/ PbftTimeout(p) PROVE PbftTypeOK' /\ PbftStep
  BY <1>1, SharedStep DEF PbftOrder, PbftTimeout, Shared
<1>2. ASSUME NEW n \in Up,
             \/ PbftReceiveProposal(n) \/ PbftReceiveDataSync(n) \/ PbftReceiveProposalConfirm(n)
             \/ PbftTick(n) \/ PbftInterrupt(n) \/ PbftViewRole(n)
      PROVE  PbftTypeOK' /\ PbftStep
  BY <1>2, SharedStep
     DEF PbftReceiveProposal, PbftReceiveDataSync, PbftReceiveProposalConfirm, PbftTick,
         PbftInterrupt, PbftViewRole, Shared
<1>3. CASE UNCHANGED pbftVars
  BY <1>3, SharedStep DEF pbftVars, Shared
<1> QED
  BY <1>1, <1>2, <1>3, ReceiveBlockStep, ReceiveBlockConfirmStep, ReceiveBlockCommitStep,
     ReceiveDataSyncRespStep, ReceiveReplyStep, PbftRestartStep DEF PbftNext, PbftHandle

----------------------------------------------------------------------------
(* Every step keeps the invariant.                                         *)

\* The votes and commits that stood still stand, and no others are counted.
LEMMA VotesNext ==
  ASSUME PbftInv, PbftStep, PbftTypeOK'
  PROVE  /\ VotesCast'
         /\ \A k \in Node : signed[k] \subseteq signed'[k] /\ committed[k] \subseteq committed'[k]
<1>1. /\ TypeOK /\ TypeOK' /\ VotesCast
      /\ signed \in [Node -> SUBSET BlockId] /\ committed \in [Node -> SUBSET BlockId]
  BY DEF PbftInv, PbftTypeOK, TypeOK, HistoryTypeOK, CommitTypeOK
<1>2. ASSUME NEW n \in Up, NEW b \in CommitCertificates, Executed(n, b)
      PROVE  /\ UNCHANGED <<signed, committed>> /\ CountsVotes
             /\ \A pk \in net' : pk \in net \/ pk.msg.type # "BlockConfirm"
  <2>1. PICK packets \in SUBSET net : \E cache, chan : ExecuteBlock(n, b, cache, chan, packets)
    BY <1>2 DEF Executed, PbftExecuteBlock
  <2> QED
    BY <1>2, <2>1, ExecuteBlockSends DEF Executed, CountsVotes
<1>3. ASSUME Speaks
      PROVE  /\ \A k \in Node : signed[k] \subseteq signed'[k] /\ committed[k] \subseteq committed'[k]
             /\ CountsVotes
             /\ \A pk \in net' : \/ pk \in net \/ pk.msg.type # "BlockConfirm"
                                 \/ pk.msg.blk \in signed'[pk.msg.from]
  <2>1. \A k \in Node : signed[k] \subseteq signed'[k] /\ committed[k] \subseteq committed'[k]
    BY <1>1, <1>3 DEF Speaks
  <2> QED
    BY <1>3, <2>1 DEF Speaks, CountsVotes
<1>4. ASSUME Shares
      PROVE  /\ UNCHANGED <<signed, committed>> /\ CountsVotes
             /\ \A pk \in net' : pk \in net \/ pk.msg.type # "BlockConfirm"
  BY <1>1, <1>4, SharedKeepsBlocks DEF Shares, KeepsBlocks, CountsVotes
<1>5. /\ \A k \in Node : signed[k] \subseteq signed'[k] /\ committed[k] \subseteq committed'[k]
      /\ CountsVotes
      /\ \A pk \in net' : \/ pk \in net \/ pk.msg.type # "BlockConfirm"
                          \/ pk.msg.blk \in signed'[pk.msg.from]
  BY <1>2, <1>3, <1>4 DEF PbftStep
<1> QED
  BY <1>1, <1>5, VotesCastStep DEF VotesStand

LEMMA CommitsCastNext ==
  ASSUME PbftInv, PbftStep, PbftTypeOK'
  PROVE  CommitsCast'
<1>1. /\ BlockCommitMsg' \in [Node -> SUBSET (BlockId \X Node)]
      /\ \A k \in Node : committed[k] \subseteq committed'[k]
  BY VotesNext DEF PbftTypeOK, CommitTypeOK
<1>2. /\ \A k \in Node : \A c \in BlockCommitMsg'[k] :
           c \in BlockCommitMsg[k] \/ c[1] \in committed[c[2]]
      /\ \A pk \in commits' : pk \in commits \/ pk.msg.blk \in committed'[pk.msg.from]
  BY DEF PbftStep, Executed, Speaks, Shares
<1>3. ASSUME NEW n \in Node, NEW c \in BlockCommitMsg'[n] PROVE c[1] \in committed'[c[2]]
  <2>1. c[2] \in Node
    BY <1>1
  <2>2. c[1] \in committed[c[2]]
    BY <1>2 DEF PbftInv, CommitsCast
  <2> QED
    BY <1>1, <2>1, <2>2
<1>4. ASSUME NEW pk \in commits' PROVE pk.msg.blk \in committed'[pk.msg.from]
  <2>1. CASE pk \in commits
    <3>1. pk.msg.from \in Node /\ pk.msg.blk \in committed[pk.msg.from]
      BY <2>1, CommitFields DEF PbftInv, CommitsCast
    <3> QED
      BY <1>1, <3>1
  <2> QED
    BY <1>2, <2>1
<1> QED
  BY <1>3, <1>4 DEF CommitsCast

LEMMA CommitsFollowConfirmsNext ==
  ASSUME PbftInv, PbftStep, PbftTypeOK'
  PROVE  CommitsFollowConfirms'
<1>1. \A k \in Node : signed[k] \subseteq signed'[k]
  BY VotesNext
<1>2. \A n \in Node : \A blk \in committed'[n] : Confirmed(blk)
  <2>1. committed \in [Node -> SUBSET BlockId]
    BY DEF PbftInv, PbftTypeOK, CommitTypeOK
  <2>2. \A n \in Node : \A blk \in committed[n] : Confirmed(blk)
    BY DEF PbftInv, CommitsFollowConfirms, Confirmed
  <2>3. \/ UNCHANGED committed
        \/ \E n \in Node, blk \in BlockId :
             Confirmed(blk) /\ committed' = [committed EXCEPT ![n] = @ \cup {blk}]
    BY DEF PbftStep, Executed, Speaks, Shares
  <2> QED
    BY <2>1, <2>2, <2>3
<1>3. \A n \in Node : \A blk \in committed'[n] : Confirmed(blk)'
  BY <1>1, <1>2, ConfirmedStays
<1> QED
  BY <1>3 DEF CommitsFollowConfirms, Confirmed

\* Blocks with a quorum of commits are all that is stored, queued or handed out.
LEMMA StoresCommitted ==
  ASSUME PbftInv, PbftStep
  PROVE  /\ \A k \in Node : \A b \in ledger'[k].db :
              b \in ledger[k].db \/ b.blk = Genesis \/ b \in CommitCertificates
         /\ \A k \in Node : Blocks'[k] = Blocks[k] \/ Blocks'[k] \in Seq(CommitCertificates)
         /\ \A pk \in net' :
              pk.msg.type = "DataSyncResp" => pk \in net \/ pk.msg.block \in CommitCertificates
<1> DEFINE Kept == \A k \in Node : \A b \in ledger'[k].db :
                       b \in ledger[k].db \/ b.blk = Genesis \/ b \in CommitCertificates
           Queues == \A k \in Node : Blocks'[k] = Blocks[k] \/ Blocks'[k] \in Seq(CommitCertificates)
           Sends  == \A pk \in net' :
                       pk.msg.type = "DataSyncResp" => pk \in net \/ pk.msg.block \in CommitCertificates
<1>1. TypeOK /\ ledger \in [Node -> LedgerType] /\ Blocks \in [Node -> Seq(BlockValidated)]
  BY DEF PbftInv, PbftTypeOK, TypeOK, NodeTypeOK
<1>2. ASSUME NEW n \in Up, NEW b \in CommitCertificates, Executed(n, b)
      PROVE  Kept /\ Queues /\ Sends
  <2> DEFINE l     == ledger[n]
             queue == Enqueue(Blocks[n], b)
             h     == Height(l.tip) + 1
             after == IF Due(queue, h) # {} THEN AddBlock(l, b) ELSE l
  <2>1. PICK packets \in SUBSET net : \E cache, chan : ExecuteBlock(n, b, cache, chan, packets)
    BY <1>2 DEF Executed, PbftExecuteBlock
  <2>2. n \in Node /\ Sends
    BY <2>1, ExecuteBlockSends, NodeType
  <2>3. Rest(queue, h) \in Seq(CommitCertificates)
    <3>1. \A i \in DOMAIN Blocks[n] : Blocks[n][i] \in CommitCertificates
      BY <1>1, <2>2 DEF PbftInv, CommitCertified, CommitCertificates
    <3>2. Blocks[n] \in Seq(CommitCertificates)
      BY <1>1, <2>2, <3>1, ElementsOfSeq
    <3>3. queue \in Seq(CommitCertificates)
      BY <3>2, EnqueueType
    <3> QED
      BY <3>3, RestType
  <2>4. \A c \in after.db : c \in l.db \/ c = b
    BY DEF AddBlock
  <2>5. \/ UNCHANGED <<ledger, Blocks>>
        \/ /\ ledger' = [ledger EXCEPT ![n] = after]
           /\ Blocks' = [Blocks EXCEPT ![n] = Rest(queue, h)]
    BY <2>1 DEF ExecuteBlock
  <2> HIDE DEF after, queue, h
  <2>6. Kept /\ Queues
    BY <1>1, <2>2, <2>3, <2>4, <2>5
  <2> QED
    BY <2>2, <2>6
<1>3. ASSUME Speaks PROVE Kept /\ Queues /\ Sends
  BY <1>3 DEF Speaks
<1>4. ASSUME Shares PROVE Kept /\ Queues /\ Sends
  <2>1. KeepsBlocks
    BY <1>1, <1>4, SharedKeepsBlocks DEF Shares
  <2>2. ASSUME NEW k \in Node, NEW b \in ledger[k].db, b.blk # Genesis PROVE b \in CommitCertificates
    <3>1. b \in BlockValidated
      BY <1>1 DEF LedgerType
    <3> QED
      BY <2>2, <3>1 DEF PbftInv, CommitCertified, CommitCertificates
  <2>3. << >> \in Seq(CommitCertificates)
    OBVIOUS
  <2> QED
    BY <2>1, <2>2, <2>3 DEF KeepsBlocks
<1> QED
  BY <1>2, <1>3, <1>4 DEF PbftStep

LEMMA CommitCertifiedNext ==
  ASSUME PbftInv, PbftStep, PbftTypeOK'
  PROVE  CommitCertified'
<1>1. TypeOK /\ CommitCertified /\ \A k \in Node : committed[k] \subseteq committed'[k]
  BY VotesNext DEF PbftInv, PbftTypeOK
<1>2. ASSUME NEW b \in BlockValidated, HasCommits(b) PROVE HasCommits(b)'
  BY <1>1, <1>2 DEF HasCommits, BlockValidated
<1>3. ASSUME NEW b \in CommitCertificates PROVE HasCommits(b)'
  BY <1>2, <1>3 DEF CommitCertificates
<1>4. ASSUME NEW n \in Node, NEW b \in ledger'[n].db, b.blk # Genesis PROVE HasCommits(b)'
  <2>1. b \in ledger[n].db => b \in BlockValidated /\ HasCommits(b)
    BY <1>1, <1>4 DEF TypeOK, LedgerType, CommitCertified
  <2> QED
    BY <1>2, <1>3, <1>4, <2>1, StoresCommitted
<1>5. ASSUME NEW n \in Node, NEW i \in DOMAIN Blocks'[n] PROVE HasCommits(Blocks[n][i])'
  <2>1. CASE Blocks'[n] = Blocks[n]
    <3>1. Blocks[n] \in Seq(BlockValidated) /\ i \in DOMAIN Blocks[n]
      BY <1>1, <2>1 DEF TypeOK, NodeTypeOK
    <3>2. Blocks[n][i] \in BlockValidated /\ HasCommits(Blocks[n][i])
      BY <1>1, <3>1 DEF CommitCertified
    <3> QED
      BY <1>2, <2>1, <3>2
  <2>2. CASE Blocks'[n] \in Seq(CommitCertificates)
    <3>1. Blocks'[n][i] \in CommitCertificates
      BY <2>2
    <3> QED
      BY <1>3, <3>1
  <2> QED
    BY <2>1, <2>2, StoresCommitted
<1>6. ASSUME NEW pk \in net', pk.msg.type = "DataSyncResp" PROVE HasCommits(pk.msg.block)'
  <2>1. pk \in net => pk.msg.block \in BlockValidated /\ HasCommits(pk.msg.block)
    BY <1>1, <1>6, MessageFields DEF TypeOK, Packet, CommitCertified
  <2> QED
    BY <1>2, <1>3, <1>6, <2>1, StoresCommitted
<1> QED
  BY <1>4, <1>5, <1>6 DEF CommitCertified

LEMMA PbftInvNext == PbftInv /\ [PbftNext]_pbftVars => PbftInv'
<1> SUFFICES ASSUME PbftInv, [PbftNext]_pbftVars PROVE PbftInv'
  OBVIOUS
<1>1. PbftTypeOK' /\ PbftStep
  BY PbftStepKinds
<1> QED
  BY <1>1, VotesNext, CommitsCastNext, CommitsFollowConfirmsNext, CommitCertifiedNext DEF PbftInv

\* For every network size and course of events: a block that PBFT stores, queues
\* or hands out was committed to by a quorum of nodes, also when the commits came
\* before the block or the view ended between them.
THEOREM BlocksCommitted == PbftSpec => []CommitCertified
<1>1. PbftInv => CommitCertified
  BY DEF PbftInv
<1> QED
  BY <1>1, PbftInitInv, PbftInvNext, PTL DEF PbftSpec

\* A node commits only to a block that a quorum confirmed, although a restart or
\* a first confirmation resets PrepareSent and CommitAtOnce skips its own
\* confirmation.
THEOREM CommitsAreConfirmed == PbftSpec => []CommitsFollowConfirms
<1>1. PbftInv => CommitsFollowConfirms
  BY DEF PbftInv
<1> QED
  BY <1>1, PbftInitInv, PbftInvNext, PTL DEF PbftSpec

\* The variables of PBFT have their types.
THEOREM PbftTypeCorrect == PbftSpec => []PbftTypeOK
<1>1. PbftInv => PbftTypeOK
  BY DEF PbftInv
<1> QED
  BY <1>1, PbftInitInv, PbftInvNext, PTL DEF PbftSpec

----------------------------------------------------------------------------
(* Votes that came before their block.                                     *)

\* NothingOverlooked, of one node and one block.
LookedAt(n, blk) ==
  /\ ~ IsQuorum(N, Commits(n, blk))
  /\ IsQuorum(N, Confirmations(n, blk)) => blk \in PrepareSent[n]

\* Steps that add neither a block nor a vote, and forget no commit of their own;
\* or by which a node forgets its blocks.
KeepsVotes ==
  \A k \in Node :
    \/ Block'[k] = {}
    \/ /\ Block'[k] \subseteq Block[k]
       /\ BlockPrepareMsg'[k] \subseteq BlockPrepareMsg[k]
       /\ BlockCommitMsg'[k] \subseteq BlockCommitMsg[k]
       /\ PrepareSent[k] \subseteq PrepareSent'[k]

\* A block that was looked at stays so while no vote for it comes in.
LEMMA LookedAtStays ==
  ASSUME NEW n \in Node, NEW blk, LookedAt(n, blk),
         \A k \in Node : <<blk, k>> \in BlockPrepareMsg'[n] => <<blk, k>> \in BlockPrepareMsg[n],
         \A k \in Node : <<blk, k>> \in BlockCommitMsg'[n] => <<blk, k>> \in BlockCommitMsg[n],
         blk \in PrepareSent[n] => blk \in PrepareSent'[n]
  PROVE  LookedAt(n, blk)'
<1>1. /\ Commits(n, blk) \in SUBSET Node /\ Commits(n, blk)' \in SUBSET Node
      /\ Commits(n, blk)' \subseteq Commits(n, blk)
  BY DEF Commits
<1>2. /\ Confirmations(n, blk) \in SUBSET Node /\ Confirmations(n, blk)' \in SUBSET Node
      /\ Confirmations(n, blk)' \subseteq Confirmations(n, blk)
  BY DEF Confirmations
<1>3. ~ IsQuorum(N, Commits(n, blk)')
  BY <1>1, QuorumGrows DEF LookedAt
<1>4. IsQuorum(N, Confirmations(n, blk)') => IsQuorum(N, Confirmations(n, blk))
  BY <1>2, QuorumGrows
<1> QED
  BY <1>3, <1>4 DEF LookedAt

LEMMA KeepsVotesLooks ==
  ASSUME NothingOverlooked, KeepsVotes
  PROVE  NothingOverlooked'
<1> SUFFICES ASSUME NEW k \in Node, NEW o \in Block'[k] PROVE LookedAt(k, o.blk)'
  BY DEF NothingOverlooked, LookedAt
<1>1. /\ o \in Block[k]
      /\ BlockPrepareMsg'[k] \subseteq BlockPrepareMsg[k]
      /\ BlockCommitMsg'[k] \subseteq BlockCommitMsg[k]
      /\ PrepareSent[k] \subseteq PrepareSent'[k]
  BY DEF KeepsVotes
<1>2. LookedAt(k, o.blk)
  BY <1>1 DEF NothingOverlooked, LookedAt
<1> QED
  BY <1>1, <1>2, LookedAtStays

\* The steps PBFT shares with MyBFT, a restart with them.
LEMMA SharedKeepsVotes ==
  ASSUME PbftInv, Shared,
         UNCHANGED commitVars \/ \E n \in Up : PbftRestart(n)
  PROVE  KeepsVotes
<1>1. NodeTypeOK /\ CommitTypeOK
  BY DEF PbftInv, PbftTypeOK, TypeOK
<1>2. ASSUME NEW n \in Up, PbftRestart(n) PROVE KeepsVotes
  <2>1. /\ Block' = [Block EXCEPT ![n] = {}]
        /\ BlockPrepareMsg' = [BlockPrepareMsg EXCEPT ![n] = {}]
        /\ BlockCommitMsg' = [BlockCommitMsg EXCEPT ![n] = {}]
        /\ PrepareSent' = [PrepareSent EXCEPT ![n] = {}]
    BY <1>2 DEF PbftRestart, Restart
  <2> QED
    BY <1>1, <2>1, NodeType DEF KeepsVotes, NodeTypeOK, CommitTypeOK
<1>3. ASSUME UNCHANGED commitVars,
             \/ UNCHANGED <<Block, BlockPrepareMsg>>
             \/ \E n \in Node : /\ Block' = [Block EXCEPT ![n] = {}]
                                /\ BlockPrepareMsg' = [BlockPrepareMsg EXCEPT ![n] = {}]
      PROVE  KeepsVotes
  BY <1>1, <1>3 DEF KeepsVotes, NodeTypeOK, CommitTypeOK, commitVars
<1>4. \/ UNCHANGED <<Block, BlockPrepareMsg>>
      \/ \E n \in Node : /\ Block' = [Block EXCEPT ![n] = {}]
                         /\ BlockPrepareMsg' = [BlockPrepareMsg EXCEPT ![n] = {}]
  <2>1. ASSUME NEW n \in Up, ReceiveProposal(n) PROVE UNCHANGED <<Block, BlockPrepareMsg>>
    BY <2>1 DEF ReceiveProposal, AcceptProposal, IgnoreProposal, nodeVars
  <2>2. ASSUME NEW n \in Up, ReceiveNewView(n) \/ Restart(n)
        PROVE  \/ UNCHANGED <<Block, BlockPrepareMsg>>
               \/ /\ Block' = [Block EXCEPT ![n] = {}]
                  /\ BlockPrepareMsg' = [BlockPrepareMsg EXCEPT ![n] = {}]
    BY <2>2 DEF ReceiveNewView, EnterView, Restart, nodeVars
  <2>3. ASSUME \/ \E p \in Orders : Order(p) \/ ProposalTimeout(p)
               \/ \E n \in Up : \/ ReceiveDataSync(n) \/ ReceiveProposalConfirm(n)
                                \/ ReceiveViewChange(n) \/ Interrupt(n) \/ Tick(n)
               \/ UNCHANGED vars
        PROVE  UNCHANGED <<Block, BlockPrepareMsg>>
    BY <2>3 DEF Order, ProposalTimeout, ReceiveDataSync, ReceiveProposalConfirm,
                ReceiveViewChange, Interrupt, Tick, vars, nodeVars
  <2> QED
    BY <2>1, <2>2, <2>3, NodeType DEF Shared
<1> QED
  BY <1>2, <1>3, <1>4

\* A block that joins Block is looked at in the same step, the others stay.
LEMMA BlockJoins ==
  ASSUME PbftInv, NothingOverlooked, NEW n \in Node, NEW m,
         Block' = [Block EXCEPT ![n] = {o \in @ : o.blk # m.blk} \cup {m}],
         UNCHANGED <<BlockPrepareMsg, BlockCommitMsg>>,
         \A k \in Node : PrepareSent[k] \subseteq PrepareSent'[k],
         LookedAt(n, m.blk)'
  PROVE  NothingOverlooked'
<1> SUFFICES ASSUME NEW k \in Node, NEW o \in Block'[k], ~ (k = n /\ o = m)
             PROVE  LookedAt(k, o.blk)'
  BY DEF NothingOverlooked, LookedAt
<1>1. o \in Block[k]
  BY DEF PbftInv, PbftTypeOK, TypeOK, NodeTypeOK
<1>2. LookedAt(k, o.blk)
  BY <1>1 DEF NothingOverlooked, LookedAt
<1> QED
  BY <1>2, LookedAtStays

LEMMA ExecuteCommittedLooks ==
  ASSUME PbftInv, NothingOverlooked, NEW n \in Node, NEW blk, NEW votes, NEW cache, NEW chan,
         NEW packets, NEW left, ExecuteCommitted(n, blk, votes, cache, chan, packets, left)
  PROVE  NothingOverlooked'
<1>1. /\ BlockCommitMsg' = [BlockCommitMsg EXCEPT ![n] = {c \in @ : c[1] # blk}]
      /\ BlockPrepareMsg' = [BlockPrepareMsg EXCEPT ![n] = {c \in @ : c[1] # blk}]
      /\ Block' = [Block EXCEPT ![n] = {o \in @ : o.blk # blk}]
      /\ UNCHANGED PrepareSent
  BY DEF ExecuteCommitted
<1>2. KeepsVotes
  BY <1>1 DEF PbftInv, PbftTypeOK, TypeOK, NodeTypeOK, CommitTypeOK, KeepsVotes
<1> QED
  BY <1>2, KeepsVotesLooks

\* PrepareSent with one more block.
LEMMA SendCommitKeeps ==
  ASSUME PbftInv, NEW n \in Node, NEW blk, NEW sent, SendCommit(n, blk, sent)
  PROVE  /\ PrepareSent'[n] = sent \cup {blk}
         /\ \A k \in Node : k # n => PrepareSent'[k] = PrepareSent[k]
         /\ UNCHANGED BlockCommitMsg
BY DEF SendCommit, PbftInv, PbftTypeOK, CommitTypeOK

\* BlockChan and blockChan: the votes that came before are looked at now.
LEMMA BlockMessageLooks ==
  ASSUME PbftInv, NothingOverlooked, NEW n \in Node, NEW m \in BlockMessage, NEW chan, NEW packets,
         \/ PbftProcessBlockMessage(n, m, chan, packets)
         \/ IgnoreBlock(n, chan, packets) /\ UNCHANGED <<commitVars, proposerVars>>
  PROVE  NothingOverlooked'
<1>1. ASSUME UNCHANGED commitVars, IgnoreBlock(n, chan, packets) \/ DeferBlock(n, m, chan, packets)
      PROVE  NothingOverlooked'
  <2>1. KeepsVotes
    BY <1>1 DEF IgnoreBlock, DeferBlock, commitVars, KeepsVotes
  <2> QED
    BY <2>1, KeepsVotesLooks
<1>2. ASSUME ~ IsQuorum(N, Commits(n, m.blk)),
             IsQuorum(N, Confirmations(n, m.blk)) => m.blk \in PrepareSent[n],
             VoteForBlock(n, m, chan, packets), UNCHANGED commitVars
      PROVE  NothingOverlooked'
  <2>1. /\ Block' = [Block EXCEPT ![n] = {o \in @ : o.blk # m.blk} \cup {m}]
        /\ UNCHANGED <<BlockPrepareMsg, BlockCommitMsg, PrepareSent>>
    BY <1>2 DEF VoteForBlock, commitVars
  <2>2. LookedAt(n, m.blk)'
    BY <1>2, <2>1 DEF LookedAt, Commits, Confirmations
  <2> QED
    BY <2>1, <2>2, BlockJoins
<1>3. ASSUME ~ IsQuorum(N, Commits(n, m.blk)), CommitAtOnce(n, m, chan, packets)
      PROVE  NothingOverlooked'
  <2>1. /\ Block' = [Block EXCEPT ![n] = {o \in @ : o.blk # m.blk} \cup {m}]
        /\ SendCommit(n, m.blk, PrepareSent[n])
        /\ UNCHANGED BlockPrepareMsg
    BY <1>3 DEF CommitAtOnce
  <2>2. /\ UNCHANGED BlockCommitMsg
        /\ m.blk \in PrepareSent'[n]
        /\ \A k \in Node : PrepareSent[k] \subseteq PrepareSent'[k]
    BY <2>1, SendCommitKeeps
  <2>3. LookedAt(n, m.blk)'
    BY <1>3, <2>1, <2>2 DEF LookedAt, Commits
  <2> QED
    BY <2>1, <2>2, <2>3, BlockJoins
<1>4. ASSUME NEW votes, NEW cache,
             ExecuteCommitted(n, m.blk, votes, cache, chan, packets, commits)
      PROVE  NothingOverlooked'
  BY <1>4, ExecuteCommittedLooks
<1> QED
  BY <1>1, <1>2, <1>3, <1>4 DEF PbftProcessBlockMessage

LEMMA ReceiveBlockLooks ==
  ASSUME PbftInv, NothingOverlooked, NEW n \in Up,
         PbftReceiveBlock(n) \/ PbftReceiveDeferredBlock(n)
  PROVE  NothingOverlooked'
<1>1. n \in Node /\ TypeOK /\ blockChan[n] \in Seq(BlockMessage)
  BY NodeType DEF PbftInv, PbftTypeOK, TypeOK, NodeTypeOK
<1>2. CASE PbftReceiveBlock(n)
  <2>1. PICK pk \in Inbox(n, "Block") : \E packets \in Handled(pk) :
          \/ PbftProcessBlockMessage(n, pk.msg, blockChan[n], packets)
          \/ IgnoreBlock(n, blockChan[n], packets) /\ UNCHANGED <<commitVars, proposerVars>>
    BY <1>2 DEF PbftReceiveBlock
  <2>2. pk.msg \in BlockMessage
    BY <1>1, InboxMessage, MessageFields
  <2> QED
    BY <1>1, <2>1, <2>2, BlockMessageLooks
<1>3. CASE PbftReceiveDeferredBlock(n)
  <2>1. Head(blockChan[n]) \in BlockMessage
    BY <1>1, <1>3, HeadTailProperties DEF PbftReceiveDeferredBlock
  <2> QED
    BY <1>1, <1>3, <2>1, BlockMessageLooks DEF PbftReceiveDeferredBlock
<1> QED
  BY <1>2, <1>3

\* BlockConfirmChan: PrepareSent is reset only by a confirmation before which
\* there was none, and then the commit is due again with the quorum.
LEMMA ConfirmLooks ==
  ASSUME PbftInv, NothingOverlooked, NEW n \in Up, PbftReceiveBlockConfirm(n)
  PROVE  NothingOverlooked'
<1>1. PICK pk \in Inbox(n, "BlockConfirm") : \E packets \in Handled(pk) :
        LET m     == pk.msg
            votes == Confirmations(n, m.blk) \cup {m.from}
            sent  == PrepareSent[n] \ (IF Confirmations(n, m.blk) = {} THEN {m.blk} ELSE {})
            ready == /\ \E o \in Block[n] : o.blk = m.blk
                     /\ IsQuorum(N, votes)
                     /\ m.blk \notin sent
        IN  \/ UNCHANGED <<nodeVars, commitVars>>
            \/ /\ CountConfirm(n, m.blk, m.from, packets)
               /\ \/ ready /\ SendCommit(n, m.blk, sent)
                  \/ /\ ~ ready
                     /\ PrepareSent' = [PrepareSent EXCEPT ![n] = sent]
                     /\ UNCHANGED <<BlockCommitMsg, commits, committed>>
  BY DEF PbftReceiveBlockConfirm
<1> DEFINE m     == pk.msg
           votes == Confirmations(n, m.blk) \cup {m.from}
           sent  == PrepareSent[n] \ (IF Confirmations(n, m.blk) = {} THEN {m.blk} ELSE {})
           ready == /\ \E o \in Block[n] : o.blk = m.blk
                    /\ IsQuorum(N, votes)
                    /\ m.blk \notin sent
<1>2. /\ TypeOK /\ NodeTypeOK /\ n \in Node
      /\ PrepareSent \in [Node -> SUBSET BlockId]
  BY NodeType DEF PbftInv, PbftTypeOK, TypeOK, CommitTypeOK
<1>3. m.from \in Node /\ m.blk \in BlockId
  BY <1>2, InboxMessage, MessageFields
<1>4. CASE UNCHANGED <<nodeVars, commitVars>>
  <2>1. KeepsVotes
    BY <1>4 DEF KeepsVotes, nodeVars, commitVars
  <2> QED
    BY <2>1, KeepsVotesLooks
<1>5. ASSUME NEW packets, CountConfirm(n, m.blk, m.from, packets),
             \/ ready /\ SendCommit(n, m.blk, sent)
             \/ /\ ~ ready
                /\ PrepareSent' = [PrepareSent EXCEPT ![n] = sent]
                /\ UNCHANGED BlockCommitMsg
      PROVE  NothingOverlooked'
  <2>1. /\ BlockPrepareMsg' = [BlockPrepareMsg EXCEPT ![n] = @ \cup {<<m.blk, m.from>>}]
        /\ UNCHANGED Block
    BY <1>5 DEF CountConfirm
  <2>2. /\ UNCHANGED BlockCommitMsg
        /\ \A k \in Node : k # n => PrepareSent'[k] = PrepareSent[k]
        /\ sent \subseteq PrepareSent'[n]
    <3>1. CASE ready /\ SendCommit(n, m.blk, sent)
      BY <1>2, <3>1, SendCommitKeeps
    <3>2. CASE PrepareSent' = [PrepareSent EXCEPT ![n] = sent] /\ UNCHANGED BlockCommitMsg
      BY <1>2, <3>2
    <3> QED
      BY <1>5, <3>1, <3>2
  <2>3. Confirmations(n, m.blk)' = votes
    BY <1>2, <1>3, <2>1 DEF Confirmations, NodeTypeOK
  <2>4. ASSUME \E o \in Block[n] : o.blk = m.blk, IsQuorum(N, votes)
        PROVE  m.blk \in PrepareSent'[n]
    <3>1. CASE ready
      BY <1>2, <1>5, <3>1, SendCommitKeeps
    <3>2. CASE m.blk \in sent
      BY <2>2, <3>2
    <3> QED
      BY <2>4, <3>1, <3>2
  <2>5. ASSUME NEW k \in Node, NEW o \in Block[k], ~ (k = n /\ o.blk = m.blk)
        PROVE  LookedAt(k, o.blk)'
    <3>1. LookedAt(k, o.blk)
      BY DEF NothingOverlooked, LookedAt
    <3>2. \A j \in Node : <<o.blk, j>> \in BlockPrepareMsg'[k] => <<o.blk, j>> \in BlockPrepareMsg[k]
      BY <1>2, <2>1, <2>5 DEF NodeTypeOK
    <3>3. o.blk \in PrepareSent[k] => o.blk \in PrepareSent'[k]
      BY <2>2, <2>5
    <3> QED
      BY <2>2, <3>1, <3>2, <3>3, LookedAtStays
  <2>6. ASSUME NEW o \in Block[n], o.blk = m.blk PROVE LookedAt(n, o.blk)'
    <3>1. ~ IsQuorum(N, Commits(n, m.blk))
      BY <1>2, <2>6 DEF NothingOverlooked
    <3>2. Commits(n, m.blk)' = Commits(n, m.blk)
      BY <2>2 DEF Commits
    <3> QED
      BY <2>3, <2>4, <2>6, <3>1, <3>2 DEF LookedAt
  <2> QED
    BY <2>1, <2>5, <2>6 DEF NothingOverlooked, LookedAt
<1> QED
  BY <1>1, <1>4, <1>5

\* BlockCommitChan: a commit is counted only when it completes no quorum, or
\* when the block is not there yet.
LEMMA CommitLooks ==
  ASSUME PbftInv, NothingOverlooked, NEW n \in Up, ReceiveBlockCommit(n)
  PROVE  NothingOverlooked'
<1>1. PICK pk \in commits : \E left :
        LET m     == pk.msg
            votes == Commits(n, m.blk) \cup {m.from}
            ready == (\E o \in Block[n] : o.blk = m.blk) /\ IsQuorum(N, votes)
        IN  \/ ExecuteCommitted(n, m.blk, votes, ProposalsCache[n], blockChan[n], net, left)
            \/ /\ ~ ready
               /\ BlockCommitMsg' = [BlockCommitMsg EXCEPT ![n] = @ \cup {<<m.blk, m.from>>}]
               /\ UNCHANGED <<nodeVars, PrepareSent>>
            \/ UNCHANGED <<nodeVars, PrepareSent, BlockCommitMsg>>
  BY DEF ReceiveBlockCommit
<1> DEFINE m     == pk.msg
           votes == Commits(n, m.blk) \cup {m.from}
           ready == (\E o \in Block[n] : o.blk = m.blk) /\ IsQuorum(N, votes)
<1>2. n \in Node /\ m.from \in Node /\ BlockCommitMsg \in [Node -> SUBSET (BlockId \X Node)]
  BY NodeType, CommitFields DEF PbftInv, PbftTypeOK, CommitTypeOK
<1>3. ASSUME NEW left,
             ExecuteCommitted(n, m.blk, votes, ProposalsCache[n], blockChan[n], net, left)
      PROVE  NothingOverlooked'
  BY <1>2, <1>3, ExecuteCommittedLooks
<1>4. CASE UNCHANGED <<nodeVars, PrepareSent, BlockCommitMsg>>
  <2>1. KeepsVotes
    BY <1>4 DEF KeepsVotes, nodeVars
  <2> QED
    BY <2>1, KeepsVotesLooks
<1>5. CASE /\ ~ ready
           /\ BlockCommitMsg' = [BlockCommitMsg EXCEPT ![n] = @ \cup {<<m.blk, m.from>>}]
           /\ UNCHANGED <<nodeVars, PrepareSent>>
  <2>1. UNCHANGED <<Block, BlockPrepareMsg, PrepareSent>>
    BY <1>5 DEF nodeVars
  <2>2. Commits(n, m.blk)' = votes
    BY <1>2, <1>5 DEF Commits
  <2>3. ASSUME NEW k \in Node, NEW o \in Block[k] PROVE LookedAt(k, o.blk)'
    <3>1. LookedAt(k, o.blk)
      BY DEF NothingOverlooked, LookedAt
    <3>2. CASE k = n /\ o.blk = m.blk
      <4>1. ~ IsQuorum(N, votes)
        BY <1>5, <3>2
      <4>2. Confirmations(k, o.blk)' = Confirmations(k, o.blk)
        BY <2>1 DEF Confirmations
      <4> QED
        BY <2>1, <2>2, <3>1, <3>2, <4>1, <4>2 DEF LookedAt
    <3>3. CASE ~ (k = n /\ o.blk = m.blk)
      <4>1. \A j \in Node : <<o.blk, j>> \in BlockCommitMsg'[k] => <<o.blk, j>> \in BlockCommitMsg[k]
        BY <1>2, <1>5, <3>3
      <4> QED
        BY <2>1, <3>1, <4>1, LookedAtStays
    <3> QED
      BY <3>2, <3>3
  <2> QED
    BY <2>1, <2>3 DEF NothingOverlooked, LookedAt
<1> QED
  BY <1>1, <1>3, <1>4, <1>5

LEMMA NothingOverlookedNext ==
  ASSUME PbftInv, NothingOverlooked, [PbftNext]_pbftVars
  PROVE  NothingOverlooked'
<1>1. ASSUME NEW n \in Up, PbftReceiveDataSyncResp(n) \/ ReceiveReply(n)
      PROVE  NothingOverlooked'
  <2>1. UNCHANGED <<Block, BlockPrepareMsg, commitVars>>
    BY <1>1 DEF PbftReceiveDataSyncResp, ReceiveReply, vars, nodeVars
  <2>2. KeepsVotes
    BY <2>1 DEF KeepsVotes, commitVars
  <2> QED
    BY <2>2, KeepsVotesLooks
<1>2. ASSUME Shared, UNCHANGED commitVars \/ \E n \in Up : PbftRestart(n)
      PROVE  NothingOverlooked'
  BY <1>2, SharedKeepsVotes, KeepsVotesLooks
<1>3. ASSUME NEW p \in Orders, PbftOrder(p) \/ PbftTimeout(p) PROVE NothingOverlooked'
  BY <1>2, <1>3 DEF PbftOrder, PbftTimeout, Shared
<1>4. ASSUME NEW n \in Up,
             \/ PbftReceiveProposal(n) \/ PbftReceiveDataSync(n) \/ PbftReceiveProposalConfirm(n)
             \/ PbftTick(n) \/ PbftInterrupt(n) \/ PbftViewRole(n)
      PROVE  NothingOverlooked'
  BY <1>2, <1>4
     DEF PbftReceiveProposal, PbftReceiveDataSync, PbftReceiveProposalConfirm, PbftTick,
         PbftInterrupt, PbftViewRole, Shared
<1>5. ASSUME NEW n \in Up, PbftRestart(n) PROVE NothingOverlooked'
  BY <1>2, <1>5 DEF PbftRestart, Shared
<1>6. CASE UNCHANGED pbftVars
  BY <1>2, <1>6 DEF pbftVars, Shared
<1> QED
  BY <1>1, <1>3, <1>4, <1>5, <1>6, ReceiveBlockLooks, ConfirmLooks, CommitLooks
     DEF PbftNext, PbftHandle

\* For every network size and course of events, restarts, repeated delivery and
\* changes of view included: no vote that came before its block is overlooked when
\* the block comes, and no quorum is completed without the step that is due.
THEOREM VotesNotOverlooked == PbftSpec => []NothingOverlooked
<1>1. PbftInit => NothingOverlooked
  BY DEF PbftInit, Init, NothingOverlooked
<1>2. PbftInv /\ NothingOverlooked /\ [PbftNext]_pbftVars => (PbftInv /\ NothingOverlooked)'
  BY PbftInvNext, NothingOverlookedNext
<1> QED
  BY <1>1, <1>2, PbftInitInv, PTL DEF PbftSpec

----------------------------------------------------------------------------
(* Forks.                                                                  *)

LEMMA QuorumOfCommits ==
  ASSUME PbftInv, NEW b \in BlockValidated, HasCommits(b)
  PROVE  IsQuorum(N, {k \in Node : b.blk \in committed[k]})
<1>1. b.sigs \in SUBSET Node /\ IsQuorum(N, b.sigs) /\ \A k \in b.sigs : b.blk \in committed[k]
  BY DEF HasCommits, BlockValidated
<1>2. b.sigs \subseteq {k \in Node : b.blk \in committed[k]}
  BY <1>1
<1> QED
  BY <1>1, <1>2, QuorumGrows

LEMMA CommittedConfirmed ==
  ASSUME PbftInv, NEW b \in BlockValidated, HasCommits(b)
  PROVE  Confirmed(b.blk)
<1>1. b.sigs \in SUBSET Node /\ IsQuorum(N, b.sigs) /\ \A k \in b.sigs : b.blk \in committed[k]
  BY DEF HasCommits, BlockValidated
<1>2. b.sigs # {}
  BY <1>1, QuorumNotEmpty
<1>3. PICK k \in Node : b.blk \in committed[k]
  BY <1>1, <1>2
<1> QED
  BY <1>3 DEF PbftInv, CommitsFollowConfirms, Confirmed

LEMMA CommittedForks ==
  ASSUME QuorumsMeet(N), PbftInv
  PROVE  ForkNeedsDoubleVote
<1> SUFFICES ASSUME NEW n \in Node, NEW k \in Node,
                    NEW b \in ledger[n].db, NEW c \in ledger[k].db,
                    Height(b.blk) = Height(c.blk), b.blk # c.blk
             PROVE  \E v \in Node : {b.blk, c.blk} \subseteq signed[v]
  BY DEF ForkNeedsDoubleVote
<1>1. b \in BlockValidated /\ c \in BlockValidated
  BY DEF PbftInv, PbftTypeOK, TypeOK, LedgerType
<1>2. b.blk # Genesis /\ c.blk # Genesis
  <2>1. b.blk \in Seq(Entry) /\ c.blk \in Seq(Entry)
    BY <1>1 DEF BlockValidated, BlockId
  <2>2. \A s \in Seq(Entry) : Len(s) = 0 <=> s = << >>
    BY EmptySeq
  <2> QED
    BY <2>1, <2>2 DEF Genesis, Height
<1>3. HasCommits(b) /\ HasCommits(c)
  BY <1>2 DEF PbftInv, CommitCertified
<1> DEFINE Q == {v \in Node : b.blk \in signed[v]}
           R == {v \in Node : c.blk \in signed[v]}
<1>4. IsQuorum(N, Q) /\ IsQuorum(N, R)
  BY <1>1, <1>3, CommittedConfirmed DEF Confirmed
<1>5. Q \cap R # {}
  <2>1. Q \in SUBSET Node /\ R \in SUBSET Node
    OBVIOUS
  <2> HIDE DEF Q, R
  <2> QED
    BY <1>4, <2>1, QuorumsIntersect
<1> QED
  BY <1>5

\* The third phase of PBFT buys no agreement by itself: in a network whose
\* quorums meet, two different blocks of one height are stored only when one
\* node confirmed both, as in MyBFT.  Neither ValidateBlock nor the commit asks
\* for one vote per height.
THEOREM PbftForksNeedDoubleVotes == QuorumsMeet(N) => (PbftSpec => []ForkNeedsDoubleVote)
<1> SUFFICES ASSUME QuorumsMeet(N) PROVE PbftSpec => []ForkNeedsDoubleVote
  OBVIOUS
<1>1. PbftInv => ForkNeedsDoubleVote
  BY CommittedForks
<1> QED
  BY <1>1, PbftInitInv, PbftInvNext, PTL DEF PbftSpec

----------------------------------------------------------------------------
(* Both phases as CertChain.                                               *)

LEMMA CommitPhaseStep ==
  ASSUME PbftInv, PbftStep
  PROVE  Commit!Next \/ UNCHANGED <<committed, StoredBlocks>>
<1>1. TypeOK /\ committed \in [Node -> SUBSET BlockId]
  BY DEF PbftInv, PbftTypeOK, CommitTypeOK
<1>2. ASSUME NEW n \in Up, NEW b \in CommitCertificates, Executed(n, b)
      PROVE  Commit!Next \/ UNCHANGED <<committed, StoredBlocks>>
  <2>1. \E packets, cache, chan : ExecuteBlock(n, b, cache, chan, packets)
    BY <1>2 DEF Executed, PbftExecuteBlock
  <2>2. n \in Node /\ b \in BlockValidated /\ HasCommits(b) /\ UNCHANGED committed
    BY <1>2, NodeType DEF Executed, CommitCertificates
  <2>3. Commit!Certified(b.blk)
    BY <2>2, QuorumOfCommits DEF Commit!Certified, Quorum
  <2>4. \/ UNCHANGED StoredBlocks
        \/ /\ StoredBlocks' = [StoredBlocks EXCEPT ![n] = @ \cup {b.blk}]
           /\ b.blk \in StoredBlocks'[n]
    BY <1>1, <2>1, <2>2, ExecuteBlockStores
  <2> QED
    BY <2>2, <2>3, <2>4 DEF Commit!Next, Commit!Store
<1>3. ASSUME Speaks PROVE Commit!Next \/ UNCHANGED <<committed, StoredBlocks>>
  <2>1. UNCHANGED StoredBlocks
    BY <1>3 DEF Speaks, StoredBlocks
  <2>2. ASSUME NEW n \in Node, NEW blk, committed' = [committed EXCEPT ![n] = @ \cup {blk}]
        PROVE  Commit!Next
    <3>1. blk \in committed'[n]
      BY <1>1, <2>2
    <3> QED
      BY <2>1, <2>2, <3>1 DEF Commit!Next, Commit!Vote
  <2> QED
    BY <1>3, <2>1, <2>2 DEF Speaks
<1>4. ASSUME Shares PROVE Commit!Next \/ UNCHANGED <<committed, StoredBlocks>>
  <2>1. UNCHANGED StoredBlocks \/ GivesUp
    BY <1>1, <1>4, SharedGivesUp DEF Shares
  <2> QED
    BY <1>4, <2>1 DEF Shares, GivesUp, Commit!Next, Commit!Revoke, Commit!Wipe
<1> QED
  BY <1>2, <1>3, <1>4 DEF PbftStep

LEMMA ConfirmPhaseStep ==
  ASSUME PbftInv, PbftStep
  PROVE  Confirm!Next \/ UNCHANGED <<signed, committed>>
<1>1. /\ TypeOK /\ committed \in [Node -> SUBSET BlockId] /\ signed \in [Node -> SUBSET BlockId]
  BY DEF PbftInv, PbftTypeOK, CommitTypeOK, TypeOK, HistoryTypeOK
<1>2. ASSUME Shares PROVE UNCHANGED <<signed, committed>>
  BY <1>1, <1>2, SharedKeepsBlocks DEF Shares, KeepsBlocks
<1>3. ASSUME NEW n \in Node, NEW blk, UNCHANGED committed,
             signed' = [signed EXCEPT ![n] = @ \cup {blk}]
      PROVE  Confirm!Next
  <2>1. blk \in signed'[n]
    BY <1>1, <1>3
  <2> QED
    BY <1>3, <2>1 DEF Confirm!Next, Confirm!Vote
<1>4. ASSUME NEW n \in Node, NEW blk, Confirmed(blk), UNCHANGED signed,
             committed' = [committed EXCEPT ![n] = @ \cup {blk}]
      PROVE  Confirm!Next
  <2>1. blk \in committed'[n] /\ Confirm!Certified(blk)
    BY <1>1, <1>4 DEF Confirmed, Confirm!Certified, Quorum
  <2> QED
    BY <1>4, <2>1 DEF Confirm!Next, Confirm!Store
<1> QED
  BY <1>2, <1>3, <1>4 DEF PbftStep, Executed, Speaks

LEMMA PbftInitSeen == PbftInit => Commit!Init /\ Confirm!Init
<1> SUFFICES ASSUME PbftInit PROVE Commit!Init /\ Confirm!Init
  OBVIOUS
<1>1. PbftInv
  BY PbftInitInv
<1>2. DOMAIN signed = Node /\ DOMAIN committed = Node /\ DOMAIN StoredBlocks = Node
  BY <1>1 DEF PbftInv, PbftTypeOK, CommitTypeOK, TypeOK, HistoryTypeOK, StoredBlocks
<1>3. ASSUME NEW n \in Node, NEW blk \in StoredBlocks[n] PROVE Commit!Certified(blk)
  <2>1. PICK b \in ledger[n].db : b.blk = blk /\ blk # Genesis
    BY DEF StoredBlocks
  <2>2. b \in BlockValidated /\ HasCommits(b)
    BY <1>1, <2>1 DEF PbftInv, PbftTypeOK, TypeOK, LedgerType, CommitCertified
  <2> QED
    BY <1>1, <2>1, <2>2, QuorumOfCommits DEF Commit!Certified, Quorum
<1>4. ASSUME NEW n \in Node, NEW blk \in committed[n] PROVE Confirm!Certified(blk)
  BY <1>1 DEF PbftInv, CommitsFollowConfirms, Confirm!Certified, Quorum
<1> QED
  BY <1>2, <1>3, <1>4 DEF Commit!Init, Commit!AllCertified, Confirm!Init, Confirm!AllCertified

\* PBFT implements CertChain twice, for every network size and course of events:
\* no step stores a block that lacked a quorum of commits when the step began, or
\* commits to a block that lacked a quorum of confirmations, and no step does two
\* of these things.
THEOREM PbftImplementsBothPhases == PbftSpec => ImplementsBothPhases
<1>1. PbftInv /\ [PbftNext]_pbftVars => [Commit!Next]_<<committed, StoredBlocks>>
  BY PbftStepKinds, CommitPhaseStep
<1>2. PbftInv /\ [PbftNext]_pbftVars => [Confirm!Next]_<<signed, committed>>
  BY PbftStepKinds, ConfirmPhaseStep
<1> QED
  BY <1>1, <1>2, PbftInitSeen, PbftInitInv, PbftInvNext, PTL
     DEF PbftSpec, ImplementsBothPhases, Commit!Spec, Confirm!Spec

----------------------------------------------------------------------------
(* Replies, in a network whose nodes agreed on a view.                     *)

\* The nodes that have stored a block with p.
Holders(p) == {k \in Node : \E b \in ledger[k].db : InSeq(p, ProposalsOf(b.blk))}

\* A reply that is counted, or on its way, comes from a node that holds the
\* proposal: the inductive form of AnsweredMeansStored.
RepliesStored ==
  /\ \A r \in replies : r.from \in Holders(r.proposal)
  /\ \A p \in Proposal : Replies[p] \subseteq Holders(p)

ReplyInv == PbftInv /\ ViewInv /\ RepliesStored /\ AnsweredMeansStored

\* No step of PBFT takes a network out of the view its nodes were elected into.
LEMMA PbftViewInvNext ==
  ASSUME PbftInv, ViewInv, PbftStep, PbftTypeOK'
  PROVE  ViewInv'
<1>1. ASSUME NEW n \in Up, NEW b \in CommitCertificates, Executed(n, b) PROVE ViewInv'
  <2>1. PICK packets \in SUBSET net : \E cache, chan : ExecuteBlock(n, b, cache, chan, packets)
    BY <1>1 DEF Executed, PbftExecuteBlock
  <2>2. \A pk \in net' : pk \in net \/ pk.msg.type # "NewView"
    BY <2>1, ExecuteBlockSends
  <2> QED
    BY <1>1, <2>2, QuietStep DEF Executed, ViewInv, PbftTypeOK
<1>2. ASSUME Speaks PROVE ViewInv'
  <2>1. UNCHANGED View /\ \A pk \in net' : pk \in net \/ pk.msg.type # "NewView"
    BY <1>2 DEF Speaks
  <2> QED
    BY <2>1, QuietStep DEF ViewInv, PbftTypeOK
<1>3. ASSUME Shares PROVE ViewInv'
  BY <1>3, ViewInvNext DEF Shares, Shared, Next, Handle
<1> QED
  BY <1>1, <1>2, <1>3 DEF PbftStep

\* Without view changes and wiped disks, a shared step stores and drops nothing.
LEMMA SharedKeepsStored ==
  ASSUME OneView, ViewInv, ~ RestartWipes, Shared
  PROVE  UNCHANGED StoredBlocks
<1>1. TypeOK /\ ledger \in [Node -> LedgerType]
  BY DEF ViewInv, TypeOK
<1>2. ASSUME NEW n \in Up,
             \/ ReceiveDataSync(n) \/ ReceiveProposalConfirm(n) \/ ReceiveViewChange(n)
             \/ ReceiveNewView(n) \/ Interrupt(n) \/ Tick(n) \/ Restart(n)
      PROVE  UNCHANGED ledger
  <2>1. n \in Node
    BY NodeType
  <2>2. ReceiveNewView(n) => UNCHANGED ledger
    BY <2>1, NewViewIgnored
  <2>3. Restart(n) => UNCHANGED ledger
    BY <1>1, <2>1 DEF Restart
  <2> QED
    BY <1>2, <2>2, <2>3
       DEF ReceiveDataSync, ReceiveProposalConfirm, ReceiveViewChange, Interrupt, Tick
<1>3. CASE UNCHANGED vars
  BY <1>3, SameStored DEF vars
<1> QED
  BY <1>1, <1>2, <1>3, LookupStored, SameStored DEF Shared

LEMMA HoldersGrow ==
  ASSUME OneView, ReplyInv, ~ RestartWipes, PbftStep, NEW p
  PROVE  Holders(p) \subseteq Holders(p)'
<1>1. TypeOK /\ ViewInv
  BY DEF ReplyInv, ViewInv
<1>2. \A k \in Node : StoredBlocks[k] \subseteq StoredBlocks'[k]
  <2>1. DOMAIN StoredBlocks = Node
    BY DEF StoredBlocks
  <2>2. ASSUME NEW n \in Up, NEW b \in CommitCertificates, Executed(n, b)
        PROVE  \A k \in Node : StoredBlocks[k] \subseteq StoredBlocks'[k]
    <3>1. \E packets, cache, chan : ExecuteBlock(n, b, cache, chan, packets)
      BY <2>2 DEF Executed, PbftExecuteBlock
    <3>2. n \in Node /\ b \in BlockValidated
      BY NodeType DEF CommitCertificates
    <3>3. UNCHANGED StoredBlocks \/ StoredBlocks' = [StoredBlocks EXCEPT ![n] = @ \cup {b.blk}]
      BY <1>1, <3>1, <3>2, ExecuteBlockStores
    <3> QED
      BY <2>1, <3>2, <3>3
  <2>3. Speaks => UNCHANGED StoredBlocks
    BY DEF Speaks, StoredBlocks
  <2>4. Shares => UNCHANGED StoredBlocks
    BY <1>1, SharedKeepsStored DEF Shares
  <2> QED
    BY <2>2, <2>3, <2>4 DEF PbftStep
<1>3. ASSUME NEW k \in Node, NEW b \in ledger[k].db, InSeq(p, ProposalsOf(b.blk))
      PROVE  \E c \in ledger'[k].db : InSeq(p, ProposalsOf(c.blk))
  <2>1. b.blk # Genesis
    BY <1>3 DEF ProposalsOf, InSeq
  <2>2. b.blk \in StoredBlocks'[k]
    BY <1>2, <2>1 DEF StoredBlocks
  <2>3. \E c \in ledger'[k].db : c.blk = b.blk
    BY <2>2 DEF StoredBlocks
  <2> QED
    BY <1>3, <2>3
<1> QED
  BY <1>3 DEF Holders

\* A node that reports a proposal has just stored it.
LEMMA ReportedIsStored ==
  ASSUME TypeOK, NEW n \in Node, NEW b \in BlockValidated, NEW cache, NEW chan, NEW packets,
         PbftExecuteBlock(n, b, cache, chan, packets), NEW r \in replies'
  PROVE  r \in replies \/ r.from \in Holders(r.proposal)'
<1> DEFINE due == Due(Enqueue(Blocks[n], b), Height(ledger[n].tip) + 1)
<1>1. /\ ExecuteBlock(n, b, cache, chan, packets)
      /\ r \in replies \/
           /\ TipStored(ledger[n]) /\ due # {}
           /\ \E p : r = [proposal |-> p, from |-> n] /\ InSeq(p, ProposalsOf(b.blk))
  BY DEF PbftExecuteBlock
<1>2. ASSUME TipStored(ledger[n]), due # {} PROVE \E c \in ledger'[n].db : c.blk = b.blk
  <2>1. ledger' = [ledger EXCEPT ![n] = AddBlock(ledger[n], b)]
    BY <1>1, <1>2 DEF ExecuteBlock
  <2>2. ledger'[n] = AddBlock(ledger[n], b)
    BY <2>1 DEF TypeOK
  <2> QED
    BY <2>2 DEF AddBlock, Stored
<1> HIDE DEF due
<1> QED
  BY <1>1, <1>2 DEF Holders

LEMMA RepliesStoredNext ==
  ASSUME OneView, ReplyInv, ~ RestartWipes, PbftStep
  PROVE  RepliesStored'
<1>1. TypeOK /\ ProposerTypeOK /\ RepliesStored
  BY DEF ReplyInv, ViewInv, PbftInv, PbftTypeOK
<1>2. \A p : Holders(p) \subseteq Holders(p)'
  BY HoldersGrow
<1>3. ASSUME NEW n \in Up, NEW b \in CommitCertificates, Executed(n, b) PROVE RepliesStored'
  <2>1. PICK packets, cache, chan : PbftExecuteBlock(n, b, cache, chan, packets)
    BY <1>3 DEF Executed
  <2>2. n \in Node /\ b \in BlockValidated
    BY NodeType DEF CommitCertificates
  <2>3. \A r \in replies' : r \in replies \/ r.from \in Holders(r.proposal)'
    BY <1>1, <2>1, <2>2, ReportedIsStored
  <2>4. UNCHANGED Replies
    BY <2>1 DEF PbftExecuteBlock
  <2> QED
    BY <1>1, <1>2, <2>3, <2>4 DEF RepliesStored
<1>4. ASSUME NEW n, ReceiveReply(n) PROVE RepliesStored'
  <2>1. PICK r \in replies :
          /\ replies' = replies \ {r}
          /\ \/ UNCHANGED Replies
             \/ Replies' = [Replies EXCEPT ![r.proposal] = {}]
             \/ Replies' = [Replies EXCEPT ![r.proposal] = @ \cup {r.from}]
    BY <1>4 DEF ReceiveReply
  <2>2. r.from \in Holders(r.proposal) /\ r.proposal \in Proposal
    BY <1>1 DEF RepliesStored, ProposerTypeOK
  <2>3. \A p \in Proposal : Replies'[p] \subseteq Holders(p)
    BY <1>1, <2>1, <2>2 DEF RepliesStored, ProposerTypeOK
  <2> QED
    BY <1>1, <1>2, <2>1, <2>3 DEF RepliesStored
<1>5. ASSUME UNCHANGED proposerVars PROVE RepliesStored'
  BY <1>1, <1>2, <1>5 DEF RepliesStored, proposerVars
<1>6. ASSUME Shares PROVE RepliesStored'
  BY <1>1, <1>2, <1>6 DEF RepliesStored, Shares
<1> QED
  BY <1>3, <1>4, <1>5, <1>6 DEF PbftStep, Speaks

LEMMA AnsweredMeansStoredNext ==
  ASSUME OneView, ReplyInv, ~ RestartWipes, PbftStep
  PROVE  AnsweredMeansStored'
<1>1. ProposerTypeOK /\ RepliesStored /\ \A p \in answered : IsQuorum(N, Holders(p))
  BY DEF ReplyInv, PbftInv, PbftTypeOK, AnsweredMeansStored, Holders
<1>2. \A p \in answered' : IsQuorum(N, Holders(p))
  <2>1. ASSUME NEW n, ReceiveReply(n) PROVE \A p \in answered' : IsQuorum(N, Holders(p))
    <3>1. PICK r \in replies :
            \/ UNCHANGED answered
            \/ /\ Enough(Replies[r.proposal] \cup {r.from})
               /\ answered' = answered \cup {r.proposal}
      BY <2>1 DEF ReceiveReply
    <3> DEFINE from == Replies[r.proposal] \cup {r.from}
    <3>2. from \subseteq Holders(r.proposal) /\ Holders(r.proposal) \in SUBSET Node
      BY <1>1 DEF RepliesStored, ProposerTypeOK, Holders
    <3>3. Enough(from) => IsQuorum(N, from)
      BY DEF Enough, IsQuorum
    <3> HIDE DEF from
    <3>4. Enough(from) => IsQuorum(N, Holders(r.proposal))
      BY <3>2, <3>3, QuorumGrows
    <3> QED
      BY <1>1, <3>1, <3>4 DEF from
  <2>2. UNCHANGED answered => \A p \in answered' : IsQuorum(N, Holders(p))
    BY <1>1
  <2> QED
    BY <2>1, <2>2 DEF PbftStep, Executed, PbftExecuteBlock, Speaks, Shares, proposerVars
<1>3. ASSUME NEW p \in answered' PROVE IsQuorum(N, Holders(p)')
  <2>1. Holders(p) \subseteq Holders(p)' /\ Holders(p) \in SUBSET Node /\ Holders(p)' \in SUBSET Node
    BY HoldersGrow DEF Holders
  <2> QED
    BY <1>2, <2>1, QuorumGrows
<1> QED
  BY <1>3 DEF AnsweredMeansStored, Holders

LEMMA ReplyInvInit == PbftInit => ReplyInv
<1> SUFFICES ASSUME PbftInit PROVE ReplyInv
  OBVIOUS
<1>1. PbftInv /\ ViewInv
  BY PbftInitInv, ViewInvInit DEF PbftInit
<1> QED
  BY <1>1 DEF ReplyInv, PbftInit, RepliesStored, AnsweredMeansStored

LEMMA ReplyInvNext ==
  ASSUME OneView, ~ RestartWipes, ReplyInv, [PbftNext]_pbftVars
  PROVE  ReplyInv'
<1>1. PbftInv /\ ViewInv
  BY DEF ReplyInv
<1>2. PbftTypeOK' /\ PbftStep
  BY <1>1, PbftStepKinds
<1> QED
  BY <1>1, <1>2, PbftInvNext, PbftViewInvNext, RepliesStoredNext, AnsweredMeansStoredNext
     DEF ReplyInv

\* Where the election gave every node the same view and a restart keeps the
\* disk: when a client is told that its proposal was executed, a quorum of nodes
\* has stored it, and has it still.  A revoked block or a wiped disk would make
\* the answer untrue afterwards.
THEOREM AnswersAreKept ==
  OneView /\ ~ RestartWipes => (PbftSpec => []AnsweredMeansStored)
<1> SUFFICES ASSUME OneView, ~ RestartWipes PROVE PbftSpec => []AnsweredMeansStored
  OBVIOUS
<1>1. ReplyInv /\ [PbftNext]_pbftVars => ReplyInv'
  BY ReplyInvNext
<1>2. ReplyInv => AnsweredMeansStored
  BY DEF ReplyInv
<1> QED
  BY <1>1, <1>2, ReplyInvInit, PTL DEF PbftSpec

----------------------------------------------------------------------------
(* PBFT under one view: its steps are those of MyBftOneView, so what is     *)
(* proved there of the queues, the pool and the chain holds here too.       *)

LEMMA CommittedBlocks ==
  ASSUME PbftInv
  PROVE  CommitCertificates \subseteq ConfirmedBlocks
BY CommittedConfirmed DEF CommitCertificates, ConfirmedBlocks

LEMMA CommittedStored == PbftInv => StoredConfirmed
BY CommittedConfirmed
   DEF StoredConfirmed, PbftInv, CommitCertified, PbftTypeOK, TypeOK, LedgerType

LEMMA StepOfExecuteCommitted ==
  ASSUME PbftInv, NEW n \in Up, NEW blk, NEW votes,
         [blk |-> blk, sigs |-> votes] \in CommitCertificates,
         NEW cache, NEW chan, NEW packets \in SUBSET net, NEW left,
         \/ cache = ProposalsCache[n]
         \/ \E m \in BlockMessage : cache = ModifyProposalState(ProposalsCache[n], <<m>>),
         ChanLeft(n, chan),
         ExecuteCommitted(n, blk, votes, cache, chan, packets, left),
         \/ \E m \in BlockMessage : Arrived(n, m) /\ Acceptable(n, m) /\ blk = m.blk
         \/ \E o \in Block[n] : blk = o.blk,
         UNCHANGED <<viewVars, clientVars>>
  PROVE  Step
<1> DEFINE b == [blk |-> blk, sigs |-> votes]
<1>1. b \in ConfirmedBlocks /\ b.blk = blk
  BY CommittedBlocks
<1>2. /\ ExecuteBlock(n, b, cache, chan, packets)
      /\ Block' = [Block EXCEPT ![n] = {o \in @ : o.blk # blk}]
      /\ UNCHANGED <<signed, View, ordered>>
  BY DEF ExecuteCommitted, PbftExecuteBlock, viewVars, clientVars
<1> HIDE DEF b
<1>3. Warranted(n, b)
  BY <1>1 DEF Warranted
<1>4. Executes(n, b)
  BY <1>1, <1>2, <1>3 DEF Executes
<1> QED
  BY <1>1, <1>4 DEF Step

\* A block message is executed, taken with or without a confirmation of one's
\* own, kept for later, or ignored.
LEMMA StepOfPbftBlock ==
  ASSUME PbftInv, NEW n \in Up, NEW m \in BlockMessage, Arrived(n, m),
         NEW chan, ChanLeft(n, chan), NEW packets \in SUBSET net,
         \/ PbftProcessBlockMessage(n, m, chan, packets)
         \/ IgnoreBlock(n, chan, packets) /\ UNCHANGED <<commitVars, proposerVars>>,
         UNCHANGED <<viewVars, clientVars>>
  PROVE  Step
<1>1. n \in Node /\ m.blk \in BlockId /\ UNCHANGED <<View, ordered>>
  BY NodeType, BlockMessageFields DEF viewVars, clientVars
<1>2. CASE IgnoreBlock(n, chan, packets)
  <2>1. /\ UNCHANGED <<ledger, ProposalsCache, Blocks, BlockMessages, Block, leaderVars, history>>
        /\ blockChan' = [blockChan EXCEPT ![n] = chan] /\ net' \subseteq net
    BY <1>2 DEF IgnoreBlock
  <2> QED
    BY <1>1, <2>1 DEF Step, Idles, LookedUp, leaderVars
<1>3. CASE Ahead(n, m) /\ DeferBlock(n, m, chan, packets)
  BY <1>1, <1>3 DEF Step, Defers
<1>4. CASE /\ TipStored(ledger[n]) /\ Acceptable(n, m)
           /\ VoteForBlock(n, m, chan, packets) \/ CommitAtOnce(n, m, chan, packets)
  <2>1. \A pk \in net' : pk \in net \/ pk.msg.type = "BlockConfirm"
    BY <1>1, <1>4, VoteSends DEF VoteForBlock, CommitAtOnce, BlockConfirmMsg
  <2>2. Takes(n, m)
    BY <1>1, <1>4, <2>1 DEF Takes, VoteForBlock, CommitAtOnce, history
  <2> QED
    BY <2>2 DEF Step
<1>5. CASE /\ Acceptable(n, m) /\ IsQuorum(N, Commits(n, m.blk))
           /\ ExecuteCommitted(n, m.blk, Commits(n, m.blk),
                ModifyProposalState(ProposalsCache[n], <<m>>), chan, packets, commits)
  <2>1. [blk |-> m.blk, sigs |-> Commits(n, m.blk)] \in CommitCertificates
    BY <1>1, <1>5, CountedCommitted
  <2>2. \E o \in BlockMessage : Arrived(n, o) /\ Acceptable(n, o) /\ m.blk = o.blk
    BY <1>5
  <2>3. PICK cache : cache = ModifyProposalState(ProposalsCache[n], <<m>>)
    OBVIOUS
  <2> QED
    BY <1>5, <2>1, <2>2, <2>3, StepOfExecuteCommitted
<1> QED
  BY <1>2, <1>3, <1>4, <1>5 DEF PbftProcessBlockMessage

LEMMA StepOfPbftReceiveBlock ==
  ASSUME PbftInv, NEW n \in Up, PbftReceiveBlock(n) \/ PbftReceiveDeferredBlock(n)
  PROVE  Step
<1>1. n \in Node /\ blockChan[n] \in Seq(BlockMessage) /\ TypeOK
  BY NodeType DEF PbftInv, PbftTypeOK, TypeOK, NodeTypeOK
<1>2. CASE PbftReceiveBlock(n)
  <2>1. PICK pk \in Inbox(n, "Block") : \E packets \in Handled(pk) :
          /\ \/ PbftProcessBlockMessage(n, pk.msg, blockChan[n], packets)
             \/ IgnoreBlock(n, blockChan[n], packets) /\ UNCHANGED <<commitVars, proposerVars>>
          /\ UNCHANGED <<viewVars, clientVars>>
    BY <1>2 DEF PbftReceiveBlock
  <2>2. PICK packets \in Handled(pk) :
          /\ \/ PbftProcessBlockMessage(n, pk.msg, blockChan[n], packets)
             \/ IgnoreBlock(n, blockChan[n], packets) /\ UNCHANGED <<commitVars, proposerVars>>
          /\ UNCHANGED <<viewVars, clientVars>>
    BY <2>1
  <2>3. /\ pk \in net /\ pk.msg.type = "Block" /\ pk.msg \in BlockMessage
        /\ packets \in SUBSET net
    BY <1>1, InboxType, MessageFields
  <2>4. Arrived(n, pk.msg) /\ ChanLeft(n, blockChan[n])
    BY <2>3 DEF Arrived, ChanLeft
  <2> QED
    BY <2>2, <2>3, <2>4, StepOfPbftBlock, Zenon
<1>3. CASE PbftReceiveDeferredBlock(n)
  <2>1. blockChan[n] # << >> /\ Head(blockChan[n]) \in BlockMessage
    BY <1>1, <1>3, HeadTailProperties DEF PbftReceiveDeferredBlock
  <2>2. Arrived(n, Head(blockChan[n])) /\ ChanLeft(n, Tail(blockChan[n]))
    BY <2>1 DEF Arrived, ChanLeft
  <2> QED
    BY <1>3, <2>1, <2>2, StepOfPbftBlock DEF PbftReceiveDeferredBlock
<1> QED
  BY <1>2, <1>3

\* Confirmations are counted, and may make the node send a commit.
LEMMA StepOfPbftReceiveBlockConfirm ==
  ASSUME NEW n \in Up, PbftReceiveBlockConfirm(n)
  PROVE  Step
<1>1. PICK pk \in Inbox(n, "BlockConfirm") : \E packets \in Handled(pk) :
        /\ net' = packets
        /\ \/ UNCHANGED <<ledger, nodeVars, leaderVars, history>>
           \/ CountConfirm(n, pk.msg.blk, pk.msg.from, packets)
        /\ UNCHANGED <<viewVars, clientVars>>
  BY DEF PbftReceiveBlockConfirm, CountConfirm
<1>2. /\ UNCHANGED <<ledger, ProposalsCache, Blocks, BlockMessages, Block, blockChan,
                     leaderVars, viewVars, clientVars, history>>
      /\ net' \subseteq net
  BY <1>1, HandledType DEF CountConfirm, nodeVars
<1> QED
  BY <1>2 DEF Step, Idles, LookedUp, leaderVars, viewVars, clientVars

\* Commits are counted, and the one that completes a quorum executes the block.
LEMMA StepOfReceiveBlockCommit ==
  ASSUME PbftInv, NEW n \in Up, ReceiveBlockCommit(n)
  PROVE  Step
<1>1. PICK pk \in commits : \E left \in SUBSET commits :
        LET m     == pk.msg
            votes == Commits(n, m.blk) \cup {m.from}
        IN  /\ \/ /\ \E o \in Block[n] : o.blk = m.blk
                  /\ IsQuorum(N, votes)
                  /\ ExecuteCommitted(n, m.blk, votes, ProposalsCache[n], blockChan[n], net, left)
               \/ UNCHANGED <<ledger, nodeVars, leaderVars, net, history>>
            /\ UNCHANGED <<viewVars, clientVars>>
  BY DEF ReceiveBlockCommit
<1> DEFINE m     == pk.msg
           votes == Commits(n, m.blk) \cup {m.from}
<1>2. PICK left \in SUBSET commits :
        /\ \/ /\ \E o \in Block[n] : o.blk = m.blk
              /\ IsQuorum(N, votes)
              /\ ExecuteCommitted(n, m.blk, votes, ProposalsCache[n], blockChan[n], net, left)
           \/ UNCHANGED <<ledger, nodeVars, leaderVars, net, history>>
        /\ UNCHANGED <<viewVars, clientVars>>
  BY <1>1
<1>3. CASE UNCHANGED <<ledger, nodeVars, leaderVars, net, history>>
  BY <1>2, <1>3 DEF Step, Idles, LookedUp, nodeVars, leaderVars, viewVars, clientVars
<1>4. CASE /\ \E o \in Block[n] : o.blk = m.blk
           /\ IsQuorum(N, votes)
           /\ ExecuteCommitted(n, m.blk, votes, ProposalsCache[n], blockChan[n], net, left)
  <2>1. /\ n \in Node /\ m.from \in Node /\ m.blk \in BlockId /\ m.blk \in committed[m.from]
        /\ net \in SUBSET net
    BY NodeType, CommitFields DEF PbftInv, CommitsCast
  <2>2. [blk |-> m.blk, sigs |-> votes] \in CommitCertificates
    BY <1>4, <2>1, CountedCommitted
  <2>3. ChanLeft(n, blockChan[n]) /\ \E o \in Block[n] : m.blk = o.blk
    BY <1>4 DEF ChanLeft
  <2> HIDE DEF votes
  <2> QED
    BY <1>2, <1>4, <2>1, <2>2, <2>3, StepOfExecuteCommitted
<1> QED
  BY <1>2, <1>3, <1>4

LEMMA StepOfPbftReceiveDataSyncResp ==
  ASSUME PbftInv, NEW n \in Up, PbftReceiveDataSyncResp(n)
  PROVE  Step
<1>1. PICK pk \in Inbox(n, "DataSyncResp") : \E packets \in Handled(pk) :
        /\ ExecuteBlock(n, pk.msg.block, ProposalsCache[n], blockChan[n], packets)
        /\ UNCHANGED <<Block, signed, viewVars, clientVars>>
  BY DEF PbftReceiveDataSyncResp, PbftExecuteBlock
<1>2. pk \in net /\ pk.msg.type = "DataSyncResp" /\ pk.msg.block \in BlockValidated
  BY InboxMessage, MessageFields DEF PbftInv, PbftTypeOK
<1>3. pk.msg.block \in ConfirmedBlocks
  BY <1>2, CommittedBlocks DEF PbftInv, CommitCertified, CommitCertificates
<1> QED
  BY <1>1, <1>3, StepOfDataSyncResp

OneViewInv == PbftInv /\ ViewInv

LEMMA OneViewInvInit == PbftInit => OneViewInv
BY PbftInitInv, ViewInvInit DEF OneViewInv, PbftInit

\* Under one view, every step of PBFT is one of those of Step.
LEMMA OneViewInvNext ==
  ASSUME OneView, OneViewInv, [PbftNext]_pbftVars
  PROVE  Step /\ OneViewInv' /\ ViewInv' /\ StoredConfirmed'
<1> PbftInv /\ ViewInv
  BY DEF OneViewInv
<1>1. PbftInv' /\ ViewInv'
  BY PbftInvNext, PbftStepKinds, PbftViewInvNext
<1>2. StoredConfirmed'
  BY <1>1, CommittedStored, PTL
<1>3. ASSUME NEW n \in Up, ReceiveReply(n) PROVE Shared
  BY <1>3 DEF ReceiveReply, Shared
<1>4. \/ Shared
      \/ \E n \in Up : \/ PbftReceiveBlock(n) \/ PbftReceiveDeferredBlock(n)
                       \/ PbftReceiveBlockConfirm(n) \/ ReceiveBlockCommit(n)
                       \/ PbftReceiveDataSyncResp(n)
  <2>1. ASSUME NEW p \in Orders, PbftOrder(p) \/ PbftTimeout(p) PROVE Shared
    BY <2>1 DEF PbftOrder, PbftTimeout, Shared
  <2>2. ASSUME NEW n \in Up,
               \/ PbftReceiveProposal(n) \/ PbftReceiveDataSync(n) \/ PbftReceiveProposalConfirm(n)
               \/ PbftTick(n) \/ PbftInterrupt(n) \/ PbftViewRole(n) \/ PbftRestart(n)
        PROVE  Shared
    BY <2>2 DEF PbftReceiveProposal, PbftReceiveDataSync, PbftReceiveProposalConfirm, PbftTick,
                PbftInterrupt, PbftViewRole, PbftRestart, Shared
  <2>3. CASE UNCHANGED pbftVars
    BY <2>3 DEF pbftVars, Shared
  <2> QED
    BY <1>3, <2>1, <2>2, <2>3 DEF PbftNext, PbftHandle
<1> QED
  BY <1>1, <1>2, <1>4, StepOfShared, StepOfPbftReceiveBlock, StepOfPbftReceiveBlockConfirm,
     StepOfReceiveBlockCommit, StepOfPbftReceiveDataSyncResp DEF OneViewInv

\* A block message or a block that waits in a node's queue waits for another
\* one, under PBFT as under MyBFT: what a quorum of commits executes goes through
\* the same queues.
THEOREM PbftNothingIsStranded == OneView => (PbftSpec => []NothingStranded)
<1> SUFFICES ASSUME OneView PROVE PbftSpec => []NothingStranded
  OBVIOUS
<1> DEFINE Inv == OneViewInv /\ QueuesWait
<1>1. PbftInit => Inv
  BY OneViewInvInit DEF PbftInit, Init, QueuesWait, Waits, Ascends
<1>2. Inv /\ [PbftNext]_pbftVars => Inv'
  BY OneViewInvNext, QueuesWaitNext DEF OneViewInv, ViewInv
<1>3. Inv => NothingStranded
  BY QueuesWaitMeans DEF OneViewInv, ViewInv
<1> QED
  BY <1>1, <1>2, <1>3, PTL DEF PbftSpec

\* Where a restart keeps the disk, the predecessor of a stored block is stored
\* by a quorum, although a node may commit to a block, and execute it, without
\* having confirmed it.
THEOREM PbftParentsAreHeld == OneView /\ ~ RestartWipes => (PbftSpec => []ParentHeldByQuorum)
<1> SUFFICES ASSUME OneView, ~ RestartWipes PROVE PbftSpec => []ParentHeldByQuorum
  OBVIOUS
<1> DEFINE Inv == OneViewInv /\ VotersHoldParent
<1>1. PbftInit => Inv
  BY OneViewInvInit, VotersHoldParentInit DEF PbftInit
<1>2. Inv /\ [PbftNext]_pbftVars => Inv'
  BY OneViewInvNext, VotersHoldParentNext DEF OneViewInv, ViewInv
<1>3. Inv => ParentHeldByQuorum
  BY CommittedStored, VotersGiveQuorum DEF OneViewInv
<1> QED
  BY <1>1, <1>2, <1>3, PTL DEF PbftSpec

\* No proposal is put into two blocks, however often it is delivered and
\* whichever node restarts.
THEOREM PbftMinesOnce == OneView => (PbftSpec => []MinedOnce)
<1> SUFFICES ASSUME OneView PROVE PbftSpec => []MinedOnce
  OBVIOUS
<1> DEFINE Inv == OneViewInv /\ MinedInv
<1>1. PbftInit => Inv
  BY OneViewInvInit, MinedInvInit DEF PbftInit
<1>2. Inv /\ [PbftNext]_pbftVars => Inv'
  BY OneViewInvNext, MinedInvNext DEF OneViewInv
<1>3. Inv => MinedOnce
  BY DEF MinedInv
<1> QED
  BY <1>1, <1>2, <1>3, PTL DEF PbftSpec

\* The leader that is not disturbed puts out one block per height: BlockConfirm
\* is set by what it executes, so it waits for a quorum of commits, too.
THEOREM PbftLeaderKeepsTurn == OneView => (PbftSpec /\ Undisturbed => []OneBlockPerHeight)
<1> SUFFICES ASSUME OneView PROVE PbftSpec /\ Undisturbed => []OneBlockPerHeight
  OBVIOUS
<1>1. PbftInit => OneViewInv /\ ChainInv
  BY OneViewInvInit, ChainInvInit DEF PbftInit
<1>2. OneViewInv /\ ChainInv /\ [PbftNext]_pbftVars /\ [UndisturbedStep]_vars
        => (OneViewInv /\ ChainInv)'
  BY OneViewInvNext, ChainInvNext
<1>3. ChainInv => OneBlockPerHeight
  BY DEF ChainInv, LeadInv, MinedInTurn
<1> QED
  BY <1>1, <1>2, <1>3, PTL DEF PbftSpec, Undisturbed

\* BlockConfirm tells that leader that every block it mined was committed to and
\* executed.
THEOREM PbftConfirmIsExecuted == OneView => (PbftSpec /\ Undisturbed => []ConfirmMeansExecuted)
<1> SUFFICES ASSUME OneView PROVE PbftSpec /\ Undisturbed => []ConfirmMeansExecuted
  OBVIOUS
<1>1. PbftInit => OneViewInv /\ ChainInv
  BY OneViewInvInit, ChainInvInit DEF PbftInit
<1>2. OneViewInv /\ ChainInv /\ [PbftNext]_pbftVars /\ [UndisturbedStep]_vars
        => (OneViewInv /\ ChainInv)'
  BY OneViewInvNext, ChainInvNext
<1>3. ChainInv => ConfirmMeansExecuted
  BY ConfirmsExecuted
<1> QED
  BY <1>1, <1>2, <1>3, PTL DEF PbftSpec, Undisturbed

\* Where the leader is not disturbed and the disks hold one chain, a quorum
\* confirms, and so commits to, at most one block of each height...
THEOREM PbftOneBlockConfirmed ==
  OneView /\ DisksOnOneChain => (PbftSpec /\ Undisturbed => []OneCertificate)
<1> SUFFICES ASSUME OneView, DisksOnOneChain PROVE PbftSpec /\ Undisturbed => []OneCertificate
  OBVIOUS
<1> DEFINE Inv == OneViewInv /\ ChainInv /\ VotesMined
<1>1. PbftInit => Inv
  BY OneViewInvInit, ChainInvInit, VotesMinedInit DEF PbftInit
<1>2. Inv /\ [PbftNext]_pbftVars /\ [UndisturbedStep]_vars => Inv'
  BY OneViewInvNext, ChainInvNext, VotesMinedNext DEF ChainInv, ViewInv
<1>3. Inv => OneCertificate
  BY VotesAgree
<1> QED
  BY <1>1, <1>2, <1>3, PTL DEF PbftSpec, Undisturbed

\* ...and all nodes store the same block at every height.
THEOREM PbftNodesAgree ==
  OneView /\ DisksOnOneChain => (PbftSpec /\ Undisturbed => []Agreement)
<1> SUFFICES ASSUME OneView, DisksOnOneChain PROVE PbftSpec /\ Undisturbed => []Agreement
  OBVIOUS
<1>1. PbftInit => PbftInv
  BY PbftInitInv
<1>2. PbftInv /\ [PbftNext]_pbftVars => PbftInv'
  BY PbftInvNext
<1>3. PbftInv /\ OneCertificate => Agreement
  BY CommittedStored, CertificatesAgree DEF PbftInv, PbftTypeOK
<1>4. PbftSpec /\ Undisturbed => []OneCertificate
  BY PbftOneBlockConfirmed
<1> QED
  BY <1>1, <1>2, <1>3, <1>4, PTL DEF PbftSpec

\* What else PBFT keeps where no two blocks of one height are confirmed.
LEMMA PbftPathNext ==
  ASSUME OneView, OneViewInv, PathInv, OneCertificate, [PbftNext]_pbftVars
  PROVE  Step /\ OneViewInv' /\ ViewInv' /\ PathInv'
BY OneViewInvNext, PathInvNext

\* Where no two blocks of one height are confirmed, no node's chain ever has a
\* hole, in whichever order commits and data sync answers are executed.
THEOREM PbftChainsUnbroken == OneView => (PbftSpec /\ []OneCertificate => []ChainUnbroken)
<1> SUFFICES ASSUME OneView PROVE PbftSpec /\ []OneCertificate => []ChainUnbroken
  OBVIOUS
<1>1. PbftInit => OneViewInv /\ PathInv
  BY OneViewInvInit, PathInvInit DEF PbftInit
<1>2. OneViewInv /\ PathInv /\ OneCertificate /\ [PbftNext]_pbftVars => (OneViewInv /\ PathInv)'
  BY PbftPathNext
<1>3. PathInv => ChainUnbroken
  BY DEF PathInv
<1> QED
  BY <1>1, <1>2, <1>3, PTL DEF PbftSpec

\* There, and where a restart keeps the disk, a node that replied to the
\* proposer has the proposal on its chain from then on: the replies that make up
\* an answer to the client name chains that hold the proposal.
THEOREM PbftRepliesOnChain ==
  OneView /\ ~ RestartWipes => (PbftSpec /\ []OneCertificate => []ReplyMeansOnChain)
<1> SUFFICES ASSUME OneView, ~ RestartWipes
             PROVE  PbftSpec /\ []OneCertificate => []ReplyMeansOnChain
  OBVIOUS
<1> DEFINE Inv == OneViewInv /\ PathInv /\ ReplyMeansOnChain
<1>1. PbftInit => Inv
  BY OneViewInvInit, PathInvInit DEF PbftInit, Init, ReplyMeansOnChain
<1>2. Inv /\ OneCertificate /\ [PbftNext]_pbftVars => Inv'
  BY PbftPathNext, ReplyMeansNext
<1>3. Inv => ReplyMeansOnChain
  OBVIOUS
<1> QED
  BY <1>1, <1>2, <1>3, PTL DEF PbftSpec

\* There, what GetZoneName answers from its cache is what a walk over the chain
\* would find.
THEOREM PbftCachesCoherent == OneView => (PbftSpec /\ []OneCertificate => []CacheCoherent)
<1> SUFFICES ASSUME OneView PROVE PbftSpec /\ []OneCertificate => []CacheCoherent
  OBVIOUS
<1> DEFINE Inv == OneViewInv /\ PathInv /\ CacheCoherent
<1>1. PbftInit => Inv
  BY OneViewInvInit, PathInvInit DEF PbftInit, Init, LoadedLedger, CacheCoherent
<1>2. Inv /\ OneCertificate /\ [PbftNext]_pbftVars => Inv'
  BY PbftPathNext, CacheCoherentNext
<1>3. Inv => CacheCoherent
  OBVIOUS
<1> QED
  BY <1>1, <1>2, <1>3, PTL DEF PbftSpec

\* With a leader that is not disturbed and disks that hold one chain, no further
\* condition is left: the chain of every node is unbroken and its cache coherent.
THEOREM PbftUndisturbedChain ==
  OneView /\ DisksOnOneChain => (PbftSpec /\ Undisturbed => [](ChainUnbroken /\ CacheCoherent))
<1> SUFFICES ASSUME OneView, DisksOnOneChain
             PROVE  PbftSpec /\ Undisturbed => [](ChainUnbroken /\ CacheCoherent)
  OBVIOUS
<1>1. PbftSpec /\ Undisturbed => []OneCertificate
  BY PbftOneBlockConfirmed
<1>2. PbftSpec /\ []OneCertificate => []ChainUnbroken
  BY PbftChainsUnbroken
<1>3. PbftSpec /\ []OneCertificate => []CacheCoherent
  BY PbftCachesCoherent
<1> QED
  BY <1>1, <1>2, <1>3, PTL

=============================================================================
