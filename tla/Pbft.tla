-------------------------------- MODULE Pbft --------------------------------
(***************************************************************************)
(* The PBFT consensus of BCDns (Mode = PBFT) and the proposer role.        *)
(*                                                                         *)
(* consensusPBFT is consensusMy with a third phase: a node that holds a    *)
(* block and a quorum of confirmations broadcasts a commit, and a block is *)
(* executed on a quorum of commits.  The state and the operators of MyBft  *)
(* are those of the code the two packages share word for word; this module *)
(* adds the commit phase, and what both packages do with the replies that  *)
(* come back to the node a proposal was ordered at.                        *)
(***************************************************************************)
EXTENDS MyBft

VARIABLES
  PrepareSent,    \* the blocks the node has sent a commit for
  BlockCommitMsg, \* <<block, node>> for every commit received
  commits,        \* packets [to, msg] with commits that are not handled yet
  committed,      \* history: the blocks a node's commits name
  Outstanding,    \* the proposals whose proposer still waits for replies
  Replies,        \* the nodes a proposal's replies came from
  replies,        \* replies [proposal, from] on their way to the proposer
  answered        \* history: proposals reported as executed successfully

commitVars   == <<PrepareSent, BlockCommitMsg, commits, committed>>
proposerVars == <<Outstanding, Replies, replies, answered>>
pbftVars     == <<vars, commitVars, proposerVars>>

----------------------------------------------------------------------------
(* Proposer role.                                                          *)

\* handleOrder: the order starts a timer and an empty list of replies.
PbftOrder(p) ==
  /\ Order(p)
  /\ Outstanding' = Outstanding \cup {p}
  /\ Replies' = [Replies EXCEPT ![p] = {}]
  /\ UNCHANGED <<commitVars, replies, answered>>

\* timer: nothing happens when the proposal has been answered meanwhile.
PbftTimeout(p) ==
  /\ p \in Outstanding
  /\ ProposalTimeout(p)
  /\ UNCHANGED <<commitVars, proposerVars>>

\* ProposalReplyChan: replies count once per sender; the one that completes a
\* quorum answers the client and stops the timer.
FirstReply(from) == from # {} \* mutant: does not wait for a quorum
Enough(from) == Check(N, Cardinality(from))

ReceiveReply(n) ==
  \E r \in {r \in replies : r.proposal.from = n} :
    LET p    == r.proposal
        from == Replies[p] \cup {r.from}
    IN  /\ replies' = replies \ {r}
        /\ \/ /\ p \in Outstanding /\ Enough(from)
              /\ answered' = answered \cup {p}
              /\ Outstanding' = Outstanding \ {p}
              /\ Replies' = [Replies EXCEPT ![p] = {}]
           \/ /\ p \in Outstanding /\ ~ Enough(from)
              /\ Replies' = [Replies EXCEPT ![p] = from]
              /\ UNCHANGED <<Outstanding, answered>>
           \/ /\ p \notin Outstanding
              /\ UNCHANGED <<Outstanding, Replies, answered>>
        /\ UNCHANGED <<vars, commitVars>>

----------------------------------------------------------------------------
(* Commit phase.                                                           *)

BlockCommitMessage(view, n, blk) ==
  [type |-> "BlockCommit", view |-> view, from |-> n, blk |-> blk]

\* The nodes n has commits of blk from.
CommitsAreConfirms(n, blk) == Confirmations(n, blk) \* mutant: the other map
Commits(n, blk) == {k \in Node : <<blk, k>> \in BlockCommitMsg[n]}

\* Broadcast a commit of blk, where sent is PrepareSent of n so far.
SendCommit(n, blk, sent) ==
  /\ \E packets \in ConfirmBroadcasts(n, BlockCommitMessage(View[n], n, blk)) :
       commits' = commits \cup packets
  /\ PrepareSent' = [PrepareSent EXCEPT ![n] = sent \cup {blk}]
  /\ committed' = [committed EXCEPT ![n] = @ \cup {blk}]
  /\ UNCHANGED BlockCommitMsg

\* ExecuteBlock with SendReply: every proposer of the block that is stored is
\* told; replies to a node that is down are lost.
PbftExecuteBlock(n, b, cache, chan, packets) ==
  LET due == Due(Enqueue(Blocks[n], b), Height(ledger[n].tip) + 1)
  IN  /\ ExecuteBlock(n, b, cache, chan, packets)
      /\ replies' = IF TipStored(ledger[n]) /\ due # {}
                    THEN replies \cup {[proposal |-> p, from |-> n] :
                           p \in {p \in replied'[n] : p.from \in Up /\ InSeq(p, ProposalsOf(b.blk))}}
                    ELSE replies
      /\ UNCHANGED <<Outstanding, Replies, answered>>

\* Execute blk with the commits of the given nodes and forget its votes.
ExecuteCommitted(n, blk, votes, cache, chan, packets, left) ==
  /\ PbftExecuteBlock(n, [blk |-> blk, sigs |-> votes], cache, chan, packets)
  /\ BlockCommitMsg' = [BlockCommitMsg EXCEPT ![n] = {c \in @ : c[1] # blk}]
  /\ BlockPrepareMsg' = [BlockPrepareMsg EXCEPT ![n] = {c \in @ : c[1] # blk}]
  /\ Block' = [Block EXCEPT ![n] = {o \in @ : o.blk # blk}]
  /\ commits' = left
  /\ UNCHANGED <<PrepareSent, committed, signed>>

\* The block came after its confirmations: commit to it without confirming it.
CommitAtOnce(n, m, chan, packets) ==
  /\ net' = packets
  /\ Block' = [Block EXCEPT ![n] = {o \in @ : o.blk # m.blk} \cup {m}]
  /\ ProposalsCache' = [ProposalsCache EXCEPT ![n] = ModifyProposalState(@, <<m>>)]
  /\ blockChan' = [blockChan EXCEPT ![n] = chan]
  /\ SendCommit(n, m.blk, PrepareSent[n])
  /\ UNCHANGED <<ledger, Blocks, BlockMessages, BlockPrepareMsg, leaderVars, history, proposerVars>>

\* ValidateBlock looks at the view here, also for a block kept for later.
PbftProcessBlockMessage(n, m, chan, packets) ==
  LET current   == m.view = View[n] /\ TipStored(ledger[n])
      valid     == current /\ ~ Ahead(n, m) /\ Acceptable(n, m)
      certified == IsQuorum(N, Commits(n, m.blk))
      prepared  == IsQuorum(N, Confirmations(n, m.blk)) /\ m.blk \notin PrepareSent[n]
  IN  \/ current /\ Ahead(n, m) /\ DeferBlock(n, m, chan, packets)
                 /\ UNCHANGED <<commitVars, proposerVars>>
      \/ valid /\ certified
               /\ ExecuteCommitted(n, m.blk, Commits(n, m.blk),
                    ModifyProposalState(ProposalsCache[n], <<m>>), chan, packets, commits)
      \/ valid /\ ~ certified /\ prepared /\ CommitAtOnce(n, m, chan, packets)
      \/ valid /\ ~ certified /\ ~ prepared /\ VoteForBlock(n, m, chan, packets)
               /\ UNCHANGED <<commitVars, proposerVars>>
      \/ ~ valid /\ ~ (current /\ Ahead(n, m)) /\ IgnoreBlock(n, chan, packets)
               /\ UNCHANGED <<commitVars, proposerVars>>

----------------------------------------------------------------------------
(* The cases of Run that differ from MyBft's.                              *)

PbftReceiveBlock(n) ==
  \E pk \in Inbox(n, "Block") : \E packets \in Handled(pk) :
    /\ \/ OnChange[n] /\ IgnoreBlock(n, blockChan[n], packets)
                      /\ UNCHANGED <<commitVars, proposerVars>>
       \/ ~ OnChange[n] /\ PbftProcessBlockMessage(n, pk.msg, blockChan[n], packets)
    /\ UNCHANGED <<viewVars, clientVars>>

PbftReceiveDeferredBlock(n) ==
  /\ blockChan[n] # << >>
  /\ PbftProcessBlockMessage(n, Head(blockChan[n]), Tail(blockChan[n]), net)
  /\ UNCHANGED <<viewVars, clientVars>>

\* BlockConfirmChan: the first confirmation of a block resets PrepareSent, the
\* one that completes a quorum sends a commit.
PbftReceiveBlockConfirm(n) ==
  \E pk \in Inbox(n, "BlockConfirm") : \E packets \in Handled(pk) :
    LET m     == pk.msg
        votes == Confirmations(n, m.blk) \cup {m.from}
        sent  == PrepareSent[n] \ (IF Confirmations(n, m.blk) = {} THEN {m.blk} ELSE {})
        ready == /\ \E o \in Block[n] : o.blk = m.blk
                 /\ IsQuorum(N, votes)
                 /\ m.blk \notin sent
    IN  /\ \/ /\ m.view # View[n]
              /\ net' = packets
              /\ UNCHANGED <<ledger, nodeVars, leaderVars, history, commitVars>>
           \/ /\ m.view = View[n]
              /\ CountConfirm(n, m.blk, m.from, packets)
              /\ \/ ready /\ SendCommit(n, m.blk, sent)
                 \/ /\ ~ ready
                    /\ PrepareSent' = [PrepareSent EXCEPT ![n] = sent]
                    /\ UNCHANGED <<BlockCommitMsg, commits, committed>>
        /\ UNCHANGED <<viewVars, clientVars, proposerVars>>

\* BlockCommitChan.  Commits are kept when a view ends.
ReceiveBlockCommit(n) ==
  \E pk \in {pk \in commits : pk.to = n} :
    \E left \in IF "BlockCommit" \in Redeliver THEN {commits, commits \ {pk}} ELSE {commits \ {pk}} :
      LET m     == pk.msg
          votes == Commits(n, m.blk) \cup {m.from}
          ready == (\E o \in Block[n] : o.blk = m.blk) /\ IsQuorum(N, votes)
      IN  /\ \/ /\ m.view = View[n] /\ ready
                /\ ExecuteCommitted(n, m.blk, votes, ProposalsCache[n], blockChan[n], net, left)
             \/ /\ m.view = View[n] /\ ~ ready
                /\ BlockCommitMsg' = [BlockCommitMsg EXCEPT ![n] = @ \cup {<<m.blk, m.from>>}]
                /\ commits' = left
                /\ UNCHANGED <<ledger, nodeVars, leaderVars, net, history, PrepareSent,
                               committed, proposerVars>>
             \/ /\ m.view # View[n]
                /\ commits' = left
                /\ UNCHANGED <<ledger, nodeVars, leaderVars, net, history, PrepareSent,
                               BlockCommitMsg, committed, proposerVars>>
          /\ UNCHANGED <<viewVars, clientVars>>

PbftReceiveDataSyncResp(n) ==
  \E pk \in Inbox(n, "DataSyncResp") : \E packets \in Handled(pk) :
    /\ PbftExecuteBlock(n, pk.msg.block, ProposalsCache[n], blockChan[n], packets)
    /\ UNCHANGED <<Block, BlockPrepareMsg, signed, viewVars, clientVars, commitVars>>

----------------------------------------------------------------------------
(* The cases the two packages share.                                       *)

PbftReceiveProposal(n) == ReceiveProposal(n) /\ UNCHANGED <<commitVars, proposerVars>>

PbftReceiveDataSync(n) == ReceiveDataSync(n) /\ UNCHANGED <<commitVars, proposerVars>>

PbftReceiveProposalConfirm(n) ==
  ReceiveProposalConfirm(n) /\ UNCHANGED <<commitVars, proposerVars>>

PbftTick(n) == Tick(n) /\ UNCHANGED <<commitVars, proposerVars>>

PbftInterrupt(n) == Interrupt(n) /\ UNCHANGED <<commitVars, proposerVars>>

\* ViewChangeChan and NewViewChan: neither clears PrepareSent or BlockCommitMsg.
PbftViewRole(n) ==
  /\ ReceiveViewChange(n) \/ ReceiveNewView(n)
  /\ UNCHANGED <<commitVars, proposerVars>>

\* With the process of n the orders placed at it are forgotten.
PbftRestart(n) ==
  /\ Restart(n)
  /\ PrepareSent' = [PrepareSent EXCEPT ![n] = {}]
  /\ BlockCommitMsg' = [BlockCommitMsg EXCEPT ![n] = {}]
  /\ commits' = {pk \in commits : pk.to # n}
  /\ Outstanding' = {p \in Outstanding : p.from # n}
  /\ Replies' = [p \in Proposal |-> IF p.from = n THEN {} ELSE Replies[p]]
  /\ replies' = {r \in replies : r.proposal.from # n}
  /\ UNCHANGED <<committed, answered>>

----------------------------------------------------------------------------

PbftInit ==
  /\ Init
  /\ PrepareSent = [n \in Node |-> {}]
  /\ BlockCommitMsg = [n \in Node |-> {}]
  /\ commits = {}
  /\ committed = signed
  /\ Outstanding = {}
  /\ Replies = [p \in Proposal |-> {}]
  /\ replies = {}
  /\ answered = {}

PbftHandle(n) ==
  \/ PbftReceiveProposal(n)
  \/ PbftReceiveBlock(n)
  \/ PbftReceiveDeferredBlock(n)
  \/ PbftReceiveBlockConfirm(n)
  \/ ReceiveBlockCommit(n)
  \/ PbftReceiveDataSync(n)
  \/ PbftReceiveDataSyncResp(n)
  \/ PbftReceiveProposalConfirm(n)
  \/ PbftInterrupt(n)
  \/ PbftViewRole(n)
  \/ ReceiveReply(n)

PbftNext ==
  \/ \E p \in Orders : PbftOrder(p) \/ PbftTimeout(p)
  \/ \E n \in Up : PbftHandle(n) \/ PbftTick(n) \/ PbftRestart(n)

PbftSpec == PbftInit /\ [][PbftNext]_pbftVars

----------------------------------------------------------------------------
(* Safety.                                                                 *)

\* b carries a quorum of commits, each of a node that sent one for b.
HasCommits(b) == IsQuorum(N, b.sigs) /\ \A k \in b.sigs : b.blk \in committed[k]

\* A block that is stored, waits to be executed or is handed out was committed
\* to by a quorum.  (Where a quorum has no vote to spare, the last commit comes
\* after the block; PbftProofs has the other orders, and the commits from before
\* a view change, which does not clear them.)
CommitCertified ==
  /\ \A n \in Node : /\ \A b \in ledger[n].db : b.blk # Genesis => HasCommits(b)
                     /\ \A i \in DOMAIN Blocks[n] : HasCommits(Blocks[n][i])
  /\ \A pk \in net : pk.msg.type = "DataSyncResp" => HasCommits(pk.msg.block)

\* A node commits only to a block that a quorum of nodes confirmed, although it
\* may commit without having confirmed the block itself.
CommitsFollowConfirms ==
  \A n \in Node : \A blk \in committed[n] : IsQuorum(N, {k \in Node : blk \in signed[k]})

\* A proposal the client is told of ("ProposalMsgT execute successfully") is in
\* a block that a quorum of nodes stored.
AnsweredMeansStored ==
  \A p \in answered :
    IsQuorum(N, {k \in Node : \E b \in ledger[k].db : InSeq(p, ProposalsOf(b.blk))})

\* Nothing is on its way and nobody has anything left to do.
Quiet ==
  /\ net = {} /\ commits = {} /\ replies = {}
  /\ \A n \in Up : blockChan[n] = << >> /\ ~ interrupt[n]

\* A node that holds a block has executed it as soon as it has a quorum's
\* commits, and has sent its commit as soon as it has a quorum's confirmations:
\* whether the votes came before the block or after it, and although the first
\* confirmation resets PrepareSent and a change of view does not.  Votes are
\* counted at two places, and the one that runs last must look at all of them.
NothingOverlooked ==
  \A n \in Node : \A o \in Block[n] :
    /\ ~ IsQuorum(N, Commits(n, o.blk))
    /\ IsQuorum(N, Confirmations(n, o.blk)) => o.blk \in PrepareSent[n]

\* A network of no more nodes than a quorum, in which each needs the votes of all,
\* comes to rest without a restart or an unfinished view change only with every
\* order answered: neither a vote that comes before its block nor a block that
\* waits for its predecessor is left behind.
RestMeansAnswered ==
  Quiet /\ restarts = 0 /\ (\A n \in Up : ~ OnChange[n]) => ordered \subseteq answered

----------------------------------------------------------------------------
(* Refinement.                                                             *)

Commit == INSTANCE CertChain WITH votes <- committed, stored <- StoredBlocks

Confirm == INSTANCE CertChain WITH votes <- signed, stored <- committed

\* PBFT implements CertChain in both of its phases: a node stores a block only
\* when a quorum had committed to it, and commits to a block only when a quorum
\* had confirmed it.
ImplementsBothPhases == Commit!Spec /\ Confirm!Spec
=============================================================================
