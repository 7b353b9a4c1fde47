------------------------------- MODULE MyBft -------------------------------
(***************************************************************************)
(* The MyBFT consensus of BCDns: one Run loop per node, which plays the    *)
(* node, leader and view roles.  Every case of the loop's select is an     *)
(* action; the goroutine that raises the leader's interrupt, the client's  *)
(* orders and timeouts, and the restart of a node are actions too.         *)
(*                                                                         *)
(* Assumed of the code around the loop: AddBlock returns (the maps of the  *)
(* zone index exist and somebody reads NewBlockChan), signatures are not   *)
(* forged, and the 1024-slot channels do not fill.                         *)
(***************************************************************************)
EXTENDS Ledger, BftQuorum

CONSTANTS
  N,            \* network size: the number of certificates
  Up,           \* the nodes that take part; the others never answer
  Byzantine,    \* nodes configured to withhold their confirmations
  Proposal,     \* the proposals there are
  InitView,     \* the view each node left the leader election with
  Disk,         \* the chain on each node's disk when the system starts
  DiskSigs,     \* the nodes whose signatures the blocks on disk carry
  BlockMaxSize, \* proposals per block (1 in the code)
  PoolTrigger,  \* pool size at which ExecuteBlock mines at once (200)
  Stamp,        \* distinguishable creation times of blocks
  Ticking,      \* bound: nodes whose 10 s interrupt goroutine runs
  Orders,       \* bound: the proposals clients order
  Listeners,    \* bound: nodes that the messages of proposers get through to
  Helpers,      \* bound: nodes that data sync requests get through to
  Timeouts,     \* bound: proposals whose proposer may time out
  MaxRestarts,  \* bound: number of node restarts
  RestartWipes, \* restarts go through start.sh, which deletes the databases
  Redeliver     \* bound: message types that arrive over both connections of a peer

Node == 0..(N - 1)

ASSUME NAssumption == N \in Nat \ {0}

ASSUME NodesAssumption ==
  /\ Up \subseteq Node
  /\ Ticking \subseteq Up
  /\ Listeners \subseteq Up
  /\ Helpers \subseteq Up
  /\ Byzantine \subseteq Node
  /\ InitView \in [Node -> Nat]
  /\ \A n \in Byzantine : InitView[n] % N # n

ASSUME BoundsAssumption ==
  /\ BlockMaxSize \in Nat \ {0}
  /\ PoolTrigger \in Nat \ {0}
  /\ MaxRestarts \in Nat
  /\ RestartWipes \in BOOLEAN

ASSUME ProposalAssumption ==
  /\ \A p \in Proposal : /\ p.from \in Node
                         /\ p.type \in {"Add", "Del", "Mod"}
                         /\ p.owner = OwnerOf(p.type, p.from)
  /\ Orders \subseteq Proposal
  /\ Timeouts \subseteq Orders

\* What a block consists of beyond its predecessor.
Entry == [ps : Seq(Proposal), stamp : Stamp]

BlockId == Seq(Entry)

\* blockChain.BlockValidated: a block with the signatures that confirm it.
BlockValidated == [blk : BlockId, sigs : SUBSET Node]

\* The chains on disk come from an earlier run of the same network: a quorum
\* signed them, and a signer had stored what its block builds on.
ASSUME DiskAssumption ==
  /\ Disk \in [Node -> BlockId]
  /\ DiskSigs \subseteq Node
  /\ IsQuorum(N, DiskSigs)
  /\ \A n \in Node : \A s \in DiskSigs, h \in 1..Height(Disk[n]) :
       /\ h - 1 <= Height(Disk[s])
       /\ Ancestor(Disk[s], h - 1) = Ancestor(Disk[n], h - 1)

VARIABLES
  ledger,          \* what the node has on disk
  ProposalsCache,  \* state of the proposals the node knows
  Blocks,          \* validated blocks waiting for a predecessor, by height
  BlockMessages,   \* block messages waiting for a predecessor, by height
  Block,           \* block messages voted for and not yet executed
  BlockPrepareMsg, \* <<block, node>> for every confirmation received
  blockChan,       \* block messages handed back to the Run loop
  MessagePool,     \* the leader's proposals that are in no block yet
  BlockConfirm,    \* the leader's last block was executed
  UnConfirmedH,    \* height of the leader's last block
  interrupt,       \* the interrupt goroutine waits for the Run loop
  OnChange,        \* a view change is going on
  View,            \* the view, which names the leader
  ViewChangeMsgs,  \* the view-change messages received, one per sender
  net,             \* packets [to, msg] sent and not yet handled
  ordered,         \* proposals broadcast by their proposer
  timedOut,        \* proposals whose proposer's timer is gone
  restarts,        \* number of restarts so far
  signed,          \* history: the blocks a node's confirmations name
  mined,           \* history: [by, blk] for every block a leader made
  replied          \* history: proposals whose execution a node reported

nodeVars   == <<ProposalsCache, Blocks, BlockMessages, Block, BlockPrepareMsg, blockChan>>
leaderVars == <<MessagePool, BlockConfirm, UnConfirmedH, interrupt>>
viewVars   == <<OnChange, View, ViewChangeMsgs>>
clientVars == <<ordered, timedOut, restarts>>
history    == <<signed, mined, replied>>
vars == <<ledger, nodeVars, leaderVars, viewVars, net, clientVars, history>>

----------------------------------------------------------------------------
(* Messages and the network.  A packet is handled once, or, when its type  *)
(* is in Redeliver, any number of times: two nodes that dial each other    *)
(* both list the other twice in Members and send everything twice.         *)
(* Packets may overtake each other, also those of one sender (each type    *)
(* has its own channel), and may stay unhandled for ever.                  *)

ProposalMsg(p) == [type |-> "Proposal", proposal |-> p]

BlockMsg(view, blk, abandoned) ==
  [type |-> "Block", view |-> view, blk |-> blk, abandoned |-> abandoned]

\* The zero BlockMessage (TimeStamp 0) of a node that has nothing pending.
NoBlockMsg == BlockMsg(0, Genesis, << >>)

BlockConfirmMsg(view, n, blk) ==
  [type |-> "BlockConfirm", view |-> view, from |-> n, blk |-> blk]

DataSyncMsg(n, h) == [type |-> "DataSync", from |-> n, height |-> h]

DataSyncRespMsg(b) == [type |-> "DataSyncResp", block |-> b]

ProposalConfirmMsg(p) == [type |-> "ProposalConfirm", proposal |-> p]

ViewChangeMsg(view, n, header, pending) ==
  [type |-> "ViewChange", view |-> view, from |-> n, header |-> header, pending |-> pending]

NewViewMsgNext(view, pending, senders) == \* mutant: names the view it announces
  [type |-> "NewView", view |-> view + 1, pending |-> pending, senders |-> senders]
NewViewMsg(view, pending, senders) ==
  [type |-> "NewView", view |-> view, pending |-> pending, senders |-> senders]

\* BroadCast reaches the sender too: every node dials itself.
BroadcastToOthers(msgs) == {pk \in [to : Up, msg : msgs] : pk.msg.type # "BlockConfirm" \/ pk.msg.from # pk.to} \* mutant
Broadcast(msgs) == [to : Up, msg : msgs]

\* A Byzantine node skips one member when it broadcasts a confirmation.
ConfirmBroadcasts(n, m) ==
  {Broadcast({m})} \cup
    (IF n \in Byzantine THEN {[to : Up \ {k}, msg : {m}] : k \in Node} ELSE {})

\* The packets that remain when pk is handled.
Handled(pk) == IF pk.msg.type \in Redeliver THEN {net, net \ {pk}} ELSE {net \ {pk}}

Inbox(n, type) == {pk \in net : pk.to = n /\ pk.msg.type = type}

----------------------------------------------------------------------------
(* The two queues of blocks that came before their predecessor: ascending  *)
(* heights, one element per height.                                        *)

\* EnqueueBlock and EnqueueBlockMessage.
Enqueue(q, x) ==
  LET below == Cardinality({i \in DOMAIN q : Height(q[i].blk) < Height(x.blk)})
  IN  IF \E i \in DOMAIN q : Height(q[i].blk) = Height(x.blk)
      THEN q
      ELSE SubSeq(q, 1, below) \o <<x>> \o SubSeq(q, below + 1, Len(q))

\* The loops of ExecuteBlock raise h with every element they pop, also with
\* one that is below h, and stop at the first element above it.
Popped(q, h) == {i \in DOMAIN q : \A j \in 1..i : Height(q[j].blk) <= h + j - 1}

\* Of those, the elements met at exactly the height the loop has come to...
DueFromAbove(q, h) == {i \in DOMAIN q : Height(q[i].blk) >= h} \* mutant: >= for =
Due(q, h) == {i \in Popped(q, h) : Height(q[i].blk) = h + i - 1}

\* ...and the ones found below it.
Overtaken(q, h) == Popped(q, h) \ Due(q, h)

\* What stays in the queue.
RestOfAll(q, h) == q \* mutant: the loop does not pop
Rest(q, h) == SubSeq(q, Cardinality(Popped(q, h)) + 1, Len(q))

----------------------------------------------------------------------------

IsLeader(n) == View[n] % N = n

IsNextLeader(n) == (View[n] + 1) % N = n

InSeq(p, s) == \E i \in DOMAIN s : s[i] = p

\* ModifyProposalState, for the messages ms one after the other: the last
\* message that names a proposal decides on it.
ModifyProposalState(cache, ms) ==
  [p \in Proposal |->
     LET names == {i \in DOMAIN ms : InSeq(p, ProposalsOf(ms[i].blk)) \/ InSeq(p, ms[i].abandoned)}
         last  == CHOOSE i \in names : \A j \in names : j <= i
     IN  IF names = {} THEN cache[p]
         ELSE IF InSeq(p, ProposalsOf(ms[last].blk)) THEN "keep" ELSE "drop"]

\* StartDataSync: ask everybody for the blocks of heights low to high.
StartDataSyncTooLow(n, low, high) == \* mutant: low - 2 wraps below zero
  [to : Helpers, msg : {DataSyncMsg(n, h) : h \in (low - 2)..high}]
StartDataSyncTooHigh(n, low, high) == \* mutant: < for <= at the lower end
  [to : Helpers, msg : {DataSyncMsg(n, h) : h \in (low + 1)..high}]
StartDataSync(n, low, high) == [to : Helpers, msg : {DataSyncMsg(n, h) : h \in low..high}]

----------------------------------------------------------------------------
(* Leader role.                                                            *)

\* The leader waits until its block is executed.
AwaitNothing(n, blk) == \* mutant: BlockConfirm is not reset
  /\ BlockConfirm' = [BlockConfirm EXCEPT ![n] = TRUE]
  /\ UnConfirmedH' = [UnConfirmedH EXCEPT ![n] = Height(blk)]
AwaitBlock(n, blk) ==
  /\ BlockConfirm' = [BlockConfirm EXCEPT ![n] = FALSE]
  /\ UnConfirmedH' = [UnConfirmedH EXCEPT ![n] = Height(blk)]

\* A block of node n with the first proposals of its pool on its latest block.
Mine(n, l, pool, packets) ==
  \E s \in Stamp :
    LET bound == IF Len(pool) < BlockMaxSize THEN Len(pool) ELSE BlockMaxSize
        batch == CheckProposals(SubSeq(pool, 1, bound))
        blk   == Append(l.tip, [ps |-> batch.valid, stamp |-> s])
    IN  /\ net' = packets \cup Broadcast({BlockMsg(View[n], blk, batch.abandoned)})
        /\ MessagePool' = [MessagePool EXCEPT ![n] = SubSeq(pool, bound + 1, Len(pool))]
        /\ AwaitBlock(n, blk)
        /\ mined' = mined \cup {[by |-> n, blk |-> blk]}

NoMine(n, pool, confirm, packets) ==
  /\ net' = packets
  /\ MessagePool' = [MessagePool EXCEPT ![n] = pool]
  /\ BlockConfirm' = [BlockConfirm EXCEPT ![n] = confirm]
  /\ UNCHANGED <<UnConfirmedH, mined>>

\* ProposalChan: the pool is full and no block of the leader is on its way.
MineAtOnceAlways(n, pool) == IsLeader(n) /\ Len(pool) >= BlockMaxSize \* mutant: no BlockConfirm
MineAtOnce(n, pool) == IsLeader(n) /\ BlockConfirm[n] /\ Len(pool) >= BlockMaxSize

CanMine(n, l, pool) == IsLeader(n) /\ pool # << >> /\ TipStored(l)

\* generateBlock of node n with ledger l, the given pool and BlockConfirm.
\* It does not look at BlockConfirm itself.
GenerateBlock(n, l, pool, confirm, packets) ==
  \/ CanMine(n, l, pool) /\ Mine(n, l, pool, packets)
  \/ ~ CanMine(n, l, pool) /\ NoMine(n, pool, confirm, packets)

----------------------------------------------------------------------------
(* ExecuteBlock(b): b joins the queue of blocks and the queue is worked    *)
(* off.  The loop over the queue stores and reports b itself whenever it   *)
(* meets an element of the next height, whichever element that is.  Then   *)
(* the block messages waiting for the heights passed go back to the Run    *)
(* loop, and a leader past its last block may mine again.  cache and chan  *)
(* are ProposalsCache and blockChan of n as the caller leaves them.        *)
ExecuteBlock(n, b, cache, chan, packets) ==
  LET l     == ledger[n]
      queue == Enqueue(Blocks[n], b)
      h     == Height(l.tip) + 1
      met   == Due(queue, h) # {}
      after == IF met THEN AddBlock(l, b) ELSE l
      next  == h + Cardinality(Popped(queue, h))
      msgs  == BlockMessages[n]
      ready == Pick(msgs, Due(msgs, next))
      over  == Pick(msgs, Overtaken(msgs, next))
      mayMine == IsLeader(n) /\ next > UnConfirmedH[n]
  IN  IF ~ TipStored(l)
      THEN /\ ProposalsCache' = [ProposalsCache EXCEPT ![n] = cache]
           /\ blockChan' = [blockChan EXCEPT ![n] = chan]
           /\ NoMine(n, MessagePool[n], BlockConfirm[n], packets)
           /\ UNCHANGED <<ledger, Blocks, BlockMessages, interrupt, replied>>
      ELSE /\ ledger' = [ledger EXCEPT ![n] = after]
           /\ Blocks' = [Blocks EXCEPT ![n] = Rest(queue, h)]
           /\ replied' = [replied EXCEPT ![n] =
                IF met THEN @ \cup {ProposalsOf(b.blk)[i] : i \in DOMAIN ProposalsOf(b.blk)}
                ELSE @]
           /\ BlockMessages' = [BlockMessages EXCEPT ![n] = Rest(msgs, next)]
           /\ blockChan' = [blockChan EXCEPT ![n] = chan \o ready]
           /\ ProposalsCache' = [ProposalsCache EXCEPT ![n] = ModifyProposalState(cache, over)]
           /\ IF mayMine /\ Len(MessagePool[n]) >= PoolTrigger
              THEN \* BlockConfirm is TRUE until the block is out: the interrupt
                   \* goroutine, which takes no lock, may catch it.
                   /\ GenerateBlock(n, after, MessagePool[n], TRUE, packets)
                   /\ \/ UNCHANGED interrupt
                      \/ n \in Ticking /\ interrupt' = [interrupt EXCEPT ![n] = TRUE]
              ELSE /\ NoMine(n, MessagePool[n], mayMine \/ BlockConfirm[n], packets)
                   /\ UNCHANGED interrupt

----------------------------------------------------------------------------
(* Node role: ValidateBlock and ProcessBlockMessage.                       *)

\* The block is more than one above the latest one.
Ahead(n, m) == Height(ledger[n].tip) < Height(m.blk) - 1

\* The block extends the latest one and holds what its leader may put in it.
\* The view of the message is not looked at.
Acceptable(n, m) ==
  /\ PrevBlock(m.blk) = ledger[n].tip
  /\ ValidateProposals(ProposalsOf(m.blk), m.abandoned)

\* The nodes n has confirmations of blk from.
ConfirmationsOfAny(n, blk) == {k \in Node : \E c \in BlockPrepareMsg[n] : c[2] = k} \* mutant: not by block
Confirmations(n, blk) == {k \in Node : <<blk, k>> \in BlockPrepareMsg[n]}

\* Drop the message m; chan is blockChan of n without m.
IgnoreBlock(n, chan, packets) ==
  /\ net' = packets
  /\ blockChan' = [blockChan EXCEPT ![n] = chan]
  /\ UNCHANGED <<ledger, ProposalsCache, Blocks, BlockMessages, Block, BlockPrepareMsg,
                 leaderVars, history>>

\* Ask for the missing blocks and keep m for later.
DeferBlock(n, m, chan, packets) ==
  /\ net' = packets \cup StartDataSync(n, Height(ledger[n].tip) + 1, Height(m.blk) - 1)
  /\ blockChan' = [blockChan EXCEPT ![n] = chan]
  /\ BlockMessages' = [BlockMessages EXCEPT ![n] = Enqueue(@, m)]
  /\ UNCHANGED <<ledger, ProposalsCache, Blocks, Block, BlockPrepareMsg, leaderVars, history>>

\* Confirm m to everybody.
VoteForBlockOwn(n, m, chan, packets) == \* mutant: counts its own vote instead of sending it to itself
  /\ net' = packets \cup [to : Up \ {n}, msg : {BlockConfirmMsg(View[n], n, m.blk)}]
  /\ BlockPrepareMsg' = [BlockPrepareMsg EXCEPT ![n] = @ \cup {<<m.blk, n>>}]
  /\ signed' = [signed EXCEPT ![n] = @ \cup {m.blk}]
  /\ Block' = [Block EXCEPT ![n] = {o \in @ : o.blk # m.blk} \cup {m}]
  /\ ProposalsCache' = [ProposalsCache EXCEPT ![n] = ModifyProposalState(@, <<m>>)]
  /\ blockChan' = [blockChan EXCEPT ![n] = chan]
  /\ UNCHANGED <<ledger, Blocks, BlockMessages, leaderVars, mined, replied>>
VoteForBlock(n, m, chan, packets) ==
  /\ \E sent \in ConfirmBroadcasts(n, BlockConfirmMsg(View[n], n, m.blk)) :
       net' = packets \cup sent
  /\ signed' = [signed EXCEPT ![n] = @ \cup {m.blk}]
  /\ Block' = [Block EXCEPT ![n] = {o \in @ : o.blk # m.blk} \cup {m}]
  /\ ProposalsCache' = [ProposalsCache EXCEPT ![n] = ModifyProposalState(@, <<m>>)]
  /\ blockChan' = [blockChan EXCEPT ![n] = chan]
  /\ UNCHANGED <<ledger, Blocks, BlockMessages, BlockPrepareMsg, leaderVars, mined, replied>>

\* Execute m at once: a quorum confirmed it before it arrived.
ExecuteConfirmed(n, m, chan, packets) ==
  /\ ExecuteBlock(n, [blk |-> m.blk, sigs |-> Confirmations(n, m.blk)],
                  ModifyProposalState(ProposalsCache[n], <<m>>), chan, packets)
  /\ Block' = [Block EXCEPT ![n] = {o \in @ : o.blk # m.blk}]
  /\ BlockPrepareMsg' = [BlockPrepareMsg EXCEPT ![n] = {c \in @ : c[1] # m.blk}]
  /\ UNCHANGED signed

ProcessBlockMessage(n, m, chan, packets) ==
  LET valid == TipStored(ledger[n]) /\ ~ Ahead(n, m) /\ Acceptable(n, m)
      known == IsQuorum(N, Confirmations(n, m.blk))
  IN  \/ TipStored(ledger[n]) /\ Ahead(n, m) /\ DeferBlock(n, m, chan, packets)
      \/ valid /\ known /\ ExecuteConfirmed(n, m, chan, packets)
      \/ valid /\ ~ known /\ VoteForBlock(n, m, chan, packets)
      \/ /\ ~ valid
         /\ ~ (TipStored(ledger[n]) /\ Ahead(n, m))
         /\ IgnoreBlock(n, chan, packets)

----------------------------------------------------------------------------
(* Clients.                                                                *)

\* handleOrder and NewProposal: the proposer broadcasts p.  A Mod needs a
\* known zone; the answer of the lookup stays cached.
Order(p) ==
  LET l == ledger[p.from]
  IN  /\ p.from \in Up
      /\ p \notin ordered
      /\ p.type = "Mod" => ZoneReadable(l, p.zone) /\ GetZoneName(l, p.zone) # {}
      /\ ordered' = ordered \cup {p}
      /\ net' = net \cup [to : Listeners, msg : {ProposalMsg(p)}]
      /\ ledger' = [ledger EXCEPT ![p.from] = IF p.type = "Mod" THEN WithLookup(@, p.zone) ELSE @]
      /\ UNCHANGED <<nodeVars, leaderVars, viewVars, timedOut, restarts, history>>

\* timer: no quorum of replies arrived in time.  It fires once.
ProposalTimeout(p) ==
  /\ p \in Timeouts \cap ordered
  /\ p \notin timedOut
  /\ timedOut' = timedOut \cup {p}
  /\ net' = net \cup [to : Listeners, msg : {ProposalConfirmMsg(p)}]
  /\ UNCHANGED <<ledger, nodeVars, leaderVars, viewVars, ordered, restarts, history>>

----------------------------------------------------------------------------
(* The cases of Run.                                                       *)

\* The node has not come across p in this view.
NotInPool(n, p) == ~ InSeq(p, MessagePool[n]) \* mutant: forgets what is in a block
Fresh(n, p) == ProposalsCache[n][p] = "unknown"

\* ProposalChan: a proposal that is known or not admissible...
IgnoreProposal(n, p, packets) ==
  /\ net' = packets
  /\ ledger' = [ledger EXCEPT ![n] =
       IF Fresh(n, p) THEN WithLookup(@, p.zone) ELSE @]
  /\ UNCHANGED <<nodeVars, leaderVars, history>>

\* ...and a new one, which the leader also puts into its pool.
AcceptProposal(n, p, packets) ==
  LET l    == WithLookup(ledger[n], p.zone)
      pool == IF IsLeader(n) THEN Append(MessagePool[n], p) ELSE MessagePool[n]
  IN  /\ ledger' = [ledger EXCEPT ![n] = l]
      /\ ProposalsCache' = [ProposalsCache EXCEPT ![n][p] = "unreceived"]
      /\ IF MineAtOnce(n, pool)
         THEN GenerateBlock(n, l, pool, BlockConfirm[n], packets)
         ELSE NoMine(n, pool, BlockConfirm[n], packets)
      /\ UNCHANGED <<Blocks, BlockMessages, Block, BlockPrepareMsg, blockChan, interrupt,
                     signed, replied>>

ReceiveProposal(n) ==
  \E pk \in Inbox(n, "Proposal") : \E packets \in Handled(pk) :
    LET p     == pk.msg.proposal
        admit == /\ Fresh(n, p)
                 /\ ZoneReadable(ledger[n], p.zone)
                 /\ Admissible(p, GetZoneName(ledger[n], p.zone))
    IN  /\ \/ admit /\ AcceptProposal(n, p, packets)
           \/ ~ admit /\ IgnoreProposal(n, p, packets)
        /\ UNCHANGED <<viewVars, clientVars>>

\* BlockChan: dropped during a view change.
ReceiveBlock(n) ==
  \E pk \in Inbox(n, "Block") : \E packets \in Handled(pk) :
    /\ \/ OnChange[n] /\ IgnoreBlock(n, blockChan[n], packets)
       \/ ~ OnChange[n] /\ ProcessBlockMessage(n, pk.msg, blockChan[n], packets)
    /\ UNCHANGED <<viewVars, clientVars>>

\* blockChan: a deferred block message; OnChange is not looked at.
ReceiveDeferredBlock(n) ==
  /\ blockChan[n] # << >>
  /\ ProcessBlockMessage(n, Head(blockChan[n]), Tail(blockChan[n]), net)
  /\ UNCHANGED <<viewVars, clientVars>>

\* BlockConfirmChan, for a confirmation that completes a quorum...
ExecuteOnQuorum(n, blk, votes, packets) ==
  /\ ExecuteBlock(n, [blk |-> blk, sigs |-> votes], ProposalsCache[n], blockChan[n], packets)
  /\ BlockPrepareMsg' = [BlockPrepareMsg EXCEPT ![n] = {c \in @ : c[1] # blk}]
  /\ Block' = [Block EXCEPT ![n] = {o \in @ : o.blk # blk}]
  /\ UNCHANGED signed

\* ...and for one that does not.
CountConfirmAndOwn(n, blk, from, packets) == \* mutant: takes its own vote for granted
  /\ BlockPrepareMsg' = [BlockPrepareMsg EXCEPT ![n] = @ \cup {<<blk, from>>, <<blk, n>>}]
  /\ net' = packets
  /\ UNCHANGED <<ledger, ProposalsCache, Blocks, BlockMessages, Block, blockChan,
                 leaderVars, history>>
CountConfirm(n, blk, from, packets) ==
  /\ BlockPrepareMsg' = [BlockPrepareMsg EXCEPT ![n] = @ \cup {<<blk, from>>}]
  /\ net' = packets
  /\ UNCHANGED <<ledger, ProposalsCache, Blocks, BlockMessages, Block, blockChan,
                 leaderVars, history>>

ReceiveBlockConfirm(n) ==
  \E pk \in Inbox(n, "BlockConfirm") : \E packets \in Handled(pk) :
    LET m     == pk.msg
        votes == Confirmations(n, m.blk) \cup {m.from}
        ready == (\E o \in Block[n] : o.blk = m.blk) /\ IsQuorum(N, votes)
    IN  /\ \/ /\ m.view # View[n]
              /\ net' = packets
              /\ UNCHANGED <<ledger, nodeVars, leaderVars, history>>
           \/ m.view = View[n] /\ ready /\ ExecuteOnQuorum(n, m.blk, votes, packets)
           \/ m.view = View[n] /\ ~ ready /\ CountConfirm(n, m.blk, m.from, packets)
        /\ UNCHANGED <<viewVars, clientVars>>

\* DataSyncChan: hand out the block of that height, if there is one.
ReceiveDataSync(n) ==
  \E pk \in Inbox(n, "DataSync") : \E packets \in Handled(pk) :
    LET l == ledger[n]
        h == pk.msg.height
    IN  /\ net' = packets \cup
             (IF HasBlockAt(l, h)
              THEN [to : {pk.msg.from}, msg : {DataSyncRespMsg(BlockByHeight(l, h))}]
              ELSE {})
        /\ UNCHANGED <<ledger, nodeVars, leaderVars, viewVars, clientVars, history>>

\* DataSyncRespChan: the block is executed without ValidateBlock.
ReceiveDataSyncResp(n) ==
  \E pk \in Inbox(n, "DataSyncResp") : \E packets \in Handled(pk) :
    /\ ExecuteBlock(n, pk.msg.block, ProposalsCache[n], blockChan[n], packets)
    /\ UNCHANGED <<Block, BlockPrepareMsg, signed, viewVars, clientVars>>

\* StartViewChange: report the latest block and one of the blocks voted for on
\* top of it.
StartViewChange(n, packets) ==
  LET l       == ledger[n]
      next    == {o \in Block[n] : Height(o.blk) = Height(l.tip) + 1}
      pending == IF next = {} THEN {NoBlockMsg} ELSE next
  IN  \E o \in pending :
        net' = packets \cup Broadcast({ViewChangeMsg(View[n], n, LatestBlock(l), o)})

\* ProposalConfirmChan: the node asks for a new view when the proposal is one
\* that no block message named.
ReceiveProposalConfirm(n) ==
  \E pk \in Inbox(n, "ProposalConfirm") : \E packets \in Handled(pk) :
    LET start == ProposalsCache[n][pk.msg.proposal] = "unreceived" /\ TipStored(ledger[n])
    IN  /\ \/ start /\ StartViewChange(n, packets)
           \/ ~ start /\ net' = packets
        /\ UNCHANGED <<ledger, nodeVars, leaderVars, viewVars, clientVars, history>>

\* The timer goroutine saw BlockConfirm set and waits for the loop.
Tick(n) ==
  /\ n \in Ticking
  /\ BlockConfirm[n]
  /\ ~ interrupt[n]
  /\ interrupt' = [interrupt EXCEPT ![n] = TRUE]
  /\ UNCHANGED <<ledger, nodeVars, MessagePool, BlockConfirm, UnConfirmedH, viewVars, net,
                 clientVars, history>>

\* interrupt: BlockConfirm may be FALSE again by now.
Interrupt(n) ==
  /\ interrupt[n]
  /\ interrupt' = [interrupt EXCEPT ![n] = FALSE]
  /\ GenerateBlock(n, ledger[n], MessagePool[n], BlockConfirm[n], net)
  /\ UNCHANGED <<ledger, nodeVars, viewVars, clientVars, signed, replied>>

----------------------------------------------------------------------------
(* View role.                                                              *)

\* GetLatestBlock: a pending block of a message with the highest header.
Reported(msgs) ==
  {v.pending : v \in {v \in msgs : \A w \in msgs : Height(w.header.blk) <= Height(v.header.blk)}}

\* StartChange: block messages are suspended, and the next leader announces
\* the view, with the number of the current one, if it has a pending block.
StartChange(n, msgs, packets) ==
  /\ OnChange' = [OnChange EXCEPT ![n] = TRUE]
  /\ \/ /\ IsNextLeader(n)
        /\ \E o \in Reported(msgs) \ {NoBlockMsg} :
             net' = packets \cup Broadcast({NewViewMsg(View[n], o, {v.from : v \in msgs})})
     \/ /\ IsNextLeader(n) => NoBlockMsg \in Reported(msgs)
        /\ net' = packets

\* ViewChangeChan: a request for the view the node is in is kept, the last one
\* of each sender.
ReceiveViewChange(n) ==
  \E pk \in Inbox(n, "ViewChange") : \E packets \in Handled(pk) :
    LET m    == pk.msg
        msgs == {v \in ViewChangeMsgs[n] : v.from # m.from} \cup {m}
    IN  /\ \/ /\ m.view # View[n]
              /\ net' = packets
              /\ UNCHANGED <<OnChange, ViewChangeMsgs>>
           \/ /\ m.view = View[n]
              /\ ViewChangeMsgs' = [ViewChangeMsgs EXCEPT ![n] = msgs]
              /\ \/ Check(N, Cardinality(msgs)) /\ StartChange(n, msgs, packets)
                 \/ /\ ~ Check(N, Cardinality(msgs))
                    /\ net' = packets
                    /\ UNCHANGED OnChange
        /\ UNCHANGED <<ledger, nodeVars, leaderVars, View, clientVars, history>>

\* ProcessNewViewMsg: IsLeader still means the old view; a node behind asks
\* for blocks and keeps the announced one, a node ahead revokes one block.
EnterView(n, m, packets) ==
  LET l      == ledger[n]
      height == Height(m.pending.blk)
      behind == TipStored(l) /\ Height(l.tip) < height
      ahead  == TipStored(l) /\ Height(l.tip) > height
  IN  /\ View' = [View EXCEPT ![n] = m.view]
      /\ ProposalsCache' = [ProposalsCache EXCEPT ![n] = [p \in Proposal |-> "unknown"]]
      /\ Block' = [Block EXCEPT ![n] = {}]
      /\ BlockPrepareMsg' = [BlockPrepareMsg EXCEPT ![n] = {}]
      /\ ViewChangeMsgs' = [ViewChangeMsgs EXCEPT ![n] = {}]
      /\ MessagePool' = [MessagePool EXCEPT ![n] = IF IsLeader(n) THEN << >> ELSE @]
      /\ BlockConfirm' = [BlockConfirm EXCEPT ![n] = @ \/ IsLeader(n)]
      /\ BlockMessages' = [BlockMessages EXCEPT ![n] = IF behind THEN <<m.pending>> ELSE << >>]
      /\ ledger' = [ledger EXCEPT ![n] = IF ahead THEN RevokeBlock(@) ELSE @]
      /\ OnChange' = [OnChange EXCEPT ![n] = @ /\ ~ TipStored(l)]
      /\ net' = packets \cup
           (IF behind THEN StartDataSync(n, Height(l.tip) + 1, height) ELSE {})
      /\ UNCHANGED <<Blocks, blockChan, UnConfirmedH, interrupt, clientVars, history>>

\* NewViewChan: the signed hash of the message runs over a Go map, so with
\* two or more requests inside it the signature may fail to verify.
ReceiveNewView(n) ==
  \E pk \in Inbox(n, "NewView") : \E packets \in Handled(pk) :
    \/ /\ pk.msg.view = View[n] + 1
       /\ EnterView(n, pk.msg, packets)
    \/ /\ pk.msg.view # View[n] + 1 \/ Cardinality(pk.msg.senders) > 1
       /\ net' = packets
       /\ UNCHANGED <<ledger, nodeVars, leaderVars, viewVars, clientVars, history>>

----------------------------------------------------------------------------

\* The process of n ends and is started again: everything but the disk is
\* lost, with the packets on their way to it and its proposers' timers.  It
\* takes the view from the first peer that answers its Join.
Restart(n) ==
  /\ restarts < MaxRestarts
  /\ restarts' = restarts + 1
  /\ \E k \in Up \ {n} : View' = [View EXCEPT ![n] = View[k]]
  /\ ledger' = [ledger EXCEPT ![n] = IF RestartWipes THEN GenesisLedger ELSE @]
  /\ ProposalsCache' = [ProposalsCache EXCEPT ![n] = [p \in Proposal |-> "unknown"]]
  /\ Blocks' = [Blocks EXCEPT ![n] = << >>]
  /\ BlockMessages' = [BlockMessages EXCEPT ![n] = << >>]
  /\ Block' = [Block EXCEPT ![n] = {}]
  /\ BlockPrepareMsg' = [BlockPrepareMsg EXCEPT ![n] = {}]
  /\ blockChan' = [blockChan EXCEPT ![n] = << >>]
  /\ MessagePool' = [MessagePool EXCEPT ![n] = << >>]
  /\ BlockConfirm' = [BlockConfirm EXCEPT ![n] = TRUE]
  /\ UnConfirmedH' = [UnConfirmedH EXCEPT ![n] = 0]
  /\ interrupt' = [interrupt EXCEPT ![n] = FALSE]
  /\ OnChange' = [OnChange EXCEPT ![n] = FALSE]
  /\ ViewChangeMsgs' = [ViewChangeMsgs EXCEPT ![n] = {}]
  /\ net' = {pk \in net : pk.to # n}
  /\ timedOut' = timedOut \cup {p \in ordered : p.from = n}
  /\ UNCHANGED <<ordered, history>>

----------------------------------------------------------------------------

LoadedLedger(chain) ==
  [db  |-> {[blk  |-> Ancestor(chain, h), sigs |-> IF h = 0 THEN {} ELSE DiskSigs]
              : h \in 0..Height(chain)},
   tip |-> chain,
   zdb |-> {}]

Init ==
  /\ ledger = [n \in Node |-> LoadedLedger(Disk[n])]
  /\ ProposalsCache = [n \in Node |-> [p \in Proposal |-> "unknown"]]
  /\ Blocks = [n \in Node |-> << >>]
  /\ BlockMessages = [n \in Node |-> << >>]
  /\ Block = [n \in Node |-> {}]
  /\ BlockPrepareMsg = [n \in Node |-> {}]
  /\ blockChan = [n \in Node |-> << >>]
  /\ MessagePool = [n \in Node |-> << >>]
  /\ BlockConfirm = [n \in Node |-> TRUE]
  /\ UnConfirmedH = [n \in Node |-> 0]
  /\ interrupt = [n \in Node |-> FALSE]
  /\ OnChange = [n \in Node |-> FALSE]
  /\ View = InitView
  /\ ViewChangeMsgs = [n \in Node |-> {}]
  /\ net = {}
  /\ ordered = {}
  /\ timedOut = {}
  /\ restarts = 0
  /\ signed = [n \in Node |->
       IF n \in DiskSigs
       THEN UNION {{Ancestor(Disk[k], h) : h \in 1..Height(Disk[k])} : k \in Node}
       ELSE {}]
  /\ mined = {}
  /\ replied = [n \in Node |-> {}]

Handle(n) ==
  \/ ReceiveProposal(n)
  \/ ReceiveBlock(n)
  \/ ReceiveDeferredBlock(n)
  \/ ReceiveBlockConfirm(n)
  \/ ReceiveDataSync(n)
  \/ ReceiveDataSyncResp(n)
  \/ ReceiveProposalConfirm(n)
  \/ ReceiveViewChange(n)
  \/ ReceiveNewView(n)
  \/ Interrupt(n)

Next ==
  \/ \E p \in Orders : Order(p) \/ ProposalTimeout(p)
  \/ \E n \in Up : Handle(n) \/ Tick(n) \/ Restart(n)

Spec == Init /\ [][Next]_vars

----------------------------------------------------------------------------
(* Types.                                                                  *)

BlockMessage == [type : {"Block"}, view : Nat, blk : BlockId, abandoned : Seq(Proposal)]

ViewChangeMessage ==
  [type : {"ViewChange"}, view : Nat, from : Node, header : BlockValidated,
   pending : BlockMessage]

Message ==
  [type : {"Proposal", "ProposalConfirm"}, proposal : Proposal]
    \cup BlockMessage
    \cup [type : {"BlockConfirm"}, view : Nat, from : Node, blk : BlockId]
    \cup [type : {"DataSync"}, from : Node, height : Nat \ {0}]
    \cup [type : {"DataSyncResp"}, block : BlockValidated]
    \cup ViewChangeMessage
    \cup [type : {"NewView"}, view : Nat, pending : BlockMessage, senders : SUBSET Node]

Zone == {p.zone : p \in Proposal}

LedgerType ==
  [db : SUBSET BlockValidated, tip : BlockId, zdb : SUBSET [zone : Zone, last : SUBSET Proposal]]

Packet == [to : Node, msg : Message]

ProposalState == {"unknown", "unreceived", "drop", "keep"}

NodeTypeOK ==
  /\ ProposalsCache \in [Node -> [Proposal -> ProposalState]]
  /\ Blocks \in [Node -> Seq(BlockValidated)]
  /\ BlockMessages \in [Node -> Seq(BlockMessage)]
  /\ Block \in [Node -> SUBSET BlockMessage]
  /\ BlockPrepareMsg \in [Node -> SUBSET (BlockId \X Node)]
  /\ blockChan \in [Node -> Seq(BlockMessage)]

LeaderTypeOK ==
  /\ MessagePool \in [Node -> Seq(Proposal)]
  /\ BlockConfirm \in [Node -> BOOLEAN]
  /\ UnConfirmedH \in [Node -> Nat]
  /\ interrupt \in [Node -> BOOLEAN]

ViewTypeOK ==
  /\ OnChange \in [Node -> BOOLEAN]
  /\ View \in [Node -> Nat]
  /\ ViewChangeMsgs \in [Node -> SUBSET ViewChangeMessage]

ClientTypeOK ==
  /\ ordered \subseteq Proposal
  /\ timedOut \subseteq Proposal
  /\ restarts \in 0..MaxRestarts

HistoryTypeOK ==
  /\ signed \in [Node -> SUBSET BlockId]
  /\ mined \subseteq [by : Node, blk : BlockId]
  /\ replied \in [Node -> SUBSET Proposal]

\* The types of the variables.
TypeOK ==
  /\ ledger \in [Node -> LedgerType]
  /\ NodeTypeOK
  /\ LeaderTypeOK
  /\ ViewTypeOK
  /\ net \subseteq Packet
  /\ ClientTypeOK
  /\ HistoryTypeOK

----------------------------------------------------------------------------
(* Safety.                                                                 *)

\* b carries a quorum of signatures, each of a node that confirmed b itself.
HasCertificate(b) ==
  /\ IsQuorum(N, b.sigs)
  /\ \A k \in b.sigs : b.blk \in signed[k]

StoredCertified ==
  \A n \in Node : \A b \in ledger[n].db : b.blk # Genesis => HasCertificate(b)

WaitingCertified == \A n \in Node : \A i \in DOMAIN Blocks[n] : HasCertificate(Blocks[n][i])

HandedOutCertified ==
  \A pk \in net : pk.msg.type = "DataSyncResp" => HasCertificate(pk.msg.block)

\* A block that was executed, waits to be executed, or is handed out by data
\* sync was confirmed by a quorum: ExecuteBlock, AddBlock and the DataSyncResp
\* case store what they are given without counting signatures.
Certified == StoredCertified /\ WaitingCertified /\ HandedOutCertified

\* A vote that is counted, or on its way, was cast: the inductive form of
\* Certified.
VotesCast ==
  /\ \A n \in Node : \A c \in BlockPrepareMsg[n] : c[1] \in signed[c[2]]
  /\ \A pk \in net : pk.msg.type = "BlockConfirm" => pk.msg.blk \in signed[pk.msg.from]

\* Two stored blocks of one height that differ were both confirmed by one
\* node: ValidateBlock lets a node confirm every block that fits its tip.
ForkNeedsDoubleVote ==
  \A n, k \in Node : \A b \in ledger[n].db, c \in ledger[k].db :
    Height(b.blk) = Height(c.blk) /\ b.blk # c.blk
      => \E v \in Node : {b.blk, c.blk} \subseteq signed[v]

\* A quorum has confirmed blk.
Confirmed(blk) == IsQuorum(N, {k \in Node : blk \in signed[k]})

\* No two blocks of one height are confirmed, although a node confirms every
\* block that fits its tip: a second one never gets a quorum, stored or not.
OneCertificate ==
  \A n, k \in Node : \A a \in signed[n], b \in signed[k] :
    Confirmed(a) /\ Confirmed(b) /\ Height(a) = Height(b) => a = b

\* All nodes store the same block at every height ("a distributed database",
\* README.md:2).
Agreement ==
  \A n, k \in Node : \A b \in ledger[n].db, c \in ledger[k].db :
    Height(b.blk) = Height(c.blk) => b.blk = c.blk

\* A leader puts out one block per height: generateBlock relies on its callers
\* to wait until the last block was executed (BlockConfirm, UnConfirmedH).
OneBlockPerHeight ==
  \A x, y \in mined : x.by = y.by /\ Height(x.blk) = Height(y.blk) => x = y

\* From its tip a node can walk down to genesis, as Iterator.Next has to:
\* AddBlock does not look at PrevBlock.
ChainUnbroken == \A n \in Node : ReadableTo(ledger[n], 0)

\* A quorum of nodes holds the predecessor of every stored block, so a node
\* that is behind finds the blocks it asks for with StartDataSync.
ParentHeldByQuorum ==
  \A n \in Node : \A b \in ledger[n].db :
    b.blk # Genesis => IsQuorum(N, {k \in Node : Stored(ledger[k], PrevBlock(b.blk))})

ChainHolds(l, p) == \E h \in 1..Height(l.tip) : InSeq(p, ProposalsOf(Ancestor(l.tip, h)))

\* A node reports a proposal to its proposer (SendReply) only when the chain
\* zone lookups walk holds it.
ReplyMeansOnChain == \A n \in Node : \A p \in replied[n] : ChainHolds(ledger[n], p)

\* No proposal is put into two blocks, although every proposal arrives over two
\* connections: ProposalsCache is all that keeps it out of the pool.
MinedOnce ==
  \A x, y \in mined : x # y => \A i \in DOMAIN ProposalsOf(x.blk) :
    ~ InSeq(ProposalsOf(x.blk)[i], ProposalsOf(y.blk))

\* What waits in a queue really waits: it is at least two above the tip, the
\* heights ascend and none comes twice.  ExecuteBlock hands its argument b,
\* not the queue's element, to AddBlock and relies on this.
NothingStranded ==
  \A n \in Node : \A q \in {[i \in DOMAIN Blocks[n] |-> Height(Blocks[n][i].blk)],
                            [i \in DOMAIN BlockMessages[n] |-> Height(BlockMessages[n][i].blk)]} :
    \A i \in DOMAIN q : /\ q[i] > Height(ledger[n].tip) + 1
                        /\ \A j \in 1..(i - 1) : q[j] < q[i]

\* BlockConfirm tells the leader of the network that none of its blocks is
\* still on the way.
ConfirmMeansExecuted ==
  \A n \in Node : IsLeader(n) /\ BlockConfirm[n]
    => \A x \in mined : x.by = n => Height(x.blk) <= Height(ledger[n].tip)

\* A zone is added when it has no owner: "ZoneName exits" (messages.go:296)
\* is why ValidateAdd refuses it.
NoZoneTaken ==
  \A n \in Node : \A g, h \in 1..Height(ledger[n].tip) :
    \A i \in DOMAIN ledger[n].tip[g].ps, j \in DOMAIN ledger[n].tip[h].ps :
      LET p == ledger[n].tip[g].ps[i]
          q == ledger[n].tip[h].ps[j]
      IN  p.type = "Add" /\ q.type = "Add" /\ p.zone = q.zone /\ g < h
            => \E d \in (g + 1)..h : \E m \in DOMAIN ledger[n].tip[d].ps :
                 ledger[n].tip[d].ps[m].type = "Del" /\ ledger[n].tip[d].ps[m].zone = p.zone

\* No node is ever in a view that nobody left the election with: the next
\* leader announces the view it is in, and a receiver waits for the one after
\* its own, so a view change only lets a node that is behind catch up.
NoFreshView == \A n \in Node : \E k \in Node : View[n] = InitView[k]

\* What GetZoneName finds in its cache is what a walk over the chain would
\* find: AddBlock drops the zones of the block, RevokeBlock drops nothing.
CacheCoherent == \A n \in Node : \A e \in ledger[n].zdb : e.last = OnChain(ledger[n], e.zone)

\* "Block's hole" (consensus.go:54): a block that waits for a predecessor
\* leaves the queue by being stored.
HoleFilled ==
  [][\A n \in Up : \A i \in DOMAIN Blocks[n] :
       \/ \E j \in DOMAIN Blocks'[n] : Blocks'[n][j] = Blocks[n][i]
       \/ Stored(ledger'[n], Blocks[n][i].blk)
       \/ restarts' # restarts]_vars

----------------------------------------------------------------------------
(* Refinement.                                                             *)

\* The blocks each node has on disk, without genesis.
StoredBlocks == [n \in Node |-> {b.blk : b \in ledger[n].db} \ {Genesis}]

Quorum == {Q \in SUBSET Node : IsQuorum(N, Q)}

Cert == INSTANCE CertChain WITH votes <- signed, stored <- StoredBlocks

\* MyBFT implements CertChain: whatever the order of messages, data sync, view
\* changes and restarts, a step casts one vote, stores one block that a quorum
\* had confirmed before the step, drops one block, or loses a node's disk.
ImplementsCertChain == Cert!Spec

----------------------------------------------------------------------------
(* Liveness.  Go's select picks a ready case at random, so every handler   *)
(* whose channel has messages is run again and again; the interrupt        *)
(* goroutine sleeps 10 seconds at a time.  Restarts and timeouts need not  *)
(* happen, and clients order when they like.                               *)

Fairness ==
  \A n \in Up : /\ WF_vars(ReceiveProposal(n))
                /\ WF_vars(ReceiveBlock(n))
                /\ WF_vars(ReceiveDeferredBlock(n))
                /\ WF_vars(ReceiveBlockConfirm(n))
                /\ WF_vars(ReceiveDataSync(n))
                /\ WF_vars(ReceiveDataSyncResp(n))
                /\ WF_vars(ReceiveProposalConfirm(n))
                /\ WF_vars(ReceiveViewChange(n))
                /\ WF_vars(ReceiveNewView(n))
                /\ WF_vars(Interrupt(n))
                /\ WF_vars(Tick(n))

FairSpec == Spec /\ Fairness

\* Every proposal that is ordered is in the end on the chain of every node
\* that is up, unless one of them restarts and loses the votes it cast.
EventuallyExecuted ==
  \A p \in Orders :
    p \in ordered ~> restarts > 0 \/ \A n \in Up : ChainHolds(ledger[n], p)

\* "need clean used for start view change" (consensus.go:53): a node on which a
\* view change has started forgets the proposals of the old view, as
\* ProcessNewViewMsg does.
ViewChangeCleans ==
  \A n \in Up : OnChange[n] ~> \A p \in Proposal : ProposalsCache[n][p] = "unknown"
=============================================================================
