# BCDns in TLA+

BCDns keeps DNS zones for bind9 in a blockchain: hosts order operations on
zones (add, change, give up), the nodes agree on blocks of such operations and
each keeps the chain on its own disk. This directory holds TLA+ modules of the
consensus and of what it stands on, TLC configurations that check them on small
networks, and proofs that TLAPS checks for every network size. It was
written from the Go code; file and line references are to the repository root.

Run from this directory:

    tlc -config MyBftCore.cfg MCMyBft      # any cfg below, with the module named there
    tlapm MyBftProofs.tla                  # proofs of one module

## 1. Inventory

| part | code | state it keeps | operations |
|---|---|---|---|
| MyBFT consensus | `consensus/consensusMy/service/consensus.go` | per node: `ProposalsCache`, `Blocks`, `BlockMessages`, `Block`, `BlockPrepareMsg`, `blockChan`; leader: `MessagePool`, `BlockConfirm`, `UnConfirmedH`; view: `OnChange`, `View`, `ViewChangeMsgs` | the cases of the select in `Run`, the interrupt goroutine |
| PBFT consensus | `consensus/consensusPBFT/service/consensus.go` | the same plus prepare and commit votes | the same loop with three phases |
| proposer role | `handleOrder`, `timer`, `ProposalReplyChan` in both | `Proposals`, `Replies`, `Contexts` under a mutex | order, count replies, time out |
| leader election | `Start`, `GetLeaderNode` | `JoinMessages`, `JoinReplyMessages`, `InitLeaderMessages` | join, reply, vote |
| batch filter | `CheckProposals`, `ValidateProposals`, `messages/messages.go` | the pool | filter, validate |
| ledger | `blockChain/blockChain.go`, `blockChain/block.go`, `blockchain_iterator.go` | bolt database, tip `l` | `AddBlock`, `RevokeBlock`, lookups |
| zone lookups | `dao/dao.go` | leveldb cache, negative answers too | `GetZoneName` |
| record index | `blockChainCache.go`, `zoneCache.go` | maps by record and zone | `UpdateCache` |
| network | `network/service/networkDirect.go` | `Members`, `Map`, one channel of 1024 per message type | `Join`, `handleConn`, `BroadCast`, `SendTo` |
| certificate authority | `certificateAuthority/service/certificateX509Impl.go` | keys, `NodeId`, network size | `Check`, `GetF`, signatures |
| node start | `bcDns/cmd/main.go`, `bcDns/conf/config.go` | - | `Start`, `CheckRRs` |
| bind generator, CLI, utilities | `bind9Config`, `bcDns/bcDns-cli`, `utils`, `cache`, `blockChain/util`, `blockChain/cmd` | - | - |

How they interact. A UDP order makes a proposer broadcast a `Proposal`. Every
node checks it against its ledger and remembers it; the leader, node
`View mod N`, also puts it into its pool and broadcasts a `Block`. A node that
finds the block next in line and well filtered broadcasts a `BlockConfirm`;
whoever holds the block and a quorum of confirmations executes it (`AddBlock`)
and replies to the proposers. A node that is behind keeps the block
(`BlockMessages`), asks everybody for the missing ones (`DataSync`) and executes
the answers, or queues them (`Blocks`). A proposer without a quorum of replies
broadcasts a `ProposalConfirm`; nodes that saw no block with it broadcast
`ViewChange`, and the next leader a `NewView`. In PBFT mode a quorum of
confirmations makes a node broadcast a `BlockCommit`, and a quorum of those
executes the block. Before any of it a node dials its peers, itself included;
each answers the `Join` with a `JoinReply`, both enter each other into `Members`,
and a node that knows a quorum broadcasts the list of nodes it knows
(`InitLeader`); a quorum of lists decides the first leader.

What is hard:

* *Concurrency.* A node is one loop over a Go `select`, but the interrupt
  goroutine reads `BlockConfirm` without a lock and hands over a token that is
  used later; the proposal timers share maps with the loop. Every connection
  has a goroutine, and all of them change `Members` and `Map`, the appends to
  `Members` without the mutex, while the election reads them.
* *Ordering.* Every message type has its own channel, so even messages of one
  sender overtake each other: confirmations before their block, data sync
  answers in any order, blocks before the block they build on.
* *Failure.* Nodes stop, restart with nothing but their disk (or not even that,
  when started by `start.sh`), peers are listed twice, Byzantine mode omits a
  confirmation.
* *Timeouts.* The interrupt (10 s) and the proposer's timer, which fires once.

What makes each part correct: the nodes store one chain, and only blocks a
quorum confirmed (consensus); a leader makes one block per height; a proposal is
executed, once, and reported only when a quorum stored it (proposer); the leader's filter and
the replicas' filter coincide (batch); the chain is unbroken, and cached lookups
agree with it (ledger); a started view change ends (view); everybody leaves the
election, with a leader that F + 1 nodes know (election); `Members` matches the
live connections, and losing a peer costs nothing while a quorum is alive
(network).

`PROJECT.json` lists the hazards with the line where each bites.

## 2. Modules

| module | models |
|---|---|
| `BftQuorum` | `GetF`, `Check`; when two quorums share a node |
| `Proposals` | `ValidateAdd/Del/Mod`, `CheckProposals`, `ValidateProposals` |
| `Ledger` | one node's disk: `AddBlock`, `RevokeBlock`, iterator, `GetZoneName` with its cache |
| `MyBft` | the whole `Run` loop of every node, the interrupt goroutine, clients, network, restarts; all properties |
| `Pbft` | the `Run` loop of PBFT mode: `MyBft` with the commit phase; the proposer's count of replies, which both modes share |
| `CertChain` | the abstract promise: votes are never taken back, a block is stored on a quorum of votes |
| `Membership` | `Join`, `JoinReply`, `Members` and `Map`, as the handlers of the connections change them |
| `Election` | `Start` and `GetLeaderNode` beside those handlers |
| `PeerDown` | the handlers' reaction to a peer that ends |
| `MCProposals`, `MCMyBft`, `MCPbft`, `MCElection`, `MCPeerDown` | constants for TLC |
| `LedgerProofs` | lemmas on `Proposals` and `Ledger` |
| `ProposalsProofs` | the batch filter on any pool |
| `MyBftProofs` | types, certificates, forks, views; `MyBft` implements `CertChain` |
| `MyBftOneView` | what a step of either mode does when all nodes have one view; the queues, predecessors |
| `MyBftChain` | the leader's turn, agreement, the unbroken chain, replies, lookups: lemmas for both modes, theorems for MyBFT |
| `PbftProofs` | PBFT mode: types, commits, the two refinements, answers to clients; its steps are steps of `MyBftOneView`, and all theorems of that module and of `MyBftChain` |
| `CertChainProofs` | what `CertChain` promises |
| `ElectionProofs` | types of `Membership` and `Election`; the leader is known, and found; nobody is left waiting |

The proof modules extend one another in the order `LedgerProofs`,
`MyBftProofs`, `MyBftOneView`, `MyBftChain`; `PbftProofs` extends `MyBftChain`
and `Pbft`, `ProposalsProofs` extends `LedgerProofs` and `MCProposals`,
`ElectionProofs` extends `Election` and, for lemmas on numbers, `LedgerProofs`.

`MyBft` extends `Ledger` (which extends `Proposals`) and `BftQuorum`; it has one
action per case of the `select`:

| action | case of `Run`, or function |
|---|---|
| `ReceiveProposal` | `ProposalChan` (259-287), `handleProposal`, and `generateBlock` when the pool is full |
| `ReceiveBlock`, `ReceiveDeferredBlock` | `BlockChan`, `blockChan`: `ValidateBlock` and `ProcessBlockMessage`; four outcomes, `IgnoreBlock`, `DeferBlock`, `VoteForBlock`, `ExecuteConfirmed` |
| `ReceiveBlockConfirm` | `BlockConfirmChan` |
| `ReceiveDataSync`, `ReceiveDataSyncResp` | `DataSyncChan`, `DataSyncRespChan` |
| `ReceiveProposalConfirm` | `ProposalConfirmChan` with `StartViewChange` |
| `ReceiveViewChange`, `ReceiveNewView` | `ViewChangeChan` with `StartChange`, `NewViewChan` with `ProcessNewViewMsg` |
| `Tick`, `Interrupt` | the goroutine at 210-221 that saw `BlockConfirm`, and the case `<-interrupt` |
| `Order`, `ProposalTimeout` | `handleOrder`, `timer` |
| `Restart` | the end of the process, and what `NewConsensus` (88-125) and `NewBlockchain` start it again with, called by `Start` of `bcDns/cmd/main.go` |

`ExecuteBlock` and `GenerateBlock` are operators that several actions use, as
the functions are called from several cases. Variables have the names of the
Go fields. `signed`, `mined` and `replied` are histories that nothing reads.

`Pbft` extends `MyBft`. The two packages are the same text but for the votes, so
an action of `Pbft` is either `MyBft`'s with its own variables unchanged, or one
of these:

| action of `Pbft` | code in `consensusPBFT` |
|---|---|
| `PbftProcessBlockMessage` (in `PbftReceiveBlock`, `PbftReceiveDeferredBlock`) | `ProcessBlockMessage`: also compares the view of a deferred block; executes on a quorum of commits, else commits on a quorum of confirmations, else confirms |
| `PbftReceiveBlockConfirm` | `BlockConfirmChan` (305-342): counts, and commits at most once per block |
| `ReceiveBlockCommit` | `BlockCommitChan` (343-373): counts, and executes |
| `PbftOrder`, `PbftTimeout`, `ReceiveReply` | `handleOrder`, `timer`, `ProposalReplyChan` with `Proposals` (`Outstanding`), `Replies`, `Contexts` |
| `PbftExecuteBlock` (in three cases) | `ExecuteBlock` with `SendReply` |
| `PbftRestart` | as `Restart`; the orders of that node are forgotten |

`Election` extends `Membership`:

| action | code |
|---|---|
| `Dial` | `Join`: a connection and the `Join` message over it |
| `IgnoreReply` | `handleConn` for the node's own `JoinReplyMsg` (226) |
| `ReadMembers`, `StoreMember` | `handleConn` for any other `JoinMsg` or `JoinReplyMsg`: the appends at 210 and 234, outside the mutex, read `Members` in one step and store it in a later one, with `Map` and the channel; in between other handlers store theirs, and the election reads |
| `AnswerJoin`, `CountReply`, `AdoptView` | the cases `JoinChan` and `JoinReplyChan` of `Start` |
| `SendInitLeader` | `BroadCast` of the list, a step after `GetAllNodeIds` read it |
| `CountList`, `Elect` | the case `InitLeaderChan`, with `GetLeaderNode` |
| `Down`, `CloseUnknown`, `CloseMember`, `CloseForgotten` (`PeerDown`) | the end of a process; `handleConn` at `io.EOF` (140-156) when no member has the address, when Map has an entry for the name, when it has none |

Abstractions:

* A block id is the sequence of block entries from genesis on. The hash of a
  block covers its predecessor's, so the two determine each other; height and
  predecessor are the length and the front. `stamp` tells apart blocks with the
  same proposals (the code has a timestamp in seconds).
* Proposals are records with type, zone, owner and origin; the rest of a
  proposal, signatures and proof of work are opaque. No node forges.
* A packet may stay unhandled for ever and may be overtaken by any other. A
  packet of a type in `Redeliver` may be handled any number of times.
* The votes in `BlockPrepareMsg` are pairs of block and node: the map of maps
  in the code, without the signatures.
* A connection is the pair of the node that dialled and the one that accepted; a
  member is the peer, the connection, and whether a `Join` or a reply made it
  one. A list of node ids is a bag, since a peer that is a member twice is listed
  twice.
* A handler reads the slice `Members` as a whole and stores it as a whole. Of two
  handlers that read the same slice the later store decides: it drops the entry the
  other one stored, which may have been read and announced by then. Where an entry a
  handler read has been overwritten meanwhile, what it stores has the new one if the
  two slices share their array, and else the old one (`Appended`). The element of the
  array is written in the step of the store, and torn slice headers are left out.
  `lost` names every entry that was stored and then dropped.
* A node that has a view drops `InitLeader` messages; they are not sent to it.
* Commits and replies travel in sets of their own (`commits`, `replies`). Replies
  are handled once each: a second copy changes nothing, `Replies` being a map.
* Which pending block `GetLatestBlock` and `StartViewChange` pick from a Go map
  is a free choice. A `NewView` with two or more requests inside is signed over
  a Go map, so its check may fail on a receiver.
* The race on `BlockConfirm` inside `ExecuteBlock`, which sets it to true just
  before `generateBlock` resets it, is a free choice whether the goroutine saw it.

Assumed of the surroundings: `AddBlock` returns. In the repository as it is, it
does not: `NewBlock` is called with four of five arguments in `MineBlock`, the
maps of the record index are never allocated, and nobody reads `NewBlockChan`.
A model that stops there would show nothing else; the hazards record it.

## 3. Runs

Four nodes (F = 1, three votes are a quorum) unless said otherwise, three of
them up, so that every vote counts. `BlockMaxSize` is 1 as in the code;
`PoolTrigger` stands for the 200 in `ExecuteBlock` and is 1 or 2. The pools are
small because proposals are handled one by one: two of them reach every
branch of the leader (one in the block, one in the pool).
`Listeners`, `Helpers`, `Ticking`, `Timeouts` and `Orders` bound who receives
proposals and data sync requests, whose goroutine ticks, and what clients do.
`CHECK_DEADLOCK FALSE` is set in the MyBft runs: once all orders are executed
the system rightly rests. The batch run also ends, when the pool is full.

| run (cfg) | instance | shows |
|---|---|---|
| `batch_filter` (`MCProposals`) | pools up to the bound in the cfg, two hosts, two zones | `LeaderBatchAccepted`, `NothingLost` |
| `core` (`MyBftCore`) | node 3 starts one block behind, two additions, data sync, no timer | `TypeOK`, `Agreement`, `OneCertificate`, `OneBlockPerHeight`, `ConfirmMeansExecuted`, `ParentHeldByQuorum`, `CacheCoherent` |
| `timer` (`MyBftTimer`) | two additions and the leader's interrupt goroutine | `Certified`, `ForkNeedsDoubleVote` |
| `restart` (`MyBftRestart`) | node 3 starts two blocks behind, one addition, proposals delivered any number of times, one restart of any node at any time, fairness | `Certified`, `VotesCast`, `MinedOnce`, `NothingStranded`, `ReplyMeansOnChain`, `ChainUnbroken`, `EventuallyExecuted`, `ImplementsCertChain` |
| `views` (`MyBftViews`) | three nodes, two of them up, that left the election with different views, one timeout | `NoFreshView` |
| `pbft` (`Pbft`) | node 3 starts one block behind, one addition, its timer, one restart | `CommitCertified`, `CommitsFollowConfirms`, `AnsweredMeansStored`, `NothingOverlooked`, `RestMeansAnswered`, `ImplementsBothPhases` |
| `election` (`Election`) | three nodes that have met but for two dials, nodes 0 and 2 dialling each other; the handlers of two `Join`s race for the `Members` of node 2 and may drop entries, announced ones too | `RestMeansElected`, `NeverFailed`, `LeaderKnown` |

`restart` needs two missing blocks: only then do a block of data sync and a
deferred block wait in the two queues at once. `pbft` needs one, so that commits
for a block the node does not hold yet are counted; a fourth node is always
missing, so no vote can be spared. That also means that a quorum is complete only
after the node's own vote, hence after the block: in this run single votes come before
their block, but no quorum does, and `CommitAtOnce` and the execution on a block's
arrival are not reached. With a vote to spare, four nodes up, the instance is out of
TLC's reach; `VotesNotOverlooked` and `BlocksCommitted` (section 4) cover these
branches, for every number of nodes.

In `election` two nodes dial each other and so
list one another twice; with three of four nodes up every list is needed, and a
node that joins while another reads `Members` is in some lists and not in others.
To begin with nodes 0 and 1 have counted a quorum and read their lists, which they
have not sent yet, and the last two `Join`s are still to be dialled. An append there drops
one entry at most, but at any time: before or after the list that has it is read.
Races with and among replies are in the model but not in this instance; the theorems
of section 4 hold for any dials and any number of dropped entries.

`LeaderKnown` says that the leader is listed often enough in what the `Members`
of all nodes have, or had until an append dropped it, and that F + 1 nodes, not a
quorum, have or had it as a member. That they still have it is not true: the entry may
be dropped after it was announced. Where two
nodes list one another twice, a quorum of entries can come from F + 1 lists.
`Start` has every node dial every other one, and `Join` retries, so this is the
ordinary case and not a rare one; with all dials and four nodes, TLC finds a
leader that only two of them have as a member.

`NothingOverlooked` says of each node and at any moment that no quorum it has counted
waits for a step the node has to take: votes are counted where they arrive and looked
at where the block arrives, and one of the two comes last. `RestMeansAnswered` is
about the run's network as a whole, in which every node has to vote, its own vote
included: nobody restarts, no view change is under way, and what came early or waited
for a predecessor was not left behind. It says nothing of late votes, which this
network does not have.

`RestMeansAnswered` and `RestMeansElected` are liveness in the form of safety:
every handler consumes a message, and only so many are made from the orders and
connections there are (a tick with an empty pool changes nothing), so the system
comes to rest, and at rest everything has been done.

`core` shows agreement where nothing ever makes the leader mine twice; the
next runs show what the code does otherwise:

| run | property, from | what happens |
|---|---|---|
| `fork` (`MyBftFork`) | `Agreement`, README.md:2 | `Tick`, then the leader mines, then `Interrupt` mines again at the same height: both blocks get a quorum, each first at another node |
| `hole` (`MyBftHole`) | `HoleFilled`, consensus.go:54 | block 2 arrives by data sync and waits, block 1 arrives: the loop stores block 1 twice and drops block 2 (line 615 stores `b`, not `bb`). A later block restarts data sync, so `EventuallyExecuted` of `restart` still holds |
| `leader_down` (`MyBftLeaderDown`) | `ViewChangeCleans`, consensus.go:53 | the leader is down, nobody has a pending block: `StartChange` suspends block messages and returns; with a pending block the announced view is the current one, which line 424 refuses |
| `zone_taken` (`MyBftZoneTaken`) | `NoZoneTaken`, messages.go:296 | two hosts add one zone; both proposals are checked before either is committed |
| `peer_down` (`PeerDown`) | `PanicMeansTooFew`, networkDirect.go:152 | two nodes dialled each other, one ends: the handler of the newer connection deletes the name from `Map`, the handler of the older one closes the `Conn` of an entry that is not there (line 145), a nil dereference that ends the process with three nodes alive |

Some things hold in one run and not in another, and the difference is a fact
about the code. `ReplyMeansOnChain` and `NothingStranded` hold without view
changes and fail with split views: `ProcessNewViewMsg` revokes a block that may
have been reported, and queues an announced block that may be next in line.
`EventuallyExecuted` fails when a Byzantine node withholds a confirmation and
another node executes through `ExecuteConfirmed`, which never votes.
`RestMeansElected` fails once an append drops an entry of `Members`: the node that is
missing from it is sent no list and waits for ever. And nodes can leave the
election with different views: two quorums of lists, one taken before a node had
joined everywhere, name different highest nodes (`views` starts from there).
`RestMeansAnswered` fails after a restart, which loses votes nobody casts again.

Fairness (`FairSpec`): weak fairness of every handler of a node that is up, of
the interrupt and of `Tick`. Go's select chooses uniformly among ready cases, so
a channel that stays non-empty is served; the goroutine wakes every ten seconds
for ever. A handler's fairness covers the receipt of some packet of its type,
and the sets of packets are finite and only shrink without new sends, so each is
handled in the end: this is a network without loss among nodes that are up
(TCP). Orders, timeouts and restarts are not fair; `EventuallyExecuted` exempts
behaviours with a restart, for the votes a restarted node has lost.

Every property has mutants, definitions marked `\* mutant` next to the one they
change, under which the run finds it violated.

## 4. Proofs

Every theorem holds for all values of the constants that satisfy the assumptions
named in `MyBft` (`NAssumption`, `NodesAssumption`, `BoundsAssumption`,
`ProposalAssumption`, `DiskAssumption`) and `Membership` (`MembershipAssumption`): any network size, any set of nodes that
are up, any bounds on orders, timeouts and restarts. Further hypotheses stand in the
theorem and are explained below.

### Without further hypotheses

* `TypeCorrect`: `Spec => []TypeOK`. The induction is direct; the work is in the
  operators (`Pick`, `Enqueue`, `Rest`, `CheckProposals`, `LastMention`), whose
  lemmas are in `LedgerProofs` and at the top of `MyBftProofs`. The heights in
  data sync requests are typed `Nat \ {0}`: they cannot wrap.
* `BlocksCertified`, `VotesAreCast`: `Certified` is not inductive, since a quorum
  is counted from `BlockPrepareMsg` and packets; `CertInv` adds `VotesCast` and
  `TypeOK`. One lemma (`CertStep`) reduces a step to five conditions on what it
  stores, queues, counts, sends and takes back; one lemma per action shows them.
  `DiskAssumption` (blocks on disk were signed by a quorum) is what a restart
  from an earlier run of the same network gives.
* `ForksNeedDoubleVotes`: with `QuorumsMeet(N)`, two stored blocks of one height
  have a signer in common. So agreement holds in every network in which no
  node confirms twice at one height, which is precisely what `ValidateBlock`
  does not prevent. `QuorumSizes`: the hypothesis holds for every N but 2, 3, 6.
* `MyBftImplementsCertChain`: `Spec => ImplementsCertChain`. The refinement maps
  `signed` to votes and the blocks on disk to what is stored. One lemma per action
  shows that it votes for at most one block, or stores at most one, and that the
  block it stores is certified in the state before: `CertInv` says so of a block
  that waits or is handed out, and the lemma `CompletedQuorum` of one whose quorum
  is complete with the vote just received.
* `HeldIsCertified`: in `CertChain` itself, everything held was voted for by a
  quorum, if supersets of quorums are quorums. The abstract specification thus
  promises what `StoredCertified` says of `MyBft`.
* `ViewsStayElected`: `NoFreshView`, strengthened by "a `NewView` on its way
  names an elected view".
* `PbftTypeCorrect`, `BlocksCommitted`, `CommitsAreConfirmed`: the invariant is
  `PbftInv`. `CommitCertified` counts commits, `CommitsFollowConfirms` counts
  confirmations, so each needs that what is counted or on its way was cast
  (`VotesCast`, `CommitsCast`). `PbftStepKinds` sorts every step into three kinds
  (a block is executed; somebody votes, commits or counts; an action of `MyBft`
  that does neither), and each part of the invariant is shown for the three.
* `VotesNotOverlooked`: `NothingOverlooked`, inductive beside `PbftInv`. A step that
  counts no vote and takes no block keeps it, and so does one by which a node forgets
  its blocks (`KeepsVotesLooks`); a block that joins `Block` was looked at in the same
  step (`BlockJoins`), with the quorums that came before it (`BlockMessageLooks`); a
  vote that completes a quorum for a block that is there has its effect
  (`ConfirmLooks`, `CommitLooks`). The case that needs care is the reset of
  `PrepareSent` by a confirmation before which there was none: then the commit is due
  anew with the quorum, and not before.
* `PbftForksNeedDoubleVotes`: in PBFT mode a fork still takes one node that
  confirmed both blocks: the third phase does not keep a node from voting twice.
* `PbftImplementsBothPhases`: `PBFT` implements `CertChain` with commits as votes
  and stored blocks as what is held, and again with confirmations as votes and
  commits as what is held.
* `BatchAccepted`, `NoProposalLost`: the batch filter on pools of any length.
  `FirstStaysFirst` is the heart: the first proposal of a zone is valid
  (`FirstIsValid`), and stays the first of its zone when the valid proposals are
  written before the abandoned ones, since `Nth` lists positions in ascending
  order and each once (`NthAscends`, `NthOnto`). So every proposal is compared
  with the same one as before, and the filter comes to the same verdict.

* `ElectionTypeCorrect`, `LeaderIsKnown`, `LeaderKnownToQuorum`: for any set of
  dials, any nodes that met before, and any entries the appends of joins or replies
  drop, before or after they were announced. The invariant has three
  parts, and speaks of `Seen`, every entry `Members` ever had (`EverStored`). `Meetings` follows every `Join`: it is on its way, or queued, or answered
  by a reply on its way, or that reply was handled, and only one of these, once
  (`AskedOnce`); this needs that `Map` holds one connection per name, so
  that a `Join` has one answer. Hence a node has or had another one as a member at
  most twice, by its `Join` and by its reply, and at most once if no two nodes dial
  each other (`ListOfMembers`). `Informed` says of every view and every list,
  wherever it waits or travels, that a list has nothing its sender's `Members` has
  not or had not, and that a view names a node `Check` accepts when all that the
  `Members` of the nodes ever had is counted. At `Elect` this is `ListedMonotone`: `GetLeaderNode` counted
  one list per sender, none longer than what it would send had nothing been dropped. That gives the
  first half of `LeaderKnown`, and `ListedBounded` the second: what is added up for a
  node is at most twice the number of nodes that list or listed it. `Members` may shrink, but
  what was ever stored only grows, so what is known stays known (`KnownGrows`). For this
  `AppendsFit` follows the handlers between their two steps: each has a message of its
  own that is still to be handled, and has read what was once in `Members`. Connections that close are `PeerDown`'s matter and outside
  these theorems.
* `LeaderIsFound`: `NeverFailed`, if `(2F + 1)^2 > 2F |Up| + MaxLost`, where `MaxLost` bounds all
  entries that appends drop. A `Join` that was handled is or was in `Members`
  (`Entered`). Whoever is counted is then on the
  list that is announced, twice if counted twice, or was dropped (`Tallied`,
  `TwiceListed`); so a list that is sent, wherever it waits or travels, has `2F + 1`
  entries but for those dropped at its sender (`FullLists`), and a quorum of lists
  has `(2F + 1)^2` but for `lost` (`Blamed`: a node that ended proves the opposite of
  the bound). If nobody was named `2F + 1` times there would be
  no more than `2F |Up|` (`Counting`, a sum over rows and over columns, which
  `RowsAtLeast` and `ColumnsAtMost` do by bounded induction, `UpTo`). The bound is
  what the argument needs and not more than it should be: with N = 4 it covers four
  nodes as well as three, but not five of five, where the lists `0,3,4`, `1,3,4` and
  `2,0,1` name nobody three times and the node that has them ends.
* `NobodyLeftWaiting`: `RestMeansElected`, if each started node dials every other and
  itself, as `main` has it do (`Join(GetSeeds())`), and `StartedEnough`: a quorum is
  started, and the bound of `LeaderIsFound` holds. The invariant says what holds as
  long as no append has dropped anything. A node is `Committed` when it has counted a quorum and
  each node whose `Join` it dealt with has a view, or will be told one, or has its list
  or will get it; whoever counts a quorum is (`CountedCommitted`: the list is read from
  `Members` in the same step, and later joiners find the node announcing or with a
  view), and as soon as somebody has a view a quorum is (`ViewCommitted`).
  `Steady` says what a step has to do for that, action by action. At rest everybody
  has dealt with everybody's `Join`, so nobody can lack a view but a node that has the
  lists of a quorum, and such a node has elected (`StillFew`). Where two nodes meet by one
  dial only, the property is not proved and fails in larger networks: a node that is
  dialled and does not dial is answered by nobody, and its reply is ignored by those
  that have a view.

### In a network whose nodes have one view

`OneView` says that the election gave every node the same view. It is the
case the code is written for, and what `Election` shows can fail; then no node
ever enters another view (`ViewsStay`, from `ViewsStayElected`), so no block is
revoked. Without it the properties below are false for the reasons
given in section 3. `MyBftOneView` first shows what a step can be (`Step`, eight
kinds, with the lemma `StepKinds`); all proofs that follow are by these kinds.

`Step` asks two things of a mode: a block that is executed was confirmed by a quorum
(`ConfirmedBlocks`), and a node takes, to confirm it or only to wait for it, what fits
the tip it has (`Takes`). MyBFT has the first from `Certified`. In PBFT mode a node executes
on a quorum of commits; `CommitsFollowConfirms` gives the quorum of confirmations
behind them, whichever nodes commit, so `PbftInv` implies `StoredConfirmed`
(`CommittedStored`) and every step of `PbftNext` is a `Step` (`OneViewInvNext`).
Each theorem from here on is therefore stated and proved for both modes, under the
same hypotheses; `Pbft...` is the name in PBFT mode (`PbftMinesOnce`,
`PbftRepliesOnChain` and so on; `SingleVotesSuffice` is of any state and serves both).

* `NothingIsStranded`: `QueuesWait` says directly that each queue ascends and
  starts two above the tip. It survives `ExecuteBlock` because its loops empty
  the queue of all it could meet, and the deferral because a block at the next
  height is never put into a queue.
* `ParentsAreHeld`, where restarts keep the disk (`~ RestartWipes`; `start.sh`
  deletes it): a node confirms only what fits its tip, so each signer has the
  predecessor (`VotersHoldParent`), and a certificate has a quorum of signers.
  `PbftParentsAreHeld` needs more than its counterpart: the quorum that committed may
  contain nodes that never confirmed, so it is the confirming quorum that is followed.
* `NoProposalMinedTwice`: `MinedInv` adds that the leader's pool holds distinct
  proposals that are in no block, and that a proposal which is in either is in
  `ProposalsCache` of the leader or will not be delivered to it again.
* `AnswersAreKept` (PBFT mode, restarts keep the disk): `RepliesStored`, a reply
  that is counted or on its way comes from a node that holds the proposal.

### With a leader that is not disturbed

`Undisturbed == [][UndisturbedStep]_vars` says that the leader does not restart,
and that an interrupt is handled before the leader has mined again. It is not
an assumption the code justifies: it names exactly what the run `fork` does. The
other nodes may restart, lose their disk, and be behind, and messages may come
in any order or twice.

* `LeaderKeepsTurn`, `ConfirmIsExecuted`: `LeadInv` says that the leader's blocks
  have different heights, the last of them `UnConfirmedH` at most one above its
  tip (`MinedInTurn`), and that nothing waits at the leader (`LeaderInFront`).
  It needs that every block message is of a mined block (`BlocksMined`). In PBFT mode
  `BlockConfirm` is set by what a quorum of commits executes, so the leader's turn lasts
  one phase longer (`PbftLeaderKeepsTurn`, `PbftConfirmIsExecuted`). There, too, a leader
  that restarts in between mines again: the hypothesis is as needed as in MyBFT.
* `OneBlockConfirmed`: with `DisksOnOneChain` (the disks the nodes start from are
  prefixes of the leader's), whoever votes, votes for a block of the leader or one
  that was on disk (`VotesMined`); hence no two blocks of one height are confirmed,
  `OneCertificate`.
* `NodesAgree`: `Agreement`, from the certificate of each stored block; it needs
  no quorum intersection and so holds for N = 2, 3 and 6 as well. Together with
  `ForksNeedDoubleVotes` this says which networks agree: those with a leader that is
  left alone, and those whose nodes vote once per height. In both respects
  PBFT mode promises what MyBFT does (`PbftNodesAgree`, `PbftForksNeedDoubleVotes`): the
  commit phase adds a certificate, no agreement.

### Where one block per height is confirmed

`[]OneCertificate` is the weakest hypothesis found for the chain of one node; by
`OneBlockConfirmed` an undisturbed leader gives it, and by `SingleVotesSuffice`, in
a network whose quorums meet, so does any course of events in which no node
confirms twice at a height, with a leader that restarts as well.

* `ChainsUnbroken`: `PathInv` adds to `QueuesWait` that who confirmed a block had
  a confirmed predecessor (`ParentsConfirmed`) and that the tip is the highest
  stored block. What a node executes is confirmed; the block below it is then
  the only confirmed one of that height, and so the one the node has.
* `RepliesAreKept` (restarts keep the disk), `CachesCoherent`: a step leaves a
  chain alone, or extends it by one block, or executes a block that is on it
  (`Extended`). The first keeps what was on the chain; a lookup changes only for
  zones of the new block, whose cached answers `AddBlock` drops.
* `UndisturbedChain`: the first and the last again, with the hypothesis on
  certificates replaced by an undisturbed leader and `DisksOnOneChain`.

### TLC only

* `EventuallyExecuted` and the fair specification: fairness and ENABLED are out of
  the prover's reach.
* `RestMeansAnswered` is liveness in the form of safety, of all three phases, the data
  sync and the replies together, and it depends on the bounds: a pool that stays
  below `PoolTrigger`, or too few nodes that are up, leave an order unanswered. Of the
  votes in it, `VotesNotOverlooked` proves that none is overlooked.
* What a recursive definition computes for every input (induction over data) has
  no proof here; the proofs use its defining equations only.

## 5. Plan

Done: `MyBft` with `Ledger`, `Proposals` and `BftQuorum`; the proposer's replies and
the commit phase (`Pbft`); `CertChain` and the refinements; `Membership`, `Election`
and `PeerDown`; proofs of every safety invariant of the MyBFT runs (most of them
under the hypotheses of section 4), of those and its own in PBFT mode, but for
`RestMeansAnswered`, of the batch filter, and of all properties of the election.

Next, in this order:

1. Without `OneView`: which of the properties of `MyBftOneView` a network keeps in
   which no `NewView` is accepted.
2. Two leaders with split views: what an entered view revokes, keeps and queues, and
   which instance lets both of them mine.
3. `Framing` (the packet parser over arbitrary cuts of the stream),
   `Backpressure` (bounded channels between loops that broadcast), `ZoneIndex`
   (record index).

Not modelled and not planned: certificate loading and signatures (library work
over files), the configuration, the CLI and `CheckRRs` (pure input and output),
the bind generator (does not compile), `cache`, `blockChain/util`,
`blockChain/cmd` (unused).
