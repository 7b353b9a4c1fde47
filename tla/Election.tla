------------------------------ MODULE Election -------------------------------
(***************************************************************************)
(* The election that starts a node: the Start loop of either consensus     *)
(* answers Joins, tells everybody which nodes it knows, and takes the      *)
(* highest node that enough of the lists it has received name.  It runs    *)
(* beside the handlers of the connections, which change Members.           *)
(***************************************************************************)
EXTENDS Membership

VARIABLES
  View,               \* the view, -1 until the node has left the election
  JoinMessages,       \* the nodes whose Join was answered
  JoinReplyMessages,  \* the nodes that answered
  InitLeaderMessages, \* by sender, the last list received
  announcing,         \* the list between GetAllNodeIds and BroadCast
  failed              \* the nodes that ended because GetLeaderNode found nobody

startVars == <<View, JoinMessages, JoinReplyMessages, InitLeaderMessages, announcing, failed>>
electionVars == <<memberVars, startVars>>

NoView == -1

\* A list of node ids is a bag: a peer that is in Members twice counts twice.
NoIds == [k \in Node |-> 0]

GetAllNodeIds(n) == [k \in Node |-> Cardinality({e \in Members[n] : e.node = k})]

InitLeaderMessage(n, k, ids) == [type |-> "InitLeader", to |-> k, from |-> n, ids |-> ids]

\* GetAllNodeIds, when it is time to.
Announce(n, now) ==
  announcing' = [announcing EXCEPT ![n] = IF now THEN GetAllNodeIds(n) ELSE @]

\* The Start loop waits at its select.
Idle(n) == n \in alive /\ announcing[n] = NoIds

----------------------------------------------------------------------------

\* What node n has collected and is sent for the election is of no more use.
Leave(n) ==
  /\ JoinMessages' = [JoinMessages EXCEPT ![n] = {}]
  /\ JoinReplyMessages' = [JoinReplyMessages EXCEPT ![n] = {}]
  /\ InitLeaderMessages' = [InitLeaderMessages EXCEPT ![n] = [k \in Node |-> NoIds]]

Lists(n) == {pk \in packets : pk.to = n /\ pk.type = "InitLeader"}

\* JoinReplyChan: a peer that has a view passes it on.
AdoptView(n) ==
  /\ Idle(n) /\ JoinReplyChan[n] # << >>
  /\ View[n] = NoView /\ Head(JoinReplyChan[n]).view # NoView
  /\ View' = [View EXCEPT ![n] = Head(JoinReplyChan[n]).view]
  /\ JoinReplyChan' = [JoinReplyChan EXCEPT ![n] = Tail(@)]
  /\ packets' = packets \ Lists(n)
  /\ Leave(n)
  /\ UNCHANGED <<dialled, Members, Map, JoinChan, appending, lost, alive, announcing, failed>>

\* JoinReplyChan, otherwise; a node that has a view ignores replies.
CountReply(n) ==
  /\ Idle(n) /\ JoinReplyChan[n] # << >>
  /\ View[n] # NoView \/ Head(JoinReplyChan[n]).view = NoView
  /\ JoinReplyMessages' = [JoinReplyMessages EXCEPT ![n] =
       IF View[n] = NoView THEN @ \cup {Head(JoinReplyChan[n]).from} ELSE @]
  /\ Announce(n, View[n] = NoView /\
       Check(N, Cardinality(JoinReplyMessages'[n]) + Cardinality(JoinMessages[n])))
  /\ JoinReplyChan' = [JoinReplyChan EXCEPT ![n] = Tail(@)]
  /\ UNCHANGED <<dialled, packets, Members, Map, JoinChan, appending, lost, alive,
                 View, JoinMessages, InitLeaderMessages, failed>>

\* JoinChan: every Join is answered with the view, over the connection that Map
\* has for the node by now.
AnswerJoin(n) ==
  /\ Idle(n) /\ JoinChan[n] # << >>
  /\ LET k == Head(JoinChan[n])
     IN  /\ packets' = packets \cup {JoinReplyMessage(c, n, k, View[n]) : c \in Map[n][k]}
         /\ JoinMessages' = [JoinMessages EXCEPT ![n] = IF View[n] = NoView THEN @ \cup {k} ELSE @]
  /\ Announce(n, View[n] = NoView /\
       Check(N, Cardinality(JoinReplyMessages[n]) + Cardinality(JoinMessages'[n])))
  /\ JoinChan' = [JoinChan EXCEPT ![n] = Tail(@)]
  /\ UNCHANGED <<dialled, Members, Map, JoinReplyChan, appending, lost, alive,
                 View, JoinReplyMessages, InitLeaderMessages, failed>>

\* Who is sent the list: a node is a member of its own, by the Join it sent to
\* itself.
OtherListeners(n) == {k \in Node \ {n} : View[k] = NoView /\ k \in {e.node : e \in Members[n]}} \* mutant: the sender leaves itself out
Listeners(n) == {k \in Node : View[k] = NoView /\ k \in {e.node : e \in Members[n]}}

\* BroadCast of the list, to the members there are by now; those that have a
\* view will ignore it.
SendInitLeader(n) ==
  /\ n \in alive /\ announcing[n] # NoIds
  /\ packets' = packets \cup
       {InitLeaderMessage(n, k, announcing[n]) : k \in Listeners(n)}
  /\ announcing' = [announcing EXCEPT ![n] = NoIds]
  /\ UNCHANGED <<dialled, Members, Map, JoinChan, JoinReplyChan, appending, lost, alive,
                 View, JoinMessages, JoinReplyMessages, InitLeaderMessages, failed>>

\* GetLeaderNode: the ids that are listed often enough in lists.
Listed(lists, k) ==
  LET Sum[j \in 0..N] == IF j = 0 THEN 0 ELSE Sum[j - 1] + lists[j - 1][k]
  IN  Sum[N]

CandidatesOfFew(lists) == {k \in Node : Listed(lists, k) >= F(N) + 1} \* mutant: f + 1 lists are enough
Candidates(lists) == {k \in Node : Check(N, Listed(lists, k))}

\* A quorum of senders.
SomeLists(lists) == Cardinality({k \in Node : lists[k] # NoIds}) >= F(N) + 1 \* mutant: f + 1 senders are enough
EnoughLists(lists) == Check(N, Cardinality({k \in Node : lists[k] # NoIds}))

\* InitLeaderChan: the last list of each sender counts...
CountList(n) ==
  /\ Idle(n) /\ View[n] = NoView
  /\ \E pk \in Lists(n) :
       LET lists == [InitLeaderMessages[n] EXCEPT ![pk.from] = pk.ids]
       IN  /\ ~ EnoughLists(lists)
           /\ packets' = packets \ {pk}
           /\ InitLeaderMessages' = [InitLeaderMessages EXCEPT ![n] = lists]
  /\ UNCHANGED <<dialled, Members, Map, JoinChan, JoinReplyChan, appending, lost, alive,
                 View, JoinMessages, JoinReplyMessages, announcing, failed>>

\* ...and with the lists of a quorum of senders the node takes the highest
\* candidate, or ends when there is none.
Elect(n) ==
  /\ Idle(n) /\ View[n] = NoView
  /\ \E pk \in Lists(n) :
       LET lists   == [InitLeaderMessages[n] EXCEPT ![pk.from] = pk.ids]
           leaders == Candidates(lists)
       IN  /\ EnoughLists(lists)
           /\ IF leaders = {}
              THEN failed' = failed \cup {n} /\ alive' = alive \ {n} /\ UNCHANGED View
              ELSE /\ View' = [View EXCEPT ![n] = CHOOSE k \in leaders : \A j \in leaders : j <= k]
                   /\ UNCHANGED <<failed, alive>>
  /\ packets' = packets \ Lists(n)
  /\ Leave(n)
  /\ UNCHANGED <<dialled, Members, Map, JoinChan, JoinReplyChan, appending, lost, announcing>>

----------------------------------------------------------------------------

\* Of the nodes that have met, none has announced its list; who has just counted a
\* quorum has read it.
ElectionInit ==
  /\ MembershipInit
  /\ View = [n \in Node |-> NoView]
  /\ JoinMessages = [n \in Node |-> {k \in Node : <<k, n>> \in Early}]
  /\ JoinReplyMessages = [n \in Node |-> {k \in Node \ {n} : <<n, k>> \in Early}]
  /\ InitLeaderMessages = [n \in Node |-> [k \in Node |-> NoIds]]
  /\ LET Count(n) == Cardinality(JoinMessages[n]) + Cardinality(JoinReplyMessages[n])
     IN  /\ \A n \in Node : Count(n) <= 2 * F(N) + 1
         /\ announcing = [n \in Node |-> IF Check(N, Count(n)) THEN GetAllNodeIds(n) ELSE NoIds]
  /\ failed = {}

Handlers(n) == HandleJoining(n) /\ UNCHANGED startVars

StartLoop(n) ==
  AdoptView(n) \/ CountReply(n) \/ AnswerJoin(n) \/ SendInitLeader(n) \/ CountList(n) \/ Elect(n)

ElectionNext ==
  \/ \E c \in Dials : Dial(c) /\ UNCHANGED startVars
  \/ \E n \in Up : Handlers(n) \/ StartLoop(n)

ElectionSpec == ElectionInit /\ [][ElectionNext]_electionVars

----------------------------------------------------------------------------
(* Properties.                                                             *)

\* Everybody has dialled, and every message, queue and list is dealt with.
AtRest ==
  /\ dialled = Dials /\ packets = {}
  /\ \A n \in alive : JoinChan[n] = << >> /\ JoinReplyChan[n] = << >> /\ announcing[n] = NoIds

\* What GetAllNodeIds would return had no append dropped anything.
StoredIds(n) == [k \in Node |-> Cardinality({e \in EverStored(n) : e.node = k})]

\* The nodes that know node k, or did until an append dropped it: it is or was in
\* their Members.
Knowing(k) == {n \in Up : k \in {e.node : e \in EverStored(n)}}

\* Start announces a list only when a message comes in, and never again: if no
\* append was lost, every node that has run out of messages to handle has a
\* view, its own or one that it was told.  Nobody waits for a list that nobody
\* is left to send.
RestMeansElected == AtRest /\ lost = {} => \A n \in alive : View[n] # NoView

\* A list is read from Members while the handlers change it.  A join may be
\* missing from it, for the time being or for good, or be dropped after it was
\* announced, and the quorum that made the node announce it counts a peer that
\* joined and answered twice: GetLeaderNode finds a leader in a quorum of such
\* lists all the same, and Start does not end the process.
NeverFailed == failed = {}

\* The view a node starts with, elected or adopted, names a node that the
\* Members of all nodes list often enough for GetLeaderNode, but for what appends
\* have dropped since: nothing that was counted came from an old list twice, and
\* Members loses entries in no other way.  And F + 1 of the nodes, one of them not
\* faulty, have or had the leader as a member and could send it their proposals and
\* confirmations.  A quorum of them need not: two nodes that dialled each other list
\* one another twice.
LeaderKnown ==
  \A n \in Up : View[n] # NoView =>
    /\ Check(N, Listed([j \in Node |-> StoredIds(j)], View[n]))
    /\ Cardinality(Knowing(View[n])) >= F(N) + 1
=============================================================================
