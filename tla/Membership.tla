----------------------------- MODULE Membership ------------------------------
(***************************************************************************)
(* DNet: the connections of a node and the two tables over them, Members   *)
(* (one element per Join or JoinReply handled) and Map (by name, the last  *)
(* one wins).  Every connection has a handler goroutine of its own.        *)
(*                                                                         *)
(* A connection is the pair <<a, b>> of the node a that dialled and the    *)
(* node b that accepted.  What its handler does with the other message     *)
(* types is to pass them on; the modules of the consensus say more.        *)
(***************************************************************************)
EXTENDS BftQuorum, Sequences

CONSTANTS
  N,        \* network size: the number of certificates
  Up,       \* the nodes that are started
  Dials,    \* bound: the connections that come about
  Early,    \* bound: the connections over which nodes have met to begin with
  MaxLost   \* bound: entries of Members that appends of others drop

Node == 0..(N - 1)

ASSUME MembershipAssumption ==
  /\ N \in Nat \ {0}
  /\ Up \subseteq Node
  /\ Dials \subseteq Up \X Up
  /\ Early \subseteq Dials
  /\ \A c \in Early : <<c[2], c[1]>> \in Early => c[1] = c[2]
  /\ MaxLost \in Nat

VARIABLES
  dialled,       \* connections opened so far
  packets,       \* messages sent whose handling is not finished
  Members,       \* the members a node knows: [node, conn, by]
  Map,           \* by node, the connection last heard of, as a set
  JoinChan,      \* names of the joining nodes, for the Start loop
  JoinReplyChan, \* [from, view] of the replies, for the Start loop
  appending,     \* by node, the handlers between reading Members and storing it: [msg, read]
  lost,          \* <<node, entry>>: what was in Members until an append dropped it
  alive          \* nodes whose process runs

memberVars == <<dialled, packets, Members, Map, JoinChan, JoinReplyChan, appending, lost, alive>>

JoinMessage(c) == [type |-> "Join", to |-> c[2], conn |-> c, from |-> c[1]]

JoinReplyMessage(c, n, k, view) ==
  [type |-> "JoinReply", to |-> k, conn |-> c, from |-> n, view |-> view]

\* Join: a dials b as soon as both processes run, and retries until then.
Dial(c) ==
  /\ c \notin dialled
  /\ {c[1], c[2]} \subseteq alive
  /\ dialled' = dialled \cup {c}
  /\ packets' = packets \cup {JoinMessage(c)}
  /\ UNCHANGED <<Members, Map, JoinChan, JoinReplyChan, appending, lost, alive>>

Joining(n) == {pk \in packets : pk.to = n /\ pk.type \in {"Join", "JoinReply"}}

\* A node does not list itself for its own reply.
Ignored(pk) == pk.type = "JoinReply" /\ pk.from = pk.to

MemberOf(pk) == [node |-> pk.from, conn |-> pk.conn, by |-> pk.type]

\* handleConn, for a reply that came from the node itself.
IgnoreReply(n) ==
  /\ n \in alive
  /\ \E pk \in Joining(n) : Ignored(pk) /\ packets' = packets \ {pk}
  /\ UNCHANGED <<dialled, Members, Map, JoinChan, JoinReplyChan, appending, lost, alive>>

\* handleConn, for any other Join or JoinReply, in two steps: it reads Members,
\* outside the mutex...
ReadMembers(n) ==
  /\ n \in alive
  /\ \E pk \in Joining(n) :
       /\ ~ Ignored(pk)
       /\ \A r \in appending[n] : r.msg.conn # pk.conn
       /\ appending' = [appending EXCEPT ![n] = @ \cup {[msg |-> pk, read |-> Members[n]]}]
  /\ UNCHANGED <<dialled, packets, Members, Map, JoinChan, JoinReplyChan, lost, alive>>

\* What append makes of the slice it was given: one element more.  Where another
\* append has put something else in the place of an element that was read, the
\* two slices share their array, and so that element, or they do not.
Appended(n, r) ==
  {slice \in SUBSET (r.read \cup Members[n] \cup {MemberOf(r.msg)}) :
     /\ r.read \cap Members[n] \subseteq slice
     /\ MemberOf(r.msg) \in slice
     /\ Cardinality(slice) = Cardinality(r.read) + 1}

\* ...and stores what append returned, whoever has stored something in between;
\* then Map, then the channel.
StoreMember(n) ==
  /\ n \in alive
  /\ \E r \in appending[n] : \E slice \in Appended(n, r) :
       LET pk == r.msg
       IN  /\ Members' = [Members EXCEPT ![n] = slice]
           /\ lost' = lost \cup {<<n, e>> : e \in Members[n] \ slice}
           /\ Cardinality(lost') <= MaxLost
           /\ Map' = [Map EXCEPT ![n][pk.from] = {pk.conn}]
           /\ JoinChan' = [JoinChan EXCEPT ![n] = IF pk.type = "Join" THEN Append(@, pk.from) ELSE @]
           /\ JoinReplyChan' = [JoinReplyChan EXCEPT ![n] =
                IF pk.type = "JoinReply" THEN Append(@, [from |-> pk.from, view |-> pk.view]) ELSE @]
           /\ packets' = packets \ {pk}
           /\ appending' = [appending EXCEPT ![n] = @ \ {r}]
  /\ UNCHANGED <<dialled, alive>>

HandleJoining(n) == IgnoreReply(n) \/ ReadMembers(n) \/ StoreMember(n)

\* Every entry that was ever stored in Members: what is there, and what an append
\* of another handler has dropped.
EverStored(n) == Members[n] \cup {x[2] : x \in {x \in lost : x[1] = n}}

----------------------------------------------------------------------------

\* The connections of Early have been dialled and answered.
EarlyMembers(n) ==
  {[node |-> c[1], conn |-> c, by |-> "Join"] : c \in {c \in Early : c[2] = n}} \cup
  {[node |-> c[2], conn |-> c, by |-> "JoinReply"] :
     c \in {c \in Early : c[1] = n /\ c[2] # n}}

MembershipInit ==
  /\ dialled = Early
  /\ packets = {}
  /\ Members = [n \in Node |-> EarlyMembers(n)]
  /\ Map = [n \in Node |-> [k \in Node |-> {c \in Early : c \in {<<n, k>>, <<k, n>>}}]]
  /\ JoinChan = [n \in Node |-> << >>]
  /\ JoinReplyChan = [n \in Node |-> << >>]
  /\ appending = [n \in Node |-> {}]
  /\ lost = {}
  /\ alive = Up
=============================================================================
