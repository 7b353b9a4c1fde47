------------------------------ MODULE PeerDown -------------------------------
(***************************************************************************)
(* What the handlers of a node's connections do when a peer's process ends: *)
(* each of them reads the end of its connection and corrects Members and    *)
(* Map.  Beside them the other nodes go on joining.                         *)
(***************************************************************************)
EXTENDS Election

CONSTANT MaxDown  \* bound: nodes whose process is ended from outside

VARIABLES
  down,     \* the nodes whose process was ended
  handled,  \* by node, the connections whose handler has returned or is deaf
  panicked  \* the nodes that ended in the handler of a closed connection

closeVars == <<down, handled, panicked>>
peerVars == <<electionVars, closeVars>>

\* Everything has been dialled and answered.
Settled ==
  /\ dialled = Dials /\ packets = {}
  /\ \A n \in Up : JoinChan[n] = << >> /\ JoinReplyChan[n] = << >>

\* The process of n ends, and its connections with it.  Bound: once all have met.
Down(n) ==
  /\ n \in alive
  /\ Settled
  /\ Cardinality(down) < MaxDown
  /\ alive' = alive \ {n}
  /\ down' = down \cup {n}
  /\ UNCHANGED <<dialled, packets, Members, Map, JoinChan, JoinReplyChan, appending, lost, startVars,
                 handled, panicked>>

\* Connection c of node n, whose other end is gone.
Closed(n, c) ==
  /\ n \in alive /\ c \in dialled \ handled[n]
  /\ \E k \in Up \ alive : c \in {<<n, k>>, <<k, n>>}

\* The members whose RemoteAddr is that of connection c.
AtAddress(n, c) == {e \in Members[n] : e.conn = c}

Panic(n) ==
  /\ alive' = alive \ {n}
  /\ panicked' = panicked \cup {n}

\* handleConn at io.EOF, for a connection that no member has.
CloseUnknown(n, c) ==
  /\ Closed(n, c) /\ AtAddress(n, c) = {}
  /\ handled' = [handled EXCEPT ![n] = @ \cup {c}]
  /\ IF Check(N, Cardinality(Members[n])) THEN UNCHANGED <<alive, panicked>> ELSE Panic(n)
  /\ UNCHANGED <<dialled, packets, Members, Map, JoinChan, JoinReplyChan, appending, lost, startVars, down>>

\* Its member goes, with the connection Map has for that name, which is closed:
\* if that is another one, its handler either has read the end already, or reads
\* an error that is not io.EOF, for ever.
CloseMember(n, c) ==
  /\ Closed(n, c)
  /\ \E e \in AtAddress(n, c) :
       /\ Map[n][e.node] # {}
       /\ Members' = [Members EXCEPT ![n] = @ \ {e}]
       /\ \E deaf \in SUBSET Map[n][e.node] :
            handled' = [handled EXCEPT ![n] = @ \cup {c} \cup deaf]
       /\ Map' = [Map EXCEPT ![n][e.node] = {}]
  /\ IF Check(N, Cardinality(Members'[n])) THEN UNCHANGED <<alive, panicked>> ELSE Panic(n)
  /\ UNCHANGED <<dialled, packets, JoinChan, JoinReplyChan, appending, lost, startVars, down>>

\* Map has nothing left for that name: Conn of the zero DNode is nil.
CloseForgotten(n, c) ==
  /\ Closed(n, c)
  /\ \E e \in AtAddress(n, c) : Map[n][e.node] = {}
  /\ Panic(n)
  /\ UNCHANGED <<dialled, packets, Members, Map, JoinChan, JoinReplyChan, appending, lost, startVars,
                 down, handled>>

HandleClose(n, c) == CloseUnknown(n, c) \/ CloseMember(n, c) \/ CloseForgotten(n, c)

Highest == CHOOSE k \in Up : \A j \in Up : j <= k

\* The nodes have met, and have elected the highest of them.
PeerInit ==
  /\ \A n, k \in Up : <<n, k>> \in Early \/ <<k, n>> \in Early
  /\ MembershipInit
  /\ View = [n \in Node |-> IF n \in Up THEN Highest ELSE NoView]
  /\ JoinMessages = [n \in Node |-> {}]
  /\ JoinReplyMessages = [n \in Node |-> {}]
  /\ InitLeaderMessages = [n \in Node |-> [k \in Node |-> NoIds]]
  /\ announcing = [n \in Node |-> NoIds]
  /\ failed = {}
  /\ down = {}
  /\ handled = [n \in Node |-> {}]
  /\ panicked = {}

PeerNext ==
  \/ ElectionNext /\ UNCHANGED closeVars
  \/ \E n \in Up : Down(n) \/ \E c \in Dials : HandleClose(n, c)

PeerSpec == PeerInit /\ [][PeerNext]_peerVars

\* The handler of a closed connection ends the process for one reason, which its
\* panic names, "[Network] Not enough nodes alive" (networkDirect.go:152): too
\* few nodes were left.  Whoever panicked was one of fewer than a quorum.
PanicMeansTooFew == panicked # {} => ~ Check(N, Cardinality(Up \ down))
=============================================================================
