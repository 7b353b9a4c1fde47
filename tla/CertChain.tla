----------------------------- MODULE CertChain ------------------------------
(***************************************************************************)
(* What the consensus promises, without messages, leaders and views: nodes *)
(* vote for blocks and never take a vote back, and a node stores a block   *)
(* only when a quorum has voted for it.  It may drop its latest block when *)
(* a view begins, or everything when it is started afresh.                 *)
(*                                                                         *)
(* MyBft implements it with confirmations for votes.  Pbft implements it   *)
(* twice: commits are to confirmations what stored blocks are to commits.  *)
(***************************************************************************)
CONSTANTS
  Node,   \* the nodes
  Quorum  \* the sets of nodes whose votes are enough

VARIABLES
  votes,  \* the blocks each node has voted for
  stored  \* the blocks each node holds, without genesis

\* A quorum has voted for b.
Certified(b) == {k \in Node : b \in votes[k]} \in Quorum

\* Every block that is held was voted for by a quorum.
AllCertified == \A n \in Node : \A b \in stored[n] : Certified(b)

Init ==
  /\ DOMAIN votes = Node
  /\ DOMAIN stored = Node
  /\ AllCertified

Vote(n) ==
  /\ \E b \in votes'[n] : votes' = [votes EXCEPT ![n] = @ \cup {b}]
  /\ UNCHANGED stored

Store(n) ==
  /\ \E b \in stored'[n] : Certified(b) /\ stored' = [stored EXCEPT ![n] = @ \cup {b}]
  /\ UNCHANGED votes

Revoke(n) ==
  /\ \E b \in stored[n] : stored' = [stored EXCEPT ![n] = @ \ {b}]
  /\ UNCHANGED votes

Wipe(n) ==
  /\ stored' = [stored EXCEPT ![n] = {}]
  /\ UNCHANGED votes

Next == \E n \in Node : Vote(n) \/ Store(n) \/ Revoke(n) \/ Wipe(n)

Spec == Init /\ [][Next]_<<votes, stored>>
=============================================================================
