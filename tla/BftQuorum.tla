----------------------------- MODULE BftQuorum -----------------------------
(***************************************************************************)
(* Quorum arithmetic of the certificate authority.  The network size n is  *)
(* the number of certificates a node was started with; every threshold of  *)
(* the consensus code is one of the two tests below.                       *)
(***************************************************************************)
EXTENDS Integers, FiniteSets

\* CAX509.GetF: the number of faulty nodes a network of n nodes is sized for.
F(n) == (n - 1) \div 3

\* CAX509.Check: k votes are a quorum of a network of n nodes.
Check(n, k) == k >= 2 * F(n) + 1

\* Q is a set of nodes whose votes pass Check.
IsQuorum(n, Q) == Check(n, Cardinality(Q))

\* Check does not ask for a majority: two quorums share a node only when
\* 2 * (2F + 1) exceeds the size of the network, which fails for the sizes
\* 2, 3 and 6.
QuorumsMeet(n) == 2 * (2 * F(n) + 1) > n
=============================================================================
