----------------------------- MODULE MCPeerDown ------------------------------
(***************************************************************************)
(* Constants of the run PeerDown: all four nodes have met, each having      *)
(* dialled itself and the nodes before it, and node 0 has yet to dial       *)
(* node 1.                                                                  *)
(***************************************************************************)
EXTENDS PeerDown

Mesh == {c \in (0..3) \X (0..3) : c[2] <= c[1]}

MeshAndBack == Mesh \cup {<<0, 1>>}
=============================================================================
