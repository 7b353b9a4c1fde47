----------------------------- MODULE MCElection ------------------------------
(***************************************************************************)
(* Constants of the run Election: three of the four nodes are started, each *)
(* dials itself and the nodes before it, and node 0 dials node 2 as well.   *)
(***************************************************************************)
EXTENDS Election

Mesh == {c \in (0..2) \X (0..2) : c[2] <= c[1]}

MeshAndBack == Mesh \cup {<<0, 2>>}

\* Node 2 has met the others, who have counted a quorum, but not itself: the Join
\* it sends itself and the second one of node 0 race for its Members.
MeshButOne == Mesh \ {<<2, 2>>}
=============================================================================
