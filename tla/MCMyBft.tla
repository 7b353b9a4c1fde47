------------------------------ MODULE MCMyBft ------------------------------
(***************************************************************************)
(* Constant values for the TLC runs of MyBft.                              *)
(***************************************************************************)
EXTENDS MyBft

\* Host h orders an operation on zone z.
Operation(id, type, z, h) ==
  [id |-> id, type |-> type, zone |-> z, owner |-> OwnerOf(type, h), from |-> h]

AddA  == Operation("addA", "Add", "a", 1)
AddB  == Operation("addB", "Add", "b", 2)
AddA0 == Operation("addA0", "Add", "a", 0)
AddB0 == Operation("addB0", "Add", "b", 0)

OneAdd  == {AddA}
TwoAdds == {AddA, AddB}

\* Orders of node 0.
LocalAdd  == {AddA0}
LocalAdds == {AddA0, AddB0}

\* Two hosts want the same zone.
SameZone == {AddA, AddA0}

\* Everybody left the election with view 0, so node 0 leads.
ViewZero == [n \in Node |-> 0]

\* Node 0 counted one more vote for node 2's predecessor in the election and
\* is one view behind the others.
SplitViews == [n \in Node |-> IF n = 0 THEN 0 ELSE 1]

\* Nobody has stored a block yet.
EmptyDisk == [n \in Node |-> Genesis]

\* An earlier run executed two blocks while node 3 was away.
AddC == Operation("addC", "Add", "c", 1)
AddD == Operation("addD", "Add", "d", 1)

OldChain == <<[ps |-> <<AddC>>, stamp |-> 0], [ps |-> <<AddD>>, stamp |-> 0]>>

NodeThreeBehind == [n \in Node |-> IF n = 3 THEN Genesis ELSE OldChain]

NodeThreeOneBehind == [n \in Node |-> IF n = 3 THEN Genesis ELSE SubSeq(OldChain, 1, 1)]

WithOld == {AddA, AddC, AddD}

TwoMore == {AddA, AddB0}

WithOldTwo == WithOld \cup TwoMore
=============================================================================
