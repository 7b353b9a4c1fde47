------------------------------- MODULE Ledger -------------------------------
(***************************************************************************)
(* One node's persistent state: the bolt database of validated blocks with *)
(* its "l" entry (the tip), and the leveldb cache of zone lookups in front *)
(* of it (dao.Db).                                                         *)
(*                                                                         *)
(* A block is identified by its hash, and its hash covers the hash of its  *)
(* predecessor: a block id is therefore the sequence of the entries from   *)
(* the first block after genesis up to the block itself, its height the    *)
(* length and PrevBlock the front of that sequence.  An entry              *)
(*     [ps |-> proposals of the block, stamp |-> its creation second]      *)
(* stands for the rest of the header (Merkle root and timestamp).          *)
(*                                                                         *)
(* A ledger is a record                                                    *)
(*     [db : set of [blk, sigs], tip : block id, zdb : set of [zone, last]] *)
(* where zdb holds one element per zone whose lookup is cached; "last" is  *)
(* the set of the proposal found, empty for a cached "not found".          *)
(***************************************************************************)
EXTENDS Proposals

Genesis == << >>

Height(blk) == Len(blk)

PrevBlock(blk) == SubSeq(blk, 1, Len(blk) - 1)

\* The ancestor of blk at height h.
Ancestor(blk, h) == SubSeq(blk, 1, h)

\* The proposals of a block, and the zones they touch.
ProposalsOf(blk) == IF blk = Genesis THEN << >> ELSE blk[Len(blk)].ps

ZonesOf(blk) == {ProposalsOf(blk)[i].zone : i \in DOMAIN ProposalsOf(blk)}

\* CreateBlockchain: the database of a node that never stored a block.
GenesisLedger == [db |-> {[blk |-> Genesis, sigs |-> {}]}, tip |-> Genesis, zdb |-> {}]

Stored(l, blk) == \E b \in l.db : b.blk = blk

\* GetLatestBlock answers, with the block "l" points to.
TipStored(l) == Stored(l, l.tip)

LatestBlock(l) == CHOOSE b \in l.db : b.blk = l.tip

\* The Iterator can walk from the tip down to height h.
ReadableTo(l, h) == \A j \in h..Height(l.tip) : Stored(l, Ancestor(l.tip, j))

\* GetBlockByHeight answers, and with which block.
HasBlockAt(l, h) == h <= Height(l.tip) /\ ReadableTo(l, h)

BlockByHeight(l, h) == CHOOSE b \in l.db : b.blk = Ancestor(l.tip, h)

----------------------------------------------------------------------------
(* AddBlock(b): the cached lookups of the block's zones go, a block that   *)
(* is not stored yet is stored, and the tip follows when the block is      *)
(* higher.  Neither PrevBlock nor the signatures are looked at.            *)

AddBlockKeepsLookups(l, b) == \* mutant: the cached lookups stay
  [db  |-> IF Stored(l, b.blk) THEN l.db ELSE l.db \cup {b},
   tip |-> IF ~ Stored(l, b.blk) /\ Height(b.blk) > Height(l.tip) THEN b.blk ELSE l.tip,
   zdb |-> l.zdb]
AddBlockKeepsTip(l, b) == \* mutant: the block is stored below the tip
  [db  |-> IF Stored(l, b.blk) THEN l.db ELSE l.db \cup {b},
   tip |-> IF ~ Stored(l, b.blk) /\ Height(b.blk) > Height(l.tip) + 1 THEN b.blk ELSE l.tip,
   zdb |-> {e \in l.zdb : e.zone \notin ZonesOf(b.blk)}]
AddBlock(l, b) ==
  [db  |-> IF Stored(l, b.blk) THEN l.db ELSE l.db \cup {b},
   tip |-> IF ~ Stored(l, b.blk) /\ Height(b.blk) > Height(l.tip) THEN b.blk ELSE l.tip,
   zdb |-> {e \in l.zdb : e.zone \notin ZonesOf(b.blk)}]

\* RevokeBlock: the tip falls back to its predecessor and the block is
\* deleted; the cached lookups stay as they are.
RevokeBlock(l) ==
  [l EXCEPT !.db  = {b \in @ : b.blk # l.tip},
            !.tip = PrevBlock(@)]

----------------------------------------------------------------------------
(* Zone lookups.                                                           *)

\* Heights of the blocks on the chain of l that hold a proposal for zone z.
Mentions(l, z) == {h \in 1..Height(l.tip) : z \in ZonesOf(Ancestor(l.tip, h))}

\* Blockchain.Get finds the last proposal of the newest block that has one.
LastMention(l, z) ==
  LET h  == CHOOSE h \in Mentions(l, z) : \A g \in Mentions(l, z) : g <= h
      ps == ProposalsOf(Ancestor(l.tip, h))
      i  == CHOOSE i \in DOMAIN ps : /\ ps[i].zone = z
                                     /\ \A j \in (i+1)..Len(ps) : ps[j].zone # z
  IN  ps[i]

OnChain(l, z) == IF Mentions(l, z) = {} THEN {} ELSE {LastMention(l, z)}

\* Blockchain.Get gives up with an error when a block it walks over is gone.
ChainReadable(l, z) ==
  ReadableTo(l, IF Mentions(l, z) = {} THEN 0
                ELSE CHOOSE h \in Mentions(l, z) : \A g \in Mentions(l, z) : g <= h)

IsCached(l, z) == \E e \in l.zdb : e.zone = z

\* GetZoneName answers (with the proposal or with ErrNotFound)...
ZoneReadable(l, z) == IsCached(l, z) \/ ChainReadable(l, z)

\* ...from the cache when it can...
GetZoneName(l, z) ==
  IF IsCached(l, z) THEN (CHOOSE e \in l.zdb : e.zone = z).last ELSE OnChain(l, z)

\* ...and caches the answer, the negative one too.
WithLookup(l, z) ==
  IF ZoneReadable(l, z)
  THEN [l EXCEPT !.zdb = @ \cup {[zone |-> z, last |-> GetZoneName(l, z)]}]
  ELSE l
=============================================================================
