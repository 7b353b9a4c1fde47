---------------------------- MODULE MCProposals ----------------------------
(***************************************************************************)
(* The leader's batch filter on every pool of a few proposals for one or   *)
(* two zones: ProposalMessagePool.AddProposal grows the pool by any        *)
(* proposal, a second copy of one included.                                *)
(***************************************************************************)
EXTENDS Proposals

CONSTANTS Host, Zone, MaxPool

VARIABLE pool

\* One proposal per type, zone and host.
Proposal ==
  {[id |-> <<t, z, h>>, type |-> t, zone |-> z, owner |-> OwnerOf(t, h), from |-> h]
     : t \in {"Add", "Del", "Mod"}, z \in Zone, h \in Host}

Init == pool = << >>

AddProposal(p) == Len(pool) < MaxPool /\ pool' = Append(pool, p)

Next == \E p \in Proposal : AddProposal(p)

Spec == Init /\ [][Next]_pool

batch == CheckProposals(pool)

\* Whatever is in the pool, a replica that filters the leader's batch again
\* (ValidateProposals) comes to the same valid proposals and accepts the block:
\* the abandoned proposals travel behind the valid ones, in another order than
\* the one the leader saw them in.
LeaderBatchAccepted == ValidateProposals(batch.valid, batch.abandoned)

\* A proposal does not get lost in the filter: it is valid, abandoned (the
\* replicas then mark it "drop"), or a copy of one that is valid.
NothingLost ==
  \A i \in DOMAIN pool :
    \/ \E j \in DOMAIN batch.valid : batch.valid[j].id = pool[i].id
    \/ \E j \in DOMAIN batch.abandoned : batch.abandoned[j].id = pool[i].id
=============================================================================
