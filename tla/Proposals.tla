----------------------------- MODULE Proposals -----------------------------
(***************************************************************************)
(* Zone operations and the leader's batch filter.                          *)
(*                                                                         *)
(* A proposal is a record                                                  *)
(*     [id, type, zone, owner, from]                                       *)
(* of messages.ProposalMessage; the hash id is an opaque value, the record *)
(* values, the nonce and the signature are left out (no node forges one).  *)
(* A proposer signs with its own host name, so "from" is the host that     *)
(* created the proposal.                                                   *)
(***************************************************************************)
EXTENDS Integers, Sequences, FiniteSets

\* The owner of a zone that was given up ("No owner"), no host's name.
Dereliction == -1

\* NewProposal: Add and Mod name the proposer as owner, Del names nobody.
OwnerOf(type, from) == IF type = "Del" THEN Dereliction ELSE from

----------------------------------------------------------------------------
(* Validation against the zone's last committed proposal.  "last" is the   *)
(* set holding that proposal, empty when dao.GetZoneName answers           *)
(* leveldb.ErrNotFound.                                                    *)

ValidateAdd(p, last) == \A q \in last : q.owner = Dereliction

ValidateDel(p, last) ==
  /\ p.owner = Dereliction
  /\ \E q \in last : p.from = q.owner

ValidateMod(p, last) ==
  \E q \in last : p.from = q.owner /\ p.owner = q.owner

\* handleProposal: the check of a proposal on its reception.
Admissible(p, last) ==
  \/ p.type = "Add" /\ ValidateAdd(p, last)
  \/ p.type = "Del" /\ ValidateDel(p, last)
  \/ p.type = "Mod" /\ ValidateMod(p, last)

----------------------------------------------------------------------------
(* CheckProposals walks a batch and compares every proposal with the FIRST *)
(* one of the same zone: filter[zone] is appended to for that one only.    *)

LastOfZone(ps, i) == \* mutant: compares with the latest proposal of the zone
  CHOOSE j \in 1..i : /\ ps[j].zone = ps[i].zone
                      /\ j = i => \A k \in 1..(i-1) : ps[k].zone # ps[i].zone
                      /\ \A k \in (j+1)..(i-1) : ps[k].zone # ps[i].zone

\* Position of the first proposal of ps for the zone of ps[i].
FirstOfZone(ps, i) ==
  CHOOSE j \in 1..i : /\ ps[j].zone = ps[i].zone
                      /\ \A k \in 1..(j-1) : ps[k].zone # ps[i].zone

\* The conflict rules for a later proposal p against the first one, q.
Compatible(p, q) ==
  \/ p.type = "Add" /\ q.owner = Dereliction
  \/ p.type = "Mod" /\ q.owner = p.owner /\ q.owner = p.from
  \/ p.type = "Del" /\ p.owner = Dereliction /\ q.owner = p.from

ValidPositions(ps) ==
  {i \in 1..Len(ps) : LET j == FirstOfZone(ps, i)
                      IN  j = i \/ (ps[i].id # ps[j].id /\ Compatible(ps[i], ps[j]))}

AbandonedAdditions(ps) == \* mutant: only refused additions are abandoned
  {i \in 1..Len(ps) : LET j == FirstOfZone(ps, i)
                      IN  j # i /\ ps[i].type = "Add" /\ ~ Compatible(ps[i], ps[j])}

\* A second copy of the first proposal is dropped without being abandoned.
AbandonedPositions(ps) ==
  {i \in 1..Len(ps) : LET j == FirstOfZone(ps, i)
                      IN  j # i /\ ps[i].id # ps[j].id /\ ~ Compatible(ps[i], ps[j])}

\* The k-th smallest element of a finite set V of positions.
Nth(V, k) == CHOOSE i \in V : Cardinality({j \in V : j <= i}) = k

\* The elements of s at the positions V, in order.
Pick(s, V) == [k \in 1..Cardinality(V) |-> s[Nth(V, k)]]

CheckProposals(ps) == [valid     |-> Pick(ps, ValidPositions(ps)),
                       abandoned |-> Pick(ps, AbandonedPositions(ps))]

\* ValidateProposals: a replica filters the leader's valid proposals followed
\* by the abandoned ones again and must find the same valid ones.
ValidateProposals(valid, abandoned) == CheckProposals(valid \o abandoned).valid = valid
=============================================================================
