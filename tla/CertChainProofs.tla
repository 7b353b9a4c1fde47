--------------------------- MODULE CertChainProofs ---------------------------
(***************************************************************************)
(* What CertChain promises holds in every state, not only when a block is  *)
(* stored: votes are never taken back.                                     *)
(***************************************************************************)
EXTENDS CertChain, TLAPS

\* More votes than a quorum are a quorum.
QuorumsGrow == \A Q \in Quorum : \A R \in SUBSET Node : Q \subseteq R => R \in Quorum

CertifiedInv == DOMAIN votes = Node /\ DOMAIN stored = Node /\ AllCertified

LEMMA CertifiedNext ==
  ASSUME QuorumsGrow, CertifiedInv, [Next]_<<votes, stored>>
  PROVE  CertifiedInv'
<1>1. /\ DOMAIN votes' = Node /\ DOMAIN stored' = Node
      /\ \A k \in Node : votes[k] \subseteq votes'[k]
      /\ \A k \in Node : \A b \in stored'[k] : b \in stored[k] \/ Certified(b)
  <2>1. CASE UNCHANGED <<votes, stored>>
    BY <2>1 DEF CertifiedInv
  <2>2. ASSUME NEW n \in Node, Vote(n) PROVE <1>1!:
    BY <2>2 DEF Vote, CertifiedInv
  <2>3. ASSUME NEW n \in Node, Store(n) PROVE <1>1!:
    BY <2>3 DEF Store, CertifiedInv
  <2>4. ASSUME NEW n \in Node, Revoke(n) \/ Wipe(n) PROVE <1>1!:
    BY <2>4 DEF Revoke, Wipe, CertifiedInv
  <2> QED
    BY <2>1, <2>2, <2>3, <2>4 DEF Next
<1>2. ASSUME NEW b, Certified(b) PROVE Certified(b)'
  <2>1. {k \in Node : b \in votes[k]} \subseteq {k \in Node : b \in votes'[k]}
    BY <1>1
  <2> QED
    BY <1>2, <2>1 DEF Certified, QuorumsGrow
<1>3. \A n \in Node : \A b \in stored'[n] : Certified(b)
  BY <1>1 DEF CertifiedInv, AllCertified
<1> QED
  BY <1>1, <1>2, <1>3 DEF CertifiedInv, AllCertified

\* In CertChain every block a node holds has been voted for by a quorum, also
\* after blocks were dropped and disks were emptied.
THEOREM HeldIsCertified == QuorumsGrow => (Spec => []AllCertified)
<1> SUFFICES ASSUME QuorumsGrow PROVE Spec => []AllCertified
  OBVIOUS
<1>1. Init => CertifiedInv
  BY DEF Init, CertifiedInv
<1>2. CertifiedInv /\ [Next]_<<votes, stored>> => CertifiedInv'
  BY CertifiedNext
<1>3. CertifiedInv => AllCertified
  BY DEF CertifiedInv
<1> QED
  BY <1>1, <1>2, <1>3, PTL DEF Spec
=============================================================================
