------------------------------ MODULE MCFencing ------------------------------
EXTENDS Registry, TLC

CONSTANTS p1, p2, b1, b2, b3, d1, e1, c1, k1

MCSource == {[kind |-> k1, id |-> 1]}
MCClassOf == (d1 :> c1)
MCEntityOf == (e1 :> e1)
MCGrants == {[classes |-> {c1}, ceiling |-> 2]}

FencingNext ==
  \/ AuthorityNext
  \/ \E a \in Authority : \E e \in Attributed(a) :
       \/ \E d \in Domain : DeclareNew(a, e, d, TRUE) \/ Redeclare(a, e, d, TRUE, TRUE)
       \/ \E k \in Key : AttachNew(a, e, k) \/ AttachExisting(a, e, k, TRUE)
  \/ \E a \in Authority, k \in Key, thisBoot \in BOOLEAN :
       WithdrawEvidence(a, k, thisBoot, Evidence)

FencingSpec == Init /\ [][FencingNext]_vars

Symmetry == Permutations({p1, p2}) \cup Permutations({b1, b2, b3})
=============================================================================
