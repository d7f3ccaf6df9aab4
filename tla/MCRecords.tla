------------------------------ MODULE MCRecords ------------------------------
(***************************************************************************)
(* One attached publisher, two domain identities of an exclusive class, an *)
(* entity of two generations, and two scenes, told apart by the epoch they *)
(* play in: memberships of two current domains under every membership      *)
(* mutation, and domains under every domain mutation, with the membership  *)
(* mutations that give them members in every lifecycle.                    *)
(***************************************************************************)
EXTENDS Registry, TLC

CONSTANTS p1, b1, d1, d2, m1, m2, e1, c1, k1, k2

MCSource == {[kind |-> k1, id |-> 1], [kind |-> k2, id |-> 1]}
MCClassOf == (d1 :> c1) @@ (d2 :> c1)
MCEntityOf == (m1 :> e1) @@ (m2 :> e1)
MCGrants == {[classes |-> {c1}, ceiling |-> 3]}

Attached ==
  /\ grants = [p \in Publisher |-> [classes |-> Class, ceiling |-> 3]]
  /\ sessions = [p \in Publisher |-> {[boot |-> b1, epoch |-> epoch]}]
  /\ fences = [p \in Publisher |-> << >>]
  /\ members = << >>

MembersInit ==
  /\ epoch = 1 /\ Attached
  /\ \E s \in MCSource :
       domains = [d \in Domain |->
         [life |-> "Current", gen |-> 1,
          prov |-> [pub |-> p1, boot |-> b1, src |-> s, cls |-> 3]]]

DomainsInit == epoch = 2 /\ Attached /\ domains = << >>

SomeMembers ==
  \E a \in Authority, k \in Key :
    \/ \E e \in Attributed(a) : AttachNew(a, e, k)
    \/ DetachMember(a, k)
    \/ WithdrawEvidence(a, k, FALSE, Evidence)

RecordsNext == \/ epoch = 1 /\ MembersNext
               \/ epoch = 2 /\ (DomainsNext \/ SomeMembers)

MembersSpec == MembersInit /\ [][RecordsNext]_vars
DomainsSpec == DomainsInit /\ [][RecordsNext]_vars
RecordsSpec == (MembersInit \/ DomainsInit) /\ [][RecordsNext]_vars

ClosedMembers == {k \in DOMAIN members : members[k].life \in Terminal}

\* The membership scene has two memberships.  In the other two kinds of source
\* make conflicts, and which of them a domain was first declared from does not
\* matter; of up to three memberships two may be closed.
Bounds ==
  \/ /\ epoch = 1
     /\ Cardinality(DOMAIN members) <= 2
  \/ /\ epoch = 2
     /\ \A d \in DOMAIN domains : domains[d].prov.src.kind = k1
     /\ \A k \in DOMAIN members : members[k].head.src.kind = k1
     /\ Cardinality(ClosedMembers) <= 2

Symmetry == Permutations({d1, d2}) \cup Permutations({m1, m2})
=============================================================================
