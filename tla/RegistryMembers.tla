--------------------------- MODULE RegistryMembers ---------------------------
(***************************************************************************)
(* The membership mutations of src/src/registry_mutations.cpp, for records *)
(* of one kind other than Derived.  The entries of a batch share one       *)
(* provenance.                                                             *)
(***************************************************************************)
EXTENDS RegistryState

\* Domains that carry members: open, and neither in doubt nor in conflict.
Carries(d) == d \in DOMAIN domains /\ domains[d].life \in {"Candidate", "Current"}

OnlyMembers   == KeepAuthority /\ UNCHANGED domains

StoreMember(k, r) == members' = Store(members, k, r) /\ OnlyMembers

\* Mutant of Open: closed records are taken for open ones.
OpenAny(k) == k \in DOMAIN members

Open(k) == k \in DOMAIN members /\ members[k].life \notin Terminal

NewMember(k, e) ==
  [life |-> "Current", domGen |-> domains[k[1]].gen, head |-> e,
   ev |-> [NoEvidence EXCEPT ![e] = 1]]

\* An existing record that takes e for its headline, next to its evidence.
Reasserted(k, e) == [Attested(members[k], e) EXCEPT !.domGen = domains[k[1]].gen]

(***************************************************************************)
(* attach_member, by what it finds.                                        *)
(***************************************************************************)
MayAttach(a, k) == Carries(k[1]) /\ Authorized(a, k[1])

AttachNew(a, e, k) ==
  /\ MayAttach(a, k) /\ k \notin DOMAIN members
  /\ ~ExclusiveConflict(k)
  /\ Cardinality(DOMAIN members) < MaxMemberships
  /\ StoreMember(k, NewMember(k, e))

\* The same fact again, with the same role, dependency and metadata: an
\* idempotent answer.  sameContent is the caller's choice of those three.
SameMembership(k, e, sameContent) ==
  /\ SameAttestation(members[k].head, e) /\ members[k].life = "Current"
  /\ members[k].domGen = domains[k[1]].gen /\ sameContent

AttachConflict(a, e, k) ==
  /\ MayAttach(a, k) /\ Open(k)
  /\ Precedence(members[k].head, e) = "EqualDifferentSource"
  /\ StoreMember(k, [members[k] EXCEPT !.life = "Conflicted"])

AttachExisting(a, e, k, sameContent) ==
  /\ MayAttach(a, k) /\ Open(k)
  /\ ~SameMembership(k, e, sameContent)
  /\ Precedence(members[k].head, e) \in {"Stronger", "EqualSameSource"}
  /\ ~ExclusiveConflict(k)
  /\ EvSize(members[k]) < MaxEvidence
  /\ StoreMember(k, [Reasserted(k, e) EXCEPT
                       !.life = IF @ = "Revalidate" THEN "Current" ELSE @])

(***************************************************************************)
(* detach_member.                                                          *)
(***************************************************************************)
DetachMember(a, k) ==
  /\ Open(k) /\ Authorized(a, k[1])
  /\ StoreMember(k, [members[k] EXCEPT !.life = "Retired"])

(***************************************************************************)
(* replace_membership with a provenance: the author is authorized with the *)
(* class of its context, the provenance brings a class of its own.  (The   *)
(* replacement of the role or the metadata alone changes no state here.)   *)
(***************************************************************************)
ReplaceMembership(a, e, k) ==
  /\ Open(k) /\ Authorized(a, k[1])
  /\ Precedence(members[k].head, e) \in {"Stronger", "EqualSameSource"}
  /\ EvSize(members[k]) < MaxEvidence
  /\ StoreMember(k, Attested(members[k], e))

(***************************************************************************)
(* publish_memberships: a batch of entries, all of them or none.  In the   *)
(* authoritative mode the members of the domains it is complete for that   *)
(* it does not name are retired.                                           *)
(***************************************************************************)
Publishable(a, e, k) ==
  /\ MayAttach(a, k)
  /\ ~ExclusiveConflict(k)
  /\ k \in DOMAIN members =>
       /\ members[k].life \notin Terminal
       /\ EvSize(members[k]) < MaxEvidence
       /\ Precedence(members[k].head, e) \in {"Stronger", "EqualSameSource"}

BatchExclusive(batch) ==
  \A j, k \in batch : /\ EntityOf[j[2]] = EntityOf[k[2]]
                      /\ ClassOf[j[1]] = ClassOf[k[1]]
                      /\ ClassOf[k[1]] \in Exclusive
                      => j[1] = k[1]

Published(k, e) ==
  IF k \in DOMAIN members THEN [Reasserted(k, e) EXCEPT !.life = "Current"]
                          ELSE NewMember(k, e)

PublishMemberships(a, e, batch, complete) ==
  LET absent == {k \in DOMAIN members \ batch :
                   k[1] \in complete /\ members[k].life = "Current"}
  IN  /\ batch # {}
      /\ \A k \in batch : Publishable(a, e, k)
      /\ BatchExclusive(batch)
      /\ Cardinality(DOMAIN members \cup batch) <= MaxMemberships
      /\ members' = [k \in DOMAIN members \cup batch |->
                       IF k \in batch THEN Published(k, e)
                       ELSE IF k \in absent THEN [members[k] EXCEPT !.life = "Retired"]
                       ELSE members[k]]
      /\ OnlyMembers

(***************************************************************************)
(* withdraw_evidence: names one membership, and withdraws the publisher's  *)
(* matching evidence from all of them.                                     *)
(***************************************************************************)
OwnEvidence(a, thisBoot, classes) ==
  {e \in Entry : /\ e.pub = a.pub
                 /\ thisBoot => e.boot = a.boot
                 /\ e.cls \in classes}

WithdrawEvidence(a, k, thisBoot, classes) ==
  /\ k \in DOMAIN members /\ Authorized(a, k[1])
  /\ Held(members[k]) \cap OwnEvidence(a, thisBoot, classes) # {}
  /\ Withdraw({OwnEvidence(a, thisBoot, classes)})
  /\ OnlyMembers

(***************************************************************************)
(* reconcile_membership: neither the domain's lifecycle nor exclusivity is *)
(* asked about.                                                            *)
(***************************************************************************)
Reconciled(r) ==
  IF Held(r) = {} THEN "Revalidate"
  ELSE IF r.life = "Revalidate" THEN "Current" ELSE r.life

ReconcileMembership(a, k) ==
  /\ Open(k) /\ Authorized(a, k[1])
  /\ Reconciled(members[k]) # members[k].life
  /\ StoreMember(k, [members[k] EXCEPT !.life = Reconciled(members[k])])

(***************************************************************************)
(* mark_revalidation_required.  A demand that names a domain is authorized *)
(* for its class; one that names a membership reaches it whatever its      *)
(* class; any other skips the classes outside the author's scope.  An      *)
(* entity and a class may be named together.                               *)
(***************************************************************************)
DemandRevalidation(keys) ==
  LET next == DemoteMembers(members, keys, "Revalidate")
  IN  next # members /\ members' = next /\ OnlyMembers

InScope(a) == {k \in DOMAIN members : AllowsClass(a.pub, ClassOf[k[1]])}

MarkMembership(a, k) == AuthorizedAny(a) /\ DemandRevalidation({k})

MarkDomain(a, d) ==
  /\ d \in DOMAIN domains /\ Authorized(a, d)
  /\ DemandRevalidation(MembersOf(d))

MarkEntity(a, entity, classes) ==
  /\ AuthorizedAny(a)
  /\ DemandRevalidation({k \in InScope(a) : /\ EntityOf[k[2]] = entity
                                            /\ ClassOf[k[1]] \in classes})

MarkClass(a, classes) ==
  /\ AuthorizedAny(a)
  /\ DemandRevalidation({k \in InScope(a) : ClassOf[k[1]] \in classes})

(***************************************************************************)
(* invalidate_entity: one generation of an entity was superseded.          *)
(***************************************************************************)
InvalidateEntity(a, m) ==
  /\ AuthorizedAny(a)
  /\ members' = DemoteMembers(members, {k \in DOMAIN members : k[2] = m}, "Revalidate")
  /\ OnlyMembers

MembersNext ==
  \E a \in Authority :
    \/ \E e \in Attributed(a), k \in Key :
         \/ AttachNew(a, e, k) \/ AttachConflict(a, e, k)
         \/ \E sameContent \in BOOLEAN : AttachExisting(a, e, k, sameContent)
    \/ \E e \in Attributable(a), k \in Key : ReplaceMembership(a, e, k)
    \/ \E e \in Attributed(a), batch \in SUBSET Key, complete \in SUBSET Domain :
         PublishMemberships(a, e, batch, complete)
    \/ \E k \in Key :
         \/ DetachMember(a, k)
         \/ \E thisBoot \in BOOLEAN, classes \in {Evidence} \cup {{c} : c \in Evidence} :
              WithdrawEvidence(a, k, thisBoot, classes)
         \/ ReconcileMembership(a, k) \/ MarkMembership(a, k)
    \/ \E d \in Domain : MarkDomain(a, d)
    \/ \E classes \in {Class} \cup {{c} : c \in Class} :
         \/ MarkClass(a, classes)
         \/ \E entity \in {EntityOf[m] : m \in Member} : MarkEntity(a, entity, classes)
    \/ \E m \in Member : InvalidateEntity(a, m)
=============================================================================
