--------------------------- MODULE RegistryDomains ---------------------------
(***************************************************************************)
(* The domain mutations of src/src/registry_mutations.cpp.  The pointers   *)
(* superseded_by, supersedes and merged_into are left out: no lifecycle    *)
(* rule reads them.                                                        *)
(***************************************************************************)
EXTENDS RegistryState

StoreDomain(d, r) == domains' = Store(domains, d, r)
OnlyDomain(d, r)  == StoreDomain(d, r) /\ KeepAuthority /\ UNCHANGED members

\* Mutant of OpenDomain: closed domains are taken for open ones.
AnyDomain(d) == d \in DOMAIN domains

OpenDomain(d) == d \in DOMAIN domains /\ domains[d].life \notin Terminal

(***************************************************************************)
(* create_domain: a first declaration, or one of an existing domain.       *)
(***************************************************************************)
DeclareNew(a, e, d, activate) ==
  /\ Authorized(a, d) /\ d \notin DOMAIN domains
  /\ OnlyDomain(d, [life |-> IF activate THEN "Current" ELSE "Candidate",
                    gen |-> 1, prov |-> e])

SameDeclaration(d, e, activate, sameContent) ==
  /\ SameAttestation(domains[d].prov, e) /\ sameContent
  /\ domains[d].life = IF activate THEN "Current" ELSE "Candidate"

RedeclareConflict(a, e, d) ==
  /\ Authorized(a, d) /\ OpenDomain(d)
  /\ Precedence(domains[d].prov, e) = "EqualDifferentSource"
  /\ OnlyDomain(d, [Bumped(domains[d]) EXCEPT !.life = "Conflicted"])

Redeclare(a, e, d, activate, sameContent) ==
  /\ Authorized(a, d) /\ OpenDomain(d)
  /\ ~SameDeclaration(d, e, activate, sameContent)
  /\ Precedence(domains[d].prov, e) \in {"Stronger", "EqualSameSource"}
  /\ OnlyDomain(d, [Bumped(domains[d]) EXCEPT
                      !.prov = e,
                      !.life = IF activate /\ @ = "Candidate" THEN "Current" ELSE @])

(***************************************************************************)
(* update_domain: a legal transition (target), a new provenance (prov),    *)
(* or a change of name and metadata alone (changed); any of them together. *)
(***************************************************************************)
\* Mutant of UpdateDomain: the transition is not looked up.
UpdateDomainUnlisted(a, d, target, prov, changed) ==
  LET r == domains[d]
  IN  /\ OpenDomain(d) /\ Authorized(a, d)
      /\ prov # r.prov =>
           Precedence(r.prov, prov) \in {"Stronger", "EqualSameSource"}
      /\ r.gen < MaxGeneration
      /\ OnlyDomain(d, [life |-> target, gen |-> r.gen + 1, prov |-> prov])

UpdateDomain(a, d, target, prov, changed) ==
  LET r == domains[d]
  IN  /\ OpenDomain(d) /\ Authorized(a, d)
      /\ prov # r.prov =>
           Precedence(r.prov, prov) \in {"Stronger", "EqualSameSource"}
      /\ target # r.life => <<r.life, target>> \in DomainTransitions
      /\ changed \/ prov # r.prov \/ target # r.life
      /\ r.gen < MaxGeneration
      /\ OnlyDomain(d, [life |-> target, gen |-> r.gen + 1, prov |-> prov])

(***************************************************************************)
(* supersede_domain: the successor need only exist, and the lifecycle      *)
(* table is not asked.                                                     *)
(***************************************************************************)
SupersedeDomain(a, d, successor, demote) ==
  /\ successor \in DOMAIN domains /\ successor # d
  /\ OpenDomain(d) /\ Authorized(a, d)
  /\ StoreDomain(d, [Bumped(domains[d]) EXCEPT !.life = "Superseded"])
  /\ members' = IF demote
                THEN DemoteMembers(members, MembersOf(d),
                       IF domains[d].life = "Current" THEN "Revalidate" ELSE "Retired")
                ELSE members
  /\ KeepAuthority

(***************************************************************************)
(* retire_domain.                                                          *)
(***************************************************************************)
RetireDomain(a, d, retireMembers) ==
  /\ OpenDomain(d) /\ Authorized(a, d)
  /\ StoreDomain(d, [Bumped(domains[d]) EXCEPT !.life = "Retired"])
  /\ members' = IF retireMembers
                THEN DemoteMembers(members, MembersOf(d), "Retired") ELSE members
  /\ KeepAuthority

(***************************************************************************)
(* merge_domains.  The open members of the absorbed domain move one by one *)
(* to the survivor, until one of them finds the survivor holding an open   *)
(* record of its own: then the rest of the absorbed members are superseded *)
(* and the merge is refused, with what had moved left where it is.         *)
(***************************************************************************)
Mergeable(a, survivor, absorbed, equivalent) ==
  /\ OpenDomain(survivor) /\ OpenDomain(absorbed) /\ survivor # absorbed
  /\ ClassOf[survivor] = ClassOf[absorbed]
  /\ Authorized(a, survivor)
  /\ equivalent \/ \A k \in MembersOf(absorbed) : members[k].life # "Current"

\* The members of the absorbed domain that would move, and those of them
\* whose place is taken.
Moving(absorbed) ==
  {m \in Member : /\ <<absorbed, m>> \in DOMAIN members
                  /\ members[<<absorbed, m>>].life \notin Terminal}

Colliding(survivor, absorbed) ==
  {m \in Moving(absorbed) : /\ <<survivor, m>> \in DOMAIN members
                            /\ members[<<survivor, m>>].life \notin Terminal}

\* Mutant of MovedRecord: the record stays bound to the absorbed generation.
MovedRecordUnbound(r, survivor) == [r EXCEPT !.life = "Current"]

MovedRecord(r, survivor) ==
  [r EXCEPT !.life = "Current", !.domGen = domains[survivor].gen]

\* members after the records of ms moved, old ones superseded.
MoveMembers(survivor, absorbed, ms) ==
  [k \in DOMAIN members \cup {<<survivor, m>> : m \in ms} |->
     IF k[2] \notin ms \/ k[1] \notin {survivor, absorbed} THEN members[k]
     ELSE IF k[1] = survivor THEN MovedRecord(members[<<absorbed, k[2]>>], survivor)
     ELSE [members[k] EXCEPT !.life = "Superseded"]]

MergeDomains(a, survivor, absorbed, equivalent) ==
  /\ Mergeable(a, survivor, absorbed, equivalent)
  /\ equivalent => Colliding(survivor, absorbed) = {}
  /\ members' = IF equivalent THEN MoveMembers(survivor, absorbed, Moving(absorbed))
                              ELSE members
  /\ StoreDomain(absorbed, [Bumped(domains[absorbed]) EXCEPT !.life = "Superseded"])
  /\ KeepAuthority

\* moved are the members whose identifiers came before the first collision.
MergeConflict(a, survivor, absorbed, moved) ==
  /\ Mergeable(a, survivor, absorbed, TRUE)
  /\ Colliding(survivor, absorbed) # {}
  /\ moved \subseteq Moving(absorbed) \ Colliding(survivor, absorbed)
  /\ members' = DemoteMembers(MoveMembers(survivor, absorbed, moved),
                              MembersOf(absorbed), "Superseded")
  /\ KeepAuthority /\ UNCHANGED domains

DomainsNext ==
  \E a \in Authority, d \in Domain :
    \/ \E e \in Attributed(a) :
         \/ \E activate \in BOOLEAN : DeclareNew(a, e, d, activate)
         \/ RedeclareConflict(a, e, d)
         \/ \E activate, sameContent \in BOOLEAN :
              Redeclare(a, e, d, activate, sameContent)
    \/ /\ d \in DOMAIN domains
       /\ \E target \in DomainLife, changed \in BOOLEAN,
             prov \in {domains[d].prov} \cup Attributed(a) :
            UpdateDomain(a, d, target, prov, changed)
    \/ \E successor \in Domain, demote \in BOOLEAN :
         SupersedeDomain(a, d, successor, demote)
    \/ \E retireMembers \in BOOLEAN : RetireDomain(a, d, retireMembers)
    \/ \E absorbed \in Domain :
         \/ \E equivalent \in BOOLEAN : MergeDomains(a, d, absorbed, equivalent)
         \/ \E moved \in SUBSET Member : MergeConflict(a, d, absorbed, moved)
=============================================================================
