---------------------------- MODULE Records_proofs ----------------------------
(***************************************************************************)
(* Domain and membership records: their types, what a step may do to one,  *)
(* and the properties of lifecycles, headlines, exclusive classes and      *)
(* bindings that follow from it.                                           *)
(***************************************************************************)
EXTENDS Registry_proofs

DomainsTypeOK ==
  DOMAIN domains \subseteq Domain /\ domains \in [DOMAIN domains -> DomainRecord]

MembersTypeOK ==
  DOMAIN members \subseteq Key /\ members \in [DOMAIN members -> MemberRecord]

(***************************************************************************)
(* The helpers.                                                            *)
(***************************************************************************)
LEMMA StoreType ==
  ASSUME NEW K, NEW R, NEW f, DOMAIN f \subseteq K, f \in [DOMAIN f -> R],
         NEW k \in K, NEW r \in R
  PROVE  /\ DOMAIN Store(f, k, r) \subseteq K
         /\ Store(f, k, r) \in [DOMAIN Store(f, k, r) -> R]
BY DEF Store

LEMMA NextGenType ==
  ASSUME NEW g \in 1..MaxGeneration
  PROVE  NextGen(g) \in 1..MaxGeneration
BY BoundAssumption DEF NextGen

LEMMA BumpedType ==
  ASSUME NEW r \in DomainRecord
  PROVE  Bumped(r) \in DomainRecord
BY NextGenType DEF Bumped, DomainRecord

LEMMA LifecycleStates ==
  /\ MembershipTransitions \subseteq MemberLife \X MemberLife
  /\ DomainTransitions \subseteq DomainLife \X DomainLife
  /\ Terminal \subseteq DomainLife
BY DEF MembershipTransitions, MemberLife, DomainTransitions, DomainLife, Terminal

LEMMA DemotedType ==
  ASSUME NEW l \in MemberLife, NEW t \in MemberLife
  PROVE  Demoted(l, t) \in MemberLife
BY DEF Demoted

LEMMA DemoteMembersType ==
  ASSUME NEW ms, NEW keys, NEW t \in MemberLife,
         DOMAIN ms \subseteq Key, ms \in [DOMAIN ms -> MemberRecord]
  PROVE  /\ DOMAIN DemoteMembers(ms, keys, t) = DOMAIN ms
         /\ DemoteMembers(ms, keys, t) \in [DOMAIN ms -> MemberRecord]
<1>1. \A k \in DOMAIN ms : [ms[k] EXCEPT !.life = Demoted(@, t)] \in MemberRecord
  BY DemotedType DEF MemberRecord
<1> QED BY <1>1 DEF DemoteMembers

LEMMA AttestedType ==
  ASSUME NEW r \in MemberRecord, NEW e \in Entry
  PROVE  /\ Attested(r, e) \in MemberRecord
         /\ Attested(r, e).ev = [r.ev EXCEPT ![e] = @ + 1]
         /\ Attested(r, e).life = r.life /\ Attested(r, e).domGen = r.domGen
         /\ Attested(r, e).head = e
<1> DEFINE ev == [r.ev EXCEPT ![e] = @ + 1]
<1>1. ev \in [Entry -> Nat]
  BY DEF MemberRecord
<1>2. Attested(r, e) = [[r EXCEPT !.head = e] EXCEPT !.ev = ev]
  BY DEF Attested, MemberRecord
<1> HIDE DEF ev
<1>3. /\ Attested(r, e) \in MemberRecord
      /\ Attested(r, e).ev = ev /\ Attested(r, e).head = e
      /\ Attested(r, e).life = r.life /\ Attested(r, e).domGen = r.domGen
  BY <1>1, <1>2 DEF MemberRecord
<1> QED BY <1>3 DEF ev

(***************************************************************************)
(* Domains.                                                                *)
(***************************************************************************)
LEMMA StoreDomainType ==
  ASSUME DomainsTypeOK, NEW d \in Domain, NEW r \in DomainRecord, StoreDomain(d, r)
  PROVE  DomainsTypeOK'
BY StoreType DEF DomainsTypeOK, StoreDomain

LEMMA DomainsNextType ==
  ASSUME DomainsTypeOK, DomainsNext
  PROVE  DomainsTypeOK'
<1>1. ASSUME NEW a \in Authority, NEW e \in Attributed(a), NEW d \in Domain,
             NEW t \in BOOLEAN, DeclareNew(a, e, d, t)
      PROVE  DomainsTypeOK'
  <2>1. [life |-> IF t THEN "Current" ELSE "Candidate", gen |-> 1, prov |-> e] \in DomainRecord
    BY BoundAssumption DEF DomainRecord, DomainLife, Attributed, Attributable
  <2> QED BY <1>1, <2>1, StoreDomainType DEF DeclareNew, OnlyDomain
<1>2. ASSUME NEW a \in Authority, NEW e \in Attributed(a), NEW d \in Domain,
             RedeclareConflict(a, e, d)
      PROVE  DomainsTypeOK'
  <2>1. domains[d] \in DomainRecord
    BY <1>2 DEF RedeclareConflict, OpenDomain, DomainsTypeOK
  <2>2. [Bumped(domains[d]) EXCEPT !.life = "Conflicted"] \in DomainRecord
    BY <2>1, BumpedType DEF DomainRecord, DomainLife
  <2> QED BY <1>2, <2>2, StoreDomainType DEF RedeclareConflict, OnlyDomain
<1>3. ASSUME NEW a \in Authority, NEW e \in Attributed(a), NEW d \in Domain,
             NEW t \in BOOLEAN, NEW u \in BOOLEAN, Redeclare(a, e, d, t, u)
      PROVE  DomainsTypeOK'
  <2> DEFINE r == [Bumped(domains[d]) EXCEPT
                     !.prov = e,
                     !.life = IF t /\ @ = "Candidate" THEN "Current" ELSE @]
  <2>1. Bumped(domains[d]) \in DomainRecord
    BY <1>3, BumpedType DEF Redeclare, OpenDomain, DomainsTypeOK
  <2>2. r \in DomainRecord
    BY <2>1 DEF DomainRecord, DomainLife, Attributed, Attributable
  <2>3. StoreDomain(d, r)
    BY <1>3 DEF Redeclare, OnlyDomain
  <2> HIDE DEF r
  <2> QED BY <2>2, <2>3, StoreDomainType
<1>4. ASSUME NEW a \in Authority, NEW d \in Domain, NEW target \in DomainLife,
             NEW t \in BOOLEAN, NEW prov \in {domains[d].prov} \cup Attributed(a),
             UpdateDomain(a, d, target, prov, t)
      PROVE  DomainsTypeOK'
  <2> DEFINE r == [life |-> target, gen |-> domains[d].gen + 1, prov |-> prov]
  <2>1. domains[d] \in DomainRecord /\ domains[d].gen < MaxGeneration
    BY <1>4 DEF UpdateDomain, OpenDomain, DomainsTypeOK
  <2>2. r \in DomainRecord
    BY <2>1, BoundAssumption DEF DomainRecord, Attributed, Attributable
  <2>3. StoreDomain(d, r)
    BY <1>4 DEF UpdateDomain, OnlyDomain
  <2> HIDE DEF r
  <2> QED BY <2>2, <2>3, StoreDomainType
<1>5. ASSUME NEW d \in Domain, OpenDomain(d), NEW life \in {"Superseded", "Retired"},
             StoreDomain(d, [Bumped(domains[d]) EXCEPT !.life = life])
      PROVE  DomainsTypeOK'
  <2>1. [Bumped(domains[d]) EXCEPT !.life = life] \in DomainRecord
    BY <1>5, BumpedType DEF OpenDomain, DomainsTypeOK, DomainRecord, DomainLife
  <2> QED BY <1>5, <2>1, StoreDomainType
<1>6. ASSUME NEW a \in Authority, NEW d \in Domain, NEW o \in Domain, NEW t \in BOOLEAN,
             SupersedeDomain(a, d, o, t) \/ RetireDomain(a, d, t) \/ MergeDomains(a, d, o, t)
      PROVE  DomainsTypeOK'
  BY <1>5, <1>6 DEF SupersedeDomain, RetireDomain, MergeDomains, Mergeable
<1>7. ASSUME NEW a, NEW d, NEW o, NEW ms, MergeConflict(a, d, o, ms)
      PROVE  DomainsTypeOK'
  BY <1>7 DEF MergeConflict, DomainsTypeOK
<1> QED BY <1>1, <1>2, <1>3, <1>4, <1>6, <1>7 DEF DomainsNext
(***************************************************************************)
(* Memberships.  A mutation of a adds no evidence but what a may attribute.*)
(***************************************************************************)
AllHeld(ms) == UNION {Held(ms[k]) : k \in DOMAIN ms}

AddsOnly(S) == MembersTypeOK' /\ AllHeld(members') \subseteq AllHeld(members) \cup S

LEMMA AttestedHeld ==
  ASSUME NEW r \in MemberRecord, NEW e \in Entry
  PROVE  Held(Attested(r, e)) \subseteq Held(r) \cup {e}
<1>1. Attested(r, e).ev = [r.ev EXCEPT ![e] = @ + 1] /\ r.ev \in [Entry -> Nat]
  BY AttestedType DEF MemberRecord
<1>2. \A x \in Entry : x # e => Attested(r, e).ev[x] = r.ev[x]
  BY <1>1
<1> QED BY <1>2 DEF Held

LEMMA NewMemberType ==
  ASSUME DomainsTypeOK, NEW k \in Key, Carries(k[1]), NEW e \in Entry
  PROVE  /\ NewMember(k, e) \in MemberRecord
         /\ Held(NewMember(k, e)) \subseteq {e}
<1>1. domains[k[1]].gen \in 1..MaxGeneration
  BY DEF DomainsTypeOK, DomainRecord, Carries
<1>2. [NoEvidence EXCEPT ![e] = 1] \in [Entry -> Nat]
  BY DEF NoEvidence
<1>3. \A x \in Entry : x # e => [NoEvidence EXCEPT ![e] = 1][x] = 0
  BY DEF NoEvidence
<1> DEFINE ev == [NoEvidence EXCEPT ![e] = 1]
<1>4. NewMember(k, e) = [life |-> "Current", domGen |-> domains[k[1]].gen, head |-> e, ev |-> ev]
  BY DEF NewMember
<1> HIDE DEF ev
<1>5. NewMember(k, e) \in MemberRecord /\ NewMember(k, e).ev = ev
  BY <1>1, <1>2, <1>4 DEF MemberRecord, MemberLife, ev
<1> QED BY <1>3, <1>5 DEF Held, ev

LEMMA ReassertedType ==
  ASSUME DomainsTypeOK, NEW k \in Key, Carries(k[1]), NEW e \in Entry,
         members[k] \in MemberRecord, NEW l \in MemberLife
  PROVE  /\ [Reasserted(k, e) EXCEPT !.life = l] \in MemberRecord
         /\ Held([Reasserted(k, e) EXCEPT !.life = l]) \subseteq Held(members[k]) \cup {e}
<1> DEFINE r == Attested(members[k], e)
           q == [Reasserted(k, e) EXCEPT !.life = l]
<1>1. r \in MemberRecord /\ Held(r) \subseteq Held(members[k]) \cup {e}
  BY AttestedType, AttestedHeld
<1>2. domains[k[1]].gen \in 1..MaxGeneration
  BY DEF DomainsTypeOK, DomainRecord, Carries
<1>3. q = [[r EXCEPT !.domGen = domains[k[1]].gen] EXCEPT !.life = l]
  BY DEF Reasserted
<1> HIDE DEF r, q
<1>4. q \in MemberRecord /\ q.ev = r.ev
  BY <1>1, <1>2, <1>3 DEF MemberRecord
<1>5. Held(q) = Held(r)
  BY <1>4 DEF Held
<1> QED BY <1>1, <1>4, <1>5 DEF q

\* A change of lifecycle alone.
LEMMA RelifedType ==
  ASSUME NEW r \in MemberRecord, NEW l \in MemberLife
  PROVE  /\ [r EXCEPT !.life = l] \in MemberRecord
         /\ Held([r EXCEPT !.life = l]) = Held(r)
<1> DEFINE q == [r EXCEPT !.life = l]
<1>1. q \in MemberRecord /\ q.ev = r.ev
  BY DEF MemberRecord
<1> QED BY <1>1 DEF Held

LEMMA StoreMemberAdds ==
  ASSUME MembersTypeOK, NEW k \in Key, NEW r \in MemberRecord,
         members' = Store(members, k, r), NEW S,
         Held(r) \subseteq S \cup (IF k \in DOMAIN members THEN Held(members[k]) ELSE {})
  PROVE  AddsOnly(S)
<1>1. MembersTypeOK'
  BY StoreType DEF MembersTypeOK
<1>2. \A j \in DOMAIN members' : j \in DOMAIN members \cup {k}
                                 /\ members'[j] = IF j = k THEN r ELSE members[j]
  BY DEF Store
<1>3. \A j \in DOMAIN members' : Held(members'[j]) \subseteq AllHeld(members) \cup S
  BY <1>2 DEF AllHeld
<1> QED BY <1>1, <1>3 DEF AddsOnly, AllHeld

\* A rewriting of the records that exist.
LEMMA RewriteAdds ==
  ASSUME MembersTypeOK, DOMAIN members' = DOMAIN members,
         members' \in [DOMAIN members -> MemberRecord],
         \A k \in DOMAIN members : Held(members'[k]) \subseteq Held(members[k]), NEW S
  PROVE  AddsOnly(S)
BY DEF AddsOnly, MembersTypeOK, AllHeld

LEMMA DemoteAdds ==
  ASSUME MembersTypeOK, NEW keys, NEW t \in MemberLife, NEW S,
         members' = DemoteMembers(members, keys, t)
  PROVE  AddsOnly(S)
<1>1. DOMAIN members' = DOMAIN members /\ members' \in [DOMAIN members -> MemberRecord]
  BY DemoteMembersType DEF MembersTypeOK
<1>2. ASSUME NEW k \in DOMAIN members PROVE Held(members'[k]) \subseteq Held(members[k])
  <2>1. members[k] \in MemberRecord /\ Demoted(members[k].life, t) \in MemberLife
    BY DemotedType DEF MembersTypeOK, MemberRecord
  <2> QED BY <2>1, RelifedType DEF DemoteMembers
<1> QED BY <1>1, <1>2, RewriteAdds

(***************************************************************************)
(* Withdrawal.                                                             *)
(***************************************************************************)
LEMMA HeadlinesType ==
  ASSUME NEW r \in MemberRecord, NEW groups
  PROVE  HeadlinesAfter(r, groups) \subseteq Entry
<1>1. Held(r) \subseteq Entry /\ r.head \in Entry
  BY DEF Held, MemberRecord
<1> QED BY <1>1 DEF HeadlinesAfter, Strongest

LEMMA WeakenedType ==
  ASSUME NEW r \in MemberRecord, NEW gone, NEW h \in Entry
  PROVE  /\ Weakened(r, gone, h) \in MemberRecord
         /\ Held(Weakened(r, gone, h)) \subseteq Held(r) \ gone
<1> DEFINE left == [e \in Entry |-> IF e \in gone THEN 0 ELSE r.ev[e]]
           life == IF left = NoEvidence THEN Demoted(r.life, "Revalidate") ELSE r.life
<1>1. left \in [Entry -> Nat] /\ \A e \in Entry : left[e] = IF e \in gone THEN 0 ELSE r.ev[e]
  BY DEF MemberRecord
<1>2. life \in MemberLife
  BY DemotedType DEF MemberRecord, MemberLife
<1>3. Weakened(r, gone, h) = [r EXCEPT !.ev = left, !.head = h, !.life = life]
  BY DEF Weakened, MemberRecord
<1> HIDE DEF left, life
<1>4. Weakened(r, gone, h) \in MemberRecord /\ Weakened(r, gone, h).ev = left
  BY <1>1, <1>2, <1>3 DEF MemberRecord
<1> QED BY <1>1, <1>4 DEF Held

LEMMA WithdrawAdds ==
  ASSUME MembersTypeOK, NEW groups, Withdraw(groups), NEW S
  PROVE  AddsOnly(S) /\ AllHeld(members') \cap UNION groups = {}
                     /\ AllHeld(members') \subseteq AllHeld(members)
<1> DEFINE gone == UNION groups
           hit  == Touched(gone)
<1>1. PICK h : /\ \A k \in hit : h[k] \in HeadlinesAfter(members[k], groups)
               /\ members' = [k \in DOMAIN members |->
                                IF k \in hit THEN Weakened(members[k], gone, h[k])
                                             ELSE members[k]]
  BY DEF Withdraw
<1>2. ASSUME NEW k \in DOMAIN members
      PROVE  /\ members'[k] \in MemberRecord
             /\ Held(members'[k]) \subseteq Held(members[k]) \ gone
  <2>1. members[k] \in MemberRecord
    BY DEF MembersTypeOK
  <2>2. CASE k \in hit
    <3>1. h[k] \in Entry
      BY <1>1, <2>1, <2>2, HeadlinesType
    <3>2. members'[k] = Weakened(members[k], gone, h[k])
      BY <1>1, <2>2
    <3> HIDE DEF gone
    <3> QED BY <2>1, <3>1, <3>2, WeakenedType
  <2>3. CASE k \notin hit
    <3>1. members'[k] = members[k]
      BY <1>1, <2>3
    <3>2. Held(members[k]) \cap gone = {}
      BY <2>3 DEF Touched
    <3> QED BY <2>1, <3>1, <3>2
  <2> QED BY <2>2, <2>3
<1>3. DOMAIN members' = DOMAIN members
  BY <1>1
<1>4. members' \in [DOMAIN members -> MemberRecord]
  BY <1>1, <1>2
<1>5. AddsOnly(S)
  BY <1>2, <1>3, <1>4, RewriteAdds
<1>6. AllHeld(members') \subseteq AllHeld(members) \ gone
  BY <1>2, <1>3 DEF AllHeld
<1> QED BY <1>5, <1>6
(***************************************************************************)
(* The membership mutations.                                               *)
(***************************************************************************)
LEMMA RelifeAdds ==
  ASSUME MembersTypeOK, NEW k \in Key, Open(k), NEW l \in MemberLife, NEW S,
         members' = Store(members, k, [members[k] EXCEPT !.life = l])
  PROVE  AddsOnly(S)
<1> DEFINE r == [members[k] EXCEPT !.life = l]
<1>1. members[k] \in MemberRecord /\ k \in DOMAIN members
  BY DEF Open, MembersTypeOK
<1>2. r \in MemberRecord /\ Held(r) = Held(members[k])
  BY <1>1, RelifedType
<1>3. members' = Store(members, k, r)
  OBVIOUS
<1> HIDE DEF r
<1> QED BY <1>1, <1>2, <1>3, StoreMemberAdds

LEMMA DetachOrReconcileAdds ==
  ASSUME MembersTypeOK, NEW a, NEW k \in Key, NEW S,
         DetachMember(a, k) \/ ReconcileMembership(a, k)
  PROVE  AddsOnly(S)
<1>1. CASE DetachMember(a, k)
  BY <1>1, RelifeAdds DEF DetachMember, StoreMember, MemberLife
<1>2. CASE ReconcileMembership(a, k)
  <2>1. Open(k) /\ members' = Store(members, k,
                      [members[k] EXCEPT !.life = Reconciled(members[k])])
    BY <1>2 DEF ReconcileMembership, StoreMember
  <2>2. Reconciled(members[k]) \in MemberLife
    BY <2>1 DEF Open, MembersTypeOK, Reconciled, MemberRecord, MemberLife
  <2> QED BY <2>1, <2>2, RelifeAdds
<1> QED BY <1>1, <1>2

LEMMA StoringAdds ==
  ASSUME DomainsTypeOK, MembersTypeOK, NEW a, NEW k \in Key,
         NEW e \in Attributable(a), NEW t,
         \/ AttachNew(a, e, k) \/ AttachConflict(a, e, k)
         \/ AttachExisting(a, e, k, t) \/ ReplaceMembership(a, e, k)
  PROVE  AddsOnly(Attributable(a))
<1>1. e \in Entry
  BY DEF Attributable
<1>2. Open(k) => members[k] \in MemberRecord /\ k \in DOMAIN members
  BY DEF Open, MembersTypeOK
<1>3. CASE AttachNew(a, e, k)
  <2>1. members' = Store(members, k, NewMember(k, e)) /\ Carries(k[1])
    BY <1>3 DEF AttachNew, MayAttach, StoreMember
  <2> QED BY <1>1, <2>1, NewMemberType, StoreMemberAdds
<1>4. CASE AttachConflict(a, e, k)
  BY <1>4, RelifeAdds DEF AttachConflict, StoreMember, MemberLife
<1>5. CASE AttachExisting(a, e, k, t)
  <2> DEFINE life == IF members[k].life = "Revalidate" THEN "Current" ELSE members[k].life
             r    == [Reasserted(k, e) EXCEPT !.life = life]
  <2>1. Open(k) /\ Carries(k[1])
    BY <1>5 DEF AttachExisting, MayAttach
  <2>2. life \in MemberLife /\ members[k] \in MemberRecord /\ k \in DOMAIN members
    BY <1>2, <2>1 DEF MemberRecord, MemberLife
  <2>3. Reasserted(k, e).life = members[k].life
    <3>1. /\ Attested(members[k], e) \in MemberRecord
          /\ Attested(members[k], e).life = members[k].life
      BY <1>1, <2>2, AttestedType
    <3> QED BY <3>1 DEF Reasserted, MemberRecord
  <2>4. "life" \in DOMAIN Reasserted(k, e)
    <3>1. Attested(members[k], e) \in MemberRecord
      BY <1>1, <2>2, AttestedType
    <3> QED BY <3>1 DEF Reasserted, MemberRecord
  <2>5. members' = Store(members, k, r)
    BY <1>5, <2>3, <2>4 DEF AttachExisting, StoreMember
  <2>6. r \in MemberRecord /\ Held(r) \subseteq Held(members[k]) \cup {e}
    <3> HIDE DEF life
    <3> QED BY <1>1, <2>1, <2>2, ReassertedType
  <2> HIDE DEF r
  <2> QED BY <2>2, <2>5, <2>6, StoreMemberAdds
<1>6. CASE ReplaceMembership(a, e, k)
  <2> DEFINE r == Attested(members[k], e)
  <2>1. members' = Store(members, k, r)
    BY <1>6 DEF ReplaceMembership, StoreMember
  <2>2. members[k] \in MemberRecord /\ k \in DOMAIN members
    BY <1>2, <1>6 DEF ReplaceMembership
  <2>3. r \in MemberRecord /\ Held(r) \subseteq Held(members[k]) \cup {e}
    BY <1>1, <2>2, AttestedType, AttestedHeld
  <2> HIDE DEF r
  <2> QED BY <2>1, <2>2, <2>3, StoreMemberAdds
<1> QED BY <1>3, <1>4, <1>5, <1>6

LEMMA PublishAdds ==
  ASSUME DomainsTypeOK, MembersTypeOK, NEW a \in Authority, NEW e \in Attributed(a),
         NEW batch \in SUBSET Key, NEW complete, PublishMemberships(a, e, batch, complete)
  PROVE  AddsOnly(Attributable(a))
<1> DEFINE absent == {k \in DOMAIN members \ batch :
                        k[1] \in complete /\ members[k].life = "Current"}
<1>1. /\ \A k \in batch : Publishable(a, e, k)
      /\ members' = [k \in DOMAIN members \cup batch |->
                       IF k \in batch THEN Published(k, e)
                       ELSE IF k \in absent THEN [members[k] EXCEPT !.life = "Retired"]
                       ELSE members[k]]
  BY DEF PublishMemberships
<1>2. e \in Entry /\ e \in Attributable(a)
  BY DEF Attributed, Attributable
<1>3. ASSUME NEW k \in DOMAIN members \cup batch
      PROVE  /\ members'[k] \in MemberRecord
             /\ Held(members'[k]) \subseteq AllHeld(members) \cup Attributable(a)
  <2>1. k \in Key /\ (k \in DOMAIN members => members[k] \in MemberRecord)
    BY DEF MembersTypeOK
  <2>2. CASE k \in batch /\ k \in DOMAIN members
    <3>1. Carries(k[1])
      BY <1>1, <2>2 DEF Publishable, MayAttach
    <3>2. members'[k] = [Reasserted(k, e) EXCEPT !.life = "Current"]
      BY <1>1, <2>2 DEF Published
    <3>3. members[k] \in MemberRecord /\ "Current" \in MemberLife
      BY <2>1, <2>2 DEF MemberLife
    <3>4. /\ members'[k] \in MemberRecord
          /\ Held(members'[k]) \subseteq Held(members[k]) \cup {e}
      BY <1>2, <2>1, <3>1, <3>2, <3>3, ReassertedType
    <3> QED BY <1>2, <2>2, <3>4 DEF AllHeld
  <2>3. CASE k \in batch /\ k \notin DOMAIN members
    <3>1. Carries(k[1])
      BY <1>1, <2>3 DEF Publishable, MayAttach
    <3>2. members'[k] = NewMember(k, e)
      BY <1>1, <2>3 DEF Published
    <3> QED BY <1>2, <2>1, <3>1, <3>2, NewMemberType
  <2>4. CASE k \notin batch /\ k \in absent
    <3>1. members'[k] = [members[k] EXCEPT !.life = "Retired"] /\ k \in DOMAIN members
      BY <1>1, <2>4
    <3>2. "Retired" \in MemberLife
      BY DEF MemberLife
    <3> HIDE DEF absent
    <3> QED BY <2>1, <3>1, <3>2, RelifedType DEF AllHeld
  <2>5. CASE k \notin batch /\ k \notin absent
    <3>1. members'[k] = members[k] /\ k \in DOMAIN members
      BY <1>1, <2>5
    <3> QED BY <2>1, <3>1 DEF AllHeld
  <2> QED BY <2>2, <2>3, <2>4, <2>5
<1>4. DOMAIN members' = DOMAIN members \cup batch
  BY <1>1
<1>5. MembersTypeOK'
  <2>1. members' \in [DOMAIN members \cup batch -> MemberRecord]
    BY <1>1, <1>3
  <2> QED BY <1>4, <2>1 DEF MembersTypeOK
<1> QED BY <1>3, <1>4, <1>5 DEF AddsOnly, AllHeld

LEMMA MembersNextAdds ==
  ASSUME DomainsTypeOK, MembersTypeOK, MembersNext
  PROVE  \E a \in Authority : AuthorizedAny(a) /\ AddsOnly(Attributable(a))
<1> "Revalidate" \in MemberLife
  BY DEF MemberLife
<1>1. PICK a \in Authority :
    \/ \E e \in Attributed(a), k \in Key :
         \/ AttachNew(a, e, k) \/ AttachConflict(a, e, k)
         \/ \E t \in BOOLEAN : AttachExisting(a, e, k, t)
    \/ \E e \in Attributable(a), k \in Key : ReplaceMembership(a, e, k)
    \/ \E e \in Attributed(a), batch \in SUBSET Key, complete \in SUBSET Domain :
         PublishMemberships(a, e, batch, complete)
    \/ \E k \in Key :
         \/ DetachMember(a, k)
         \/ \E t \in BOOLEAN, classes \in {Evidence} \cup {{c} : c \in Evidence} :
              WithdrawEvidence(a, k, t, classes)
         \/ ReconcileMembership(a, k) \/ MarkMembership(a, k)
    \/ \E d \in Domain : MarkDomain(a, d)
    \/ \E classes \in {Class} \cup {{c} : c \in Class} :
         \/ MarkClass(a, classes)
         \/ \E entity \in {EntityOf[m] : m \in Member} : MarkEntity(a, entity, classes)
    \/ \E m \in Member : InvalidateEntity(a, m)
  BY DEF MembersNext
<1>2. Attributed(a) \subseteq Attributable(a)
  BY DEF Attributed
<1>3. ASSUME NEW e \in Attributable(a), NEW k \in Key, NEW t,
             \/ AttachNew(a, e, k) \/ AttachConflict(a, e, k)
             \/ AttachExisting(a, e, k, t) \/ ReplaceMembership(a, e, k)
      PROVE  AuthorizedAny(a) /\ AddsOnly(Attributable(a))
  <2>1. AuthorizedAny(a)
    BY <1>3 DEF AttachNew, AttachConflict, AttachExisting, ReplaceMembership,
       MayAttach, Authorized
  <2> QED BY <1>3, <2>1, StoringAdds
<1>4. ASSUME NEW k \in Key, DetachMember(a, k) \/ ReconcileMembership(a, k)
      PROVE  AuthorizedAny(a) /\ AddsOnly(Attributable(a))
  <2>1. AuthorizedAny(a)
    BY <1>4 DEF DetachMember, ReconcileMembership, Authorized
  <2> QED BY <1>4, <2>1, DetachOrReconcileAdds
<1>5. ASSUME NEW e \in Attributed(a), NEW batch \in SUBSET Key, NEW complete,
             PublishMemberships(a, e, batch, complete)
      PROVE  AuthorizedAny(a) /\ AddsOnly(Attributable(a))
  <2>1. AuthorizedAny(a)
    BY <1>5 DEF PublishMemberships, Publishable, MayAttach, Authorized
  <2> QED BY <1>5, <2>1, PublishAdds
<1>6. ASSUME NEW k \in Key, NEW t, NEW classes, WithdrawEvidence(a, k, t, classes)
      PROVE  AuthorizedAny(a) /\ AddsOnly(Attributable(a))
  BY <1>6, WithdrawAdds DEF WithdrawEvidence, Authorized
<1>7. ASSUME NEW x, NEW y,
                   \/ MarkMembership(a, x) \/ MarkDomain(a, x) \/ MarkEntity(a, x, y)
                   \/ MarkClass(a, x) \/ InvalidateEntity(a, x)
      PROVE  AuthorizedAny(a) /\ AddsOnly(Attributable(a))
  <2>1. AuthorizedAny(a) /\ \E keys : members' = DemoteMembers(members, keys, "Revalidate")
    BY <1>7 DEF MarkMembership, MarkDomain, MarkEntity, MarkClass, InvalidateEntity,
       DemandRevalidation, Authorized
  <2> QED BY <2>1, DemoteAdds
<1> QED BY <1>1, <1>2, <1>3, <1>4, <1>5, <1>6, <1>7

(***************************************************************************)
(* What the domain mutations do to memberships: they add no evidence.      *)
(***************************************************************************)
LEMMA MoveAdds ==
  ASSUME DomainsTypeOK, MembersTypeOK, NEW s \in DOMAIN domains, NEW o \in Domain,
         NEW ms \in SUBSET Moving(o)
  PROVE  LET moved == MoveMembers(s, o, ms)
         IN  /\ DOMAIN moved \subseteq Key /\ moved \in [DOMAIN moved -> MemberRecord]
             /\ AllHeld(moved) \subseteq AllHeld(members)
<1> DEFINE moved == MoveMembers(s, o, ms)
           D     == DOMAIN members \cup {<<s, m>> : m \in ms}
<1>1. \A m \in ms : m \in Member /\ <<o, m>> \in DOMAIN members
  BY DEF Moving
<1>2. s \in Domain /\ domains[s].gen \in 1..MaxGeneration
  BY DEF DomainsTypeOK, DomainRecord
<1>3. DOMAIN moved = D /\ D \subseteq Key
  <2>1. DOMAIN moved = D
    BY DEF MoveMembers
  <2>2. \A m \in ms : <<s, m>> \in Key
    BY <1>1, <1>2 DEF Key
  <2> QED BY <2>1, <2>2 DEF MembersTypeOK
<1>4. ASSUME NEW r \in MemberRecord
      PROVE  /\ MovedRecord(r, s) \in MemberRecord /\ Held(MovedRecord(r, s)) = Held(r)
             /\ [r EXCEPT !.life = "Superseded"] \in MemberRecord
             /\ Held([r EXCEPT !.life = "Superseded"]) = Held(r)
  <2> DEFINE q == MovedRecord(r, s)
  <2> DEFINE g == domains[s].gen
  <2>0. g \in 1..MaxGeneration /\ "Current" \in MemberLife
    BY <1>2 DEF MemberLife
  <2>1. q = [[r EXCEPT !.life = "Current"] EXCEPT !.domGen = g]
    BY DEF MovedRecord
  <2> HIDE DEF q, g
  <2>4. q \in MemberRecord /\ q.ev = r.ev
    BY <2>0, <2>1 DEF MemberRecord
  <2>2. Held(q) = Held(r)
    BY <2>4 DEF Held
  <2>3. "Superseded" \in MemberLife
    BY DEF MemberLife
  <2> QED BY <2>4, <2>2, <2>3, RelifedType DEF q
<1>5. ASSUME NEW k \in D
      PROVE  /\ moved[k] \in MemberRecord
             /\ \E j \in DOMAIN members : Held(moved[k]) = Held(members[j])
  <2>1. CASE k[2] \notin ms \/ k[1] \notin {s, o}
    <3>1. k \in DOMAIN members /\ moved[k] = members[k]
      BY <2>1 DEF MoveMembers
    <3> QED BY <3>1 DEF MembersTypeOK
  <2>2. CASE k[2] \in ms /\ k[1] = s
    <3>1. moved[k] = MovedRecord(members[<<o, k[2]>>], s)
      BY <2>2 DEF MoveMembers
    <3>2. <<o, k[2]>> \in DOMAIN members /\ members[<<o, k[2]>>] \in MemberRecord
      BY <1>1, <2>2 DEF MembersTypeOK
    <3> QED BY <1>4, <3>1, <3>2
  <2>3. CASE k[2] \in ms /\ k[1] = o /\ k[1] # s
    <3>1. moved[k] = [members[k] EXCEPT !.life = "Superseded"] /\ k \in DOMAIN members
      BY <2>3 DEF MoveMembers
    <3>2. members[k] \in MemberRecord
      BY <3>1 DEF MembersTypeOK
    <3> QED BY <1>4, <3>1, <3>2
  <2> QED BY <2>1, <2>2, <2>3
<1>6. moved \in [D -> MemberRecord]
  BY <1>3, <1>5 DEF MoveMembers
<1> HIDE DEF moved, D
<1>7. AllHeld(moved) \subseteq AllHeld(members)
  BY <1>3, <1>5 DEF AllHeld
<1> QED BY <1>3, <1>6, <1>7 DEF moved

LEMMA DemotedHeld ==
  ASSUME NEW ms, NEW keys, NEW t \in MemberLife,
         DOMAIN ms \subseteq Key, ms \in [DOMAIN ms -> MemberRecord]
  PROVE  AllHeld(DemoteMembers(ms, keys, t)) \subseteq AllHeld(ms)
<1> DEFINE next == DemoteMembers(ms, keys, t)
<1>1. ASSUME NEW k \in DOMAIN ms PROVE Held(next[k]) = Held(ms[k])
  <2>1. ms[k] \in MemberRecord /\ Demoted(ms[k].life, t) \in MemberLife
    BY DemotedType DEF MemberRecord
  <2> QED BY <2>1, RelifedType DEF DemoteMembers
<1>2. DOMAIN next = DOMAIN ms
  BY DEF DemoteMembers
<1> HIDE DEF next
<1>3. AllHeld(next) \subseteq AllHeld(ms)
  BY <1>1, <1>2 DEF AllHeld
<1> QED BY <1>3 DEF next

LEMMA DomainsNextAdds ==
  ASSUME DomainsTypeOK, MembersTypeOK, DomainsNext
  PROVE  AddsOnly({})
<1> {"Revalidate", "Retired", "Superseded"} \subseteq MemberLife
  BY DEF MemberLife
<1>1. ASSUME UNCHANGED members PROVE AddsOnly({})
  BY <1>1 DEF AddsOnly, MembersTypeOK
<1>2. ASSUME NEW a, NEW e, NEW d, NEW t, NEW u,
             DeclareNew(a, e, d, t) \/ RedeclareConflict(a, e, d)
               \/ Redeclare(a, e, d, t, u)
      PROVE  AddsOnly({})
  BY <1>1, <1>2 DEF OnlyDomain, DeclareNew, RedeclareConflict, Redeclare
<1>3. ASSUME NEW a, NEW d, NEW target, NEW prov, NEW t, UpdateDomain(a, d, target, prov, t)
      PROVE  AddsOnly({})
  BY <1>1, <1>3 DEF OnlyDomain, UpdateDomain
<1>4. ASSUME NEW a, NEW d, NEW o, NEW t, SupersedeDomain(a, d, o, t)
      PROVE  AddsOnly({})
  <2>1. \/ UNCHANGED members
        \/ \E l \in {"Revalidate", "Retired"} : members' = DemoteMembers(members, MembersOf(d), l)
    BY <1>4 DEF SupersedeDomain
  <2> QED BY <1>1, <2>1, DemoteAdds
<1>5. ASSUME NEW a, NEW d, NEW t, RetireDomain(a, d, t)
      PROVE  AddsOnly({})
  BY <1>1, <1>5, DemoteAdds DEF RetireDomain
<1>6. ASSUME NEW a, NEW d, NEW o \in Domain, NEW t, MergeDomains(a, d, o, t)
      PROVE  AddsOnly({})
  <2>1. \/ UNCHANGED members
        \/ members' = MoveMembers(d, o, Moving(o)) /\ d \in DOMAIN domains
    BY <1>6 DEF MergeDomains, Mergeable, OpenDomain
  <2> QED BY <1>1, <2>1, MoveAdds DEF AddsOnly, MembersTypeOK
<1>7. ASSUME NEW a, NEW d, NEW o \in Domain, NEW ms, MergeConflict(a, d, o, ms)
      PROVE  AddsOnly({})
  <2> DEFINE moved == MoveMembers(d, o, ms)
  <2>1. /\ d \in DOMAIN domains /\ ms \in SUBSET Moving(o)
        /\ members' = DemoteMembers(moved, MembersOf(o), "Superseded")
    BY <1>7 DEF MergeConflict, Mergeable, OpenDomain
  <2>2. /\ DOMAIN moved \subseteq Key /\ moved \in [DOMAIN moved -> MemberRecord]
        /\ AllHeld(moved) \subseteq AllHeld(members)
    BY <2>1, MoveAdds
  <2> HIDE DEF moved
  <2>3. /\ DOMAIN members' = DOMAIN moved
        /\ members' \in [DOMAIN moved -> MemberRecord]
        /\ AllHeld(members') \subseteq AllHeld(moved)
    BY <2>1, <2>2, DemoteMembersType, DemotedHeld
  <2> QED BY <2>2, <2>3 DEF AddsOnly, MembersTypeOK
<1> QED BY <1>2, <1>3, <1>4, <1>5, <1>6, <1>7 DEF DomainsNext

(***************************************************************************)
(* Lose, and the authority operations.                                     *)
(***************************************************************************)
LEMMA LoseDomains ==
  ASSUME DomainsTypeOK, NEW incarnations, Lose(incarnations)
  PROVE  /\ DomainsTypeOK' /\ DOMAIN domains' = DOMAIN domains
         /\ \A d \in DOMAIN domains :
              IF LostDomain(domains[d], UNION {ProcessEntries(i) : i \in incarnations})
              THEN domains'[d].life = "Revalidate"
              ELSE domains'[d] = domains[d]
<1> DEFINE gone == UNION {ProcessEntries(i) : i \in incarnations}
<1>1. domains' = [d \in DOMAIN domains |->
                    IF LostDomain(domains[d], gone)
                    THEN [Bumped(domains[d]) EXCEPT !.life = "Revalidate"]
                    ELSE domains[d]]
  BY DEF Lose
<1> HIDE DEF gone
<1>2. ASSUME NEW d \in DOMAIN domains
      PROVE  LET r == [Bumped(domains[d]) EXCEPT !.life = "Revalidate"]
             IN  r \in DomainRecord /\ r.life = "Revalidate"
  BY BumpedType DEF DomainsTypeOK, DomainRecord, DomainLife
<1>3. DomainsTypeOK'
  BY <1>1, <1>2 DEF DomainsTypeOK
<1> QED BY <1>1, <1>2, <1>3 DEF gone

LEMMA AuthorityNextType ==
  ASSUME IncarnationInv, DomainsTypeOK, MembersTypeOK, AuthorityNext
  PROVE  DomainsTypeOK' /\ MembersTypeOK'
<1>1. ASSUME UNCHANGED <<domains, members>> PROVE DomainsTypeOK' /\ MembersTypeOK'
  BY <1>1 DEF DomainsTypeOK, MembersTypeOK
<1>2. ASSUME NEW incarnations, Lose(incarnations) PROVE DomainsTypeOK' /\ MembersTypeOK'
  BY <1>2, LoseDomains, WithdrawAdds DEF Lose, AddsOnly
<1> QED
  BY <1>1, <1>2 DEF AuthorityNext, BootstrapGrant, AuthorizedGrant, InstallGrant,
     Reattach, AttachWorker, FenceWorker, AdvanceEpoch

(***************************************************************************)
(* Types.                                                                  *)
(***************************************************************************)
TypeInv == IncarnationInv /\ DomainsTypeOK /\ MembersTypeOK

LEMMA TypeInit == Init => TypeInv
BY IncarnationInit DEF Init, TypeInv, DomainsTypeOK, MembersTypeOK

LEMMA TypeStep == TypeInv /\ [Next]_vars => TypeInv'
<1> SUFFICES ASSUME TypeInv, [Next]_vars PROVE DomainsTypeOK' /\ MembersTypeOK'
  BY IncarnationStep DEF TypeInv
<1> USE DEF TypeInv
<1>1. CASE AuthorityNext
  BY <1>1, AuthorityNextType
<1>2. CASE DomainsNext
  BY <1>2, DomainsNextType, DomainsNextAdds DEF AddsOnly
<1>3. CASE MembersNext
  <2>1. UNCHANGED domains
    BY <1>3, MembersKeepTheRest DEF OnlyMembers
  <2>2. MembersTypeOK'
    BY <1>3, MembersNextAdds DEF AddsOnly
  <2> QED BY <2>1, <2>2 DEF DomainsTypeOK
<1>4. CASE UNCHANGED vars
  BY <1>4 DEF vars, DomainsTypeOK, MembersTypeOK
<1> QED BY <1>1, <1>2, <1>3, <1>4 DEF Next

\* Grants, sessions, fences, domains and memberships keep their types and the
\* fence lists their bound, whatever the operations do to them.
THEOREM TypeCorrect == Spec => []TypeOK
<1>1. TypeInv => TypeOK
  BY DEF TypeInv, IncarnationInv, TypeOK, RecordsTypeOK, DomainsTypeOK, MembersTypeOK
<1> QED BY <1>1, TypeInit, TypeStep, PTL DEF Spec

(***************************************************************************)
(* What a step may do to a membership.  Every step but a merge moves the   *)
(* lifecycle of a record along its table, asserts it anew with evidence    *)
(* that is not weaker, or weakens it by the evidence it withdraws.         *)
(***************************************************************************)
\* A record that only changes its lifecycle, if that.
Relived(r, q) ==
  /\ q.head = r.head /\ q.ev = r.ev /\ q.domGen = r.domGen
  /\ \/ q.life = r.life
     \/ <<r.life, q.life>> \in MembershipTransitions /\ (q.life = "Current" => Held(r) # {})
     \/ r.life = "Conflicted" /\ q.life = "Revalidate" /\ Held(r) = {}

\* One that takes new evidence for its headline.
Reasserts(r, q) ==
  \E e \in Entry :
    /\ r.life \notin Terminal /\ Precedence(r.head, e) \in {"Stronger", "EqualSameSource"}
    /\ q.head = e /\ q.ev = [r.ev EXCEPT ![e] = @ + 1]
    /\ q.life = r.life \/ q.life = "Current"

\* One that loses evidence.
Weakens(r, q) ==
  /\ Held(q) \subseteq Held(r) /\ q.domGen = r.domGen
  /\ Held(q) # {} => q.head \in Strongest(Held(q)) /\ q.life = r.life
  /\ Held(q) = {} => q.life = Demoted(r.life, "Revalidate")

Changes(r, q) == Relived(r, q) \/ Reasserts(r, q) \/ Weakens(r, q)

\* The memberships after a step of that kind.
MembersChange ==
  /\ \A k \in DOMAIN members :
       /\ k \in DOMAIN members' /\ Changes(members[k], members'[k])
       /\ \/ members'[k].domGen = members[k].domGen
          \/ k[1] \in DOMAIN domains /\ members'[k].domGen = domains[k[1]].gen
  /\ \A k \in DOMAIN members' \ DOMAIN members :
       Carries(k[1]) /\ \E e \in Entry : members'[k] = NewMember(k, e)

\* The memberships that become current, and what attach_member and
\* publish_memberships ask before they make them so.
Entering ==
  {k \in DOMAIN members' :
     members'[k].life = "Current" /\ (k \in DOMAIN members => members[k].life # "Current")}

EntersFreely ==
  \/ ReconcileStep
  \/ BatchExclusive(Entering) /\ \A k \in Entering : ~ExclusiveConflict(k)

MembersStep == MembersChange /\ EntersFreely

LEMMA NoneEnters == Entering = {} => EntersFreely
BY DEF EntersFreely, BatchExclusive

LEMMA OneEnters == \A k : Entering \subseteq {k} /\ ~ExclusiveConflict(k) => EntersFreely
BY DEF EntersFreely, BatchExclusive

LEMMA OpenLives ==
  ASSUME NEW l \in MemberLife \ Terminal
  PROVE  /\ <<l, "Retired">> \in MembershipTransitions
         /\ l = "Conflicted" \/ <<l, "Conflicted">> \in MembershipTransitions
         /\ l = "Current" \/ <<l, "Current">> \in MembershipTransitions
BY DEF MemberLife, Terminal, MembershipTransitions

LEMMA LifeAlone ==
  ASSUME NEW r \in MemberRecord, NEW l \in MemberLife,
         \/ l = r.life
         \/ <<r.life, l>> \in MembershipTransitions /\ (l = "Current" => Held(r) # {})
         \/ r.life = "Conflicted" /\ l = "Revalidate" /\ Held(r) = {}
  PROVE  Relived(r, [r EXCEPT !.life = l])
BY DEF Relived, MemberRecord

LEMMA SameIsRelived == \A r : Relived(r, r)
BY DEF Relived

\* A step that changes nothing in the memberships.
LEMMA NoChange ==
  ASSUME UNCHANGED members
  PROVE  MembersStep
<1>1. Entering = {}
  BY DEF Entering
<1> QED BY <1>1, NoneEnters, SameIsRelived DEF MembersChange, Changes, MembersStep

\* A step that rewrites the record of one membership.
LEMMA OneChanges ==
  ASSUME NEW k \in DOMAIN members, NEW q, members' = Store(members, k, q),
         Changes(members[k], q),
         \/ q.domGen = members[k].domGen
         \/ k[1] \in DOMAIN domains /\ q.domGen = domains[k[1]].gen,
         \/ q.life # "Current" \/ members[k].life = "Current"
         \/ ReconcileStep \/ ~ExclusiveConflict(k)
  PROVE  MembersStep
<1>1. /\ DOMAIN members' = DOMAIN members
      /\ \A j \in DOMAIN members : members'[j] = IF j = k THEN q ELSE members[j]
  BY DEF Store
<1>2. MembersChange
  BY <1>1, SameIsRelived DEF MembersChange, Changes
<1>3. /\ Entering \subseteq {k}
      /\ q.life # "Current" \/ members[k].life = "Current" => Entering = {}
  BY <1>1 DEF Entering
<1>4. ReconcileStep => EntersFreely
  BY DEF EntersFreely
<1> QED BY <1>2, <1>3, <1>4, NoneEnters, OneEnters DEF MembersStep

\* A step that takes memberships to another lifecycle in bulk.
LEMMA DemoteChanges ==
  ASSUME MembersTypeOK, NEW keys, NEW t \in MemberLife \ {"Current"},
         members' = DemoteMembers(members, keys, t)
  PROVE  MembersStep
<1>1. DOMAIN members' = DOMAIN members
  BY DEF DemoteMembers
<1>2. ASSUME NEW k \in DOMAIN members
      PROVE  /\ Relived(members[k], members'[k])
             /\ members'[k].life = "Current" => members[k].life = "Current"
  <2>1. members[k] \in MemberRecord
    BY DEF MembersTypeOK
  <2>2. CASE k \in keys
    <3>1. members'[k] = [members[k] EXCEPT !.life = Demoted(members[k].life, t)]
      BY <2>2 DEF DemoteMembers
    <3>2. /\ Demoted(members[k].life, t) \in MemberLife
          /\ \/ Demoted(members[k].life, t) = members[k].life
             \/ /\ <<members[k].life, Demoted(members[k].life, t)>> \in MembershipTransitions
                /\ Demoted(members[k].life, t) # "Current"
      BY <2>1 DEF Demoted, MemberRecord
    <3>3. members'[k].life = Demoted(members[k].life, t)
      BY <2>1, <3>1 DEF MemberRecord
    <3> QED BY <2>1, <3>1, <3>2, <3>3, LifeAlone
  <2>3. CASE k \notin keys
    BY <2>3, SameIsRelived DEF DemoteMembers
  <2> QED BY <2>2, <2>3
<1>3. MembersChange
  BY <1>1, <1>2 DEF MembersChange, Changes, Relived
<1>4. Entering = {}
  BY <1>1, <1>2 DEF Entering
<1> QED BY <1>3, <1>4, NoneEnters DEF MembersStep

LEMMA WeakenedWeakens ==
  ASSUME NEW r \in MemberRecord, NEW groups, NEW h \in HeadlinesAfter(r, groups)
  PROVE  Weakens(r, Weakened(r, UNION groups, h))
<1> DEFINE gone == UNION groups
           left == [e \in Entry |-> IF e \in gone THEN 0 ELSE r.ev[e]]
           life == IF left = NoEvidence THEN Demoted(r.life, "Revalidate") ELSE r.life
           q    == Weakened(r, gone, h)
           kept == Held(r) \ gone
<1>1. r.ev \in [Entry -> Nat] /\ \A e \in Entry : left[e] = IF e \in gone THEN 0 ELSE r.ev[e]
  BY DEF MemberRecord
<1>2. q = [r EXCEPT !.ev = left, !.head = h, !.life = life]
  BY DEF Weakened, MemberRecord
<1>3. left = NoEvidence <=> kept = {}
  <2>1. ASSUME left = NoEvidence PROVE kept = {}
    <3>1. \A e \in Entry : left[e] = 0
      BY <2>1 DEF NoEvidence
    <3> HIDE DEF left, gone
    <3> QED BY <1>1, <3>1 DEF Held
  <2>2. ASSUME kept = {} PROVE left = NoEvidence
    <3>1. \A e \in Entry : ~ (r.ev[e] > 0) \/ e \in gone
      BY <2>2 DEF Held
    <3>2. \A e \in Entry : left[e] = 0
      <4> HIDE DEF left, gone
      <4> QED BY <1>1, <3>1
    <3> QED BY <3>2 DEF NoEvidence
  <2> QED BY <2>1, <2>2
<1> HIDE DEF left
<1>4. q.ev = left /\ q.head = h /\ q.life = life /\ q.domGen = r.domGen
  <2> HIDE DEF q, life
  <2> QED BY <1>2 DEF MemberRecord
<1> HIDE DEF q, gone
<1>5. Held(q) = kept
  BY <1>1, <1>4 DEF Held
<1>6. kept # {} => h \in Strongest(kept)
  BY DEF HeadlinesAfter, gone
<1> QED BY <1>3, <1>4, <1>5, <1>6 DEF Weakens, q, gone

LEMMA WithdrawChanges ==
  ASSUME MembersTypeOK, NEW groups, Withdraw(groups)
  PROVE  MembersStep
<1> DEFINE hit == Touched(UNION groups)
<1>1. PICK h : /\ \A k \in hit : h[k] \in HeadlinesAfter(members[k], groups)
               /\ members' = [k \in DOMAIN members |->
                                IF k \in hit THEN Weakened(members[k], UNION groups, h[k])
                                             ELSE members[k]]
  BY DEF Withdraw
<1> HIDE DEF hit
<1>2. ASSUME NEW k \in DOMAIN members
      PROVE  Relived(members[k], members'[k]) \/ Weakens(members[k], members'[k])
  <2>1. members[k] \in MemberRecord
    BY DEF MembersTypeOK
  <2>2. CASE k \in hit
    BY <1>1, <2>1, <2>2, WeakenedWeakens
  <2>3. CASE k \notin hit
    BY <1>1, <2>3, SameIsRelived
  <2> QED BY <2>2, <2>3
<1>3. DOMAIN members' = DOMAIN members
  BY <1>1
<1>4. MembersChange
  BY <1>2, <1>3 DEF MembersChange, Changes, Relived, Weakens
<1>5. ASSUME NEW k \in hit, k \in DOMAIN members, members'[k].life = "Current"
      PROVE  members[k].life = "Current"
  <2>1. members[k] \in MemberRecord
    BY <1>5 DEF MembersTypeOK
  <2>2. Weakens(members[k], members'[k])
    BY <1>1, <1>5, <2>1, WeakenedWeakens
  <2> QED BY <1>5, <2>2 DEF Weakens, Demoted
<1>6. ASSUME NEW k \in DOMAIN members, members'[k].life = "Current"
      PROVE  members[k].life = "Current"
  BY <1>1, <1>5, <1>6
<1>7. Entering = {}
  BY <1>3, <1>6 DEF Entering
<1> QED BY <1>4, <1>7, NoneEnters DEF MembersStep

(***************************************************************************)
(* The membership mutations.                                               *)
(***************************************************************************)
\* A mutation that writes the lifecycle of one open record alone.
LEMMA RelifeChanges ==
  ASSUME MembersTypeOK, NEW k, Open(k), NEW l \in MemberLife,
         members' = Store(members, k, [members[k] EXCEPT !.life = l]),
         \/ l = members[k].life
         \/ <<members[k].life, l>> \in MembershipTransitions
            /\ (l = "Current" => Held(members[k]) # {})
         \/ members[k].life = "Conflicted" /\ l = "Revalidate" /\ Held(members[k]) = {},
         l # "Current" \/ ReconcileStep
  PROVE  MembersStep
<1> DEFINE q == [members[k] EXCEPT !.life = l]
<1>1. k \in DOMAIN members /\ members[k] \in MemberRecord
  BY DEF Open, MembersTypeOK
<1>2. Relived(members[k], q) /\ q.life = l
  <2>1. Relived(members[k], q)
    BY <1>1, LifeAlone
  <2>2. q.life = l
    BY <1>1 DEF MemberRecord
  <2> QED BY <2>1, <2>2
<1>3. members' = Store(members, k, q)
  OBVIOUS
<1> HIDE DEF q
<1>4. Changes(members[k], q) /\ q.domGen = members[k].domGen
  BY <1>2 DEF Changes, Relived
<1> QED BY <1>1, <1>2, <1>3, <1>4, OneChanges

\* What a record looks like when it takes a new headline.
LEMMA ReassertedFields ==
  ASSUME NEW k, NEW e \in Entry, members[k] \in MemberRecord, NEW l
  PROVE  LET q == [Reasserted(k, e) EXCEPT !.life = l]
         IN  /\ q.head = e /\ q.ev = [members[k].ev EXCEPT ![e] = @ + 1]
             /\ q.life = l /\ q.domGen = domains[k[1]].gen
<1> DEFINE r == Attested(members[k], e)
           q == [Reasserted(k, e) EXCEPT !.life = l]
           ev == [members[k].ev EXCEPT ![e] = @ + 1]
<1>1. r \in MemberRecord /\ r.head = e /\ r.ev = ev
  BY AttestedType
<1>2. q = [[r EXCEPT !.domGen = domains[k[1]].gen] EXCEPT !.life = l]
  BY DEF Reasserted
<1> HIDE DEF r, q, ev
<1>3. q.head = e /\ q.ev = ev /\ q.life = l /\ q.domGen = domains[k[1]].gen
  BY <1>1, <1>2 DEF MemberRecord
<1> QED BY <1>3 DEF q, ev

LEMMA ReassertedReasserts ==
  ASSUME MembersTypeOK, NEW k, Open(k), NEW e \in Entry, NEW l,
         Precedence(members[k].head, e) \in {"Stronger", "EqualSameSource"},
         l = members[k].life \/ l = "Current"
  PROVE  LET q == [Reasserted(k, e) EXCEPT !.life = l]
         IN  /\ Changes(members[k], q) /\ q.life = l /\ q.domGen = domains[k[1]].gen
<1>1. k \in DOMAIN members /\ members[k] \in MemberRecord /\ members[k].life \notin Terminal
  BY DEF Open, MembersTypeOK
<1> DEFINE q == [Reasserted(k, e) EXCEPT !.life = l]
           ev == [members[k].ev EXCEPT ![e] = @ + 1]
<1>2. q.head = e /\ q.ev = ev /\ q.life = l /\ q.domGen = domains[k[1]].gen
  BY <1>1, ReassertedFields
<1> HIDE DEF q
<1>3. Changes(members[k], q)
  BY <1>1, <1>2 DEF Changes, Reasserts
<1> QED BY <1>2, <1>3 DEF q

LEMMA AttachNewChanges ==
  ASSUME NEW a, NEW e \in Entry, NEW k, AttachNew(a, e, k)
  PROVE  MembersStep
<1> DEFINE q == NewMember(k, e)
<1>1. /\ Carries(k[1]) /\ k \notin DOMAIN members /\ ~ExclusiveConflict(k)
      /\ members' = Store(members, k, q)
  BY DEF AttachNew, MayAttach, StoreMember
<1> DEFINE new == members'
<1>2. /\ DOMAIN members' = DOMAIN members \cup {k} /\ members'[k] = NewMember(k, e)
      /\ \A j \in DOMAIN members : members'[j] = members[j]
  BY <1>1 DEF Store
<1> HIDE DEF q
<1>3. MembersChange
  BY <1>1, <1>2, SameIsRelived DEF MembersChange, Changes
<1>4. Entering \subseteq {k}
  BY <1>2 DEF Entering
<1> QED BY <1>1, <1>3, <1>4, OneEnters DEF MembersStep

LEMMA AttachExistingChanges ==
  ASSUME MembersTypeOK, NEW a, NEW e \in Entry, NEW k, NEW t, AttachExisting(a, e, k, t)
  PROVE  MembersStep
<1> DEFINE life == IF members[k].life = "Revalidate" THEN "Current" ELSE members[k].life
           q    == [Reasserted(k, e) EXCEPT !.life = life]
<1>1. /\ Open(k) /\ Carries(k[1]) /\ ~ExclusiveConflict(k)
      /\ Precedence(members[k].head, e) \in {"Stronger", "EqualSameSource"}
  BY DEF AttachExisting, MayAttach
<1>2. k \in DOMAIN members /\ members[k] \in MemberRecord
  BY <1>1 DEF Open, MembersTypeOK
<1>3. members' = Store(members, k, q)
  <2>1. /\ Attested(members[k], e) \in MemberRecord
        /\ Attested(members[k], e).life = members[k].life
    BY <1>2, AttestedType
  <2>2. Reasserted(k, e).life = members[k].life /\ "life" \in DOMAIN Reasserted(k, e)
    BY <2>1 DEF Reasserted, MemberRecord
  <2> QED BY <2>2 DEF AttachExisting, StoreMember
<1> HIDE DEF life
<1>4. Changes(members[k], q) /\ q.domGen = domains[k[1]].gen
  BY <1>1, ReassertedReasserts DEF life
<1> HIDE DEF q
<1> QED BY <1>1, <1>2, <1>3, <1>4, OneChanges DEF Carries

LEMMA ReplaceChanges ==
  ASSUME MembersTypeOK, NEW a, NEW e \in Entry, NEW k, ReplaceMembership(a, e, k)
  PROVE  MembersStep
<1> DEFINE q  == Attested(members[k], e)
           ev == [members[k].ev EXCEPT ![e] = @ + 1]
<1>1. /\ Open(k) /\ Precedence(members[k].head, e) \in {"Stronger", "EqualSameSource"}
      /\ members' = Store(members, k, q)
  BY DEF ReplaceMembership, StoreMember
<1>2. k \in DOMAIN members /\ members[k] \in MemberRecord /\ members[k].life \notin Terminal
  BY <1>1 DEF Open, MembersTypeOK
<1>3. /\ q.head = e /\ q.ev = ev /\ q.life = members[k].life
      /\ q.domGen = members[k].domGen
  BY <1>2, AttestedType
<1> HIDE DEF q
<1>4. Changes(members[k], q)
  BY <1>1, <1>2, <1>3 DEF Changes, Reasserts
<1> QED BY <1>1, <1>2, <1>3, <1>4, OneChanges

LEMMA PublishChanges ==
  ASSUME MembersTypeOK, NEW a, NEW e \in Entry, NEW batch, NEW complete,
         PublishMemberships(a, e, batch, complete)
  PROVE  MembersStep
<1> DEFINE absent == {k \in DOMAIN members \ batch :
                        k[1] \in complete /\ members[k].life = "Current"}
<1>1. /\ \A k \in batch : Publishable(a, e, k)
      /\ BatchExclusive(batch)
      /\ members' = [k \in DOMAIN members \cup batch |->
                       IF k \in batch THEN Published(k, e)
                       ELSE IF k \in absent THEN [members[k] EXCEPT !.life = "Retired"]
                       ELSE members[k]]
  BY DEF PublishMemberships
<1>2. \A k \in batch : Carries(k[1]) /\ k[1] \in DOMAIN domains /\ ~ExclusiveConflict(k)
  BY <1>1 DEF Publishable, MayAttach, Carries
<1>3. ASSUME NEW k \in DOMAIN members
      PROVE  /\ Changes(members[k], members'[k])
             /\ \/ members'[k].domGen = members[k].domGen
                \/ k[1] \in DOMAIN domains /\ members'[k].domGen = domains[k[1]].gen
             /\ k \in batch \/ (members'[k].life = "Current" => members[k].life = "Current")
  <2>1. members[k] \in MemberRecord
    BY DEF MembersTypeOK
  <2>2. CASE k \in batch
    <3>1. Open(k) /\ Precedence(members[k].head, e) \in {"Stronger", "EqualSameSource"}
      BY <1>1, <2>2 DEF Publishable, Open
    <3>2. members'[k] = [Reasserted(k, e) EXCEPT !.life = "Current"]
      BY <1>1, <2>2 DEF Published
    <3>3. Changes(members[k], members'[k]) /\ members'[k].domGen = domains[k[1]].gen
      BY <3>1, <3>2, ReassertedReasserts
    <3> QED BY <1>2, <2>2, <3>3
  <2>3. CASE k \in absent
    <3>1. members'[k] = [members[k] EXCEPT !.life = "Retired"] /\ members[k].life = "Current"
      BY <1>1, <2>3
    <3>2. <<members[k].life, "Retired">> \in MembershipTransitions /\ "Retired" \in MemberLife
      BY <3>1 DEF MembershipTransitions, MemberLife
    <3>3. Relived(members[k], members'[k]) /\ members'[k].life = "Retired"
      <4>1. Relived(members[k], members'[k])
        BY <2>1, <3>1, <3>2, LifeAlone
      <4>2. members'[k].life = "Retired"
        BY <2>1, <3>1 DEF MemberRecord
      <4> QED BY <4>1, <4>2
    <3> QED BY <3>3 DEF Changes, Relived
  <2>4. CASE k \notin batch /\ k \notin absent
    <3>1. members'[k] = members[k]
      BY <1>1, <2>4
    <3> QED BY <3>1, SameIsRelived DEF Changes
  <2> QED BY <2>2, <2>3, <2>4
<1>4. ASSUME NEW k \in DOMAIN members' \ DOMAIN members
      PROVE  k \in batch /\ members'[k] = NewMember(k, e)
  BY <1>1, <1>4 DEF Published
<1>5. DOMAIN members' = DOMAIN members \cup batch
  BY <1>1
<1> HIDE DEF absent
<1>6. MembersChange
  BY <1>2, <1>3, <1>4, <1>5 DEF MembersChange
<1>7. Entering \subseteq batch
  BY <1>3, <1>5 DEF Entering
<1>8. EntersFreely
  BY <1>1, <1>2, <1>7 DEF EntersFreely, BatchExclusive
<1> QED BY <1>6, <1>8 DEF MembersStep

LEMMA DetachOrReconcileChanges ==
  ASSUME MembersTypeOK, NEW a \in Authority, NEW k \in Key,
         DetachMember(a, k) \/ ReconcileMembership(a, k)
  PROVE  MembersStep
<1>1. Open(k)
  BY DEF DetachMember, ReconcileMembership
<1>2. members[k].life \in MemberLife \ Terminal
  BY <1>1 DEF Open, MembersTypeOK, MemberRecord
<1>3. CASE DetachMember(a, k)
  <2>1. members' = Store(members, k, [members[k] EXCEPT !.life = "Retired"])
    BY <1>3 DEF DetachMember, StoreMember
  <2>2. <<members[k].life, "Retired">> \in MembershipTransitions /\ "Retired" \in MemberLife
    BY <1>2, OpenLives DEF MemberLife
  <2> QED BY <1>1, <2>1, <2>2, RelifeChanges
<1>4. CASE ReconcileMembership(a, k)
  <2> DEFINE l == Reconciled(members[k])
  <2>1. members' = Store(members, k, [members[k] EXCEPT !.life = l])
    BY <1>4 DEF ReconcileMembership, StoreMember
  <2>2. ReconcileStep
    BY <1>4 DEF ReconcileStep
  <2>3. /\ l \in MemberLife
        /\ \/ l = members[k].life
           \/ <<members[k].life, l>> \in MembershipTransitions
              /\ (l = "Current" => Held(members[k]) # {})
           \/ members[k].life = "Conflicted" /\ l = "Revalidate" /\ Held(members[k]) = {}
    BY <1>2 DEF Reconciled, MemberLife, Terminal, MembershipTransitions
  <2> HIDE DEF l
  <2> QED BY <1>1, <2>1, <2>2, <2>3, RelifeChanges
<1> QED BY <1>3, <1>4

LEMMA MembersNextChanges ==
  ASSUME MembersTypeOK, MembersNext
  PROVE  MembersStep
<1>1. PICK a \in Authority :
    \/ \E e \in Attributed(a), k \in Key :
         \/ AttachNew(a, e, k) \/ AttachConflict(a, e, k)
         \/ \E t \in BOOLEAN : AttachExisting(a, e, k, t)
    \/ \E e \in Attributable(a), k \in Key : ReplaceMembership(a, e, k)
    \/ \E e \in Attributed(a), batch \in SUBSET Key, complete \in SUBSET Domain :
         PublishMemberships(a, e, batch, complete)
    \/ \E k \in Key :
         \/ DetachMember(a, k)
         \/ \E t \in BOOLEAN, classes \in {Evidence} \cup {{c} : c \in Evidence} :
              WithdrawEvidence(a, k, t, classes)
         \/ ReconcileMembership(a, k) \/ MarkMembership(a, k)
    \/ \E d \in Domain : MarkDomain(a, d)
    \/ \E classes \in {Class} \cup {{c} : c \in Class} :
         \/ MarkClass(a, classes)
         \/ \E entity \in {EntityOf[m] : m \in Member} : MarkEntity(a, entity, classes)
    \/ \E m \in Member : InvalidateEntity(a, m)
  BY DEF MembersNext
<1>2. Attributed(a) \subseteq Entry /\ Attributable(a) \subseteq Entry
  BY DEF Attributed, Attributable
<1>3. ASSUME NEW e \in Entry, NEW k, NEW t,
             \/ AttachNew(a, e, k) \/ AttachExisting(a, e, k, t) \/ ReplaceMembership(a, e, k)
      PROVE  MembersStep
  BY <1>3, AttachNewChanges, AttachExistingChanges, ReplaceChanges
<1>4. ASSUME NEW e, NEW k, AttachConflict(a, e, k)
      PROVE  MembersStep
  <2>1. Open(k) /\ members' = Store(members, k, [members[k] EXCEPT !.life = "Conflicted"])
    BY <1>4 DEF AttachConflict, StoreMember
  <2>2. members[k].life \in MemberLife \ Terminal /\ "Conflicted" \in MemberLife
    BY <2>1 DEF Open, MembersTypeOK, MemberRecord, MemberLife
  <2> QED BY <2>1, <2>2, OpenLives, RelifeChanges
<1>5. ASSUME NEW e \in Entry, NEW batch, NEW complete, PublishMemberships(a, e, batch, complete)
      PROVE  MembersStep
  BY <1>5, PublishChanges
<1>6. ASSUME NEW k \in Key, DetachMember(a, k) \/ ReconcileMembership(a, k)
      PROVE  MembersStep
  BY <1>6, DetachOrReconcileChanges
<1>7. ASSUME NEW k, NEW t, NEW classes, WithdrawEvidence(a, k, t, classes)
      PROVE  MembersStep
  BY <1>7, WithdrawChanges DEF WithdrawEvidence
<1>8. ASSUME NEW x, NEW y,
             \/ MarkMembership(a, x) \/ MarkDomain(a, x) \/ MarkEntity(a, x, y)
             \/ MarkClass(a, x) \/ InvalidateEntity(a, x)
      PROVE  MembersStep
  <2>1. \E keys : members' = DemoteMembers(members, keys, "Revalidate")
    BY <1>8 DEF MarkMembership, MarkDomain, MarkEntity, MarkClass, InvalidateEntity,
       DemandRevalidation
  <2>2. "Revalidate" \in MemberLife
    BY DEF MemberLife
  <2> QED BY <2>1, <2>2, DemoteChanges
<1> QED BY <1>1, <1>2, <1>3, <1>4, <1>5, <1>6, <1>7, <1>8

\* Every step but a merge.
LEMMA StepChanges ==
  ASSUME TypeInv, [Next]_vars, ~MergeStep
  PROVE  MembersStep
<1> USE DEF TypeInv
<1> {"Revalidate", "Retired"} \subseteq MemberLife
  BY DEF MemberLife
<1>1. CASE MembersNext
  BY <1>1, MembersNextChanges
<1>2. CASE DomainsNext
  <2>1. ASSUME NEW a, NEW e, NEW d, NEW t, NEW u,
               DeclareNew(a, e, d, t) \/ RedeclareConflict(a, e, d) \/ Redeclare(a, e, d, t, u)
        PROVE  MembersStep
    BY <2>1, NoChange DEF OnlyDomain, DeclareNew, RedeclareConflict, Redeclare
  <2>2. ASSUME NEW a, NEW d, NEW target, NEW prov, NEW t, UpdateDomain(a, d, target, prov, t)
        PROVE  MembersStep
    BY <2>2, NoChange DEF OnlyDomain, UpdateDomain
  <2>3. ASSUME NEW a, NEW d, NEW o, NEW t, SupersedeDomain(a, d, o, t)
        PROVE  MembersStep
    <3>1. \/ UNCHANGED members
          \/ \E l \in {"Revalidate", "Retired"} : members' = DemoteMembers(members, MembersOf(d), l)
      BY <2>3 DEF SupersedeDomain
    <3> QED BY <3>1, NoChange, DemoteChanges
  <2>4. ASSUME NEW a, NEW d, NEW t, RetireDomain(a, d, t)
        PROVE  MembersStep
    BY <2>4, NoChange, DemoteChanges DEF RetireDomain
  <2>5. ASSUME NEW a \in Authority, NEW d \in Domain, NEW o \in Domain,
               \/ \E t \in BOOLEAN : MergeDomains(a, d, o, t)
               \/ \E ms \in SUBSET Member : MergeConflict(a, d, o, ms)
        PROVE  FALSE
    BY <2>5 DEF MergeStep
  <2> QED BY <1>2, <2>1, <2>2, <2>3, <2>4, <2>5 DEF DomainsNext
<1>3. CASE AuthorityNext
  <2>1. ASSUME NEW S, Lose(S) PROVE MembersStep
    BY <2>1, WithdrawChanges DEF Lose
  <2> QED
    BY <1>3, <2>1, NoChange DEF AuthorityNext, BootstrapGrant, AuthorizedGrant, InstallGrant,
       Reattach, AttachWorker, FenceWorker, AdvanceEpoch
<1>4. CASE UNCHANGED vars
  BY <1>4, NoChange DEF vars
<1> QED BY <1>1, <1>2, <1>3, <1>4 DEF Next

(***************************************************************************)
(* What a merge does to a membership: it moves evidence and headline       *)
(* together.                                                               *)
(***************************************************************************)
SameEvidence(r, q) == q.head = r.head /\ q.ev = r.ev

Moved(ms) ==
  \A k \in DOMAIN ms :
    /\ \E j \in DOMAIN members : SameEvidence(members[j], ms[k])
    /\ \/ k \in DOMAIN members /\ ms[k].domGen = members[k].domGen
       \/ k[1] \in DOMAIN domains /\ ms[k].domGen = domains[k[1]].gen

LEMMA LifeKeepsEvidence ==
  ASSUME NEW r \in MemberRecord, NEW l
  PROVE  LET q == [r EXCEPT !.life = l] IN SameEvidence(r, q) /\ q.domGen = r.domGen
BY DEF SameEvidence, MemberRecord

LEMMA MoveMoves ==
  ASSUME MembersTypeOK, NEW s \in DOMAIN domains, NEW o, s # o, NEW ms \in SUBSET Moving(o)
  PROVE  Moved(MoveMembers(s, o, ms))
<1> DEFINE moved == MoveMembers(s, o, ms)
<1>1. \A m \in ms : <<o, m>> \in DOMAIN members
  BY DEF Moving
<1>2. ASSUME NEW k \in DOMAIN moved
      PROVE  /\ \E j \in DOMAIN members : SameEvidence(members[j], moved[k])
             /\ \/ k \in DOMAIN members /\ moved[k].domGen = members[k].domGen
                \/ k[1] \in DOMAIN domains /\ moved[k].domGen = domains[k[1]].gen
  <2>1. CASE k[2] \notin ms \/ k[1] \notin {s, o}
    <3>1. k \in DOMAIN members /\ moved[k] = members[k]
      BY <2>1 DEF MoveMembers
    <3> QED BY <3>1 DEF SameEvidence
  <2>2. CASE k[2] \in ms /\ k[1] = s
    <3> DEFINE r == members[<<o, k[2]>>]
    <3>1. moved[k] = MovedRecord(r, s)
      BY <2>2 DEF MoveMembers
    <3>2. <<o, k[2]>> \in DOMAIN members /\ r \in MemberRecord
      BY <1>1, <2>2 DEF MembersTypeOK
    <3> HIDE DEF r
    <3>3. moved[k] = [[r EXCEPT !.life = "Current"] EXCEPT !.domGen = domains[s].gen]
      BY <3>1 DEF MovedRecord
    <3> HIDE DEF moved
    <3>4. SameEvidence(r, moved[k]) /\ moved[k].domGen = domains[s].gen
      BY <3>2, <3>3 DEF MemberRecord, SameEvidence
    <3> QED BY <2>2, <3>2, <3>4 DEF r
  <2>3. CASE k[2] \in ms /\ k[1] = o
    <3>1. moved[k] = [members[k] EXCEPT !.life = "Superseded"] /\ k \in DOMAIN members
      BY <2>3 DEF MoveMembers
    <3>2. members[k] \in MemberRecord
      BY <3>1 DEF MembersTypeOK
    <3> HIDE DEF moved
    <3> QED BY <3>1, <3>2, LifeKeepsEvidence
  <2> QED BY <2>1, <2>2, <2>3
<1> HIDE DEF moved
<1>3. Moved(moved)
  BY <1>2 DEF Moved
<1> QED BY <1>3 DEF moved

LEMMA DemoteMoves ==
  ASSUME NEW ms, NEW keys, NEW t, Moved(ms), \A k \in DOMAIN ms : ms[k] \in MemberRecord
  PROVE  Moved(DemoteMembers(ms, keys, t))
<1> DEFINE next == DemoteMembers(ms, keys, t)
<1>1. DOMAIN next = DOMAIN ms
  BY DEF DemoteMembers
<1>2. ASSUME NEW k \in DOMAIN ms
      PROVE  SameEvidence(ms[k], next[k]) /\ next[k].domGen = ms[k].domGen
  <2>1. CASE k \in keys
    <3>1. next[k] = [ms[k] EXCEPT !.life = Demoted(ms[k].life, t)]
      BY <2>1 DEF DemoteMembers
    <3> HIDE DEF next
    <3> QED BY <3>1, LifeKeepsEvidence
  <2>2. CASE k \notin keys
    BY <2>2 DEF DemoteMembers, SameEvidence
  <2> QED BY <2>1, <2>2
<1> HIDE DEF next
<1>3. Moved(next)
  BY <1>1, <1>2 DEF Moved, SameEvidence
<1> QED BY <1>3 DEF next

LEMMA MergeMoves ==
  ASSUME DomainsTypeOK, MembersTypeOK, MergeStep
  PROVE  Moved(members')
<1>1. PICK a \in Authority, d \in Domain, o \in Domain :
        \/ \E t \in BOOLEAN : MergeDomains(a, d, o, t)
        \/ \E ms \in SUBSET Member : MergeConflict(a, d, o, ms)
  BY DEF MergeStep
<1>2. d \in DOMAIN domains /\ d # o
  BY <1>1 DEF MergeDomains, MergeConflict, Mergeable, OpenDomain
<1>3. ASSUME NEW t, MergeDomains(a, d, o, t) PROVE Moved(members')
  <2>1. CASE members' = MoveMembers(d, o, Moving(o))
    BY <1>2, <2>1, MoveMoves
  <2>2. CASE members' = members
    BY <2>2 DEF Moved, SameEvidence
  <2> QED BY <1>3, <2>1, <2>2 DEF MergeDomains
<1>4. ASSUME NEW ms, MergeConflict(a, d, o, ms) PROVE Moved(members')
  <2> DEFINE moved == MoveMembers(d, o, ms)
  <2>1. ms \in SUBSET Moving(o) /\ members' = DemoteMembers(moved, MembersOf(o), "Superseded")
    BY <1>4 DEF MergeConflict
  <2>2. moved \in [DOMAIN moved -> MemberRecord] /\ Moved(moved)
    BY <1>2, <2>1, MoveAdds, MoveMoves
  <2> HIDE DEF moved
  <2> QED BY <2>1, <2>2, DemoteMoves
<1> QED BY <1>1, <1>3, <1>4

(***************************************************************************)
(* Headlines.                                                              *)
(***************************************************************************)
Headlined(r) == Held(r) # {} => r.head \in Strongest(Held(r))

LEMMA SameIsHeadlined ==
  ASSUME NEW r, NEW q, SameEvidence(r, q), Headlined(r)
  PROVE  Headlined(q)
BY DEF SameEvidence, Headlined, Held

LEMMA EntryRank == \A e \in Entry : e.cls \in Nat /\ ~Outranks(e.cls, e.cls)
<1>1. Evidence \subseteq Nat
  BY IdentityAssumption DEF EvidenceClass
<1>2. \A e \in Entry : e.cls \in Evidence
  BY DEF Entry
<1>3. \A n \in Nat : ~Outranks(n, n)
  BY DEF Outranks
<1> QED BY <1>1, <1>2, <1>3, Zenon

\* What may take the headline is at least as strong as what has it.
LEMMA NotOutranked ==
  ASSUME NEW h \in Entry, NEW e \in Entry,
         Precedence(h, e) \in {"Stronger", "EqualSameSource"}
  PROVE  e.cls <= h.cls
<1>1. h.cls \in Nat /\ e.cls \in Nat
  BY EntryRank
<1>2. CASE Outranks(h.cls, e.cls)
  <2>1. ~ Outranks(e.cls, h.cls) /\ h.cls # e.cls
    BY <1>1, <1>2 DEF Outranks
  <2>2. Precedence(h, e) = "Weaker"
    BY <1>2, <2>1 DEF Precedence
  <2> QED BY <2>2
<1> QED BY <1>1, <1>2 DEF Outranks

LEMMA ReassertedHeadline ==
  ASSUME NEW r \in MemberRecord, NEW q, Headlined(r), Reasserts(r, q)
  PROVE  Headlined(q) /\ Held(q) # {}
<1>1. PICK e \in Entry : /\ Precedence(r.head, e) \in {"Stronger", "EqualSameSource"}
                         /\ q.head = e /\ q.ev = [r.ev EXCEPT ![e] = @ + 1]
  BY DEF Reasserts
<1>2. r.ev \in [Entry -> Nat] /\ r.head \in Entry
  BY DEF MemberRecord
<1>3. q.ev[e] > 0 /\ \A f \in Entry : f # e => q.ev[f] = r.ev[f]
  BY <1>1, <1>2
<1>4. Held(q) = Held(r) \cup {e}
  BY <1>3 DEF Held
<1>5. ASSUME NEW f \in Held(r) PROVE ~Outranks(f.cls, e.cls)
  <2>1. f \in Entry /\ ~Outranks(f.cls, r.head.cls)
    BY <1>5 DEF Headlined, Strongest, Held
  <2>2. f.cls \in Nat /\ e.cls \in Nat /\ r.head.cls \in Nat
    BY <1>1, <1>2, <2>1, EntryRank
  <2>3. e.cls <= r.head.cls
    BY <1>1, <1>2, NotOutranked
  <2> QED BY <2>1, <2>2, <2>3 DEF Outranks
<1>6. ~Outranks(e.cls, e.cls)
  BY EntryRank
<1> QED BY <1>1, <1>4, <1>5, <1>6 DEF Headlined, Strongest

LEMMA NewHeadline ==
  ASSUME NEW k, NEW e \in Entry
  PROVE  Headlined(NewMember(k, e)) /\ Held(NewMember(k, e)) = {e}
<1> DEFINE ev == [NoEvidence EXCEPT ![e] = 1]
           q  == NewMember(k, e)
<1>1. ev[e] = 1 /\ \A f \in Entry : f # e => ev[f] = 0
  BY DEF NoEvidence
<1>2. q = [life |-> "Current", domGen |-> domains[k[1]].gen, head |-> e, ev |-> ev]
  BY DEF NewMember
<1> HIDE DEF ev, q
<1>3. q.ev = ev /\ q.head = e
  BY <1>2
<1>4. Held(q) = {e}
  BY <1>1, <1>3 DEF Held
<1>5. ~Outranks(e.cls, e.cls)
  BY EntryRank
<1> QED BY <1>3, <1>4, <1>5 DEF Headlined, Strongest, q

LEMMA HeadlineStep ==
  ASSUME TypeInv, HeadlineIsStrongest, [Next]_vars
  PROVE  HeadlineIsStrongest'
<1> USE DEF TypeInv
<1>1. \A k \in DOMAIN members : Headlined(members[k]) /\ members[k] \in MemberRecord
  BY DEF HeadlineIsStrongest, Headlined, MembersTypeOK
<1> SUFFICES ASSUME NEW k \in DOMAIN members' PROVE Headlined(members'[k])
  BY DEF HeadlineIsStrongest, Headlined, Held, Strongest
<1>2. CASE MergeStep
  <2>1. PICK j \in DOMAIN members : SameEvidence(members[j], members'[k])
    BY <1>2, MergeMoves DEF Moved
  <2> QED BY <1>1, <2>1, SameIsHeadlined
<1>3. CASE ~MergeStep
  <2>1. MembersChange
    BY <1>3, StepChanges DEF MembersStep
  <2>2. CASE k \in DOMAIN members
    <3>1. CASE Relived(members[k], members'[k])
      BY <1>1, <2>2, <3>1, SameIsHeadlined DEF Relived, SameEvidence
    <3>2. CASE Reasserts(members[k], members'[k])
      BY <1>1, <2>2, <3>2, ReassertedHeadline
    <3>3. CASE Weakens(members[k], members'[k])
      BY <3>3 DEF Weakens, Headlined
    <3> QED BY <2>1, <2>2, <3>1, <3>2, <3>3 DEF MembersChange, Changes
  <2>3. CASE k \notin DOMAIN members
    BY <2>1, <2>3, NewHeadline DEF MembersChange
  <2> QED BY <2>2, <2>3
<1> QED BY <1>2, <1>3

\* The headline a membership answers with is the strongest evidence it still
\* holds, after any sequence of attachments, replacements, withdrawals, lost
\* incarnations and merges.
THEOREM HeadlinesAreStrongest == Spec => []HeadlineIsStrongest
<1>1. Init => HeadlineIsStrongest
  BY DEF Init, HeadlineIsStrongest
<1>2. TypeInv /\ HeadlineIsStrongest /\ [Next]_vars => HeadlineIsStrongest'
  BY HeadlineStep
<1> QED BY <1>1, <1>2, TypeInit, TypeStep, PTL DEF Spec

(***************************************************************************)
(* Lifecycles of memberships.                                              *)
(***************************************************************************)
LEMMA ChangedLife ==
  ASSUME NEW r \in MemberRecord, NEW q, Changes(r, q), q.life # r.life
  PROVE  /\ r.life \notin Terminal
         /\ \/ <<r.life, q.life>> \in MembershipTransitions
            \/ r.life = "Conflicted" /\ q.life = "Revalidate" /\ Held(r) = {}
<1>1. r.life \in MemberLife
  BY DEF MemberRecord
<1>2. \A l \in MemberLife : \A m : <<l, m>> \in MembershipTransitions => l \notin Terminal
  BY DEF MembershipTransitions, Terminal
<1>3. CASE Relived(r, q)
  BY <1>1, <1>2, <1>3 DEF Relived, Terminal
<1>4. CASE Reasserts(r, q)
  <2>1. r.life \in MemberLife \ Terminal /\ q.life = "Current"
    BY <1>1, <1>4 DEF Reasserts
  <2> QED BY <2>1, OpenLives
<1>5. CASE Weakens(r, q)
  <2>1. q.life = Demoted(r.life, "Revalidate")
    BY <1>5 DEF Weakens
  <2> QED BY <1>1, <1>2, <2>1 DEF Demoted
<1> QED BY <1>3, <1>4, <1>5 DEF Changes

\* A membership that changes its lifecycle without a merge.
LEMMA LifeStep ==
  ASSUME TypeInv, [Next]_vars, ~MergeStep,
         NEW k \in DOMAIN members, members'[k].life # members[k].life
  PROVE  /\ members[k].life \notin Terminal
         /\ \/ <<members[k].life, members'[k].life>> \in MembershipTransitions
            \/ /\ members[k].life = "Conflicted" /\ members'[k].life = "Revalidate"
               /\ Held(members[k]) = {}
<1>1. Changes(members[k], members'[k])
  BY StepChanges DEF MembersStep, MembersChange
<1>2. members[k] \in MemberRecord
  BY DEF TypeInv, MembersTypeOK
<1> QED BY <1>1, <1>2, ChangedLife

\* Whatever demotes, withdraws, republishes, reconciles, detaches or retires a
\* membership follows the lifecycle table, but for a reconciliation of a record
\* in conflict that has lost its evidence, and for the merges.
THEOREM MembershipsFollowTheTable == Spec => MembershipStepsAreListed
<1> DEFINE Step == \A k \in DOMAIN members :
       members[k].life' # members[k].life =>
         \/ <<members[k].life, members[k].life'>> \in MembershipTransitions
         \/ /\ members[k].life = "Conflicted" /\ members[k].life' = "Revalidate"
            /\ Held(members[k]) = {}
         \/ MergeStep
<1>1. TypeInv /\ [Next]_vars => Step
  BY LifeStep
<1>2. MembershipStepsAreListed <=> [][Step]_vars
  BY PTL DEF MembershipStepsAreListed
<1> QED BY <1>1, <1>2, TypeInit, TypeStep, PTL DEF Spec

\* A retired or superseded membership is brought back by a merge at most: not
\* by a publication, a reconciliation, or a demotion of the domain it is in.
THEOREM ClosedUntilMerged == Spec => ClosedMembershipsStay
<1> DEFINE Step == \A k \in DOMAIN members :
       members[k].life \in Terminal /\ members[k].life' # members[k].life => MergeStep
<1>1. TypeInv /\ [Next]_vars => Step
  BY LifeStep
<1>2. ClosedMembershipsStay <=> [][Step]_vars
  BY PTL DEF ClosedMembershipsStay
<1> QED BY <1>1, <1>2, TypeInit, TypeStep, PTL DEF Spec

(***************************************************************************)
(* Current memberships hold evidence, until a merge.                       *)
(***************************************************************************)
LEMMA AttestedRecord ==
  ASSUME NEW r \in MemberRecord, NEW q, Changes(r, q), q.life = "Current",
         r.life = "Current" => Held(r) # {}
  PROVE  Held(q) # {}
<1>1. CASE Relived(r, q)
  <2>1. Held(q) = Held(r)
    BY <1>1 DEF Relived, Held
  <2> QED BY <1>1, <2>1 DEF Relived
<1>2. CASE Reasserts(r, q)
  <2>1. PICK e \in Entry : q.ev = [r.ev EXCEPT ![e] = @ + 1]
    BY <1>2 DEF Reasserts
  <2>2. q.ev[e] > 0
    BY <2>1 DEF MemberRecord
  <2> QED BY <2>2 DEF Held
<1>3. CASE Weakens(r, q)
  BY <1>3 DEF Weakens, Demoted, MembershipTransitions
<1> QED BY <1>1, <1>2, <1>3 DEF Changes

LEMMA AttestedStep ==
  ASSUME TypeInv, CurrentIsAttested, [Next]_vars, ~MergeStep
  PROVE  CurrentIsAttested'
<1> SUFFICES ASSUME NEW k \in DOMAIN members', members'[k].life = "Current"
             PROVE  Held(members'[k]) # {}
  BY DEF CurrentIsAttested, Held
<1>1. MembersChange
  BY StepChanges DEF MembersStep
<1>2. CASE k \notin DOMAIN members
  BY <1>1, <1>2, NewHeadline DEF MembersChange
<1>3. CASE k \in DOMAIN members
  <2>1. members[k] \in MemberRecord /\ Changes(members[k], members'[k])
    BY <1>1, <1>3 DEF TypeInv, MembersTypeOK, MembersChange
  <2>2. members[k].life = "Current" => Held(members[k]) # {}
    BY <1>3 DEF CurrentIsAttested
  <2> QED BY <2>1, <2>2, AttestedRecord
<1> QED BY <1>2, <1>3

\* Only a merge makes a membership current that nobody attests.
THEOREM AttestedUntilMerged == Spec => AttestationIsKept
<1> DEFINE Step == CurrentIsAttested /\ ~CurrentIsAttested' => MergeStep
<1>1. TypeInv /\ [Next]_vars => Step
  BY AttestedStep
<1>2. AttestationIsKept <=> [][Step]_vars
  BY PTL DEF AttestationIsKept
<1> QED BY <1>1, <1>2, TypeInit, TypeStep, PTL DEF Spec

\* A registry in which no merge is ever asked for: every current membership
\* holds evidence, always.
THEOREM AttestedWithoutMerges == Init /\ [][Next /\ ~MergeStep]_vars => []CurrentIsAttested
<1>1. Init => CurrentIsAttested
  BY DEF Init, CurrentIsAttested
<1>2. TypeInv /\ CurrentIsAttested /\ [Next /\ ~MergeStep]_vars => CurrentIsAttested'
  <2>1. CurrentIsAttested /\ UNCHANGED vars => CurrentIsAttested'
    BY DEF vars, CurrentIsAttested, Held
  <2> QED BY <2>1, AttestedStep
<1>3. TypeInv /\ [Next /\ ~MergeStep]_vars => TypeInv'
  BY TypeStep
<1> QED BY <1>1, <1>2, <1>3, TypeInit, PTL

(***************************************************************************)
(* Exclusive classes.                                                      *)
(***************************************************************************)
LEMMA ExclusiveStep ==
  ASSUME TypeInv, Exclusivity, [Next]_vars, ~MergeStep, ~ReconcileStep
  PROVE  Exclusivity'
<1>1. MembersChange /\ BatchExclusive(Entering) /\ \A k \in Entering : ~ExclusiveConflict(k)
  BY StepChanges DEF MembersStep, EntersFreely
<1>2. ASSUME NEW j \in DOMAIN members', members'[j].life = "Current"
      PROVE  j \notin Entering => j \in DOMAIN members /\ members[j].life = "Current"
  BY <1>2 DEF Entering
<1>3. ASSUME NEW j \in Entering, NEW k \in DOMAIN members, members[k].life = "Current",
             EntityOf[j[2]] = EntityOf[k[2]], ClassOf[j[1]] = ClassOf[k[1]],
             ClassOf[k[1]] \in Exclusive
      PROVE  j[1] = k[1]
  BY <1>1, <1>3 DEF ExclusiveConflict
<1> SUFFICES ASSUME NEW j \in DOMAIN members', NEW k \in DOMAIN members',
                    members'[j].life = "Current", members'[k].life = "Current",
                    EntityOf[j[2]] = EntityOf[k[2]], ClassOf[j[1]] = ClassOf[k[1]],
                    ClassOf[k[1]] \in Exclusive
             PROVE  j[1] = k[1]
  BY DEF Exclusivity
<1>4. CASE j \in Entering /\ k \in Entering
  BY <1>1, <1>4 DEF BatchExclusive
<1>5. CASE j \in Entering /\ k \notin Entering
  BY <1>2, <1>3, <1>5
<1>6. CASE j \notin Entering /\ k \in Entering
  BY <1>2, <1>3, <1>6
<1>7. CASE j \notin Entering /\ k \notin Entering
  BY <1>2, <1>7 DEF Exclusivity
<1> QED BY <1>4, <1>5, <1>6, <1>7

\* attach_member and publish_memberships never put an entity into a second
\* domain of an exclusive class, in one batch or in two; a reconciliation and a
\* merge may.
THEOREM ExclusiveUntilUnasked == Spec => ExclusivityIsKept
<1> DEFINE Step == Exclusivity /\ ~Exclusivity' => MergeStep \/ ReconcileStep
<1>1. TypeInv /\ [Next]_vars => Step
  BY ExclusiveStep
<1>2. ExclusivityIsKept <=> [][Step]_vars
  BY PTL DEF ExclusivityIsKept
<1> QED BY <1>1, <1>2, TypeInit, TypeStep, PTL DEF Spec

\* Without reconciliations and merges an entity is current in one domain of an
\* exclusive class, always.
THEOREM ExclusiveWhenAsked ==
  Init /\ [][Next /\ ~MergeStep /\ ~ReconcileStep]_vars => []Exclusivity
<1>1. Init => Exclusivity
  BY DEF Init, Exclusivity
<1>2. TypeInv /\ Exclusivity /\ [Next /\ ~MergeStep /\ ~ReconcileStep]_vars => Exclusivity'
  <2>1. Exclusivity /\ UNCHANGED vars => Exclusivity'
    BY DEF vars, Exclusivity
  <2> QED BY <2>1, ExclusiveStep
<1>3. TypeInv /\ [Next /\ ~MergeStep /\ ~ReconcileStep]_vars => TypeInv'
  BY TypeStep
<1> QED BY <1>1, <1>2, <1>3, TypeInit, PTL

(***************************************************************************)
(* Domains: what a step does to the record of one.                         *)
(***************************************************************************)
ListedChange(l, m) ==
  \/ <<l, m>> \in DomainTransitions
  \/ l = "Candidate" /\ m = "Conflicted"
  \/ l \in {"Candidate", "Conflicted"} /\ m = "Superseded"

Revised(r, q) == q.gen >= r.gen /\ (q.life # r.life => ListedChange(r.life, q.life))

DomainsRevised ==
  \A d \in DOMAIN domains : d \in DOMAIN domains' /\ Revised(domains[d], domains'[d])

LEMMA StoreRevises ==
  ASSUME DomainsTypeOK, NEW d, NEW q, StoreDomain(d, q),
         d \in DOMAIN domains => Revised(domains[d], q)
  PROVE  DomainsRevised
<1>1. /\ DOMAIN domains \subseteq DOMAIN domains'
      /\ \A o \in DOMAIN domains : domains'[o] = IF o = d THEN q ELSE domains[o]
  BY DEF StoreDomain, Store
<1>2. \A o \in DOMAIN domains : domains[o].gen \in Nat
  BY DEF DomainsTypeOK, DomainRecord
<1> QED BY <1>1, <1>2 DEF DomainsRevised, Revised

LEMMA BumpedRevises ==
  ASSUME NEW r \in DomainRecord, NEW l, l = r.life \/ ListedChange(r.life, l)
  PROVE  Revised(r, [Bumped(r) EXCEPT !.life = l])
<1> DEFINE g == NextGen(r.gen)
           q == [Bumped(r) EXCEPT !.life = l]
<1>1. r.gen \in 1..MaxGeneration /\ MaxGeneration \in Nat
  BY BoundAssumption DEF DomainRecord
<1>2. g >= r.gen
  BY <1>1 DEF NextGen
<1>3. q = [[r EXCEPT !.gen = g] EXCEPT !.life = l]
  BY DEF Bumped
<1> HIDE DEF g, q
<1>4. q.gen = g /\ q.life = l
  BY <1>3 DEF DomainRecord
<1> QED BY <1>2, <1>4 DEF Revised, q

LEMMA OpenDomainLives ==
  ASSUME NEW l \in DomainLife \ Terminal
  PROVE  /\ l = "Conflicted" \/ ListedChange(l, "Conflicted")
         /\ ListedChange(l, "Superseded") /\ ListedChange(l, "Retired")
         /\ l = "Candidate" => ListedChange(l, "Current")
BY DEF DomainLife, Terminal, DomainTransitions, ListedChange

LEMMA RevisionStep ==
  ASSUME TypeInv, [Next]_vars
  PROVE  DomainsRevised
<1> USE DEF TypeInv
<1>1. ASSUME UNCHANGED domains PROVE DomainsRevised
  <2>1. \A d \in DOMAIN domains : domains[d].gen \in Nat
    BY DEF DomainsTypeOK, DomainRecord
  <2> QED BY <1>1, <2>1 DEF DomainsRevised, Revised
<1>2. ASSUME NEW d, OpenDomain(d)
      PROVE  /\ d \in DOMAIN domains /\ domains[d] \in DomainRecord
             /\ domains[d].life \in DomainLife \ Terminal
  BY <1>2 DEF OpenDomain, DomainsTypeOK, DomainRecord
<1>3. ASSUME NEW d, OpenDomain(d), NEW l \in {"Conflicted", "Superseded", "Retired"},
             StoreDomain(d, [Bumped(domains[d]) EXCEPT !.life = l])
      PROVE  DomainsRevised
  <2>1. Revised(domains[d], [Bumped(domains[d]) EXCEPT !.life = l])
    BY <1>2, <1>3, OpenDomainLives, BumpedRevises
  <2> QED BY <1>3, <2>1, StoreRevises
<1>4. ASSUME NEW a, NEW e, NEW d, NEW t, DeclareNew(a, e, d, t)
      PROVE  DomainsRevised
  BY <1>4, StoreRevises DEF DeclareNew, OnlyDomain
<1>5. ASSUME NEW a, NEW e, NEW d, RedeclareConflict(a, e, d)
      PROVE  DomainsRevised
  BY <1>3, <1>5 DEF RedeclareConflict, OnlyDomain
<1>6. ASSUME NEW a, NEW e, NEW d, NEW t, NEW u, Redeclare(a, e, d, t, u)
      PROVE  DomainsRevised
  <2> DEFINE r == domains[d]
             l == IF t /\ r.life = "Candidate" THEN "Current" ELSE r.life
             b == [Bumped(r) EXCEPT !.life = l]
             q == [Bumped(r) EXCEPT !.prov = e,
                                    !.life = IF t /\ @ = "Candidate" THEN "Current" ELSE @]
  <2>1. OpenDomain(d) /\ StoreDomain(d, q)
    BY <1>6 DEF Redeclare, OnlyDomain
  <2>2. r \in DomainRecord /\ r.life \in DomainLife \ Terminal
    BY <1>2, <2>1
  <2>3. Revised(r, b)
    BY <2>2, OpenDomainLives, BumpedRevises
  <2>4. q.gen = b.gen /\ q.life = b.life
    <3>1. Bumped(r) \in DomainRecord /\ Bumped(r).life = r.life
      BY <2>2, BumpedType DEF Bumped, DomainRecord
    <3> QED BY <3>1 DEF DomainRecord
  <2> HIDE DEF q, b
  <2>5. Revised(r, q)
    BY <2>3, <2>4 DEF Revised
  <2> QED BY <2>1, <2>5, StoreRevises
<1>7. ASSUME NEW a, NEW d, NEW target, NEW prov, NEW t, UpdateDomain(a, d, target, prov, t)
      PROVE  DomainsRevised
  <2> DEFINE q == [life |-> target, gen |-> domains[d].gen + 1, prov |-> prov]
  <2>1. /\ OpenDomain(d) /\ StoreDomain(d, q)
        /\ target # domains[d].life => <<domains[d].life, target>> \in DomainTransitions
    BY <1>7 DEF UpdateDomain, OnlyDomain
  <2>2. domains[d].gen \in Nat
    BY <1>2, <2>1 DEF DomainRecord
  <2>3. Revised(domains[d], q)
    BY <2>1, <2>2 DEF Revised, ListedChange
  <2> HIDE DEF q
  <2> QED BY <2>1, <2>3, StoreRevises
<1>8. ASSUME NEW a, NEW d, NEW o, NEW t,
             SupersedeDomain(a, d, o, t) \/ RetireDomain(a, d, t) \/ MergeDomains(a, o, d, t)
      PROVE  DomainsRevised
  BY <1>3, <1>8 DEF SupersedeDomain, RetireDomain, MergeDomains, Mergeable
<1>9. CASE DomainsNext
  BY <1>1, <1>4, <1>5, <1>6, <1>7, <1>8, <1>9 DEF DomainsNext, MergeConflict
<1>10. CASE MembersNext
  BY <1>1, <1>10, MembersKeepTheRest DEF OnlyMembers
<1>11. ASSUME NEW S, Lose(S) PROVE DomainsRevised
  <2> DEFINE gone == UNION {ProcessEntries(i) : i \in S}
  <2>1. domains' = [d \in DOMAIN domains |->
                      IF LostDomain(domains[d], gone)
                      THEN [Bumped(domains[d]) EXCEPT !.life = "Revalidate"]
                      ELSE domains[d]]
    BY <1>11 DEF Lose
  <2> HIDE DEF gone
  <2>2. ASSUME NEW d \in DOMAIN domains PROVE Revised(domains[d], domains'[d])
    <3>1. domains[d] \in DomainRecord
      BY DEF DomainsTypeOK
    <3>2. CASE LostDomain(domains[d], gone)
      <4>1. domains'[d] = [Bumped(domains[d]) EXCEPT !.life = "Revalidate"]
        BY <2>1, <3>2
      <4>2. ListedChange(domains[d].life, "Revalidate")
        BY <3>2 DEF LostDomain, ListedChange
      <4> QED BY <3>1, <4>1, <4>2, BumpedRevises
    <3>3. CASE ~LostDomain(domains[d], gone)
      <4>1. domains'[d] = domains[d] /\ domains[d].gen \in Nat
        BY <2>1, <3>1, <3>3 DEF DomainRecord
      <4> QED BY <4>1 DEF Revised
    <3> QED BY <3>2, <3>3
  <2> QED BY <2>1, <2>2 DEF DomainsRevised
<1>12. CASE AuthorityNext
  BY <1>1, <1>11, <1>12 DEF AuthorityNext, BootstrapGrant, AuthorizedGrant, InstallGrant,
     Reattach, AttachWorker, FenceWorker, AdvanceEpoch
<1>13. CASE UNCHANGED vars
  BY <1>1, <1>13 DEF vars
<1> QED BY <1>9, <1>10, <1>12, <1>13 DEF Next

\* The lifecycle of a domain follows the table, whether it is declared again,
\* updated, superseded, retired, merged or demoted, but for the three changes
\* the property names.
THEOREM DomainsFollowTheTable == Spec => DomainStepsAreListed
<1> DEFINE Step == \A d \in DOMAIN domains :
       domains[d].life' # domains[d].life =>
         \/ <<domains[d].life, domains[d].life'>> \in DomainTransitions
         \/ domains[d].life = "Candidate" /\ domains[d].life' = "Conflicted"
         \/ domains[d].life \in {"Candidate", "Conflicted"} /\ domains[d].life' = "Superseded"
<1>1. TypeInv /\ [Next]_vars => Step
  BY RevisionStep DEF DomainsRevised, Revised, ListedChange
<1>2. DomainStepsAreListed <=> [][Step]_vars
  BY PTL DEF DomainStepsAreListed
<1> QED BY <1>1, <1>2, TypeInit, TypeStep, PTL DEF Spec

(***************************************************************************)
(* What an image must satisfy to be loaded.                                *)
(***************************************************************************)
LEMMA BindingStep ==
  ASSUME TypeInv, BindingsAreLoadable, [Next]_vars
  PROVE  BindingsAreLoadable'
<1> USE DEF TypeInv
<1> SUFFICES ASSUME NEW k \in DOMAIN members'
             PROVE  k[1] \in DOMAIN domains' /\ members'[k].domGen <= domains'[k[1]].gen
  BY DEF BindingsAreLoadable
<1> DEFINE g == members'[k].domGen
<1>1. \/ k \in DOMAIN members /\ g = members[k].domGen
      \/ k[1] \in DOMAIN domains /\ g = domains[k[1]].gen
  <2>1. CASE MergeStep
    BY <2>1, MergeMoves DEF Moved
  <2>2. CASE ~MergeStep
    <3>1. MembersChange
      BY <2>2, StepChanges DEF MembersStep
    <3>2. ASSUME NEW e \in Entry PROVE NewMember(k, e).domGen = domains[k[1]].gen
      BY DEF NewMember
    <3> QED BY <3>1, <3>2 DEF MembersChange, Carries
  <2> QED BY <2>1, <2>2
<1>2. k[1] \in DOMAIN domains /\ g <= domains[k[1]].gen /\ g \in Nat
  <2>1. \A d \in DOMAIN domains : domains[d].gen \in Nat
    BY DEF DomainsTypeOK, DomainRecord
  <2>2. \A j \in DOMAIN members : members[j].domGen \in Nat
    BY DEF MembersTypeOK, MemberRecord
  <2> HIDE DEF g
  <2> QED BY <1>1, <2>1, <2>2 DEF BindingsAreLoadable
<1> HIDE DEF g
<1>3. k[1] \in DOMAIN domains' /\ domains'[k[1]].gen >= domains[k[1]].gen
  BY <1>2, RevisionStep DEF DomainsRevised, Revised
<1>4. domains[k[1]].gen \in Nat /\ domains'[k[1]].gen \in Nat
  <2>1. DomainsTypeOK'
    BY TypeStep
  <2> QED BY <1>2, <1>3, <2>1 DEF DomainsTypeOK, DomainRecord
<1>5. g <= domains'[k[1]].gen
  BY <1>2, <1>3, <1>4
<1> QED BY <1>3, <1>5 DEF g

\* No image of a registry is refused by decode_registry for a membership
\* without a domain, or bound to a generation its domain never reached.
THEOREM BindingsStayLoadable == Spec => []BindingsAreLoadable
<1>1. Init => BindingsAreLoadable
  BY DEF Init, BindingsAreLoadable
<1>2. TypeInv /\ BindingsAreLoadable /\ [Next]_vars => BindingsAreLoadable'
  BY BindingStep
<1> QED BY <1>1, <1>2, TypeInit, TypeStep, PTL DEF Spec
=============================================================================
