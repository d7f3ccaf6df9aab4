--------------------------- MODULE Evidence_proofs ---------------------------
(***************************************************************************)
(* What an incarnation leaves behind when it stops living, and what stays  *)
(* closed for good.                                                        *)
(***************************************************************************)
EXTENDS Records_proofs

LEMMA ProcessEntry ==
  ASSUME NEW e \in Entry, e.cls \in ProcessBound
  PROVE  e \in ProcessEntries(<<e.pub, e.boot>>)
BY DEF ProcessEntries

\* Whoever calls Lose, and whichever incarnations go with it, what is held
\* afterwards was held before and is not theirs.
LEMMA LostEvidence ==
  ASSUME MembersTypeOK, NEW incarnations, Lose(incarnations),
         NEW e \in AllHeld(members')
  PROVE  /\ e \in AllHeld(members) /\ e \in Entry
         /\ e.cls \in ProcessBound => <<e.pub, e.boot>> \notin incarnations
<1>1. Withdraw({ProcessEntries(i) : i \in incarnations})
  BY DEF Lose
<1>2. /\ e \in AllHeld(members)
      /\ e \notin UNION {ProcessEntries(i) : i \in incarnations}
  BY <1>1, WithdrawAdds
<1>3. e \in Entry
  BY <1>2 DEF AllHeld, Held
<1> QED BY <1>2, <1>3, ProcessEntry

LivingInv == \A e \in AllHeld(members) : e.cls \in ProcessBound => e.boot \in Live(e.pub)

LEMMA LivingStep ==
  ASSUME OwnAttribution
  PROVE  TypeInv /\ LivingInv /\ [Next]_vars => LivingInv'
<1> SUFFICES ASSUME TypeInv, LivingInv, [Next]_vars,
                    NEW e \in AllHeld(members'), e.cls \in ProcessBound
             PROVE  e.boot \in Live(e.pub)'
  BY DEF LivingInv
<1> USE DEF TypeInv
<1>1. ASSUME KeepAuthority, NEW a \in Authority, AuthorizedAny(a), AddsOnly(Attributable(a))
      PROVE  e.boot \in Live(e.pub)'
  <2>1. CASE e \in AllHeld(members)
    BY <1>1, <2>1 DEF LivingInv, Live, KeepAuthority
  <2>2. CASE e \in Attributable(a)
    <3>1. e.pub = a.pub /\ e.boot = a.boot
      BY <2>2 DEF Attributable
    <3> QED BY <1>1, <3>1 DEF AuthorizedAny, Live, KeepAuthority
  <2> QED BY <1>1, <2>1, <2>2 DEF AddsOnly
<1>2. CASE MembersNext
  <2>1. PICK a \in Authority : AuthorizedAny(a) /\ AddsOnly(Attributable(a))
    BY <1>2, MembersNextAdds
  <2> QED BY <1>1, <1>2, <2>1, RecordsKeepAuthority
<1>3. ASSUME KeepAuthority, AddsOnly({}) PROVE e.boot \in Live(e.pub)'
  BY <1>3 DEF AddsOnly, LivingInv, Live, KeepAuthority
<1>4. CASE DomainsNext
  BY <1>3, <1>4, DomainsNextAdds, RecordsKeepAuthority
<1>5. ASSUME UNCHANGED <<sessions, members>> PROVE e.boot \in Live(e.pub)'
  BY <1>5 DEF LivingInv, Live
<1>6. CASE AuthorityNext
  <2>1. ASSUME NEW p \in Publisher, NEW g \in Grants, InstallGrant(p, g)
        PROVE  e.boot \in Live(e.pub)'
    BY <1>5, <2>1 DEF InstallGrant
  <2>2. ASSUME NEW p \in Publisher, NEW b \in Boot, NEW n \in 0..MaxEpoch, Reattach(p, b, n)
        PROVE  e.boot \in Live(e.pub)'
    BY <1>5, <2>2, ReattachChangesNothing DEF vars
  <2>3. ASSUME NEW p \in Publisher, NEW b \in Boot, NEW n \in 0..MaxEpoch, AttachWorker(p, b, n)
        PROVE  e.boot \in Live(e.pub)'
    <3>1. /\ Lose({<<p, c>> : c \in Live(p)})
          /\ sessions' = [sessions EXCEPT ![p] = {[boot |-> b, epoch |-> n]}]
      BY <2>3 DEF AttachWorker
    <3>2. e \in Entry /\ e.boot \in Live(e.pub) /\ <<e.pub, e.boot>> \notin {<<p, c>> : c \in Live(p)}
      BY <3>1, LostEvidence DEF LivingInv
    <3>3. e.pub # p /\ e.pub \in Publisher
      BY <3>2 DEF Entry
    <3>4. sessions'[e.pub] = sessions[e.pub]
      BY <3>1, <3>3 DEF IncarnationInv, AuthorityTypeOK
    <3> QED BY <3>2, <3>4 DEF Live
  <2>4. ASSUME NEW p \in Publisher, NEW b \in Boot, FenceWorker(p, b)
        PROVE  e.boot \in Live(e.pub)'
    <3>1. /\ Lose({<<p, b>>})
          /\ sessions' = [sessions EXCEPT ![p] = {s \in @ : s.boot # b}]
      BY <2>4 DEF FenceWorker
    <3>2. e \in Entry /\ e.boot \in Live(e.pub) /\ <<e.pub, e.boot>> \notin {<<p, b>>}
      BY <3>1, LostEvidence DEF LivingInv
    <3>3. e.pub \in Publisher /\ (e.pub # p \/ e.boot # b)
      BY <3>2 DEF Entry
    <3>4. PICK s \in sessions[e.pub] : s.boot = e.boot
      BY <3>2 DEF Live
    <3>5. s \in sessions'[e.pub]
      BY <3>1, <3>3, <3>4 DEF IncarnationInv, AuthorityTypeOK
    <3> QED BY <3>4, <3>5 DEF Live
  <2>5. ASSUME NEW n \in 0..MaxEpoch, AdvanceEpoch(n)
        PROVE  e.boot \in Live(e.pub)'
    <3>1. Lose({i \in Publisher \X Boot : i[2] \in Live(i[1])})
      BY <2>5 DEF AdvanceEpoch
    <3>2. /\ e \in Entry /\ e.boot \in Live(e.pub)
          /\ <<e.pub, e.boot>> \notin {i \in Publisher \X Boot : i[2] \in Live(i[1])}
      BY <3>1, LostEvidence DEF LivingInv
    <3> QED BY <3>2 DEF Entry
  <2> QED
    BY <1>6, <2>1, <2>2, <2>3, <2>4, <2>5 DEF AuthorityNext, BootstrapGrant, AuthorizedGrant
<1>7. CASE UNCHANGED vars
  BY <1>5, <1>7 DEF vars
<1> QED BY <1>2, <1>4, <1>6, <1>7 DEF Next

\* Process-bound evidence dies with its process: what fence_worker, a fresh
\* attach_worker and advance_epoch withdraw is all that their incarnations
\* left, wherever merges and publications had put it.
THEOREM EvidenceLives ==
  ASSUME OwnAttribution
  PROVE  Spec => []EvidenceOfTheLiving
<1>1. LivingInv => EvidenceOfTheLiving
  BY DEF LivingInv, EvidenceOfTheLiving, AllHeld
<1>2. Init => LivingInv
  BY DEF Init, LivingInv, AllHeld
<1>3. TypeInv /\ LivingInv /\ [Next]_vars => LivingInv'
  BY LivingStep
<1> QED BY <1>1, <1>2, <1>3, TypeInit, TypeStep, PTL DEF Spec

(***************************************************************************)
(* Domains.                                                                *)
(***************************************************************************)
NoDomainOf(incarnations) ==
  \A i \in incarnations : \A d \in DOMAIN domains' :
    domains'[d].life = "Current" => domains'[d].prov \notin ProcessEntries(i)

LEMMA LostDomains ==
  ASSUME DomainsTypeOK, NEW incarnations, Lose(incarnations)
  PROVE  NoDomainOf(incarnations)
<1> SUFFICES ASSUME NEW i \in incarnations, NEW d \in DOMAIN domains',
                    domains'[d].life = "Current", domains'[d].prov \in ProcessEntries(i)
             PROVE  FALSE
  BY DEF NoDomainOf
<1>1. d \in DOMAIN domains
  BY LoseDomains
<1>2. CASE LostDomain(domains[d], UNION {ProcessEntries(j) : j \in incarnations})
  BY <1>1, <1>2, LoseDomains
<1>3. CASE ~LostDomain(domains[d], UNION {ProcessEntries(j) : j \in incarnations})
  <2>1. domains'[d] = domains[d]
    BY <1>1, <1>3, LoseDomains
  <2>2. <<"Current", "Revalidate">> \in DomainTransitions
    BY DEF DomainTransitions
  <2> QED BY <1>3, <2>1, <2>2 DEF LostDomain
<1> QED BY <1>2, <1>3

LEMMA LossStep ==
  ASSUME TypeInv, [Next]_vars, NEW p \in Publisher, NEW b \in Boot,
         b \in Live(p), b \notin Live(p)'
  PROVE  NoDomainOf({<<p, b>>})
<1> USE DEF TypeInv
<1>1. sessions' # sessions
  BY DEF Live
<1>2. AuthorityNext
  BY <1>1, RecordsKeepAuthority DEF Next, KeepAuthority, vars
<1>3. ASSUME NEW S, <<p, b>> \in S, Lose(S) PROVE NoDomainOf({<<p, b>>})
  BY <1>3, LostDomains DEF NoDomainOf
<1>4. ASSUME NEW q \in Publisher, NEW c \in Boot, NEW n \in 0..MaxEpoch, AttachWorker(q, c, n)
      PROVE  NoDomainOf({<<p, b>>})
  <2>1. q = p
    BY <1>4 DEF AttachWorker, Live, IncarnationInv, AuthorityTypeOK
  <2> QED BY <1>3, <1>4, <2>1 DEF AttachWorker
<1>5. ASSUME NEW q \in Publisher, NEW c \in Boot, FenceWorker(q, c)
      PROVE  NoDomainOf({<<p, b>>})
  <2>1. q = p /\ c = b
    BY <1>5 DEF FenceWorker, Live, IncarnationInv, AuthorityTypeOK
  <2> QED BY <1>3, <1>5, <2>1 DEF FenceWorker
<1>6. ASSUME NEW n \in 0..MaxEpoch, AdvanceEpoch(n)
      PROVE  NoDomainOf({<<p, b>>})
  BY <1>3, <1>6 DEF AdvanceEpoch
<1>7. ASSUME NEW q \in Publisher, NEW g \in Grants, InstallGrant(q, g) PROVE FALSE
  BY <1>1, <1>7 DEF InstallGrant
<1>8. ASSUME NEW q \in Publisher, NEW c \in Boot, NEW n \in 0..MaxEpoch, Reattach(q, c, n)
      PROVE  FALSE
  BY <1>1, <1>8, ReattachChangesNothing DEF vars
<1> QED
  BY <1>2, <1>4, <1>5, <1>6, <1>7, <1>8 DEF AuthorityNext, BootstrapGrant, AuthorizedGrant

\* No step that ends an incarnation, by a fence, a newer boot or a new epoch,
\* leaves a current domain whose provenance is that incarnation's.
THEOREM LostHoldNoDomain == Spec => LostIncarnationsHoldNoDomain
<1> DEFINE Step == \A p \in Publisher, b \in Boot :
       b \in Live(p) /\ b \notin Live(p)' =>
         \A d \in DOMAIN domains' :
           domains[d].life' = "Current" => domains[d].prov' \notin ProcessEntries(<<p, b>>)
<1>1. TypeInv /\ [Next]_vars => Step
  BY LossStep DEF NoDomainOf
<1>2. LostIncarnationsHoldNoDomain <=> [][Step]_vars
  BY PTL DEF LostIncarnationsHoldNoDomain
<1> QED BY <1>1, <1>2, TypeInit, TypeStep, PTL DEF Spec

LEMMA ClosedStep ==
  ASSUME TypeInv, [Next]_vars, NEW d \in DOMAIN domains, domains[d].life \in Terminal
  PROVE  d \in DOMAIN domains' /\ domains'[d] = domains[d]
<1> USE DEF TypeInv
<1>1. ~OpenDomain(d)
  BY DEF OpenDomain
<1>2. ASSUME NEW o, NEW r, o # d, StoreDomain(o, r)
      PROVE  d \in DOMAIN domains' /\ domains'[d] = domains[d]
  BY <1>2 DEF StoreDomain, Store
<1>3. ASSUME NEW a, NEW e, NEW o, NEW t, NEW u,
             DeclareNew(a, e, o, t) \/ RedeclareConflict(a, e, o)
               \/ Redeclare(a, e, o, t, u)
      PROVE  d \in DOMAIN domains' /\ domains'[d] = domains[d]
  BY <1>1, <1>2, <1>3 DEF DeclareNew, RedeclareConflict, Redeclare, OnlyDomain
<1>4. ASSUME NEW a, NEW o, NEW target, NEW prov, NEW t, UpdateDomain(a, o, target, prov, t)
      PROVE  d \in DOMAIN domains' /\ domains'[d] = domains[d]
  BY <1>1, <1>2, <1>4 DEF UpdateDomain, OnlyDomain
<1>5. ASSUME NEW a, NEW o, NEW q, NEW t,
             SupersedeDomain(a, o, q, t) \/ RetireDomain(a, o, t) \/ MergeDomains(a, q, o, t)
      PROVE  d \in DOMAIN domains' /\ domains'[d] = domains[d]
  BY <1>1, <1>2, <1>5 DEF SupersedeDomain, RetireDomain, MergeDomains, Mergeable
<1>6. ASSUME UNCHANGED domains
      PROVE  d \in DOMAIN domains' /\ domains'[d] = domains[d]
  BY <1>6
<1>7. CASE DomainsNext
  BY <1>3, <1>4, <1>5, <1>6, <1>7 DEF DomainsNext, MergeConflict
<1>8. CASE MembersNext
  BY <1>6, <1>8, MembersKeepTheRest DEF OnlyMembers
<1>9. ASSUME NEW S, Lose(S)
      PROVE  d \in DOMAIN domains' /\ domains'[d] = domains[d]
  <2>1. <<domains[d].life, "Revalidate">> \notin DomainTransitions
    BY DEF DomainTransitions, Terminal
  <2> QED BY <1>9, <2>1, LoseDomains DEF LostDomain
<1>10. CASE AuthorityNext
  BY <1>6, <1>9, <1>10 DEF AuthorityNext, BootstrapGrant, AuthorizedGrant, InstallGrant,
     Reattach, AttachWorker, FenceWorker, AdvanceEpoch
<1>11. CASE UNCHANGED vars
  BY <1>6, <1>11 DEF vars
<1> QED BY <1>7, <1>8, <1>10, <1>11 DEF Next

\* A domain that was retired, superseded or rejected is never written again:
\* not by a merge or a supersession that names it, nor by a lost incarnation.
THEOREM ClosedForGood == Spec => ClosedDomainsStay
<1> DEFINE Step == \A d \in DOMAIN domains :
       domains[d].life \in Terminal => d \in DOMAIN domains' /\ domains[d]' = domains[d]
<1>1. TypeInv /\ [Next]_vars => Step
  BY ClosedStep
<1>2. ClosedDomainsStay <=> [][Step]_vars
  BY PTL DEF ClosedDomainsStay
<1> QED BY <1>1, <1>2, TypeInit, TypeStep, PTL DEF Spec
=============================================================================
