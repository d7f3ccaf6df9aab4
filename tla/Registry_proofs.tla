---------------------------- MODULE Registry_proofs ----------------------------
(***************************************************************************)
(* Theorems of the specification of Registry, for every value of its       *)
(* constants.                                                              *)
(***************************************************************************)
EXTENDS Registry, TLAPS, FiniteSetTheorems, SequenceTheorems

(***************************************************************************)
(* Fences.                                                                 *)
(***************************************************************************)
Occurring(s) == {s[n] : n \in 1..Len(s)}

LEMMA OrdersOfOne ==
  ASSUME NEW S \in SUBSET Boot, \A b, c \in S : b = c,
         NEW order \in Orders(S)
  PROVE  /\ order \in Seq(Boot)
         /\ Len(order) <= 1
         /\ Occurring(order) = S
<1>1. CASE S = {}
  <2>1. Cardinality(S) = 0
    BY <1>1, FS_EmptySet
  <2> QED BY <1>1, <2>1 DEF Orders, Occurring
<1>2. CASE \E b \in S : S = {b}
  <2>1. PICK b \in S : S = {b}
    BY <1>2
  <2>2. Cardinality(S) = 1
    BY <2>1, FS_Singleton
  <2>3. order \in [1..1 -> S]
    BY <2>2 DEF Orders
  <2>4. order \in Seq(Boot) /\ Len(order) = 1 /\ order[1] = b
    BY <2>1, <2>3
  <2>5. {order[n] : n \in 1..Len(order)} = {b}
    BY <2>4
  <2> QED BY <2>1, <2>4, <2>5 DEF Occurring
<1> QED BY <1>1, <1>2

LEMMA RememberFacts ==
  ASSUME NEW f \in Seq(Boot), NEW order \in Seq(Boot), Len(order) <= 1,
         Len(f) <= MaxFences
  PROVE  /\ Remember(f, order) \in Seq(Boot)
         /\ Len(Remember(f, order)) <= MaxFences
         /\ Occurring(order) \subseteq Occurring(Remember(f, order))
         /\ Occurring(Remember(f, order)) \subseteq Occurring(f) \cup Occurring(order)
<1> DEFINE all == f \o order
           m   == IF Len(all) > MaxFences THEN Len(all) - MaxFences + 1 ELSE 1
           r   == SubSeq(all, m, Len(all))
<1>1. MaxFences \in Nat \ {0}
  BY BoundAssumption
<1>2. /\ all \in Seq(Boot)
      /\ Len(all) = Len(f) + Len(order)
      /\ \A n \in 1..Len(all) :
           all[n] = IF n <= Len(f) THEN f[n] ELSE order[n - Len(f)]
  OBVIOUS
<1>3. /\ m \in 1..(Len(all) + 1) /\ Len(all) - m + 1 <= MaxFences
      /\ m <= Len(f) + 1
  BY <1>1, <1>2
<1>4. /\ r \in Seq(Boot)
      /\ Len(r) = Len(all) - m + 1
      /\ \A n \in 1..Len(r) : r[n] = all[n + m - 1]
  <2> HIDE DEF all, m
  <2>1. /\ m \in Int /\ Len(all) \in Int
        /\ \A i \in m..Len(all) : all[i] \in Boot
    BY <1>2, <1>3
  <2>2. /\ r \in Seq(Boot)
        /\ Len(r) = IF m <= Len(all) THEN Len(all) - m + 1 ELSE 0
        /\ \A i \in 1..(Len(all) - m + 1) : r[i] = all[m + i - 1]
    BY <2>1, SubSeqProperties
  <2> HIDE DEF r
  <2> QED BY <1>2, <1>3, <2>2
<1>5. Remember(f, order) = r
  BY DEF Remember
<1>6. Len(f) \in Nat /\ Len(order) \in Nat /\ Len(r) \in Nat /\ m \in Nat
  BY <1>2, <1>3, <1>4
<1> HIDE DEF r, m, all
<1>7. ASSUME NEW n \in 1..Len(order)
      PROVE  \E i \in 1..Len(r) : r[i] = order[n]
  <2> DEFINE i == Len(f) + n - m + 1
  <2>1. i \in 1..Len(r) /\ i + m - 1 = Len(f) + n
    BY <1>2, <1>3, <1>4, <1>6
  <2>2. Len(f) + n \in 1..Len(all) /\ all[Len(f) + n] = order[n]
    BY <1>2, <1>6
  <2>3. r[i] = all[i + m - 1]
    BY <1>4, <2>1
  <2> QED BY <2>1, <2>2, <2>3
<1>11. ASSUME NEW n \in 1..Len(r)
      PROVE  \/ \E i \in 1..Len(f) : r[n] = f[i]
             \/ \E i \in 1..Len(order) : r[n] = order[i]
  <2> DEFINE i == n + m - 1
  <2>1. r[n] = all[i] /\ i \in 1..Len(all)
    BY <1>2, <1>3, <1>4, <1>6
  <2>2. CASE i <= Len(f)
    BY <1>2, <1>6, <2>1, <2>2
  <2>3. CASE i > Len(f)
    <3>1. i - Len(f) \in 1..Len(order) /\ r[n] = order[i - Len(f)]
      BY <1>2, <1>6, <2>1, <2>3
    <3> QED BY <3>1
  <2> QED BY <1>6, <2>2, <2>3
<1>8. r \in Seq(Boot) /\ Len(r) <= MaxFences
  BY <1>3, <1>4
<1>9. Occurring(order) \subseteq Occurring(r)
  BY <1>7 DEF Occurring
<1>10. Occurring(r) \subseteq Occurring(f) \cup Occurring(order)
  BY <1>11 DEF Occurring
<1> QED BY <1>5, <1>8, <1>9, <1>10

(***************************************************************************)
(* Incarnations.  Only the four authority operations touch them.           *)
(***************************************************************************)
LEMMA DomainsKeepAuthority == DomainsNext => KeepAuthority
<1>1. ASSUME NEW a, NEW e, NEW d, NEW t, NEW u,
             DeclareNew(a, e, d, t) \/ RedeclareConflict(a, e, d)
               \/ Redeclare(a, e, d, t, u)
      PROVE  KeepAuthority
  BY <1>1 DEF OnlyDomain, DeclareNew, RedeclareConflict, Redeclare
<1>2. ASSUME NEW a, NEW d, NEW target, NEW prov, NEW t, UpdateDomain(a, d, target, prov, t)
      PROVE  KeepAuthority
  BY <1>2 DEF OnlyDomain, UpdateDomain
<1>3. ASSUME NEW a, NEW d, NEW o, NEW t, SupersedeDomain(a, d, o, t) \/ RetireDomain(a, d, t)
      PROVE  KeepAuthority
  BY <1>3 DEF SupersedeDomain, RetireDomain
<1>4. ASSUME NEW a, NEW d, NEW o, NEW t, MergeDomains(a, d, o, t) \/ MergeConflict(a, d, o, t)
      PROVE  KeepAuthority
  BY <1>4 DEF MergeDomains, MergeConflict
<1> QED BY <1>1, <1>2, <1>3, <1>4 DEF DomainsNext

LEMMA MembersKeepTheRest == MembersNext => OnlyMembers
<1>1. ASSUME NEW a, NEW e, NEW k, NEW t,
             AttachNew(a, e, k) \/ AttachConflict(a, e, k)
               \/ AttachExisting(a, e, k, t) \/ ReplaceMembership(a, e, k)
      PROVE  OnlyMembers
  BY <1>1 DEF StoreMember, AttachNew, AttachConflict, AttachExisting, ReplaceMembership
<1>2. ASSUME NEW a, NEW e, NEW batch, NEW complete, PublishMemberships(a, e, batch, complete)
      PROVE  OnlyMembers
  BY <1>2 DEF PublishMemberships
<1>3. ASSUME NEW a, NEW k, NEW t, NEW c,
             DetachMember(a, k) \/ WithdrawEvidence(a, k, t, c) \/ ReconcileMembership(a, k)
      PROVE  OnlyMembers
  BY <1>3 DEF StoreMember, DetachMember, WithdrawEvidence, ReconcileMembership
<1>4. ASSUME NEW a, NEW x, NEW y,
             MarkMembership(a, x) \/ MarkDomain(a, x) \/ MarkEntity(a, x, y)
               \/ MarkClass(a, x) \/ InvalidateEntity(a, x)
      PROVE  OnlyMembers
  BY <1>4 DEF MarkMembership, MarkDomain, MarkEntity, MarkClass, InvalidateEntity,
     DemandRevalidation
<1> QED BY <1>1, <1>2, <1>3, <1>4 DEF MembersNext

LEMMA RecordsKeepAuthority == DomainsNext \/ MembersNext => KeepAuthority
BY DomainsKeepAuthority, MembersKeepTheRest DEF OnlyMembers

IncarnationInv == AuthorityTypeOK /\ OneLiveIncarnation /\ LiveSessionsAreFit

\* Live boots are boots, and at most one of them.
LEMMA LiveFacts ==
  ASSUME IncarnationInv, NEW p \in Publisher
  PROVE  /\ Live(p) \in SUBSET Boot
         /\ \A b, c \in Live(p) : b = c
         /\ Live(p) \cap Fenced(p) = {}
         /\ Fenced(p) = Occurring(fences[p])
         /\ fences[p] \in Seq(Boot) /\ Len(fences[p]) <= MaxFences
<1>1. sessions[p] \subseteq Session /\ fences[p] \in Seq(Boot)
  BY DEF IncarnationInv, AuthorityTypeOK
<1>2. DOMAIN fences[p] = 1..Len(fences[p])
  BY <1>1
<1> QED
  BY <1>1, <1>2 DEF IncarnationInv, AuthorityTypeOK, OneLiveIncarnation,
     LiveSessionsAreFit, Live, Fenced, Occurring, Session

\* What a publisher's fences become when it loses all that is live.
LEMMA LosingAll ==
  ASSUME IncarnationInv, NEW p \in Publisher, NEW order \in Orders(Live(p))
  PROVE  LET next == Remember(fences[p], order)
         IN  /\ next \in Seq(Boot) /\ Len(next) <= MaxFences
             /\ Live(p) \subseteq Occurring(next)
             /\ Occurring(next) \subseteq Fenced(p) \cup Live(p)
BY LiveFacts, OrdersOfOne, RememberFacts

\* What they become when one boot is fenced.
LEMMA FencingOne ==
  ASSUME IncarnationInv, NEW p \in Publisher, NEW b \in Boot
  PROVE  LET next == Remember(fences[p], <<b>>)
         IN  /\ next \in Seq(Boot) /\ Len(next) <= MaxFences
             /\ b \in Occurring(next)
             /\ Occurring(next) \subseteq Fenced(p) \cup {b}
<1> DEFINE next == Remember(fences[p], <<b>>)
<1>1. <<b>> \in Seq(Boot) /\ Len(<<b>>) = 1 /\ <<b>>[1] = b
  OBVIOUS
<1>2. Occurring(<<b>>) = {b}
  <2>1. {<<b>>[n] : n \in 1..1} = {b}
    BY <1>1
  <2>2. Occurring(<<b>>) = {<<b>>[n] : n \in 1..1}
    BY <1>1, Zenon DEF Occurring
  <2> QED BY <2>1, <2>2
<1>3. Len(<<b>>) <= 1
  BY <1>1
<1>4. /\ fences[p] \in Seq(Boot) /\ Len(fences[p]) <= MaxFences
      /\ Fenced(p) = Occurring(fences[p])
  BY LiveFacts
<1>5. /\ next \in Seq(Boot) /\ Len(next) <= MaxFences
      /\ Occurring(<<b>>) \subseteq Occurring(next)
      /\ Occurring(next) \subseteq Occurring(fences[p]) \cup Occurring(<<b>>)
  BY <1>1, <1>3, <1>4, RememberFacts, Zenon
<1> HIDE DEF next
<1>6. b \in Occurring(next) /\ Occurring(next) \subseteq Fenced(p) \cup {b}
  BY <1>2, <1>4, <1>5
<1> QED BY <1>5, <1>6 DEF next

LEMMA IncarnationInit == Init => IncarnationInv
BY BoundAssumption DEF Init, IncarnationInv, AuthorityTypeOK,
   OneLiveIncarnation, LiveSessionsAreFit, Session

LEMMA GrantsKeepIncarnations ==
  ASSUME IncarnationInv, NEW p \in Publisher, NEW g \in Grants, InstallGrant(p, g)
  PROVE  IncarnationInv'
<1>1. /\ DOMAIN grants' = DOMAIN grants \cup {p}
      /\ grants' \in [DOMAIN grants' -> Grants]
  BY DEF InstallGrant, Store, IncarnationInv, AuthorityTypeOK
<1> QED
  BY <1>1 DEF InstallGrant, IncarnationInv, AuthorityTypeOK,
     OneLiveIncarnation, LiveSessionsAreFit, Fenced

LEMMA AttachKeepsIncarnations ==
  ASSUME IncarnationInv, NEW p \in Publisher, NEW b \in Boot,
         NEW e \in 0..MaxEpoch, AttachWorker(p, b, e)
  PROVE  IncarnationInv'
<1>1. PICK order \in Orders(Live(p)) :
        fences' = [fences EXCEPT ![p] = Remember(@, order)]
  BY DEF AttachWorker
<1>2. /\ p \in DOMAIN grants /\ e = epoch /\ e \in 1..MaxEpoch
      /\ b \notin Fenced(p) /\ b \notin Live(p)
      /\ sessions' = [sessions EXCEPT ![p] = {[boot |-> b, epoch |-> e]}]
      /\ UNCHANGED <<grants, epoch>>
  BY DEF AttachWorker, Attachable
<1> DEFINE next == Remember(fences[p], order)
<1>3. /\ next \in Seq(Boot) /\ Len(next) <= MaxFences
      /\ Occurring(next) \subseteq Fenced(p) \cup Live(p)
  BY LosingAll
<1> HIDE DEF next
<1>4. AuthorityTypeOK'
  BY <1>1, <1>2, <1>3 DEF next, IncarnationInv, AuthorityTypeOK, Session
<1>5. OneLiveIncarnation'
  BY <1>2 DEF IncarnationInv, AuthorityTypeOK, OneLiveIncarnation
<1>6. ASSUME NEW q \in Publisher, NEW s \in sessions[q]'
      PROVE  q \in DOMAIN grants' /\ s.epoch = epoch' /\ s.boot \notin Fenced(q)'
  <2>1. CASE q = p
    <3>1. fences'[p] = next
      BY <1>1 DEF next, IncarnationInv, AuthorityTypeOK
    <3>2. Fenced(p)' = Occurring(next)
      BY <3>1, <1>3 DEF Fenced, Occurring
    <3>3. s = [boot |-> b, epoch |-> e]
      BY <1>2, <2>1 DEF IncarnationInv, AuthorityTypeOK
    <3> QED BY <1>2, <1>3, <2>1, <3>2, <3>3
  <2>2. CASE q # p
    <3>1. fences'[q] = fences[q] /\ sessions'[q] = sessions[q]
      BY <1>1, <1>2, <2>2 DEF IncarnationInv, AuthorityTypeOK
    <3> QED BY <1>2, <3>1 DEF IncarnationInv, LiveSessionsAreFit, Fenced
  <2> QED BY <2>1, <2>2
<1> QED BY <1>4, <1>5, <1>6 DEF IncarnationInv, LiveSessionsAreFit

\* Attaching what is attached leaves the whole state as it is.
LEMMA ReattachChangesNothing ==
  ASSUME IncarnationInv, NEW p \in Publisher, NEW b \in Boot,
         NEW e \in 0..MaxEpoch, Reattach(p, b, e)
  PROVE  UNCHANGED vars /\ KeepAuthority
<1>1. sessions' = [sessions EXCEPT ![p] =
                     {IF s.boot = b THEN [s EXCEPT !.epoch = e] ELSE s : s \in @}]
  BY DEF Reattach
<1>2. \A s \in sessions[p] : s.epoch = e /\ s \in Session
  BY DEF Reattach, Attachable, IncarnationInv, AuthorityTypeOK, LiveSessionsAreFit
<1>3. \A s \in sessions[p] : [s EXCEPT !.epoch = e] = s
  BY <1>2 DEF Session
<1>4. sessions' = sessions
  BY <1>1, <1>3 DEF IncarnationInv, AuthorityTypeOK
<1> QED BY <1>4 DEF Reattach, KeepAuthority, vars

LEMMA FenceKeepsIncarnations ==
  ASSUME IncarnationInv, NEW p \in Publisher, NEW b \in Boot, FenceWorker(p, b)
  PROVE  IncarnationInv'
<1> DEFINE next == Remember(fences[p], <<b>>)
<1>1. /\ sessions' = [sessions EXCEPT ![p] = {s \in @ : s.boot # b}]
      /\ fences' = [fences EXCEPT ![p] = next]
      /\ UNCHANGED <<grants, epoch>>
  BY DEF FenceWorker
<1>3. /\ next \in Seq(Boot) /\ Len(next) <= MaxFences
      /\ Occurring(next) \subseteq Fenced(p) \cup {b}
  BY FencingOne
<1> HIDE DEF next
<1>4. AuthorityTypeOK'
  BY <1>1, <1>3 DEF IncarnationInv, AuthorityTypeOK, Session
<1>5. OneLiveIncarnation'
  BY <1>1 DEF IncarnationInv, AuthorityTypeOK, OneLiveIncarnation
<1>6. ASSUME NEW q \in Publisher, NEW s \in sessions[q]'
      PROVE  q \in DOMAIN grants' /\ s.epoch = epoch' /\ s.boot \notin Fenced(q)'
  <2>1. s \in sessions[q] /\ (q = p => s.boot # b)
    BY <1>1 DEF IncarnationInv, AuthorityTypeOK
  <2>2. Fenced(q)' \subseteq Fenced(q) \cup (IF q = p THEN {b} ELSE {})
    <3>1. CASE q = p
      <4>1. fences'[p] = next
        BY <1>1 DEF IncarnationInv, AuthorityTypeOK
      <4>2. Fenced(p)' = Occurring(next)
        BY <4>1, <1>3 DEF Fenced, Occurring
      <4> QED BY <1>3, <3>1, <4>2
    <3>2. CASE q # p
      <4>1. fences'[q] = fences[q]
        BY <1>1, <3>2 DEF IncarnationInv, AuthorityTypeOK
      <4> QED BY <4>1 DEF Fenced
    <3> QED BY <3>1, <3>2
  <2> QED BY <1>1, <2>1, <2>2 DEF IncarnationInv, LiveSessionsAreFit
<1> QED BY <1>4, <1>5, <1>6 DEF IncarnationInv, LiveSessionsAreFit

LEMMA EpochKeepsIncarnations ==
  ASSUME IncarnationInv, NEW e \in 0..MaxEpoch, AdvanceEpoch(e)
  PROVE  IncarnationInv'
<1>1. PICK order \in [Publisher -> UNION {Orders(Live(p)) : p \in Publisher}] :
        /\ \A p \in Publisher : order[p] \in Orders(Live(p))
        /\ fences' = [p \in Publisher |-> Remember(fences[p], order[p])]
  BY DEF AdvanceEpoch
<1>2. /\ sessions' = [p \in Publisher |-> {}]
      /\ epoch' \in 0..MaxEpoch
      /\ UNCHANGED grants
  BY BoundAssumption DEF AdvanceEpoch, IncarnationInv, AuthorityTypeOK
<1>3. ASSUME NEW p \in Publisher
      PROVE  fences'[p] \in Seq(Boot) /\ Len(fences'[p]) <= MaxFences
  BY <1>1, LosingAll
<1> QED
  BY <1>1, <1>2, <1>3 DEF IncarnationInv, AuthorityTypeOK, OneLiveIncarnation,
     LiveSessionsAreFit

LEMMA IncarnationStep == IncarnationInv /\ [Next]_vars => IncarnationInv'
<1> SUFFICES ASSUME IncarnationInv, [Next]_vars PROVE IncarnationInv'
  OBVIOUS
<1>1. ASSUME KeepAuthority PROVE IncarnationInv'
  BY <1>1 DEF KeepAuthority, IncarnationInv, AuthorityTypeOK,
     OneLiveIncarnation, LiveSessionsAreFit, Fenced
<1>2. ASSUME AuthorityNext PROVE IncarnationInv'
  <2>1. CASE \E p \in Publisher, g \in Grants : InstallGrant(p, g)
    BY <2>1, GrantsKeepIncarnations
  <2>2. CASE \E p \in Publisher, b \in Boot, e \in 0..MaxEpoch : Reattach(p, b, e)
    BY <2>2, <1>1, ReattachChangesNothing
  <2>3. CASE \E p \in Publisher, b \in Boot, e \in 0..MaxEpoch : AttachWorker(p, b, e)
    BY <2>3, AttachKeepsIncarnations
  <2>4. CASE \E p \in Publisher, b \in Boot : FenceWorker(p, b)
    BY <2>4, FenceKeepsIncarnations
  <2>5. CASE \E e \in 0..MaxEpoch : AdvanceEpoch(e)
    BY <2>5, EpochKeepsIncarnations
  <2> QED
    BY <1>2, <2>1, <2>2, <2>3, <2>4, <2>5 DEF AuthorityNext, BootstrapGrant, AuthorizedGrant
<1>3. CASE UNCHANGED vars
  BY <1>1, <1>3 DEF vars, KeepAuthority
<1> QED BY <1>1, <1>2, <1>3, RecordsKeepAuthority DEF Next

\* However attach_worker, fence_worker and advance_epoch interleave, each
\* publisher has at most one live incarnation.
THEOREM OneIncarnation == Spec => []OneLiveIncarnation
<1>1. IncarnationInv => OneLiveIncarnation
  BY DEF IncarnationInv
<1> QED BY <1>1, IncarnationInit, IncarnationStep, PTL DEF Spec

\* A live session is never one that authorize_any would refuse for its epoch,
\* its fence or its registration.
THEOREM FitSessions == Spec => []LiveSessionsAreFit
<1>1. IncarnationInv => LiveSessionsAreFit
  BY DEF IncarnationInv
<1> QED BY <1>1, IncarnationInit, IncarnationStep, PTL DEF Spec

(***************************************************************************)
(* The fence list spends no two places on one boot: what is pushed was     *)
(* live, or not fenced, and so is not in the list.                         *)
(***************************************************************************)
Distinct(f) == \A m, n \in 1..Len(f) : f[m] = f[n] => m = n

LEMMA RememberKeepsDistinct ==
  ASSUME NEW f \in Seq(Boot), NEW order \in Seq(Boot), Len(order) <= 1,
         Distinct(f), Occurring(f) \cap Occurring(order) = {}
  PROVE  Distinct(Remember(f, order))
<1> DEFINE all == f \o order
           m   == IF Len(all) > MaxFences THEN Len(all) - MaxFences + 1 ELSE 1
           r   == SubSeq(all, m, Len(all))
<1>1. MaxFences \in Nat \ {0}
  BY BoundAssumption
<1>2. /\ all \in Seq(Boot)
      /\ Len(all) = Len(f) + Len(order)
      /\ \A n \in 1..Len(all) :
           all[n] = IF n <= Len(f) THEN f[n] ELSE order[n - Len(f)]
  OBVIOUS
<1>3. /\ Len(f) \in Nat /\ Len(order) \in Nat
      /\ m \in Nat \ {0} /\ m <= Len(all) + 1
  BY <1>1, <1>2
<1>4. Remember(f, order) = r
  BY DEF Remember
<1> HIDE DEF all, m
<1>5. /\ Len(r) = IF m <= Len(all) THEN Len(all) - m + 1 ELSE 0
      /\ \A i \in 1..(Len(all) - m + 1) : r[i] = all[m + i - 1]
  <2>1. m \in Int /\ Len(all) \in Int /\ \A i \in m..Len(all) : all[i] \in Boot
    BY <1>2, <1>3
  <2> QED BY <2>1, SubSeqProperties
<1> HIDE DEF r
<1>6. ASSUME NEW i \in 1..Len(all), NEW j \in 1..Len(all), all[i] = all[j]
      PROVE  i = j
  <2>1. CASE i <= Len(f) /\ j <= Len(f)
    BY <1>2, <1>3, <1>6, <2>1 DEF Distinct
  <2>2. CASE i > Len(f) /\ j > Len(f)
    BY <1>2, <1>3, <2>2
  <2>3. ASSUME NEW x \in 1..Len(all), NEW y \in 1..Len(all),
               x <= Len(f), y > Len(f), all[x] = all[y]
        PROVE  FALSE
    <3>1. all[x] = f[x] /\ x \in 1..Len(f)
      BY <1>2, <1>3, <2>3
    <3>2. all[y] = order[y - Len(f)] /\ y - Len(f) \in 1..Len(order)
      BY <1>2, <1>3, <2>3
    <3> QED BY <2>3, <3>1, <3>2 DEF Occurring
  <2> QED BY <1>2, <1>3, <1>6, <2>1, <2>2, <2>3
<1>7. Distinct(r)
  <2> SUFFICES ASSUME NEW i \in 1..Len(r), NEW j \in 1..Len(r), r[i] = r[j]
               PROVE  i = j
    BY DEF Distinct
  <2>1. /\ Len(all) \in Nat /\ i \in Nat /\ j \in Nat
        /\ m + i - 1 \in 1..Len(all) /\ m + j - 1 \in 1..Len(all)
    BY <1>2, <1>3, <1>5
  <2>2. all[m + i - 1] = all[m + j - 1]
    BY <1>2, <1>3, <1>5
  <2>3. m + i - 1 = m + j - 1
    BY <1>6, <2>1, <2>2
  <2> QED BY <1>3, <2>1, <2>3
<1> QED BY <1>4, <1>7

AllDistinct == \A p \in Publisher : Distinct(fences[p])

LEMMA LosingAllKeepsDistinct ==
  ASSUME IncarnationInv, NEW p \in Publisher, NEW order \in Orders(Live(p)), Distinct(fences[p])
  PROVE  Distinct(Remember(fences[p], order))
BY LiveFacts, OrdersOfOne, RememberKeepsDistinct

LEMMA FencingOneKeepsDistinct ==
  ASSUME IncarnationInv, NEW p \in Publisher, NEW b \in Boot, b \notin Fenced(p),
         Distinct(fences[p])
  PROVE  Distinct(Remember(fences[p], <<b>>))
<1>1. <<b>> \in Seq(Boot) /\ Len(<<b>>) <= 1
  OBVIOUS
<1>2. Occurring(<<b>>) = {b}
  <2>1. {<<b>>[n] : n \in 1..1} = {b}
    OBVIOUS
  <2>2. Len(<<b>>) = 1
    OBVIOUS
  <2> QED BY <2>1, <2>2, Zenon DEF Occurring
<1>3. Occurring(fences[p]) \cap Occurring(<<b>>) = {} /\ fences[p] \in Seq(Boot)
  BY <1>2, LiveFacts
<1> QED BY <1>1, <1>3, RememberKeepsDistinct, Zenon

LEMMA DistinctStep == IncarnationInv /\ AllDistinct /\ [Next]_vars => AllDistinct'
<1> SUFFICES ASSUME IncarnationInv, AllDistinct, [Next]_vars
             PROVE  AllDistinct'
  OBVIOUS
<1>1. CASE UNCHANGED fences
  BY <1>1 DEF AllDistinct, Distinct
<1>2. DOMAIN fences = Publisher
  BY DEF IncarnationInv, AuthorityTypeOK
<1>3. ASSUME NEW p \in Publisher, NEW b \in Boot, NEW e \in 0..MaxEpoch, AttachWorker(p, b, e)
      PROVE  AllDistinct'
  <2>1. PICK order \in Orders(Live(p)) : fences' = [fences EXCEPT ![p] = Remember(@, order)]
    BY <1>3 DEF AttachWorker
  <2>2. \A q \in Publisher :
          fences'[q] = IF q = p THEN Remember(fences[p], order) ELSE fences[q]
    BY <1>2, <2>1
  <2> QED BY <2>2, LosingAllKeepsDistinct DEF AllDistinct
<1>4. ASSUME NEW p \in Publisher, NEW b \in Boot, FenceWorker(p, b)
      PROVE  AllDistinct'
  <2>1. fences' = [fences EXCEPT ![p] = Remember(@, <<b>>)] /\ b \notin Fenced(p)
    BY <1>4 DEF FenceWorker
  <2>2. \A q \in Publisher :
          fences'[q] = IF q = p THEN Remember(fences[p], <<b>>) ELSE fences[q]
    BY <1>2, <2>1
  <2> QED BY <2>1, <2>2, FencingOneKeepsDistinct DEF AllDistinct
<1>5. ASSUME NEW e \in 0..MaxEpoch, AdvanceEpoch(e)
      PROVE  AllDistinct'
  <2>1. PICK order \in [Publisher -> UNION {Orders(Live(p)) : p \in Publisher}] :
          /\ \A p \in Publisher : order[p] \in Orders(Live(p))
          /\ fences' = [p \in Publisher |-> Remember(fences[p], order[p])]
    BY <1>5 DEF AdvanceEpoch
  <2> QED BY <2>1, LosingAllKeepsDistinct DEF AllDistinct
<1>6. CASE AuthorityNext
  BY <1>1, <1>3, <1>4, <1>5, <1>6
  DEF AuthorityNext, BootstrapGrant, AuthorizedGrant, InstallGrant, Reattach
<1>7. CASE DomainsNext \/ MembersNext
  BY <1>1, <1>7, RecordsKeepAuthority DEF KeepAuthority
<1>8. CASE UNCHANGED vars
  BY <1>1, <1>8 DEF vars
<1> QED BY <1>6, <1>7, <1>8 DEF Next

\* No path fences a boot twice, so a publisher's list remembers as many fenced
\* incarnations as it has places.
THEOREM DistinctFences == Spec => []FencesAreDistinct
<1>1. Init => AllDistinct
  BY DEF Init, AllDistinct, Distinct
<1>2. IncarnationInv /\ AllDistinct => FencesAreDistinct
  <2> SUFFICES ASSUME IncarnationInv, AllDistinct
               PROVE  FencesAreDistinct
    OBVIOUS
  <2>1. \A p \in Publisher : DOMAIN fences[p] = 1..Len(fences[p])
    BY LiveFacts
  <2> QED BY <2>1 DEF AllDistinct, Distinct, FencesAreDistinct
<1> QED BY <1>1, <1>2, DistinctStep, IncarnationInit, IncarnationStep, PTL DEF Spec

(***************************************************************************)
(* The fence list is a queue: it forgets its oldest entries, when full.    *)
(***************************************************************************)
Fades(f, g) == \E n \in 0..Len(f) : Continues(f, n, g) /\ (n > 0 => Len(g) = MaxFences)

LEMMA RememberFades ==
  ASSUME NEW f \in Seq(Boot), NEW order \in Seq(Boot), Len(order) <= 1,
         Len(f) <= MaxFences
  PROVE  Fades(f, Remember(f, order))
<1> DEFINE all == f \o order
           m   == IF Len(all) > MaxFences THEN Len(all) - MaxFences + 1 ELSE 1
           r   == SubSeq(all, m, Len(all))
<1>1. MaxFences \in Nat \ {0}
  BY BoundAssumption
<1>2. /\ all \in Seq(Boot) /\ Len(all) = Len(f) + Len(order)
      /\ Len(f) \in Nat /\ Len(order) \in Nat
      /\ \A n \in 1..Len(f) : all[n] = f[n]
  OBVIOUS
<1>3. /\ m \in 1..(Len(f) + 1) /\ m \in Int /\ m <= Len(all) + 1
      /\ m > 1 => Len(all) - m + 1 = MaxFences
  BY <1>1, <1>2
<1>4. Remember(f, order) = r
  BY DEF Remember
<1> HIDE DEF all, m
<1>5. /\ Len(r) = IF m <= Len(all) THEN Len(all) - m + 1 ELSE 0
      /\ \A i \in 1..(Len(all) - m + 1) : r[i] = all[m + i - 1]
  <2>1. m \in Int /\ Len(all) \in Int /\ \A i \in m..Len(all) : all[i] \in Boot
    BY <1>2, <1>3
  <2> QED BY <2>1, SubSeqProperties
<1> HIDE DEF r
<1> DEFINE n == m - 1
<1>6. n \in 0..Len(f) /\ Len(r) = Len(f) + Len(order) - n
  BY <1>2, <1>3, <1>5
<1>7. \A i \in 1..(Len(f) - n) : r[i] = f[n + i]
  <2> SUFFICES ASSUME NEW i \in 1..(Len(f) - n)
               PROVE  r[i] = f[n + i]
    OBVIOUS
  <2>1. i \in 1..(Len(all) - m + 1) /\ m + i - 1 = n + i /\ n + i \in 1..Len(f)
    BY <1>2, <1>3
  <2> QED BY <1>2, <1>5, <2>1
<1>8. Len(f) - n <= Len(r) /\ (n > 0 => Len(r) = MaxFences)
  BY <1>2, <1>3, <1>6
<1> HIDE DEF n
<1> QED BY <1>4, <1>6, <1>7, <1>8 DEF Fades, Continues

LEMMA KeptFades ==
  ASSUME NEW f \in Seq(Boot)
  PROVE  Fades(f, f)
<1>1. Len(f) \in Nat
  OBVIOUS
<1>2. Continues(f, 0, f)
  BY <1>1 DEF Continues
<1> QED BY <1>1, <1>2 DEF Fades

LEMMA FadeStepHolds ==
  ASSUME IncarnationInv, [Next]_vars, NEW p \in Publisher
  PROVE  Fades(fences[p], fences'[p])
<1>1. /\ DOMAIN fences = Publisher
      /\ \A q \in Publisher : fences[q] \in Seq(Boot) /\ Len(fences[q]) <= MaxFences
  BY DEF IncarnationInv, AuthorityTypeOK
<1> DEFINE Goal == Fades(fences[p], fences'[p])
<1>2. ASSUME fences'[p] = fences[p] PROVE Goal
  BY <1>1, <1>2, KeptFades
<1>3. ASSUME NEW order \in Orders(Live(p)), fences'[p] = Remember(fences[p], order)
      PROVE  Goal
  <2>1. Live(p) \in SUBSET Boot /\ (\A c, d \in Live(p) : c = d)
    BY LiveFacts
  <2>2. order \in Seq(Boot) /\ Len(order) <= 1
    BY <2>1, OrdersOfOne
  <2> QED BY <1>1, <1>3, <2>2, RememberFades
<1>4. ASSUME NEW c \in Boot, fences'[p] = Remember(fences[p], <<c>>)
      PROVE  Goal
  <2> DEFINE one == <<c>>
  <2>1. one \in Seq(Boot) /\ Len(one) <= 1
    OBVIOUS
  <2>2. fences'[p] = Remember(fences[p], one)
    BY <1>4
  <2> HIDE DEF one
  <2> QED BY <1>1, <2>1, <2>2, RememberFades
<1>5. ASSUME NEW q \in Publisher, NEW c \in Boot, NEW e \in 0..MaxEpoch, AttachWorker(q, c, e)
      PROVE  Goal
  <2>1. PICK order \in Orders(Live(q)) : fences' = [fences EXCEPT ![q] = Remember(@, order)]
    BY <1>5 DEF AttachWorker
  <2> QED BY <1>1, <1>2, <1>3, <2>1
<1>6. ASSUME NEW q \in Publisher, NEW c \in Boot, FenceWorker(q, c)
      PROVE  Goal
  <2>1. fences' = [fences EXCEPT ![q] = Remember(@, <<c>>)]
    BY <1>6 DEF FenceWorker
  <2> QED BY <1>1, <1>2, <1>4, <2>1
<1>7. ASSUME NEW e \in 0..MaxEpoch, AdvanceEpoch(e)
      PROVE  Goal
  <2>1. \E order \in Orders(Live(p)) : fences'[p] = Remember(fences[p], order)
    BY <1>7 DEF AdvanceEpoch
  <2> QED BY <1>3, <2>1
<1>8. CASE AuthorityNext
  BY <1>2, <1>5, <1>6, <1>7, <1>8
  DEF AuthorityNext, BootstrapGrant, AuthorizedGrant, InstallGrant, Reattach
<1>9. CASE DomainsNext \/ MembersNext
  BY <1>2, <1>9, RecordsKeepAuthority DEF KeepAuthority
<1>10. CASE UNCHANGED vars
  BY <1>2, <1>10 DEF vars
<1> QED BY <1>8, <1>9, <1>10 DEF Next

\* The fence list is a queue (FencesFadeOnlyByOverflow): what a step forgets are
\* its oldest entries, and the list it leaves is full of later ones.
THEOREM FencesFade == Spec => FencesFadeOnlyByOverflow
<1> DEFINE Step == \A p \in Publisher : \E n \in 0..Len(fences[p]) :
       /\ Continues(fences[p], n, fences[p]')
       /\ n > 0 => Len(fences[p]') = MaxFences
<1>1. IncarnationInv /\ [Next]_vars => Step
  BY FadeStepHolds DEF Fades
<1>2. FencesFadeOnlyByOverflow <=> [][Step]_vars
  BY PTL DEF FencesFadeOnlyByOverflow
<1> QED BY <1>1, <1>2, IncarnationInit, IncarnationStep, PTL DEF Spec
================================================================================
