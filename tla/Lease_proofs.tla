----------------------------- MODULE Lease_proofs -----------------------------
(***************************************************************************)
(* The fencing of worker incarnations implements IncarnationLease.         *)
(***************************************************************************)
EXTENDS Registry_proofs

\* A step that leaves sessions and fences alone stutters.
LEMMA LeaseStutters ==
  ASSUME UNCHANGED <<sessions, fences>>
  PROVE  UNCHANGED Lease!lease
<1>1. \A p \in Publisher : Live(p)' = Live(p) /\ Fenced(p)' = Fenced(p)
  BY DEF Live, Fenced
<1> QED BY <1>1 DEF Lease!lease

LEMMA LeaseInit == Init => Lease!Init
<1> SUFFICES ASSUME Init PROVE Lease!Init
  OBVIOUS
<1>1. ASSUME NEW p \in Publisher PROVE Live(p) = {} /\ Fenced(p) = {}
  BY DEF Init, Live, Fenced
<1> QED BY <1>1 DEF Lease!Init

\* A fresh attach takes the lease from whoever holds it.
LEMMA AttachTakesLease ==
  ASSUME IncarnationInv, NEW p \in Publisher, NEW b \in Boot,
         NEW e \in 0..MaxEpoch, AttachWorker(p, b, e)
  PROVE  Lease!Next
<1>1. PICK order \in Orders(Live(p)) :
        fences' = [fences EXCEPT ![p] = Remember(@, order)]
  BY DEF AttachWorker
<1>2. /\ b \notin Fenced(p) /\ b \notin Live(p)
      /\ sessions' = [sessions EXCEPT ![p] = {[boot |-> b, epoch |-> e]}]
  BY DEF AttachWorker, Attachable
<1> DEFINE next == Remember(fences[p], order)
<1>3. /\ next \in Seq(Boot)
      /\ Live(p) \subseteq Occurring(next)
      /\ Occurring(next) \subseteq Fenced(p) \cup Live(p)
  BY LosingAll
<1> HIDE DEF next
<1>4. fences'[p] = next /\ \A q \in Publisher \ {p} : fences'[q] = fences[q]
  BY <1>1 DEF next, IncarnationInv, AuthorityTypeOK
<1>5. /\ sessions'[p] = {[boot |-> b, epoch |-> e]}
      /\ \A q \in Publisher \ {p} : sessions'[q] = sessions[q]
  BY <1>2 DEF IncarnationInv, AuthorityTypeOK
<1>6. Live(p)' = {b} /\ \A q \in Publisher \ {p} : Live(q)' = Live(q)
  BY <1>5 DEF Live
<1>7. Fenced(p)' = Occurring(next) /\ \A q \in Publisher \ {p} : Fenced(q)' = Fenced(q)
  BY <1>3, <1>4 DEF Fenced, Occurring
<1>8. Lease!Take(p, b)
  BY <1>2, <1>3, <1>6, <1>7 DEF Lease!Take, Lease!Bar
<1> QED BY <1>8 DEF Lease!Next

\* A fence revokes it, or bars a boot that does not hold it.
LEMMA FenceRevokesLease ==
  ASSUME IncarnationInv, NEW p \in Publisher, NEW b \in Boot, FenceWorker(p, b)
  PROVE  Lease!Next
<1> DEFINE next == Remember(fences[p], <<b>>)
<1>1. /\ b \notin Fenced(p)
      /\ sessions' = [sessions EXCEPT ![p] = {s \in @ : s.boot # b}]
      /\ fences' = [fences EXCEPT ![p] = next]
  BY DEF FenceWorker
<1>2. /\ next \in Seq(Boot) /\ b \in Occurring(next)
      /\ Occurring(next) \subseteq Fenced(p) \cup {b}
  BY FencingOne
<1> HIDE DEF next
<1>4. fences'[p] = next /\ \A q \in Publisher \ {p} : fences'[q] = fences[q]
  BY <1>1 DEF IncarnationInv, AuthorityTypeOK
<1>5. /\ sessions'[p] = {s \in sessions[p] : s.boot # b}
      /\ \A q \in Publisher \ {p} : sessions'[q] = sessions[q]
  BY <1>1 DEF IncarnationInv, AuthorityTypeOK
<1>6. Live(p)' = Live(p) \ {b} /\ \A q \in Publisher \ {p} : Live(q)' = Live(q)
  BY <1>5 DEF Live
<1>7. Fenced(p)' = Occurring(next) /\ \A q \in Publisher \ {p} : Fenced(q)' = Fenced(q)
  BY <1>2, <1>4 DEF Fenced, Occurring
<1>8. Lease!Revoke(p, b)
  BY <1>1, <1>2, <1>6, <1>7 DEF Lease!Revoke, Lease!Bar
<1> QED BY <1>8 DEF Lease!Next

\* A new epoch revokes every lease.
LEMMA EpochRevokesLeases ==
  ASSUME IncarnationInv, NEW e \in 0..MaxEpoch, AdvanceEpoch(e)
  PROVE  Lease!Next
<1>1. PICK order \in [Publisher -> UNION {Orders(Live(p)) : p \in Publisher}] :
        /\ \A p \in Publisher : order[p] \in Orders(Live(p))
        /\ fences' = [p \in Publisher |-> Remember(fences[p], order[p])]
  BY DEF AdvanceEpoch
<1>2. sessions' = [p \in Publisher |-> {}]
  BY DEF AdvanceEpoch
<1>3. ASSUME NEW p \in Publisher
      PROVE  /\ Live(p)' = {}
             /\ Live(p) \subseteq Fenced(p)'
             /\ Fenced(p)' \subseteq Fenced(p) \cup Live(p)
             /\ Fenced(p)' \subseteq Boot
  <2> DEFINE next == Remember(fences[p], order[p])
  <2>1. /\ next \in Seq(Boot) /\ Live(p) \subseteq Occurring(next)
        /\ Occurring(next) \subseteq Fenced(p) \cup Live(p)
    BY <1>1, LosingAll
  <2>2. fences'[p] = next
    BY <1>1
  <2> HIDE DEF next
  <2>3. Fenced(p)' = Occurring(next) /\ Fenced(p)' \subseteq Boot
    BY <2>1, <2>2 DEF Fenced, Occurring
  <2>4. Live(p)' = {}
    BY <1>2 DEF Live
  <2> QED BY <2>1, <2>3, <2>4
<1>4. Lease!RevokeAll
  <2> DEFINE barred == [p \in Publisher |-> Fenced(p)']
  <2>1. barred \in [Publisher -> SUBSET Boot]
    BY <1>3
  <2>2. \A p \in Publisher : Lease!Bar(p, Live(p), barred[p])
    BY <1>3 DEF Lease!Bar
  <2> QED BY <1>3, <2>1, <2>2 DEF Lease!RevokeAll
<1> QED BY <1>4 DEF Lease!Next

LEMMA LeaseStep == IncarnationInv /\ [Next]_vars => [Lease!Next]_(Lease!lease)
<1> SUFFICES ASSUME IncarnationInv, [Next]_vars
             PROVE  Lease!Next \/ UNCHANGED Lease!lease
  OBVIOUS
<1>1. ASSUME KeepAuthority PROVE UNCHANGED Lease!lease
  BY <1>1, LeaseStutters DEF KeepAuthority
<1>2. ASSUME AuthorityNext PROVE Lease!Next \/ UNCHANGED Lease!lease
  <2>1. CASE \E p \in Publisher, g \in Grants : InstallGrant(p, g)
    BY <2>1, LeaseStutters DEF InstallGrant
  <2>2. CASE \E p \in Publisher, b \in Boot, e \in 0..MaxEpoch : Reattach(p, b, e)
    BY <2>2, <1>1, ReattachChangesNothing
  <2>3. CASE \E p \in Publisher, b \in Boot, e \in 0..MaxEpoch : AttachWorker(p, b, e)
    BY <2>3, AttachTakesLease
  <2>4. CASE \E p \in Publisher, b \in Boot : FenceWorker(p, b)
    BY <2>4, FenceRevokesLease
  <2>5. CASE \E e \in 0..MaxEpoch : AdvanceEpoch(e)
    BY <2>5, EpochRevokesLeases
  <2> QED
    BY <1>2, <2>1, <2>2, <2>3, <2>4, <2>5 DEF AuthorityNext, BootstrapGrant, AuthorizedGrant
<1>3. CASE UNCHANGED vars
  BY <1>1, <1>3 DEF vars, KeepAuthority
<1> QED BY <1>1, <1>2, <1>3, RecordsKeepAuthority DEF Next

\* attach_worker, fence_worker and advance_epoch, in any order, implement the
\* lease: the incarnation that loses its session is fenced in the same step,
\* and only a boot that is neither live nor fenced is ever attached.
THEOREM Leased == Spec => IncarnationsAreLeased
<1>1. IncarnationInv /\ IncarnationInv' /\ [Next]_vars => [Lease!Next]_(Lease!lease)
  BY LeaseStep
<1> QED
  BY <1>1, LeaseInit, IncarnationInit, IncarnationStep, PTL
     DEF Spec, IncarnationsAreLeased, Lease!Spec
=============================================================================
