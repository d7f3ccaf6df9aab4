------------------------------- MODULE Registry -------------------------------
(***************************************************************************)
(* One in-process Registry: every mutation of authority, domains and       *)
(* memberships, in any order, by any publisher, under any incarnation.     *)
(***************************************************************************)
EXTENDS RegistryAuthority, RegistryDomains, RegistryMembers

Init ==
  /\ grants = << >>
  /\ sessions = [p \in Publisher |-> {}]
  /\ fences = [p \in Publisher |-> << >>]
  /\ epoch = 0
  /\ domains = << >>
  /\ members = << >>

Next == AuthorityNext \/ DomainsNext \/ MembersNext

Spec == Init /\ [][Next]_vars

-----------------------------------------------------------------------------
(***************************************************************************)
(* Incarnations.                                                           *)
(***************************************************************************)

\* The lease the incarnations of a publisher hold, and who is barred from it.
Lease == INSTANCE IncarnationLease
           WITH holder <- [p \in Publisher |-> Live(p)],
                barred <- [p \in Publisher |-> Fenced(p)]

\* Attach, fence and advance_epoch implement the lease: whoever loses its
\* session is fenced in the same step, and stays out as long as it is.
IncarnationsAreLeased == Lease!Spec

\* A publisher never has two live incarnations: attach_worker clears the list
\* of sessions it found before it pushes its own.
OneLiveIncarnation ==
  \A p \in Publisher : \A s, t \in sessions[p] : s = t

\* A live session belongs to a registered publisher, was attached in the
\* epoch that still runs, and its boot is not fenced: no order of attach,
\* fence and advance_epoch leaves a session an authorization would refuse.
LiveSessionsAreFit ==
  \A p \in Publisher : \A s \in sessions[p] :
    /\ p \in DOMAIN grants
    /\ s.epoch = epoch
    /\ s.boot \notin Fenced(p)

\* Process-bound evidence dies with its process: whatever a membership holds,
\* terminal or not and whoever its headline names, was published by an
\* incarnation that is still attached.
EvidenceOfTheLiving ==
  \A k \in DOMAIN members : \A e \in Held(members[k]) :
    e.cls \in ProcessBound => e.boot \in Live(e.pub)

\* Every path that ends an incarnation leaves no current domain resting on
\* it: fence_worker, a fresh attach and advance_epoch demote alike.
LostIncarnationsHoldNoDomain ==
  [][\A p \in Publisher, b \in Boot :
       b \in Live(p) /\ b \notin Live(p)' =>
         \A d \in DOMAIN domains' :
           domains[d].life' = "Current" => domains[d].prov' \notin ProcessEntries(<<p, b>>)]_vars

\* A list g that takes over the queue f without its n oldest entries.
Continues(f, n, g) ==
  Len(f) - n <= Len(g) /\ \A i \in 1..(Len(f) - n) : g[i] = f[n + i]

\* The fence list is a queue.  A step drops its oldest entries or none, and then
\* leaves it full: whoever is readmitted was followed by MaxFences later fences,
\* of other boots (FencesAreDistinct), by whatever paths they came.  That is less
\* than "permanently fenced", as README.md says of a replaced incarnation.
FencesFadeOnlyByOverflow ==
  [][\A p \in Publisher : \E n \in 0..Len(fences[p]) :
       /\ Continues(fences[p], n, fences[p]')
       /\ n > 0 => Len(fences[p]') = MaxFences]_vars

\* The fence list never spends two of its places on one boot: no path fences
\* what is fenced already, so MaxFences counts distinct incarnations.
FencesAreDistinct ==
  \A p \in Publisher : \A m, n \in DOMAIN fences[p] :
    fences[p][m] = fences[p][n] => m = n

-----------------------------------------------------------------------------
(***************************************************************************)
(* Records.                                                                *)
(***************************************************************************)

\* The headline of a membership that holds evidence is one of its entries,
\* and none of its entries outranks it, however they came and went.
HeadlineIsStrongest ==
  \A k \in DOMAIN members :
    LET held == Held(members[k])
    IN  held # {} => members[k].head \in Strongest(held)

\* Every membership has a domain, and was bound to a generation the domain
\* has reached: what decode_registry demands of an image it will load.
BindingsAreLoadable ==
  \A k \in DOMAIN members :
    k[1] \in DOMAIN domains /\ members[k].domGen <= domains[k[1]].gen

MergeStep ==
  \E a \in Authority, d, o \in Domain :
    \/ \E equivalent \in BOOLEAN : MergeDomains(a, d, o, equivalent)
    \/ \E moved \in SUBSET Member : MergeConflict(a, d, o, moved)

ReconcileStep == \E a \in Authority, k \in Key : ReconcileMembership(a, k)

\* A closed domain keeps its lifecycle, its generation and its provenance.  (A
\* supersession may still point back from a closed successor.)
ClosedDomainsStay ==
  [][\A d \in DOMAIN domains :
       domains[d].life \in Terminal => d \in DOMAIN domains' /\ domains[d]' = domains[d]]_vars

\* "Every legal transition is listed here and enforced by the registry"
\* (lifecycle.hpp:6), and "no transition outside them is ever accepted"
\* (lifecycle.cpp): a record that exists changes its lifecycle along an edge of
\* its table.
EveryTransitionIsListed ==
  [][/\ \A d \in DOMAIN domains :
          domains[d].life' # domains[d].life =>
            <<domains[d].life, domains[d].life'>> \in DomainTransitions
     /\ \A k \in DOMAIN members :
          members[k].life' # members[k].life =>
            <<members[k].life, members[k].life'>> \in MembershipTransitions]_vars

\* What of that is so for domains.  The handlers that do not ask the table leave
\* it in two ways only, conflicting declarations of a candidate (create_domain),
\* and a supersession or a merge of a domain that is a candidate or in conflict:
\* no order of the others takes a domain where its table has no edge.
DomainStepsAreListed ==
  [][\A d \in DOMAIN domains :
       domains[d].life' # domains[d].life =>
         \/ <<domains[d].life, domains[d].life'>> \in DomainTransitions
         \/ domains[d].life = "Candidate" /\ domains[d].life' = "Conflicted"
         \/ domains[d].life \in {"Candidate", "Conflicted"} /\ domains[d].life' = "Superseded"]_vars

\* What of it is so for memberships.  They leave their table, against the quoted
\* words, when a reconciliation finds a record in conflict without evidence, and
\* when a merge moves them or writes over them; in no other step.
MembershipStepsAreListed ==
  [][\A k \in DOMAIN members :
       members[k].life' # members[k].life =>
         \/ <<members[k].life, members[k].life'>> \in MembershipTransitions
         \/ /\ members[k].life = "Conflicted" /\ members[k].life' = "Revalidate"
            /\ Held(members[k]) = {}
         \/ MergeStep]_vars

\* A membership is superseded with its domain: no operation supersedes a member
\* and leaves the domain it belongs to open.
MembersSupersededWithDomain ==
  [][\A k \in DOMAIN members :
       members[k].life # "Superseded" /\ members[k].life' = "Superseded"
       => domains[k[1]].life' = "Superseded"]_vars

\* A closed membership stays closed, in whatever order the domain mutations,
\* publications and demotions reach it; only a merge writes over it.
ClosedMembershipsStay ==
  [][\A k \in DOMAIN members :
       members[k].life \in Terminal /\ members[k].life' # members[k].life => MergeStep]_vars

\* A retired or superseded membership never changes lifecycle again.
TerminalIsForever ==
  [][\A k \in DOMAIN members :
       members[k].life \in Terminal => members[k].life' = members[k].life]_vars

\* An entity is current in one domain of an exclusive class.
Exclusivity ==
  \A j, k \in DOMAIN members :
    /\ members[j].life = "Current" /\ members[k].life = "Current"
    /\ EntityOf[j[2]] = EntityOf[k[2]]
    /\ ClassOf[j[1]] = ClassOf[k[1]] /\ ClassOf[k[1]] \in Exclusive
    => j[1] = k[1]

\* Exclusivity, once it holds, is only lost by a reconciliation or a merge,
\* which do not ask about it.
ExclusivityIsKept ==
  [][Exclusivity /\ ~Exclusivity' => MergeStep \/ ReconcileStep]_vars

\* A current membership holds evidence.
CurrentIsAttested ==
  \A k \in DOMAIN members : members[k].life = "Current" => Held(members[k]) # {}

\* Nothing but a merge, which makes what it moves current, leaves a current
\* membership without evidence.
AttestationIsKept ==
  [][CurrentIsAttested /\ ~CurrentIsAttested' => MergeStep]_vars
=============================================================================
