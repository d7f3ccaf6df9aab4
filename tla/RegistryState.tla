---------------------------- MODULE RegistryState ----------------------------
(***************************************************************************)
(* The state of one Registry (src/src/registry_internal.hpp) and the       *)
(* helpers its mutations share.  Every public mutation takes the registry  *)
(* mutex for its whole body, so each is one atomic action of the modules   *)
(* RegistryAuthority, RegistryDomains and RegistryMembers.                 *)
(*                                                                         *)
(* A request's attempt id, expected generations, names, metadata, roles    *)
(* and administrative scope are abstracted: they only add refusals, which  *)
(* change nothing, or contents no lifecycle rule reads.                    *)
(***************************************************************************)
EXTENDS Lifecycle, Sequences, FiniteSets, Folds, Functions

CONSTANTS
  Publisher, Boot,     \* publishers, and the worker boots they may run under
  Source,              \* provenance sources: records with a field kind
  Evidence,            \* the evidence classes the instance uses
  Class, Exclusive,    \* domain classes, and those an entity has one of
  Domain, ClassOf,     \* domain identities; the class is part of the identity
  Member, EntityOf,    \* (entity, generation) pairs, and the entity of each
  Grants,              \* the scopes an operator may grant
  OwnAttribution,      \* whether callers only attribute evidence to themselves
  MaxPublishers, MaxFences, MaxEvidence, MaxMemberships,   \* RegistryLimits
  MaxEpoch, MaxGeneration                    \* the last value of each counter

ASSUME IdentityAssumption ==
  /\ Evidence \subseteq EvidenceClass
  /\ Exclusive \subseteq Class
  /\ ClassOf \in [Domain -> Class]
  /\ Member = DOMAIN EntityOf
  /\ Grants \subseteq [classes : SUBSET Class, ceiling : Evidence]
  /\ OwnAttribution \in BOOLEAN

ASSUME BoundAssumption ==
  /\ MaxPublishers \in Nat \ {0} /\ MaxFences \in Nat \ {0}
  /\ MaxEvidence \in Nat \ {0}   /\ MaxMemberships \in Nat \ {0}
  /\ MaxEpoch \in Nat \ {0}      /\ MaxGeneration \in Nat \ {0}

VARIABLES
  grants,    \* publisher -> its scope, for the registered publishers
  sessions,  \* publisher -> its live worker sessions
  fences,    \* publisher -> its fenced boots, oldest first
  epoch,     \* the coordinator epoch
  domains,   \* domain -> record, for the domains that exist
  members    \* <<domain, member>> -> record, for those that exist

vars == <<grants, sessions, fences, epoch, domains, members>>

KeepAuthority == UNCHANGED <<grants, sessions, fences, epoch>>

(***************************************************************************)
(* Records.                                                                *)
(***************************************************************************)
Key   == Domain \X Member
Entry == [pub : Publisher, boot : Boot, src : Source, cls : Evidence]

\* What a request carries about its author.
Authority == [pub : Publisher, boot : Boot, epoch : 0..MaxEpoch, cls : Evidence]

Session == [boot : Boot, epoch : 1..MaxEpoch]

DomainRecord ==
  [life : DomainLife, gen : 1..MaxGeneration, prov : Entry]

\* ev counts the evidence entries of each provenance; head is the headline.
MemberRecord ==
  [life : MemberLife, domGen : 1..MaxGeneration, head : Entry,
   ev : [Entry -> Nat]]

AuthorityTypeOK ==
  /\ DOMAIN grants \subseteq Publisher /\ grants \in [DOMAIN grants -> Grants]
  /\ sessions \in [Publisher -> SUBSET Session]
  /\ DOMAIN fences = Publisher
  /\ \A p \in Publisher : fences[p] \in Seq(Boot) /\ Len(fences[p]) <= MaxFences
  /\ epoch \in 0..MaxEpoch

RecordsTypeOK ==
  /\ DOMAIN domains \subseteq Domain /\ domains \in [DOMAIN domains -> DomainRecord]
  /\ DOMAIN members \subseteq Key /\ members \in [DOMAIN members -> MemberRecord]

TypeOK == AuthorityTypeOK /\ RecordsTypeOK

(***************************************************************************)
(* Stores.                                                                 *)
(***************************************************************************)
Store(f, k, r) == [x \in DOMAIN f \cup {k} |-> IF x = k THEN r ELSE f[x]]

\* generation.next(): the last generation is kept.
NextGen(g) == IF g < MaxGeneration THEN g + 1 ELSE g

\* The record a handler leaves in a domain whose content it rewrote.
Bumped(r) == [r EXCEPT !.gen = NextGen(@)]

(***************************************************************************)
(* Evidence.                                                               *)
(***************************************************************************)
Held(r)     == {e \in Entry : r.ev[e] > 0}
EvSize(r)   == FoldFunction(LAMBDA m, n : m + n, 0, r.ev)
NoEvidence  == [e \in Entry |-> 0]
Attested(r, e)  == [r EXCEPT !.head = e, !.ev[e] = @ + 1]
Strongest(S) == {e \in S : \A f \in S : ~Outranks(f.cls, e.cls)}

\* The entries an incarnation <<publisher, boot>> stands behind while it lives.
ProcessEntries(i) ==
  {e \in Entry : e.pub = i[1] /\ e.boot = i[2] /\ e.cls \in ProcessBound}

(***************************************************************************)
(* Liveness of incarnations, and what a request needs to be authorized.    *)
(***************************************************************************)
Live(p)   == {s.boot : s \in sessions[p]}
Fenced(p) == {fences[p][n] : n \in DOMAIN fences[p]}

AllowsEvidence(p, c) == ~Outranks(c, grants[p].ceiling)
AllowsClass(p, c)    == c \in grants[p].classes

AuthorizedAny(a) ==
  /\ a.pub \in DOMAIN grants
  /\ AllowsEvidence(a.pub, a.cls)
  /\ a.epoch = epoch
  /\ a.boot \notin Fenced(a.pub)
  /\ a.boot \in Live(a.pub)

Authorized(a, d) == AuthorizedAny(a) /\ AllowsClass(a.pub, ClassOf[d])

\* attribute_provenance: the provenances a request of a may end up with.  The
\* publisher and the boot it leaves out are its author's, those it names stay;
\* no caller of the repository names any, which is OwnAttribution.
Attributable(a) == {e \in Entry : OwnAttribution => e.pub = a.pub /\ e.boot = a.boot}

\* effective_evidence: the author answers for the class of its provenance.
Attributed(a) == {e \in Attributable(a) : e.cls = a.cls}

(***************************************************************************)
(* withdraw_publisher_evidence: the records whose evidence is in gone.     *)
(* A record with nothing left is demoted and keeps a headline nobody       *)
(* stands behind; any other takes the headline of a strongest survivor.    *)
(***************************************************************************)
\* Mutant of Touched: records are found through their headline only.
TouchedByHeadline(gone) == {k \in DOMAIN members : members[k].head \in gone}

Touched(gone) == {k \in DOMAIN members : Held(members[k]) \cap gone # {}}

\* Mutant of HeadlinesAfter: the headline is not chosen anew.
HeadlineKept(r, groups) == {r.head}

\* The headlines a record may end with.  The entries go one incarnation at a
\* time, so a record that several of them emptied keeps the headline of the
\* last one.  groups partitions gone by incarnation.
HeadlinesAfter(r, groups) ==
  LET kept == Held(r) \ UNION groups
      hit  == {g \in groups : g \cap Held(r) # {}}
  IN  IF kept # {} THEN Strongest(kept)
      ELSE IF Cardinality(hit) = 1 THEN {r.head}
      ELSE UNION {Strongest(g \cap Held(r)) : g \in hit}

\* Mutant of Weakened: the record is not demoted.
WeakenedKeepsLife(r, gone, h) ==
  [r EXCEPT !.ev = [e \in Entry |-> IF e \in gone THEN 0 ELSE r.ev[e]], !.head = h]

Weakened(r, gone, h) ==
  LET left == [e \in Entry |-> IF e \in gone THEN 0 ELSE r.ev[e]]
  IN  [r EXCEPT !.ev = left, !.head = h,
                !.life = IF left = NoEvidence THEN Demoted(@, "Revalidate") ELSE @]

Withdraw(groups) ==
  LET gone == UNION groups
      hit  == Touched(gone)
      Headlines(k) == HeadlinesAfter(members[k], groups)
  IN  \E h \in [hit -> UNION {Headlines(k) : k \in hit}] :
        /\ \A k \in hit : h[k] \in Headlines(k)
        /\ members' = [k \in DOMAIN members |->
                         IF k \in hit THEN Weakened(members[k], gone, h[k])
                                      ELSE members[k]]

\* demote_process_bound_domains.
LostDomain(r, gone) ==
  /\ r.prov \in gone
  /\ <<r.life, "Revalidate">> \in DomainTransitions

(***************************************************************************)
(* What the registry does when a set of incarnations stops living.         *)
(***************************************************************************)
\* Mutant of Lose: memberships are demoted without the domains.
LoseMembersOnly(incarnations) ==
  Withdraw({ProcessEntries(i) : i \in incarnations}) /\ UNCHANGED domains

Lose(incarnations) ==
  LET groups == {ProcessEntries(i) : i \in incarnations}
  IN  /\ Withdraw(groups)
      /\ domains' = [d \in DOMAIN domains |->
                       IF LostDomain(domains[d], UNION groups)
                       THEN [Bumped(domains[d]) EXCEPT !.life = "Revalidate"]
                       ELSE domains[d]]

\* demote_memberships_of_domain and its siblings: the members in keys move to
\* target where the table allows it.
DemoteMembers(ms, keys, target) ==
  [k \in DOMAIN ms |-> IF k \in keys
                       THEN [ms[k] EXCEPT !.life = Demoted(@, target)]
                       ELSE ms[k]]

MembersOf(d) == {k \in DOMAIN members : k[1] = d}

\* Mutant of ExclusiveConflict: another generation of the entity does not count.
ExclusiveConflictByGeneration(k) ==
  /\ ClassOf[k[1]] \in Exclusive
  /\ \E o \in DOMAIN members :
       /\ members[o].life = "Current" /\ o[2] = k[2]
       /\ o[1] # k[1] /\ ClassOf[o[1]] = ClassOf[k[1]]

\* exclusive_conflict: the entity is already current in another domain of the
\* same exclusive class.  Only the entity counts, not its generation.
ExclusiveConflict(k) ==
  /\ ClassOf[k[1]] \in Exclusive
  /\ \E o \in DOMAIN members :
       /\ members[o].life = "Current"
       /\ EntityOf[o[2]] = EntityOf[k[2]]
       /\ o[1] # k[1]
       /\ ClassOf[o[1]] = ClassOf[k[1]]
=============================================================================
