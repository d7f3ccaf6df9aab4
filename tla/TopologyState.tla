---------------------------- MODULE TopologyState ----------------------------
(***************************************************************************)
(* What the derivations, the hierarchy, the queries and the snapshots of   *)
(* one Registry read: lifecycles and generations, without the evidence     *)
(* that decides them (modules RegistryDomains and RegistryMembers).  The   *)
(* mutations of those modules appear as the three steps below, with what   *)
(* they may do to a lifecycle.  An entity has one generation, and one      *)
(* direct membership in a domain at most.                                  *)
(***************************************************************************)
EXTENDS Lifecycle, FiniteSets, Sequences, SequencesExt

CONSTANTS
  Domain, ClassOf, ScopeOf,   \* domains, and the class and scope of each
  Class, Canonical,           \* domain classes; the others are extensions
  Entity,
  Rules,                      \* the rules, in the order of their identifiers
  RelationType, Acyclic, ContainedBy,   \* relation types, those without cycles
  Containment,                \* the containment classes
  MaxRelations, MaxDepth, MaxWalk, MaxMemberships, MaxCoverage,  \* RegistryLimits
  MaxGeneration               \* the last generation of a membership

\* Identifiers have a fixed width and names a longest length, so that there are
\* only so many of them.
ASSUME TopologyAssumption ==
  /\ \A S \in {Domain, Class, Entity} : IsFiniteSet(S)
  /\ Rules \in Seq(ToSet(Rules))
  /\ Canonical \subseteq Class /\ Containment \subseteq Class
  /\ ClassOf \in [Domain -> Class]
  /\ Acyclic \subseteq RelationType /\ ContainedBy \in Acyclic
  /\ {MaxRelations, MaxDepth, MaxWalk, MaxMemberships, MaxCoverage} \subseteq Nat
  /\ MaxWalk >= MaxDepth /\ MaxGeneration \in Nat \ {0}

VARIABLES
  life,        \* domain -> lifecycle, for the domains that exist
  direct,      \* <<domain, entity>> -> record of the direct membership
  derived,     \* <<domain, entity>> -> record of the derived membership, where
               \* src are its sources with the generations they had
  relations,   \* the relations: records [type, source, target]
  rules,       \* published rule -> whether it is enabled
  coverage,    \* <<scope, class>> -> declared state
  generation   \* the generation of the registry

topology == <<life, direct, derived, relations, rules, coverage, generation>>

Key    == Domain \X Entity
Scopes == {ScopeOf[d] : d \in Domain}
Rule   == ToSet(Rules)

Direct == [life : MemberLife, gen : 1..MaxGeneration]

Relation == [type : RelationType, source : Domain, target : Domain]

CoverageState == {"Complete", "Partial", "UnknownCoverage"}

TopologyOK ==
  /\ DOMAIN life \subseteq Domain /\ \A d \in DOMAIN life : life[d] \in DomainLife
  /\ DOMAIN direct \subseteq Key  /\ \A k \in DOMAIN direct : direct[k] \in Direct
  /\ DOMAIN derived \subseteq Key
  /\ \A k \in DOMAIN derived :
       LET r == derived[k]
       IN  /\ r.life \in MemberLife /\ r.valid \in BOOLEAN /\ r.rule \in Rule
           /\ DOMAIN r.src \subseteq Key
           /\ \A s \in DOMAIN r.src : r.src[s] \in 1..MaxGeneration
  /\ relations \subseteq Relation
  /\ DOMAIN rules \subseteq Rule /\ \A r \in DOMAIN rules : rules[r] \in BOOLEAN
  /\ coverage \in [DOMAIN coverage -> CoverageState]
  /\ DOMAIN coverage \subseteq Scopes \X Class
  /\ generation \in Nat

Put(f, k, r) == [x \in DOMAIN f \cup {k} |-> IF x = k THEN r ELSE f[x]]

Bump == generation' = generation + 1

CurrentIn(f)      == {k \in DOMAIN f : f[k].life = "Current"}
CurrentDomains    == {d \in DOMAIN life : life[d] = "Current"}
NextGen(g)        == IF g < MaxGeneration THEN g + 1 ELSE g

\* Mutant of Moved: the generation of the record stays.
MovedQuietly(r, l) == [r EXCEPT !.life = l]

\* A record that a mutation takes to l, as a new generation of it.  The one of
\* a derived record is left out, since nothing reads it.
Moved(r, l) ==
  IF "gen" \in DOMAIN r THEN [r EXCEPT !.life = l, !.gen = NextGen(@)] ELSE [r EXCEPT !.life = l]

(***************************************************************************)
(* What the domain and membership mutations do to lifecycles.              *)
(***************************************************************************)
DeclareDomain(d, l) ==
  /\ d \notin DOMAIN life /\ l \in {"Candidate", "Current"}
  /\ life' = Put(life, d, l) /\ Bump
  /\ UNCHANGED <<direct, derived, relations, rules, coverage>>

\* Besides the table's edges a supersession, a retirement and a conflicting
\* redeclaration are open to every domain that is not closed.
DomainSteps == DomainTransitions
                 \cup (DomainLife \ Terminal) \X {"Superseded", "Retired", "Conflicted"}

\* The domain and, in bulk, its memberships: those whose table has the edge
\* move to the target the mutation names for them, if it names one.
DemotedIn(f, d, target) ==
  [k \in DOMAIN f |-> IF /\ k[1] = d
                         /\ <<f[k].life, target>> \in MembershipTransitions
                      THEN Moved(f[k], target) ELSE f[k]]

\* A retirement names one if it is asked to, and a supersession.
Targets(d, l) ==
  {"None"} \cup (IF l = "Retired" THEN {"Retired"} ELSE {})
  \cup (IF l # "Superseded" THEN {}
        ELSE {IF life[d] = "Current" THEN "Revalidate" ELSE "Retired"})

ChangeDomain(d, l, target) ==
  /\ d \in DOMAIN life /\ <<life[d], l>> \in DomainSteps /\ target \in Targets(d, l)
  /\ life' = [life EXCEPT ![d] = l] /\ Bump
  /\ direct' = DemotedIn(direct, d, target)
  /\ derived' = DemotedIn(derived, d, target)
  /\ UNCHANGED <<relations, rules, coverage>>

\* Mutant of Room: derived records take none.
RoomForDirect(ds) == MaxMemberships - Cardinality(DOMAIN direct)

\* What max_memberships leaves when the derived records are ds.
Room(ds) == MaxMemberships - Cardinality(DOMAIN direct) - Cardinality(DOMAIN ds)

AttachDirect(k) ==
  /\ k \notin DOMAIN direct /\ Room(derived) > 0
  /\ k[1] \in DOMAIN life /\ life[k[1]] \in {"Candidate", "Current"}
  /\ direct' = Put(direct, k, [life |-> "Current", gen |-> 1]) /\ Bump
  /\ UNCHANGED <<life, derived, relations, rules, coverage>>

\* A reconciliation takes a conflicted record without evidence off the table.
MemberSteps == MembershipTransitions \cup {<<"Conflicted", "Revalidate">>}
                 \cup {<<"Current", "Current">>}

ChangeDirect(k, l) ==
  /\ k \in DOMAIN direct /\ <<direct[k].life, l>> \in MemberSteps
  /\ direct' = [direct EXCEPT ![k] = Moved(@, l)] /\ Bump
  /\ UNCHANGED <<life, derived, relations, rules, coverage>>

\* detach_member retires a derived record, mark_revalidation_required doubts
\* it and reconcile_membership ends the doubt, as for any other kind.
Detach(k) ==
  /\ k \in DOMAIN derived /\ derived[k].life \notin Terminal
  /\ derived' = [derived EXCEPT ![k].life = "Retired"] /\ Bump
  /\ UNCHANGED <<life, direct, relations, rules, coverage>>

Mark(k) ==
  /\ k \in CurrentIn(derived)
  /\ derived' = [derived EXCEPT ![k].life = "Revalidate"] /\ Bump
  /\ UNCHANGED <<life, direct, relations, rules, coverage>>

\* The evidence of a derived record is the rule's and always live.
Reconcile(k) ==
  /\ k \in DOMAIN derived /\ derived[k].life = "Revalidate"
  /\ derived' = [derived EXCEPT ![k].life = "Current"] /\ Bump
  /\ UNCHANGED <<life, direct, relations, rules, coverage>>
=============================================================================
