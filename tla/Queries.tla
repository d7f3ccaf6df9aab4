------------------------------- MODULE Queries -------------------------------
(***************************************************************************)
(* Coverage declarations and the three queries that may answer             *)
(* PROVEN_INDEPENDENT (src/src/registry_query.cpp).  Each query holds the  *)
(* lock for its whole body.  A query with no classes asks about all the    *)
(* canonical ones; one with no scope asks about the scopes of the          *)
(* entities' domains.  The limit on the entities of a query is left out.   *)
(***************************************************************************)
EXTENDS TopologyState

(***************************************************************************)
(* declare_coverage replaces what was declared for the scope and class.    *)
(***************************************************************************)
DeclareCoverage(scope, class, state) ==
  LET c == <<scope, class>>
  IN  /\ c \in DOMAIN coverage \/ Cardinality(DOMAIN coverage) < MaxCoverage
      /\ coverage' = Put(coverage, c, state) /\ Bump
      /\ UNCHANGED <<life, direct, derived, relations, rules>>

CoverageFor(scope, class) ==
  IF <<scope, class>> \in DOMAIN coverage THEN coverage[<<scope, class>>] ELSE "UnknownCoverage"

\* What the coverage report says of a class: the weakest declaration of one
\* scope, or of all scopes.
Reported(scopes, class) ==
  LET states == {coverage[c] : c \in {x \in DOMAIN coverage : x[1] \in scopes /\ x[2] = class}}
  IN  CASE states = {} \/ "UnknownCoverage" \in states -> "UnknownCoverage"
        [] "Partial" \in states -> "Partial"
        [] OTHER -> "Complete"

CompleteForAll(scopes, classes) == \A c \in classes : Reported(scopes, c) = "Complete"

(***************************************************************************)
(* What the records say of an entity.                                      *)
(***************************************************************************)
OfEntities(f, entities, lives) == {k \in DOMAIN f : k[2] \in entities /\ f[k].life \in lives}

\* The domains in which the entities have a membership in one of the lives.
DomainsWith(entities, lives) ==
  {k[1] : k \in OfEntities(direct, entities, lives) \cup OfEntities(derived, entities, lives)}

CurrentDomainsOf(e) == DomainsWith({e}, {"Current"}) \cap CurrentDomains

Doubts(entities) ==
  {l \in {"Revalidate", "Conflicted"} : DomainsWith(entities, {l}) # {}}

EffectiveScopes(entities) == {ScopeOf[d] : d \in DomainsWith(entities, {"Current"})}

Shared(entities) ==
  {d \in Domain : \E e, f \in entities : e # f /\ d \in CurrentDomainsOf(e) \cap CurrentDomainsOf(f)}

(***************************************************************************)
(* What coverage allows a query to say when it found nothing shared.       *)
(***************************************************************************)
Unshared(scopes, classes) ==
  IF scopes # {} /\ \A s \in scopes, c \in classes : CoverageFor(s, c) = "Complete"
  THEN "ProvenIndependent"
  ELSE IF \A s \in scopes, c \in classes : CoverageFor(s, c) = "UnknownCoverage" THEN "NoKnowledge"
  ELSE "UnknownCoverage"

\* Mutant of Doubtful: a record in doubt is passed over.
DoubtfulNever(entities) == {}

\* The answer records in doubt force, if there are any.
Doubtful(entities) ==
  IF "Conflicted" \in Doubts(entities) THEN {"Conflicted"}
  ELSE IF "Revalidate" \in Doubts(entities) THEN {"RevalidationRequired"} ELSE {}

Answer(entities, scopes, classes) ==
  IF Doubtful(entities) # {} THEN CHOOSE x \in Doubtful(entities) : TRUE
  ELSE Unshared(scopes, classes)

(***************************************************************************)
(* overlap, independence and correlate_member_sets.                        *)
(***************************************************************************)
Overlap(entities) ==
  IF Cardinality(entities) < 2 THEN "Unknown"
  ELSE IF Shared(entities) # {} THEN "SharedDomain"
  ELSE Answer(entities, EffectiveScopes(entities), Canonical)

\* scopes is what effective_scopes returns: a scope the query names, or those
\* of the entities.
Independence(entities, classes, scopes) ==
  IF Cardinality(entities) < 2 THEN "Unknown"
  ELSE IF {d \in Shared(entities) : ClassOf[d] \in classes} # {} THEN "SharedDomain"
  ELSE Answer(entities, scopes, classes)

\* Mutant of Correlated: a domain in doubt is shared as well.
CorrelatedAny(left, right, classes) ==
  {d \in DomainsWith(left, {"Current"}) \cap DomainsWith(right, {"Current"}) :
     ClassOf[d] \in classes}

Correlated(left, right, classes) ==
  {d \in (UNION {CurrentDomainsOf(e) : e \in left})
          \cap (UNION {CurrentDomainsOf(e) : e \in right}) : ClassOf[d] \in classes}

\* No record in doubt is asked about.
Correlation(left, right, classes, scopes) ==
  IF left = {} \/ right = {} THEN "Unknown"
  ELSE IF Correlated(left, right, classes) # {} THEN "SharedDomain"
  ELSE Unshared(scopes, classes)
=============================================================================
