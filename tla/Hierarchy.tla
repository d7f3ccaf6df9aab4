------------------------------ MODULE Hierarchy ------------------------------
(***************************************************************************)
(* Relations between domains: add_relation with its walks (src/src/        *)
(* registry_mutations.cpp, registry.cpp), and the walks of the queries     *)
(* (registry_query.cpp).  No operation removes a relation, and a relation  *)
(* outlives the closing of its ends.                                       *)
(***************************************************************************)
EXTENDS TopologyState

Edges(type) == {<<r.source, r.target>> : r \in {x \in relations : x.type = type}}

Successors(R, S) == {e[2] : e \in {x \in R : x[1] \in S}}

(***************************************************************************)
(* What the walks of the code are to compute.                              *)
(***************************************************************************)
Ends(R) == UNION {{e[1], e[2]} : e \in R}

\* What can be reached from d, with d itself: the least set that holds d and
\* is closed under R.
Reach(R, d) ==
  {x \in Ends(R) \cup {d} :
     \A S \in SUBSET (Ends(R) \cup {d}) : d \in S /\ Successors(R, S) \subseteq S => x \in S}

\* A cycle is a set of domains each of which has a successor in the set.
NoCycle(R) == \A S \in SUBSET Ends(R) : S # {} => \E x \in S : Successors(R, {x}) \cap S = {}

(***************************************************************************)
(* path_exists, which gives up after max_ancestor_walk domains: then the   *)
(* relation is refused as well.                                            *)
(***************************************************************************)
\* Mutant of ClosesNoCycle: a walk that was cut counts as "no path".
ClosesNoCycleBounded(R, s, t) ==
  s \in Reach(R, t) => Cardinality(Reach(R, t)) > MaxWalk

ClosesNoCycle(R, s, t) == s \notin Reach(R, t) /\ Cardinality(Reach(R, t)) <= MaxWalk

(***************************************************************************)
(* containment_chain_depth: the longest chain that leaves d, in edges,     *)
(* saturated one above the ceiling; on a cycle, saturated.                 *)
(***************************************************************************)
ChainDepth(R, d) ==
  LET starts[n \in 0..MaxDepth + 1] ==   \* of the chains of n edges
        IF n = 0 THEN Ends(R) \cup {d}
        ELSE {x \in Ends(R) : Successors(R, {x}) \cap starts[n - 1] # {}}
  IN  CHOOSE n \in 0..MaxDepth + 1 :
        /\ d \in starts[n]
        /\ n <= MaxDepth => d \notin starts[n + 1]

Reversed(R) == {<<e[2], e[1]>> : e \in R}

\* Mutant of DepthThrough: what the contained end carries is not counted.
DepthThroughAbove(R, s, t) == ChainDepth(R, t) + 1

DepthThrough(R, s, t) == ChainDepth(R, t) + 1 + ChainDepth(Reversed(R), s)

\* relation_id_for: a relation of a type that may have cycles is symmetric, and
\* the same one when its ends are exchanged.
Same(type, s, t) ==
  {[type |-> type, source |-> s, target |-> t]}
  \cup IF type \in Acyclic THEN {} ELSE {[type |-> type, source |-> t, target |-> s]}

AddRelation(type, s, t) ==
  /\ {s, t} \subseteq DOMAIN life /\ s # t
  /\ life[s] \notin Terminal /\ life[t] \notin Terminal
  /\ Cardinality(relations) < MaxRelations
  /\ type = ContainedBy => /\ {ClassOf[s], ClassOf[t]} \subseteq Containment
                           /\ DepthThrough(Edges(type), s, t) <= MaxDepth
  /\ Same(type, s, t) \cap relations = {}
  /\ type \in Acyclic => ClosesNoCycle(Edges(type), s, t)
  /\ relations' = relations \cup {[type |-> type, source |-> s, target |-> t]}
  /\ Bump
  /\ UNCHANGED <<life, direct, derived, rules, coverage>>

(***************************************************************************)
(* The queries walk level by level, and begin no level once they have      *)
(* max_ancestor_walk domains.                                              *)
(***************************************************************************)
Walk(R, d) ==
  LET most == Cardinality(Ends(R))   \* no more levels than domains
      found[n \in 0..most] ==
        IF n = 0 THEN {}
        ELSE IF Cardinality(found[n - 1]) >= MaxWalk THEN found[n - 1]
        ELSE found[n - 1] \cup (Successors(R, found[n - 1] \cup {d}) \ {d})
  IN  found[most]

Ancestors(d)   == Walk(Edges(ContainedBy), d)
Descendants(d) == Walk(Reversed(Edges(ContainedBy)), d)

\* Mutant of Truncated: a walk that was cut exactly at the bound is complete.
TruncatedAbove(found) == Cardinality(found) > MaxWalk

Truncated(found) == Cardinality(found) >= MaxWalk

\* most_specific of overlap: the shared domains above no other shared one.
MostSpecific(shared) == {d \in shared : Descendants(d) \cap shared = {}}

(***************************************************************************)
(* blast_radius of a domain that exists, whatever its lifecycle.           *)
(***************************************************************************)
MembersIn(d) == {k[2] : k \in {x \in CurrentIn(direct) \cup CurrentIn(derived) : x[1] = d}}

DomainsOf(e) ==
  {k[1] : k \in {x \in CurrentIn(direct) \cup CurrentIn(derived) :
                   x[2] = e /\ x[1] \in CurrentDomains}}

BlastRadius(d) ==
  [members   |-> MembersIn(d),
   classes   |-> {ClassOf[x] : x \in UNION {DomainsOf(e) : e \in MembersIn(d)}},
   children  |-> Descendants(d),
   truncated |-> Truncated(Descendants(d)),
   related   |-> {IF r.source = d THEN r.target ELSE r.source :
                    r \in {x \in relations : x.type # ContainedBy /\ d \in {x.source, x.target}}}]
=============================================================================
