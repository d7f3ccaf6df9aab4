--------------------------- MODULE Topology_proofs ---------------------------
(***************************************************************************)
(* The queries, the derivations and the snapshots, for every number of     *)
(* domains and entities and every limit.                                   *)
(***************************************************************************)
EXTENDS Hierarchy_proofs

(***************************************************************************)
(* The queries.                                                            *)
(***************************************************************************)
QueryInv ==
  /\ DOMAIN life \subseteq Domain /\ DOMAIN image.Contents.life \subseteq Domain
  /\ DOMAIN coverage \subseteq Scopes \X Class /\ DOMAIN image.rest[3] \subseteq Scopes \X Class

\* What decides that coverage is complete: every scope asked about was
\* declared complete for every class.
LEMMA UnsharedNeedsCoverage ==
  ASSUME QueryInv, NEW scopes, NEW classes, Unshared(scopes, classes) = "ProvenIndependent"
  PROVE  scopes # {} /\ CompleteForAll(scopes, classes)
<1>1. scopes # {} /\ \A s \in scopes, c \in classes : CoverageFor(s, c) = "Complete"
  BY DEF Unshared
<1>2. ASSUME NEW c \in classes
      PROVE  Reported(scopes, c) = "Complete"
  <2> DEFINE declared == {y \in DOMAIN coverage : y[1] \in scopes /\ y[2] = c}
             states   == {coverage[x] : x \in declared}
  <2>1. \A r \in scopes : <<r, c>> \in declared
    BY <1>1, <1>2 DEF CoverageFor
  <2>2. states # {}
    <3>1. PICK r \in scopes : TRUE
      BY <1>1
    <3>2. coverage[<<r, c>>] \in states
      BY <2>1
    <3> QED BY <3>2
  <2>3. \A x \in declared : coverage[x] = "Complete"
    <3> TAKE x \in declared
    <3>1. x = <<x[1], c>> /\ x[1] \in scopes
      BY DEF QueryInv
    <3> QED BY <1>1, <1>2, <3>1 DEF CoverageFor
  <2>4. "UnknownCoverage" \notin states /\ "Partial" \notin states
    BY <2>3
  <2> HIDE DEF declared
  <2> QED BY <2>2, <2>4 DEF Reported, declared
<1> QED BY <1>1, <1>2 DEF CompleteForAll

\* An open membership that is not current is a record in doubt.
LEMMA OpenIsCurrentOrDoubted ==
  ASSUME NEW entities, NEW e \in entities, NEW d, Doubtful(entities) = {},
         d \in DomainsWith({e}, MemberLife \ Terminal)
  PROVE  d \in DomainsWith({e}, {"Current"})
<1>1. /\ DomainsWith(entities, {"Revalidate"}) = {}
      /\ DomainsWith(entities, {"Conflicted"}) = {}
  BY DEF Doubtful, Doubts
<1>2. \A k \in DOMAIN direct : k[2] = e => direct[k].life \notin {"Revalidate", "Conflicted"}
  BY <1>1 DEF DomainsWith, OfEntities
<1>3. \A k \in DOMAIN derived : k[2] = e => derived[k].life \notin {"Revalidate", "Conflicted"}
  BY <1>1 DEF DomainsWith, OfEntities
<1>4. MemberLife \ Terminal = {"Current", "Revalidate", "Conflicted"}
  BY DEF MemberLife, Terminal
<1> QED BY <1>2, <1>3, <1>4 DEF DomainsWith, OfEntities

\* The answer PROVEN_INDEPENDENT, taken apart.
LEMMA ProvenMeansUnshared ==
  ASSUME QueryInv, NEW entities, NEW classes, NEW scopes,
         Independence(entities, classes, scopes) = "ProvenIndependent"
  PROVE  /\ scopes # {} /\ CompleteForAll(scopes, classes)
         /\ \A e, f \in entities :
              e # f => OpenIn(e, classes) \cap OpenIn(f, classes) \cap CurrentDomains = {}
<1>1. {d \in Shared(entities) : ClassOf[d] \in classes} = {}
  BY DEF Independence
<1>2. Answer(entities, scopes, classes) = "ProvenIndependent"
  BY <1>1 DEF Independence
<1>3. Doubtful(entities) = {}
  BY <1>2 DEF Answer, Doubtful
<1>4. Unshared(scopes, classes) = "ProvenIndependent"
  BY <1>2, <1>3 DEF Answer
<1>5. ASSUME NEW e \in entities, NEW f \in entities, e # f,
             NEW d \in OpenIn(e, classes) \cap OpenIn(f, classes) \cap CurrentDomains
      PROVE  FALSE
  <2>1. d \in CurrentDomainsOf(e) \cap CurrentDomainsOf(f)
    BY <1>3, OpenIsCurrentOrDoubted DEF OpenIn, CurrentDomainsOf
  <2>2. d \in Domain /\ ClassOf[d] \in classes
    BY DEF QueryInv, CurrentDomains, OpenIn
  <2> QED BY <1>1, <1>5, <2>1, <2>2 DEF Shared
<1> QED BY <1>4, <1>5, UnsharedNeedsCoverage

\* Domains and coverage declarations stay within the given names.
LEMMA DomainStepsAreKnown ==
  ASSUME Mutation, QueryInv, UNCHANGED snapshots
  PROVE  QueryInv'
<1>1. UNCHANGED image
  BY DEF snapshots
<1>2. ASSUME NEW d \in Domain, NEW l, DeclareDomain(d, l)
      PROVE  QueryInv'
  BY <1>1, <1>2 DEF QueryInv, DeclareDomain, Put
<1>3. ASSUME NEW d, NEW l, NEW target, ChangeDomain(d, l, target)
      PROVE  QueryInv'
  BY <1>1, <1>3 DEF QueryInv, ChangeDomain
<1>4. ASSUME NEW s \in Scopes, NEW c \in Class, NEW state, DeclareCoverage(s, c, state)
      PROVE  QueryInv'
  BY <1>1, <1>4 DEF QueryInv, DeclareCoverage, Put
<1>5. CASE UNCHANGED <<life, coverage>>
  BY <1>1, <1>5 DEF QueryInv
<1> QED
  BY <1>2, <1>3, <1>4, <1>5
  DEF Mutation, AttachDirect, ChangeDirect, Detach, Mark, Reconcile, AddRelation, PublishRule,
      RunDerivation, InvalidateEntity, NotifyTopologyChange

\* They are in every state.
LEMMA QueryInvHolds == Spec => []QueryInv
<1>1. Init => QueryInv
  BY DEF Init, QueryInv, Contents
<1>2. QueryInv /\ [Next]_vars => QueryInv'
  <2> SUFFICES ASSUME QueryInv, [Next]_vars
               PROVE  QueryInv'
    OBVIOUS
  <2>1. CASE UNCHANGED <<life, coverage, image>>
    BY <2>1 DEF QueryInv
  <2>2. CASE Mutation /\ UNCHANGED snapshots
    BY <2>2, DomainStepsAreKnown
  <2>3. CASE TakeSnapshot
    BY <2>1, <2>3 DEF TakeSnapshot, topology
  <2>4. CASE Save
    BY <2>4 DEF Save, topology, QueryInv, Contents
  <2>5. CASE Start
    BY <2>5 DEF Start, QueryInv
  <2>6. CASE Reset
    BY <2>6 DEF Reset, QueryInv
  <2>7. ASSUME NEW d, NEW x, NEW equivalent, Merge(d, x, equivalent)
        PROVE  QueryInv'
    BY <2>7 DEF Merge, QueryInv
  <2>8. ASSUME NEW d, NEW x, NEW moved, NEW movedDerived, RefusedMerge(d, x, moved, movedDerived)
        PROVE  QueryInv'
    BY <2>1, <2>8 DEF RefusedMerge
  <2>9. CASE UNCHANGED vars
    BY <2>1, <2>9 DEF vars, topology, snapshots
  <2> QED BY <2>2, <2>3, <2>4, <2>5, <2>6, <2>7, <2>8, <2>9 DEF Next
<1> QED BY <1>1, <1>2, PTL DEF Spec

\* The registry answers PROVEN_INDEPENDENT only for entities that share no
\* current domain of the classes, current or in doubt, and only where the
\* weakest coverage declared for the classes is complete.
THEOREM IndependenceProven == Spec => []IndependenceIsSound
<1>1. QueryInv => IndependenceIsSound
  BY ProvenMeansUnshared DEF IndependenceIsSound
<1> QED BY <1>1, QueryInvHolds, PTL

\* Where two queries about a pair of entities differ, it is because of an
\* extension class or of a record in doubt.
THEOREM QueriesDoAgree == Spec => []QueriesAgree
<1>1. QueryInv => QueriesAgree
  <2> SUFFICES ASSUME QueryInv, NEW e \in Entity, NEW f \in Entity, e # f
               PROVE  LET scopes == EffectiveScopes({e, f})
                          over   == Overlap({e, f})
                          ind    == Independence({e, f}, Canonical, scopes)
                          cor    == Correlation({e}, {f}, Canonical, scopes)
                      IN  /\ over # ind => /\ over = "SharedDomain"
                                           /\ \A d \in Shared({e, f}) : ClassOf[d] \notin Canonical
                          /\ cor # ind => ind \in {"Conflicted", "RevalidationRequired"}
    BY DEF QueriesAgree
  <2> DEFINE scopes == EffectiveScopes({e, f})
             found  == {d \in Shared({e, f}) : ClassOf[d] \in Canonical}
  <2>1. e # f
    OBVIOUS
  <2>2. ~ (Cardinality({e, f}) < 2)
    <3>1. IsFiniteSet({e}) /\ Cardinality({e}) = 1
      BY FS_Singleton
    <3>2. Cardinality({e} \cup {f}) = 2
      BY <3>1, FS_AddElement
    <3>3. {e} \cup {f} = {e, f}
      OBVIOUS
    <3> QED BY <3>2, <3>3
  <2>3. Correlated({e}, {f}, Canonical) = found
    <3>1. CurrentDomainsOf(e) \subseteq Domain
      BY DEF CurrentDomainsOf, CurrentDomains, QueryInv
    <3>2. Shared({e, f}) = CurrentDomainsOf(e) \cap CurrentDomainsOf(f)
      BY <2>1, <3>1 DEF Shared
    <3> QED BY <3>2 DEF Correlated
  <2>4. Answer({e, f}, scopes, Canonical) = Unshared(scopes, Canonical)
        \/ Answer({e, f}, scopes, Canonical) \in {"Conflicted", "RevalidationRequired"}
    BY DEF Answer, Doubtful
  <2>5. Overlap({e, f}) = IF Shared({e, f}) # {} THEN "SharedDomain"
                          ELSE Answer({e, f}, scopes, Canonical)
    BY <2>2 DEF Overlap
  <2>6. Independence({e, f}, Canonical, scopes) =
          IF found # {} THEN "SharedDomain" ELSE Answer({e, f}, scopes, Canonical)
    BY <2>2 DEF Independence
  <2>7. Correlation({e}, {f}, Canonical, scopes) =
          IF found # {} THEN "SharedDomain" ELSE Unshared(scopes, Canonical)
    BY <2>3 DEF Correlation
  <2>8. Shared({e, f}) = {} => found = {}
    OBVIOUS
  <2> HIDE DEF scopes
  <2> QED BY <2>4, <2>5, <2>6, <2>7, <2>8 DEF scopes
<1> QED BY <1>1, QueryInvHolds, PTL

(***************************************************************************)
(* Types.                                                                  *)
(***************************************************************************)
Sources == UNION {[S -> 1..MaxGeneration] : S \in SUBSET Key}

Derived == [life : MemberLife, valid : BOOLEAN, rule : Rule, src : Sources]

\* Records of memberships; those that are placed have their domain on record.
Memberships(f, set) == DOMAIN f \subseteq Key /\ \A k \in DOMAIN f : f[k] \in set

Placed(f, l) == \A k \in DOMAIN f : k[1] \in DOMAIN l

RecordsOK(l, di, de) ==
  /\ DOMAIN l \subseteq Domain /\ \A d \in DOMAIN l : l[d] \in DomainLife
  /\ Memberships(di, Direct) /\ Memberships(de, Derived)
  /\ Placed(di, l) /\ Placed(de, l)

RestOK(l, rels, ru, co) ==
  /\ rels \subseteq Relation /\ IsFiniteSet(rels) /\ Cardinality(rels) <= MaxRelations
  /\ \A r \in rels : {r.source, r.target} \subseteq DOMAIN l
  /\ DOMAIN ru \subseteq Rule /\ \A r \in DOMAIN ru : ru[r] \in BOOLEAN
  /\ co \in [DOMAIN co -> CoverageState] /\ DOMAIN co \subseteq Scopes \X Class
  /\ Cardinality(DOMAIN co) <= MaxCoverage

Fits(di, de) ==
  Cardinality(DOMAIN di) + Cardinality(DOMAIN de) > MaxMemberships => "BeyondLimit" \in broken

Here ==
  /\ RecordsOK(life, direct, derived) /\ RestOK(life, relations, rules, coverage)
  /\ Fits(direct, derived) /\ generation \in Nat /\ epoch \in Nat

Saved ==
  /\ RecordsOK(image.Contents.life, image.Contents.direct, image.Contents.derived)
  /\ RestOK(image.Contents.life, image.rest[1], image.rest[2], image.rest[3])
  /\ Fits(image.Contents.direct, image.Contents.derived)
  /\ image.gen \in Nat /\ image.epoch \in Nat

TypeInv == Here /\ Saved

\* There are only so many memberships, and scopes with classes.
LEMMA FiniteKeys ==
  /\ IsFiniteSet(Key) /\ IsFiniteSet(Scopes \X Class)
  /\ \A S \in SUBSET Key : IsFiniteSet(S) /\ Cardinality(S) \in Nat
<1>1. IsFiniteSet(Domain) /\ IsFiniteSet(Class) /\ IsFiniteSet(Entity)
  BY TopologyAssumption
<1>2. IsFiniteSet(Scopes)
  <2> DEFINE f == [d \in Domain |-> ScopeOf[d]]
  <2>1. f \in Surjection(Domain, Scopes)
    BY DEF Surjection, Scopes
  <2> HIDE DEF f
  <2> QED BY <1>1, <2>1, FS_Surjection
<1>3. IsFiniteSet(Key) /\ IsFiniteSet(Scopes \X Class)
  BY <1>1, <1>2, FS_Product DEF Key
<1> QED BY <1>3, FS_Subset, FS_CardinalityType

\* The lifecycles that the tables lead to.
LEMMA Lives ==
  /\ MembershipTransitions \subseteq MemberLife \X MemberLife
  /\ MemberSteps \subseteq MemberLife \X MemberLife
  /\ DomainSteps \subseteq DomainLife \X DomainLife
  /\ {"Current", "Revalidate", "Retired", "Superseded"} \subseteq MemberLife
BY DEF MembershipTransitions, MemberSteps, MemberLife, DomainSteps, DomainTransitions, DomainLife, Terminal

\* A record that moves keeps its type.
LEMMA MovedType ==
  ASSUME NEW l \in MemberLife
  PROVE  /\ \A r \in Direct : Moved(r, l) \in Direct /\ Moved(r, l).life = l
         /\ \A r \in Derived : Moved(r, l) \in Derived /\ Moved(r, l).life = l
                               /\ Moved(r, l) = [r EXCEPT !.life = l]
<1>1. \A g \in 1..MaxGeneration : NextGen(g) \in 1..MaxGeneration
  BY TopologyAssumption DEF NextGen
<1>2. ASSUME NEW r \in Direct
      PROVE  Moved(r, l) \in Direct /\ Moved(r, l).life = l
  <2>1. "gen" \in DOMAIN r /\ r.gen \in 1..MaxGeneration
    BY DEF Direct
  <2> QED BY <1>1, <2>1 DEF Moved, Direct
<1>3. ASSUME NEW r \in Derived
      PROVE  Moved(r, l) \in Derived /\ Moved(r, l).life = l /\ Moved(r, l) = [r EXCEPT !.life = l]
  <2>1. "gen" \notin DOMAIN r
    BY DEF Derived
  <2> QED BY <2>1 DEF Moved, Derived
<1> QED BY <1>2, <1>3

\* The two kinds of membership records.
Kinds == {Direct, Derived}

\* A bulk move keeps the type of the records of either kind.
LEMMA DemotedInType ==
  ASSUME NEW set \in Kinds, NEW f, Memberships(f, set), NEW d, NEW target
  PROVE  Memberships(DemotedIn(f, d, target), set) /\ DOMAIN DemotedIn(f, d, target) = DOMAIN f
<1>1. ASSUME NEW k \in DOMAIN f, <<f[k].life, target>> \in MembershipTransitions
      PROVE  Moved(f[k], target) \in set
  BY <1>1, Lives, MovedType DEF Memberships, Kinds
<1> QED BY <1>1 DEF DemotedIn, Memberships

\* So does a merge, and it adds the survivor's keys.
LEMMA MovedToType ==
  ASSUME NEW set \in Kinds, NEW f, Memberships(f, set), NEW s \in Domain, NEW a \in Domain, s # a,
         NEW moved \in SUBSET Movable(f, a)
  PROVE  /\ Memberships(MovedTo(f, s, a, moved), set)
         /\ DOMAIN MovedTo(f, s, a, moved) = DOMAIN f \cup {s} \X moved
<1> DEFINE g == MovedTo(f, s, a, moved)
<1>1. DOMAIN g = DOMAIN f \cup {s} \X moved
  BY DEF MovedTo
<1>2. \A e \in moved : e \in Entity /\ <<a, e>> \in DOMAIN f
  BY DEF Movable
<1>3. ASSUME NEW k \in DOMAIN g
      PROVE  g[k] \in set
  <2>1. g[k] = IF k[2] \notin moved \/ k[1] \notin {s, a} THEN f[k]
     ELSE IF k[1] = s THEN [f[<<a, k[2]>>] EXCEPT !.life = "Current"]
     ELSE Moved(f[k], "Superseded")
    BY <1>1 DEF MovedTo
  <2>2. CASE k[2] \notin moved \/ k[1] \notin {s, a}
    BY <1>1, <2>1, <2>2 DEF Memberships
  <2>3. CASE k[2] \in moved /\ k[1] = s
    <3>1. f[<<a, k[2]>>] \in set
      BY <1>2, <2>3 DEF Memberships
    <3>2. g[k] = [f[<<a, k[2]>>] EXCEPT !.life = "Current"]
      BY <2>1, <2>3
    <3>3. \A r \in Direct : [r EXCEPT !.life = "Current"] \in Direct
      BY Lives DEF Direct
    <3>4. \A r \in Derived : [r EXCEPT !.life = "Current"] \in Derived
      BY Lives DEF Derived
    <3> HIDE DEF g
    <3> QED BY <3>1, <3>2, <3>3, <3>4 DEF Kinds
  <2>4. CASE k[2] \in moved /\ k[1] = a
    <3>1. k \in DOMAIN f
      BY <1>1, <2>4
    <3> QED BY <2>1, <2>4, <3>1, MovedType, Lives DEF Memberships, Kinds
  <2> QED BY <2>2, <2>3, <2>4
<1> QED BY <1>1, <1>2, <1>3 DEF Memberships, Key

(***************************************************************************)
(* A run of the rules.                                                     *)
(***************************************************************************)
\* What a rule derives are memberships in domains that are current, from
\* sources that are.
LEMMA DerivationsType ==
  ASSUME Memberships(direct, Direct), NEW r, NEW x \in Derivations(r)
  PROVE  /\ x[1] \in Key /\ x[1][1] \in DOMAIN life
         /\ x[2] \subseteq CurrentIn(direct)
<1> DEFINE Given(k) == UNION {Inheritable(r, k[1], g) : g \in Givers(r, k[1], k[2])}
<1>1. PICK k \in CurrentIn(direct) :
        x \in {<<<<t, k[2]>>, {k} \cup {y \in Given(k) : y[1] = t}>> : t \in {y[1] : y \in Given(k)}}
  BY DEF Derivations
<1>2. \A y \in Given(k) : y \in CurrentIn(direct) /\ y[1] \in DOMAIN life
  BY DEF Inheritable, CurrentDomains
<1> HIDE DEF Given
<1>3. PICK y \in Given(k) : x = <<<<y[1], k[2]>>, {k} \cup {z \in Given(k) : z[1] = y[1]}>>
  BY <1>1
<1>4. k \in Key /\ y \in Key
  BY <1>2 DEF CurrentIn, Memberships
<1> QED BY <1>2, <1>3, <1>4 DEF Key

\* Every way to choose sources chooses some the rule has.
LEMMA ChoicesType ==
  ASSUME NEW r, NEW f \in SourceChoices(Derivations(r))
  PROVE  /\ DOMAIN f = Derivable(r)
         /\ \A k \in Derivable(r) : \E x \in Derivations(r) : x[1] = k /\ x[2] = f[k]
<1> DEFINE all == Derivations(r)
           Ways(k) == {x[2] : x \in {y \in all : y[1] = k}}
           ambiguous == {k \in {x[1] : x \in all} : Cardinality(Ways(k)) > 1}
<1>1. PICK g \in [ambiguous -> {x[2] : x \in all}] :
        /\ \A k \in ambiguous : g[k] \in Ways(k)
        /\ f = [k \in {x[1] : x \in all} |-> IF k \in ambiguous THEN g[k]
                                             ELSE CHOOSE S \in Ways(k) : TRUE]
  BY DEF SourceChoices
<1>2. ASSUME NEW k \in {x[1] : x \in all}
      PROVE  f[k] \in Ways(k)
  <2>1. Ways(k) # {}
    OBVIOUS
  <2>2. (CHOOSE S \in Ways(k) : TRUE) \in Ways(k)
    <3> HIDE DEF Ways
    <3> QED BY <2>1
  <2> HIDE DEF Ways, ambiguous
  <2> QED BY <1>1, <2>2
<1> QED BY <1>1, <1>2 DEF Derivable

\* A record the rule computes.
LEMMA ComputedIsGrounded ==
  ASSUME Memberships(direct, Direct), NEW r \in Rule, NEW src \in SUBSET CurrentIn(direct)
  PROVE  /\ Computed(r, src) \in Derived /\ Grounded(Computed(r, src))
         /\ Computed(r, src).rule = r /\ Computed(r, src).life = "Current"
<1>1. src \subseteq DOMAIN direct /\ src \in SUBSET Key
  BY DEF CurrentIn, Memberships
<1>2. \A s \in src : direct[s].gen \in 1..MaxGeneration
  BY <1>1 DEF Memberships, Direct
<1>3. Context(src) \in [src -> 1..MaxGeneration]
  BY <1>2 DEF Context
<1>4. Context(src) \in Sources
  BY <1>1, <1>3 DEF Sources
<1> QED BY <1>4, Lives DEF Computed, Derived, Grounded, Context

\* The records are what a run of the rules 1..n makes of the derived ones.
LostBy(k, on, n) ==
  \E i \in 1..n : /\ Rules[i] = derived[k].rule
                  /\ \A j \in 1..i : Rules[j] \in on => k \notin Derivable(Rules[j])

ClosedBy(r, k, on, n) ==
  /\ r.life \in Terminal /\ k \in DOMAIN derived /\ r.src = derived[k].src
  /\ derived[k].life \in Terminal \/ LostBy(k, on, n)

ComputedBy(r, k, on) ==
  r.life \notin Terminal /\ r.rule \in on /\ k \in Derivable(r.rule) /\ Grounded(r)

Untouched(r, k, on, n) ==
  /\ k \in DOMAIN derived /\ r = derived[k] /\ r.life \notin Terminal
  /\ \A i \in 1..n : Rules[i] \in on => k \notin Derivable(Rules[i]) /\ Rules[i] # r.rule

RunInv(ds, on, n) ==
  /\ DOMAIN derived \subseteq DOMAIN ds /\ Memberships(ds, Derived) /\ Placed(ds, life)
  /\ Room(ds) >= 0 \/ DOMAIN ds = DOMAIN derived
  /\ \A i \in 1..n : Rules[i] \in on => Derivable(Rules[i]) \subseteq DOMAIN ds \/ Room(ds) <= 0
  /\ \A k \in DOMAIN ds :
       ClosedBy(ds[k], k, on, n) \/ ComputedBy(ds[k], k, on) \/ Untouched(ds[k], k, on, n)

\* evaluate_rule, taken apart: the sources it chose and the records it made.
Evaluation(r, ds, after, f, S) ==
  /\ f \in SourceChoices(Derivations(r)) /\ S \in SUBSET (Derivable(r) \ DOMAIN ds)
  /\ DOMAIN after = DOMAIN ds \cup S
  /\ Room(ds) \in Int /\ Room(after) \in Int /\ Room(after) <= Room(ds)
  /\ Room(ds) < 0 => S = {}
  /\ Room(ds) >= 0 => Room(after) >= 0
  /\ S = Derivable(r) \ DOMAIN ds \/ Room(after) <= 0
  /\ \A k \in S : after[k] = Computed(r, f[k])
  /\ \A k \in DOMAIN ds : after[k] = Updated(r, ds[k], k \in Derivable(r), f[k])

\* As many new records are admitted as there is room for.
LEMMA AdmittedType ==
  ASSUME NEW new, IsFiniteSet(new), NEW room \in Int, NEW S \in Admitted(new, room)
  PROVE  /\ S \in SUBSET new /\ IsFiniteSet(S) /\ Cardinality(S) \in Nat
         /\ room < 0 => S = {}
         /\ room >= 0 => Cardinality(S) <= room
         /\ S = new \/ room - Cardinality(S) <= 0
<1>1. S \in SUBSET new
  BY DEF Admitted
<1>2. /\ IsFiniteSet(S) /\ Cardinality(S) \in Nat /\ Cardinality(new) \in Nat
      /\ Cardinality(S) = 0 => S = {}
  BY <1>1, FS_Subset, FS_CardinalityType, FS_EmptySet
<1>3. CASE Cardinality(new) <= room
  BY <1>2, <1>3 DEF Admitted
<1>4. CASE ~ (Cardinality(new) <= room)
  <2>1. Cardinality(S) = IF room < 0 THEN 0 ELSE room
    BY <1>4 DEF Admitted
  <2> QED BY <1>1, <1>2, <2>1
<1> QED BY <1>3, <1>4

\* What evaluate_rule leaves, taken apart.
LEMMA EvaluatedParts ==
  ASSUME RecordsOK(life, direct, derived), NEW r, NEW ds, Memberships(ds, Derived),
         NEW after \in Evaluated(r, ds)
  PROVE  \E f, S : Evaluation(r, ds, after, f, S)
<1> DEFINE new == Derivable(r) \ DOMAIN ds
<1>1. PICK f \in SourceChoices(Derivations(r)), S \in Admitted(new, Room(ds)) :
        after = Made(r, ds, f, S)
  BY DEF Evaluated
<1>2. Derivable(r) \subseteq Key
  <2> SUFFICES ASSUME NEW x \in Derivations(r) PROVE x[1] \in Key
    BY DEF Derivable
  <2> QED BY DerivationsType DEF RecordsOK
<1>3. /\ IsFiniteSet(new) /\ IsFiniteSet(DOMAIN ds)
      /\ Cardinality(DOMAIN ds) \in Nat /\ Cardinality(DOMAIN direct) \in Nat
  BY <1>2, FiniteKeys DEF Memberships, RecordsOK
<1>4. Room(ds) \in Int
  BY <1>3, TopologyAssumption DEF Room
<1>5. /\ S \in SUBSET new /\ IsFiniteSet(S) /\ Cardinality(S) \in Nat
      /\ Room(ds) < 0 => S = {}
      /\ Room(ds) >= 0 => Cardinality(S) <= Room(ds)
      /\ S = new \/ Room(ds) - Cardinality(S) <= 0
  BY <1>1, <1>3, <1>4, AdmittedType
<1>6. DOMAIN after = DOMAIN ds \cup S
  BY <1>1 DEF Made
<1>7. Cardinality(DOMAIN ds \cup S) = Cardinality(DOMAIN ds) + Cardinality(S)
  <2>1. DOMAIN ds \cap S = {}
    BY <1>5
  <2>2. Cardinality(DOMAIN ds \cap S) = 0
    BY <2>1, FS_EmptySet
  <2>3. Cardinality(DOMAIN ds \cup S)
          = Cardinality(DOMAIN ds) + Cardinality(S) - Cardinality(DOMAIN ds \cap S)
    BY <1>3, <1>5, FS_Union
  <2> QED BY <1>3, <1>5, <2>2, <2>3
<1>8. Room(after) = Room(ds) - Cardinality(S)
  BY <1>3, <1>5, <1>6, <1>7, TopologyAssumption DEF Room
<1>9. \A k \in S : after[k] = Computed(r, f[k])
  BY <1>1, <1>5 DEF Made
<1>10. \A k \in DOMAIN ds : after[k] = Updated(r, ds[k], k \in Derivable(r), f[k])
  BY <1>1 DEF Made
<1>11. /\ Room(after) \in Int /\ Room(after) <= Room(ds)
       /\ Room(ds) >= 0 => Room(after) >= 0
       /\ S = new \/ Room(after) <= 0
  BY <1>4, <1>5, <1>8
<1>12. Evaluation(r, ds, after, f, S)
  BY <1>4, <1>5, <1>6, <1>9, <1>10, <1>11 DEF Evaluation
<1> QED BY <1>12

\* One rule more.
LEMMA RuleKeepsRunInv ==
  ASSUME RecordsOK(life, direct, derived), NEW on \in SUBSET Rule, NEW n \in Nat,
         Rules[n + 1] \in on, NEW ds, RunInv(ds, on, n),
         NEW after \in Evaluated(Rules[n + 1], ds)
  PROVE  RunInv(after, on, n + 1)
<1> DEFINE r == Rules[n + 1]
<1>1. PICK f, S : Evaluation(r, ds, after, f, S)
  BY EvaluatedParts DEF RunInv
<1>2. r \in on /\ r \in Rule /\ Memberships(direct, Direct)
  BY DEF RecordsOK
<1> HIDE DEF r
<1>3. ASSUME NEW k \in Derivable(r)
      PROVE  /\ k \in Key /\ k[1] \in DOMAIN life
             /\ Computed(r, f[k]) \in Derived /\ Grounded(Computed(r, f[k]))
             /\ Computed(r, f[k]).rule = r /\ Computed(r, f[k]).life = "Current"
             /\ f[k] \in SUBSET CurrentIn(direct)
  <2>1. PICK x \in Derivations(r) : x[1] = k /\ x[2] = f[k]
    BY <1>1, <1>3, ChoicesType DEF Evaluation
  <2>2. k \in Key /\ k[1] \in DOMAIN life /\ f[k] \in SUBSET CurrentIn(direct)
    BY <1>2, <2>1, DerivationsType
  <2> QED BY <1>2, <2>2, ComputedIsGrounded
<1>4. "Current" \notin Terminal /\ "Retired" \in Terminal
  BY DEF Terminal
<1>5. ASSUME NEW k \in Derivable(r)
      PROVE  ComputedBy(Computed(r, f[k]), k, on)
  BY <1>2, <1>3, <1>4, <1>5 DEF ComputedBy
<1>6. ASSUME NEW k \in S
      PROVE  /\ k \in Key /\ k[1] \in DOMAIN life /\ after[k] \in Derived
             /\ ComputedBy(after[k], k, on)
  <2>1. k \in Derivable(r) /\ after[k] = Computed(r, f[k])
    BY <1>1 DEF Evaluation
  <2> QED BY <1>3, <1>5, <2>1
<1>7. \A i \in 1..n + 1 : i = n + 1 \/ i \in 1..n
  OBVIOUS
<1>8. ASSUME NEW k \in DOMAIN ds
      PROVE  /\ after[k] \in Derived
             /\ ClosedBy(after[k], k, on, n + 1) \/ ComputedBy(after[k], k, on)
                  \/ Untouched(after[k], k, on, n + 1)
  <2> DEFINE old == ds[k]
  <2>1. old \in Derived /\ after[k] = Updated(r, old, k \in Derivable(r), f[k])
    BY <1>1 DEF RunInv, Memberships, Evaluation
  <2>2. [old EXCEPT !.life = "Retired", !.valid = FALSE] \in Derived
        /\ [old EXCEPT !.life = "Retired", !.valid = FALSE].life = "Retired"
        /\ [old EXCEPT !.life = "Retired", !.valid = FALSE].src = old.src
    BY <2>1, Lives DEF Derived
  <2>3. ClosedBy(old, k, on, n) \/ ComputedBy(old, k, on) \/ Untouched(old, k, on, n)
    BY DEF RunInv
  <2> HIDE DEF old
  <2>4. CASE ClosedBy(old, k, on, n)
    <3>1. after[k] = old
      BY <2>1, <2>4 DEF Updated, ClosedBy
    <3>2. ClosedBy(old, k, on, n + 1)
      <4>1. LostBy(k, on, n) => LostBy(k, on, n + 1)
        BY DEF LostBy
      <4> QED BY <2>4, <4>1 DEF ClosedBy
    <3> QED BY <2>1, <3>1, <3>2
  <2>5. CASE k \in Derivable(r) /\ old.life \notin Terminal
    <3>1. CASE Fresh(old, r, f[k])
      <4>1. after[k] = old
        BY <2>1, <2>5, <3>1 DEF Updated
      <4>2. Grounded(old)
        BY <1>3, <2>5, <3>1 DEF Fresh, Grounded, Context
      <4> QED BY <1>2, <2>1, <2>5, <3>1, <4>1, <4>2 DEF ComputedBy, Fresh
    <3>2. CASE ~Fresh(old, r, f[k])
      <4>1. after[k] = Computed(r, f[k])
        BY <2>1, <2>5, <3>2 DEF Updated
      <4> QED BY <1>3, <1>5, <2>5, <4>1
    <3> QED BY <3>1, <3>2
  <2>6. CASE k \notin Derivable(r) /\ ComputedBy(old, k, on)
    <3>1. after[k] = old
      BY <2>1, <2>6 DEF Updated, ComputedBy
    <3> QED BY <2>1, <2>6, <3>1
  <2>7. CASE k \notin Derivable(r) /\ Untouched(old, k, on, n)
    <3>1. k \in DOMAIN derived /\ old = derived[k] /\ old.life \notin Terminal
          /\ \A i \in 1..n : Rules[i] \in on => k \notin Derivable(Rules[i]) /\ Rules[i] # old.rule
      BY <2>7 DEF Untouched
    <3>2. CASE old.rule = r
      <4>1. after[k] = [old EXCEPT !.life = "Retired", !.valid = FALSE]
        BY <2>1, <2>7, <3>1, <3>2 DEF Updated
      <4>2. LostBy(k, on, n + 1)
        <5>1. n + 1 \in 1..n + 1
          OBVIOUS
        <5>2. Rules[n + 1] = derived[k].rule
          BY <3>1, <3>2 DEF r
        <5>3. \A j \in 1..n + 1 : Rules[j] \in on => k \notin Derivable(Rules[j])
          BY <1>7, <2>7, <3>1 DEF r
        <5> QED BY <5>1, <5>2, <5>3 DEF LostBy
      <4> QED BY <1>4, <2>2, <3>1, <4>1, <4>2 DEF ClosedBy
    <3>3. CASE old.rule # r
      <4>1. after[k] = old
        BY <2>1, <2>7, <3>3 DEF Updated
      <4>2. \A i \in 1..n + 1 : Rules[i] \in on => k \notin Derivable(Rules[i]) /\ Rules[i] # old.rule
        BY <1>7, <2>7, <3>1, <3>3 DEF r
      <4> QED BY <2>1, <3>1, <4>1, <4>2 DEF Untouched
    <3> QED BY <3>2, <3>3
  <2> QED BY <2>3, <2>4, <2>5, <2>6, <2>7 DEF Untouched, ComputedBy
<1>9. DOMAIN after = DOMAIN ds \cup S
  BY <1>1 DEF Evaluation
<1>10. DOMAIN derived \subseteq DOMAIN after /\ Memberships(after, Derived) /\ Placed(after, life)
  BY <1>6, <1>8, <1>9 DEF RunInv, Memberships, Placed
<1>11. Room(after) >= 0 \/ DOMAIN after = DOMAIN derived
  BY <1>1, <1>9 DEF RunInv, Evaluation
<1>12. ASSUME NEW i \in 1..n + 1, Rules[i] \in on
       PROVE  Derivable(Rules[i]) \subseteq DOMAIN after \/ Room(after) <= 0
  <2>1. CASE i = n + 1
    <3>1. S = Derivable(r) \ DOMAIN ds \/ Room(after) <= 0
      BY <1>1 DEF Evaluation
    <3> QED BY <1>9, <2>1, <3>1 DEF r
  <2>2. CASE i \in 1..n
    <3>1. Derivable(Rules[i]) \subseteq DOMAIN ds \/ Room(ds) <= 0
      BY <1>12, <2>2 DEF RunInv
    <3>2. Room(ds) \in Int /\ Room(after) \in Int /\ Room(after) <= Room(ds)
      BY <1>1 DEF Evaluation
    <3> QED BY <1>9, <3>1, <3>2
  <2> QED BY <1>7, <2>1, <2>2
<1>13. \A k \in DOMAIN after :
         ClosedBy(after[k], k, on, n + 1) \/ ComputedBy(after[k], k, on)
           \/ Untouched(after[k], k, on, n + 1)
  BY <1>6, <1>8, <1>9
<1> QED BY <1>10, <1>11, <1>12, <1>13 DEF RunInv

\* The results of the first rules are well defined, and a run is the last of
\* them.
LEMMA PassLevels ==
  ASSUME NEW on
  PROVE  \E f : /\ f[0] = {derived}
                /\ \A n \in 0..Len(Rules) - 1 :
                     f[n + 1] = IF Rules[n + 1] \in on
                                THEN UNION {Evaluated(Rules[n + 1], ds) : ds \in f[n]} ELSE f[n]
                /\ Pass(on) = f[Len(Rules)]
<1> DEFINE most == Len(Rules)
           Step(n, f) == IF n = 0 THEN {derived}
             ELSE IF Rules[n] \in on THEN UNION {Evaluated(Rules[n], ds) : ds \in f[n - 1]}
             ELSE f[n - 1]
           Upto(k, f) == f = [n \in 0..k |-> Step(n, f)]
           Good == {k \in Nat : \E f : Upto(k, f)}
<1>1. most \in Nat
  BY TopologyAssumption
<1>2. 0 \in Good
  <2>1. Upto(0, [n \in 0..0 |-> {derived}])
    OBVIOUS
  <2> QED BY <2>1
<1>3. ASSUME NEW k \in Nat, k \in Good
      PROVE  k + 1 \in Good
  <2>1. PICK f : Upto(k, f)
    BY <1>3
  <2> DEFINE g == [n \in 0..k + 1 |-> IF n = k + 1 THEN Step(k + 1, f) ELSE f[n]]
  <2>2. \A n \in 0..k : f[n] = Step(n, f)
    <3> HIDE DEF Step
    <3> QED BY <2>1
  <2>3. ASSUME NEW n \in 0..k + 1
        PROVE  g[n] = Step(n, g)
    <3>1. n = 0 \/ (n - 1 \in 0..k /\ g[n - 1] = f[n - 1])
      OBVIOUS
    <3>2. Step(n, g) = Step(n, f)
      <4> HIDE DEF g
      <4> QED BY <3>1
    <3>3. n = k + 1 \/ n \in 0..k
      OBVIOUS
    <3> HIDE DEF Step
    <3> QED BY <2>2, <3>2, <3>3
  <2>4. g = [n \in 0..k + 1 |-> g[n]]
    OBVIOUS
  <2>5. Upto(k + 1, g)
    <3> HIDE DEF g, Step
    <3> QED BY <2>3, <2>4
  <2> HIDE DEF Upto
  <2> QED BY <2>5
<1> DEFINE results == CHOOSE f : Upto(most, f)
<1>4. Upto(most, results)
  <2>1. most \in Good
    <3> HIDE DEF Good, most
    <3>1. most \in 0..most
      BY <1>1
    <3> QED BY <1>1, <1>2, <1>3, <3>1, Induction
  <2> HIDE DEF Upto
  <2> QED BY <2>1
<1>5. Pass(on) = results[most]
  BY DEF Pass
<1> HIDE DEF most
<1>6. \A n \in 0..most : results[n] = Step(n, results)
  <2> HIDE DEF results, Step
  <2> QED BY <1>4
<1>7. results[0] = {derived}
  <2>1. results[0] = Step(0, results)
    <3> HIDE DEF results, Step
    <3> QED BY <1>6, <1>1
  <2> HIDE DEF results
  <2> QED BY <2>1
<1>8. ASSUME NEW n \in 0..most - 1
      PROVE  results[n + 1] = IF Rules[n + 1] \in on
               THEN UNION {Evaluated(Rules[n + 1], ds) : ds \in results[n]} ELSE results[n]
  <2>1. n + 1 # 0 /\ n + 1 \in 0..most /\ (n + 1) - 1 = n
    BY <1>1
  <2>2. results[n + 1] = Step(n + 1, results)
    <3> HIDE DEF results, Step
    <3> QED BY <2>1, <1>6
  <2> HIDE DEF results
  <2> QED BY <2>1, <2>2
<1> HIDE DEF results
<1> QED BY <1>5, <1>7, <1>8 DEF most

\* A rule that is not asked.
LEMMA SkippedKeepsRunInv ==
  ASSUME NEW on, NEW n \in Nat, Rules[n + 1] \notin on, NEW ds, RunInv(ds, on, n)
  PROVE  RunInv(ds, on, n + 1)
<1>1. \A i \in 1..n + 1 : i = n + 1 \/ i \in 1..n
  OBVIOUS
<1>2. \A i \in 1..n + 1 : Rules[i] \in on => i \in 1..n
  BY <1>1
<1>3. \A k : LostBy(k, on, n) => LostBy(k, on, n + 1)
  BY DEF LostBy
<1>4. ASSUME NEW k \in DOMAIN ds
      PROVE  ClosedBy(ds[k], k, on, n + 1) \/ ComputedBy(ds[k], k, on)
               \/ Untouched(ds[k], k, on, n + 1)
  <2>1. ClosedBy(ds[k], k, on, n) => ClosedBy(ds[k], k, on, n + 1)
    BY <1>3 DEF ClosedBy
  <2>2. Untouched(ds[k], k, on, n) => Untouched(ds[k], k, on, n + 1)
    BY <1>2 DEF Untouched
  <2> QED BY <2>1, <2>2 DEF RunInv
<1> QED BY <1>2, <1>4 DEF RunInv

\* Whatever a run leaves is what the rules make of the derived records.
LEMMA RunInvHolds ==
  ASSUME RecordsOK(life, direct, derived), NEW on \in SUBSET Rule, NEW ds \in Pass(on)
  PROVE  RunInv(ds, on, Len(Rules))
<1>1. PICK f : /\ f[0] = {derived}
               /\ \A n \in 0..Len(Rules) - 1 :
                    f[n + 1] = IF Rules[n + 1] \in on
                               THEN UNION {Evaluated(Rules[n + 1], x) : x \in f[n]} ELSE f[n]
               /\ Pass(on) = f[Len(Rules)]
  BY PassLevels
<1> DEFINE Good == {n \in Nat : \A x \in f[n] : RunInv(x, on, n)}
<1>2. Len(Rules) \in Nat
  BY TopologyAssumption
<1>3. 0 \in Good
  <2>1. RunInv(derived, on, 0)
    <3>1. 1..0 = {}
      OBVIOUS
    <3>2. \A k \in DOMAIN derived : ClosedBy(derived[k], k, on, 0) \/ Untouched(derived[k], k, on, 0)
      BY <3>1 DEF ClosedBy, Untouched
    <3> QED BY <3>1, <3>2 DEF RunInv, RecordsOK
  <2> QED BY <1>1, <2>1
<1>4. ASSUME NEW n \in Nat, n < Len(Rules), n \in Good
      PROVE  n + 1 \in Good
  <2>1. n \in 0..Len(Rules) - 1
    BY <1>2, <1>4
  <2>2. ASSUME NEW x \in f[n + 1]
        PROVE  RunInv(x, on, n + 1)
    <3>1. CASE Rules[n + 1] \in on
      <4>1. f[n + 1] = UNION {Evaluated(Rules[n + 1], y) : y \in f[n]}
        BY <1>1, <2>1, <3>1
      <4>2. PICK y \in f[n] : x \in Evaluated(Rules[n + 1], y)
        BY <2>2, <4>1
      <4>3. RunInv(y, on, n)
        BY <1>4
      <4> QED BY <3>1, <4>2, <4>3, RuleKeepsRunInv
    <3>2. CASE Rules[n + 1] \notin on
      <4>1. f[n + 1] = f[n]
        BY <1>1, <2>1, <3>2
      <4>2. RunInv(x, on, n)
        BY <1>4, <2>2, <4>1
      <4> QED BY <3>2, <4>2, SkippedKeepsRunInv
    <3> QED BY <3>1, <3>2
  <2> QED BY <2>2
<1>5. Len(Rules) \in 0..Len(Rules)
  BY <1>2
<1>6. Len(Rules) \in Good
  <2> HIDE DEF Good
  <2> QED BY <1>2, <1>3, <1>4, <1>5, Induction
<1> QED BY <1>1, <1>6

\* Every rule has its turn.
LEMMA RulesHaveTurns ==
  \A r \in Rule : \E i \in 1..Len(Rules) : Rules[i] = r
BY TopologyAssumption DEF Rule, ToSet

\* A run that a state of the right type allows is exact.
LEMMA RunsAreExactHere ==
  ASSUME RecordsOK(life, direct, derived)
  PROVE  RunIsExact
<1> DEFINE on     == {r \in Rule : Enabled(r)}
           wanted == UNION {Derivable(r) : r \in on}
<1>1. on \in SUBSET Rule
  OBVIOUS
<1> SUFFICES ASSUME on # {}, NEW ds \in Pass(on)
             PROVE  LET results == {k \in DOMAIN ds : ds[k].life \notin Terminal /\ ds[k].rule \in on}
          IN  /\ \A k \in results : k \in wanted /\ Grounded(ds[k])
              /\ wanted \ DOMAIN ds # {} => Room(ds) <= 0
              /\ \A k \in (wanted \cap DOMAIN ds) \ results :
                   /\ k \in DOMAIN derived /\ ds[k].life \in Terminal
                   /\ derived[k].life \in Terminal \/ LostFirst(k, on)
  BY DEF RunIsExact
<1>2. RunInv(ds, on, Len(Rules))
  <2> HIDE DEF on
  <2> QED BY <1>1, RunInvHolds
<1> HIDE DEF on
<1>3. \A r \in on : \E i \in 1..Len(Rules) : Rules[i] = r
  BY <1>1, RulesHaveTurns
<1>4. ASSUME NEW k \in DOMAIN ds, Untouched(ds[k], k, on, Len(Rules))
      PROVE  ds[k].rule \notin on /\ k \notin wanted
  BY <1>3, <1>4 DEF Untouched
<1>5. ASSUME NEW k \in DOMAIN ds, ClosedBy(ds[k], k, on, Len(Rules))
      PROVE  /\ k \in DOMAIN derived /\ ds[k].life \in Terminal
             /\ derived[k].life \in Terminal \/ LostFirst(k, on)
  BY <1>5 DEF ClosedBy, LostBy, LostFirst
<1>6. ASSUME NEW k \in DOMAIN ds, ComputedBy(ds[k], k, on)
      PROVE  k \in wanted /\ Grounded(ds[k]) /\ ds[k].life \notin Terminal /\ ds[k].rule \in on
  BY <1>6 DEF ComputedBy
<1>7. wanted \ DOMAIN ds # {} => Room(ds) <= 0
  <2> SUFFICES ASSUME NEW r \in on, NEW k \in Derivable(r), k \notin DOMAIN ds
               PROVE  Room(ds) <= 0
    OBVIOUS
  <2> QED BY <1>2, <1>3 DEF RunInv
<1> HIDE DEF wanted
<1>8. \A k \in DOMAIN ds : \/ ClosedBy(ds[k], k, on, Len(Rules)) \/ ComputedBy(ds[k], k, on)
                           \/ Untouched(ds[k], k, on, Len(Rules))
  BY <1>2 DEF RunInv
<1> QED BY <1>4, <1>5, <1>6, <1>7, <1>8

(***************************************************************************)
(* Every step keeps the types.                                             *)
(***************************************************************************)
\* What is in a registry that has more domains.
LEMMA MoreDomains ==
  ASSUME NEW l, NEW m, DOMAIN l \subseteq DOMAIN m
  PROVE  /\ \A f : Placed(f, l) => Placed(f, m)
         /\ \A rels, ru, co : RestOK(l, rels, ru, co) => RestOK(m, rels, ru, co)
BY DEF Placed, RestOK

\* declare_domain adds a domain; what is on record stays placed.
LEMMA DeclareDomainTyped ==
  ASSUME Here, NEW d \in Domain, NEW l \in DomainLife, DeclareDomain(d, l), UNCHANGED snapshots
  PROVE  Here'
<1>1. /\ life' = Put(life, d, l) /\ generation' = generation + 1 /\ epoch' = epoch
      /\ UNCHANGED <<direct, derived, relations, rules, coverage, broken>>
  BY DEF DeclareDomain, Bump, snapshots
<1>2. DOMAIN life \subseteq DOMAIN life' /\ DOMAIN life' \subseteq Domain
      /\ \A x \in DOMAIN life' : life'[x] \in DomainLife
  BY <1>1 DEF Put, Here, RecordsOK
<1>3. RecordsOK(life', direct', derived')
  BY <1>1, <1>2, MoreDomains DEF Here, RecordsOK
<1>4. RestOK(life', relations', rules', coverage')
  BY <1>1, <1>2, MoreDomains DEF Here
<1> QED BY <1>1, <1>3, <1>4 DEF Here, Fits

\* A domain that changes takes its memberships along, and removes none.
LEMMA ChangeDomainTyped ==
  ASSUME Here, NEW d \in Domain, NEW l \in DomainLife, NEW target, ChangeDomain(d, l, target),
         UNCHANGED snapshots
  PROVE  Here'
<1>1. /\ life' = [life EXCEPT ![d] = l] /\ generation' = generation + 1 /\ epoch' = epoch
      /\ direct' = DemotedIn(direct, d, target) /\ derived' = DemotedIn(derived, d, target)
      /\ UNCHANGED <<relations, rules, coverage, broken>>
  BY DEF ChangeDomain, Bump, snapshots
<1>2. /\ Memberships(direct', Direct) /\ DOMAIN direct' = DOMAIN direct
      /\ Memberships(derived', Derived) /\ DOMAIN derived' = DOMAIN derived
  BY <1>1, DemotedInType DEF Here, RecordsOK, Kinds
<1>3. DOMAIN life' = DOMAIN life /\ \A x \in DOMAIN life' : life'[x] \in DomainLife
  BY <1>1 DEF Here, RecordsOK
<1>4. RecordsOK(life', direct', derived')
  BY <1>2, <1>3 DEF Here, RecordsOK, Placed
<1>5. RestOK(life', relations', rules', coverage')
  BY <1>1, <1>3, MoreDomains DEF Here
<1> QED BY <1>1, <1>2, <1>4, <1>5 DEF Here, Fits

\* A new membership is placed in a domain there is, and needs room.
LEMMA AttachDirectTyped ==
  ASSUME Here, NEW k \in Key, AttachDirect(k), UNCHANGED snapshots
  PROVE  Here'
<1> DEFINE r == [life |-> "Current", gen |-> 1]
<1>1. /\ direct' = Put(direct, k, r) /\ generation' = generation + 1 /\ epoch' = epoch
      /\ k \notin DOMAIN direct /\ Room(derived) > 0 /\ k[1] \in DOMAIN life
      /\ UNCHANGED <<life, derived, relations, rules, coverage, broken>>
  BY DEF AttachDirect, Bump, snapshots
<1>2. r \in Direct
  BY Lives, TopologyAssumption DEF Direct
<1> HIDE DEF r
<1>3. DOMAIN direct' = DOMAIN direct \cup {k}
  BY <1>1 DEF Put
<1>4. Memberships(direct', Direct) /\ Placed(direct', life')
  BY <1>1, <1>2 DEF Put, Here, RecordsOK, Memberships, Placed
<1>5. Cardinality(DOMAIN direct') + Cardinality(DOMAIN derived') <= MaxMemberships
  <2>1. /\ IsFiniteSet(DOMAIN direct) /\ Cardinality(DOMAIN direct) \in Nat
        /\ Cardinality(DOMAIN derived) \in Nat
    BY FiniteKeys DEF Here, RecordsOK, Memberships
  <2>2. Cardinality(DOMAIN direct') = Cardinality(DOMAIN direct) + 1
    BY <1>1, <1>3, <2>1, FS_AddElement
  <2>3. MaxMemberships - Cardinality(DOMAIN direct) - Cardinality(DOMAIN derived) > 0
    BY <1>1 DEF Room
  <2> QED BY <1>1, <2>1, <2>2, <2>3, TopologyAssumption
<1>6. Cardinality(DOMAIN direct') \in Nat /\ Cardinality(DOMAIN derived') \in Nat
  BY <1>1, <1>4, FiniteKeys DEF Here, RecordsOK, Memberships
<1>7. Fits(direct, derived)'
  BY <1>5, <1>6, TopologyAssumption DEF Fits
<1> QED BY <1>1, <1>4, <1>7 DEF Here, RecordsOK, Fits

\* A membership that changes stays one.
LEMMA ChangeDirectTyped ==
  ASSUME Here, NEW k, NEW l, ChangeDirect(k, l), UNCHANGED snapshots
  PROVE  Here'
<1>1. /\ k \in DOMAIN direct /\ <<direct[k].life, l>> \in MemberSteps
      /\ direct' = [direct EXCEPT ![k] = Moved(direct[k], l)]
      /\ generation' = generation + 1 /\ epoch' = epoch
      /\ UNCHANGED <<life, derived, relations, rules, coverage, broken>>
  BY DEF ChangeDirect, Bump, snapshots
<1>2. Moved(direct[k], l) \in Direct
  BY <1>1, Lives, MovedType DEF Here, RecordsOK, Memberships
<1>3. DOMAIN direct' = DOMAIN direct /\ Memberships(direct', Direct)
  BY <1>1, <1>2 DEF Here, RecordsOK, Memberships
<1> QED BY <1>1, <1>3 DEF Here, RecordsOK, Placed, Fits

\* Steps that change derived records of the domains there are.
LEMMA DerivedTyped ==
  ASSUME Here, Memberships(derived', Derived), DOMAIN derived' = DOMAIN derived,
         generation' = generation + 1, UNCHANGED <<life, direct, relations, rules, coverage>>,
         UNCHANGED snapshots
  PROVE  Here'
BY DEF Here, RecordsOK, Placed, Fits, snapshots

\* detach_member, mark_revalidation_required and reconcile_membership.
LEMMA MemberStepsTyped ==
  ASSUME Here, NEW k, Detach(k) \/ Mark(k) \/ Reconcile(k), UNCHANGED snapshots
  PROVE  Here'
<1>1. PICK l \in MemberLife : /\ k \in DOMAIN derived
                              /\ derived' = [derived EXCEPT ![k].life = l]
  BY Lives DEF Detach, Mark, Reconcile, CurrentIn
<1>2. \A r \in Derived : [r EXCEPT !.life = l] \in Derived
  BY DEF Derived
<1>3. Memberships(derived', Derived) /\ DOMAIN derived' = DOMAIN derived
  BY <1>1, <1>2 DEF Here, RecordsOK, Memberships
<1> QED BY <1>3, DerivedTyped DEF Detach, Mark, Reconcile, Bump

\* What is invalidated keeps its type.
LEMMA InvalidatedType ==
  ASSUME NEW ds, Memberships(ds, Derived), NEW affected
  PROVE  Memberships(Invalidated(ds, affected), Derived)
         /\ DOMAIN Invalidated(ds, affected) = DOMAIN ds
<1>1. \A r \in Derived : [r EXCEPT !.life = "Revalidate", !.valid = FALSE] \in Derived
  BY Lives DEF Derived
<1> QED BY <1>1 DEF Invalidated, Memberships

\* invalidate_entity and notify_topology_change.
LEMMA ChangesTyped ==
  ASSUME Here, UNCHANGED snapshots, NEW e, NEW affected,
         InvalidateEntity(e) \/ NotifyTopologyChange(affected)
  PROVE  Here'
<1>1. CASE NotifyTopologyChange(affected)
  <2>1. Memberships(derived', Derived) /\ DOMAIN derived' = DOMAIN derived
    BY <1>1, InvalidatedType DEF NotifyTopologyChange, Here, RecordsOK
  <2> QED BY <1>1, <2>1, DerivedTyped DEF NotifyTopologyChange, Bump
<1>2. CASE InvalidateEntity(e)
  <2> DEFINE hit(k, r) == k[2] = e /\ <<r.life, "Revalidate">> \in MembershipTransitions
             demoted   == [k \in DOMAIN derived |->
                             IF hit(k, derived[k])
                             THEN [derived[k] EXCEPT !.life = "Revalidate", !.valid = FALSE]
                             ELSE derived[k]]
  <2>1. /\ derived' = Invalidated(demoted, {e})
        /\ direct' = [k \in DOMAIN direct |->
                        IF hit(k, direct[k]) THEN Moved(direct[k], "Revalidate") ELSE direct[k]]
        /\ generation' = generation + 1
        /\ UNCHANGED <<life, relations, rules, coverage>>
    BY <1>2 DEF InvalidateEntity, Bump
  <2>2. \A r \in Derived : [r EXCEPT !.life = "Revalidate", !.valid = FALSE] \in Derived
    BY Lives DEF Derived
  <2>3. Memberships(demoted, Derived) /\ DOMAIN demoted = DOMAIN derived
    BY <2>2 DEF Here, RecordsOK, Memberships
  <2>4. Memberships(direct', Direct) /\ DOMAIN direct' = DOMAIN direct
    BY <2>1, MovedType, Lives DEF Here, RecordsOK, Memberships
  <2> HIDE DEF demoted
  <2>5. Memberships(derived', Derived) /\ DOMAIN derived' = DOMAIN derived
    BY <2>1, <2>3, InvalidatedType
  <2>6. RecordsOK(life, direct, derived)'
    BY <2>1, <2>4, <2>5 DEF Here, RecordsOK, Placed
  <2>7. Fits(direct, derived)' /\ RestOK(life, relations, rules, coverage)'
    BY <2>1, <2>4, <2>5 DEF Here, Fits, RestOK, snapshots
  <2> QED BY <2>1, <2>6, <2>7 DEF Here, snapshots
<1> QED BY <1>1, <1>2

\* run_derivation fits: what it adds has room.
LEMMA RunDerivationTyped ==
  ASSUME Here, NEW selected \in SUBSET Rule, RunDerivation(selected), UNCHANGED snapshots
  PROVE  Here'
<1>1. /\ derived' \in Pass({r \in selected : Enabled(r)})
      /\ generation' \in {generation, generation + 1} /\ epoch' = epoch
      /\ UNCHANGED <<life, direct, relations, rules, coverage, broken>>
  BY DEF RunDerivation, snapshots
<1>2. PICK ds, on : on \in SUBSET Rule /\ ds \in Pass(on) /\ ds = derived'
  BY <1>1
<1>3. RunInv(ds, on, Len(Rules))
  BY <1>2, RunInvHolds DEF Here
<1>4. /\ Memberships(ds, Derived) /\ Placed(ds, life)
      /\ Room(ds) >= 0 \/ DOMAIN ds = DOMAIN derived
  BY <1>3 DEF RunInv
<1>5. Fits(direct, ds)
  <2>1. Cardinality(DOMAIN direct) \in Nat /\ Cardinality(DOMAIN ds) \in Nat
    BY <1>4, FiniteKeys DEF Here, RecordsOK, Memberships
  <2>2. CASE Room(ds) >= 0
    <3>1. MaxMemberships - Cardinality(DOMAIN direct) - Cardinality(DOMAIN ds) >= 0
      BY <2>2 DEF Room
    <3>2. ~ (Cardinality(DOMAIN direct) + Cardinality(DOMAIN ds) > MaxMemberships)
      BY <2>1, <3>1, TopologyAssumption
    <3> QED BY <3>2 DEF Fits
  <2>3. CASE DOMAIN ds = DOMAIN derived
    BY <2>3 DEF Fits, Here
  <2> QED BY <1>4, <2>2, <2>3
<1> QED BY <1>1, <1>2, <1>4, <1>5 DEF Here, RecordsOK, Fits

\* add_relation adds one below the limit.
LEMMA AddRelationTyped ==
  ASSUME Here, NEW type \in RelationType, NEW s \in Domain, NEW t \in Domain,
         AddRelation(type, s, t), UNCHANGED snapshots
  PROVE  Here'
<1> DEFINE r == [type |-> type, source |-> s, target |-> t]
<1>1. /\ relations' = relations \cup {r} /\ generation' = generation + 1 /\ epoch' = epoch
      /\ {s, t} \subseteq DOMAIN life /\ Cardinality(relations) < MaxRelations
      /\ UNCHANGED <<life, direct, derived, rules, coverage, broken>>
  BY DEF AddRelation, Bump, snapshots
<1>2. r \in Relation /\ r.source = s /\ r.target = t
  BY DEF Relation
<1> HIDE DEF r
<1>3. IsFiniteSet(relations') /\ Cardinality(relations') <= MaxRelations
  <2>1. IsFiniteSet(relations) /\ Cardinality(relations) \in Nat
    BY FS_CardinalityType DEF Here, RestOK
  <2>2. /\ IsFiniteSet(relations')
        /\ Cardinality(relations') = Cardinality(relations)
             \/ Cardinality(relations') = Cardinality(relations) + 1
    BY <1>1, <2>1, FS_AddElement
  <2> QED BY <1>1, <2>1, <2>2, TopologyAssumption
<1>4. RestOK(life', relations', rules', coverage')
  BY <1>1, <1>2, <1>3 DEF Here, RestOK
<1> QED BY <1>1, <1>4 DEF Here, Fits

\* publish_derivation_rule.
LEMMA PublishRuleTyped ==
  ASSUME Here, NEW r \in Rule, NEW enabled \in BOOLEAN, PublishRule(r, enabled),
         UNCHANGED snapshots
  PROVE  Here'
<1>1. /\ rules' = Put(rules, r, enabled) /\ generation' = generation + 1 /\ epoch' = epoch
      /\ UNCHANGED <<life, direct, derived, relations, coverage, broken>>
  BY DEF PublishRule, Bump, snapshots
<1>2. RestOK(life', relations', rules', coverage')
  BY <1>1 DEF Here, RestOK, Put
<1> QED BY <1>1, <1>2 DEF Here, Fits

\* declare_coverage adds one below the limit, or replaces one.
LEMMA DeclareCoverageTyped ==
  ASSUME Here, NEW s \in Scopes, NEW c \in Class, NEW state \in CoverageState,
         DeclareCoverage(s, c, state), UNCHANGED snapshots
  PROVE  Here'
<1> DEFINE x == <<s, c>>
<1>1. /\ coverage' = Put(coverage, x, state) /\ generation' = generation + 1 /\ epoch' = epoch
      /\ x \in DOMAIN coverage \/ Cardinality(DOMAIN coverage) < MaxCoverage
      /\ UNCHANGED <<life, direct, derived, relations, rules, broken>>
  BY DEF DeclareCoverage, Bump, snapshots
<1>2. x \in Scopes \X Class
  OBVIOUS
<1> HIDE DEF x
<1>3. /\ DOMAIN coverage' = DOMAIN coverage \cup {x}
      /\ coverage' \in [DOMAIN coverage' -> CoverageState]
  BY <1>1 DEF Put, Here, RestOK
<1>4. Cardinality(DOMAIN coverage') <= MaxCoverage
  <2>1. IsFiniteSet(DOMAIN coverage) /\ Cardinality(DOMAIN coverage) \in Nat
    BY FiniteKeys, FS_Subset, FS_CardinalityType DEF Here, RestOK
  <2>2. x \notin DOMAIN coverage =>
          Cardinality(DOMAIN coverage') = Cardinality(DOMAIN coverage) + 1
    BY <1>3, <2>1, FS_AddElement
  <2>3. x \in DOMAIN coverage => DOMAIN coverage' = DOMAIN coverage
    BY <1>3
  <2>4. Cardinality(DOMAIN coverage) <= MaxCoverage /\ MaxCoverage \in Nat
    BY TopologyAssumption DEF Here, RestOK
  <2> QED BY <1>1, <2>1, <2>2, <2>3, <2>4
<1>5. RestOK(life', relations', rules', coverage')
  BY <1>1, <1>2, <1>3, <1>4 DEF Here, RestOK
<1> QED BY <1>1, <1>5 DEF Here, Fits

\* Every mutation keeps the types.
LEMMA MutationTyped ==
  ASSUME Here, Mutation, UNCHANGED snapshots
  PROVE  Here'
<1>1. \A r \in Rule : {r} \in SUBSET Rule
  OBVIOUS
<1> QED
  BY <1>1, DeclareDomainTyped, ChangeDomainTyped, AttachDirectTyped, ChangeDirectTyped,
     MemberStepsTyped, AddRelationTyped, PublishRuleTyped, RunDerivationTyped, ChangesTyped,
     DeclareCoverageTyped
  DEF Mutation

\* What a move leaves marked once there are too many records.
LEMMA MovesFit ==
  ASSUME NEW s, NEW moved, Memberships(direct', Direct), Memberships(derived', Derived),
         MoveMarks(s, moved) \subseteq broken'
  PROVE  Fits(direct, derived)'
<1>1. Cardinality(DOMAIN direct') \in Nat /\ Cardinality(DOMAIN derived') \in Nat
  BY FiniteKeys DEF Memberships
<1>2. Room(derived)' = MaxMemberships - Cardinality(DOMAIN direct') - Cardinality(DOMAIN derived')
  BY DEF Room
<1>3. Cardinality(DOMAIN direct') + Cardinality(DOMAIN derived') > MaxMemberships
        => Room(derived)' < 0
  BY <1>1, <1>2, TopologyAssumption
<1> QED BY <1>3 DEF Fits, MoveMarks

\* The records of either kind after a move to the domain s.
LEMMA MovedIsPlaced ==
  ASSUME NEW set \in Kinds, NEW f, Memberships(f, set), NEW s \in Domain, NEW a \in Domain, s # a,
         NEW moved \in SUBSET Movable(f, a), NEW l, Placed(f, l), s \in DOMAIN l
  PROVE  LET g == MovedTo(f, s, a, moved)
         IN  /\ Memberships(g, set) /\ Placed(g, l)
             /\ Memberships(DemotedIn(g, a, "Superseded"), set)
             /\ Placed(DemotedIn(g, a, "Superseded"), l)
<1> DEFINE g == MovedTo(f, s, a, moved)
<1>1. Memberships(g, set) /\ DOMAIN g = DOMAIN f \cup {s} \X moved
  BY MovedToType
<1> HIDE DEF g
<1>2. Placed(g, l)
  BY <1>1 DEF Placed
<1>3. /\ Memberships(DemotedIn(g, a, "Superseded"), set)
      /\ DOMAIN DemotedIn(g, a, "Superseded") = DOMAIN g
  BY <1>1, DemotedInType
<1> QED BY <1>1, <1>2, <1>3 DEF Placed, g

\* merge_domains places what it moves in the survivor, and marks an excess.
LEMMA MergeTyped ==
  ASSUME Here, NEW s \in Domain, NEW a \in Domain, NEW equivalent \in BOOLEAN,
         Merge(s, a, equivalent)
  PROVE  Here'
<1>1. /\ s # a /\ s \in DOMAIN life /\ life' = [life EXCEPT ![a] = "Superseded"]
      /\ generation' = generation + 1
      /\ UNCHANGED <<relations, rules, coverage, epoch>>
  BY DEF Merge, Mergeable, Bump
<1>2. DOMAIN life' = DOMAIN life /\ \A x \in DOMAIN life' : life'[x] \in DomainLife
  BY <1>1 DEF Here, RecordsOK, DomainLife
<1>3. RestOK(life, relations, rules, coverage)'
  BY <1>1, <1>2, MoreDomains DEF Here
<1>4. Memberships(direct, Direct) /\ Memberships(derived, Derived)
      /\ Placed(direct, life') /\ Placed(derived, life') /\ s \in DOMAIN life'
  BY <1>1, <1>2 DEF Here, RecordsOK, Placed
<1>5. CASE equivalent
  <2>1. /\ direct' = MovedTo(direct, s, a, Movable(direct, a))
        /\ derived' = MovedTo(derived, s, a, Movable(derived, a))
        /\ MoveMarks(s, Movable(direct, a)) \subseteq broken'
    BY <1>5 DEF Merge
  <2>2. /\ Memberships(direct', Direct) /\ Placed(direct', life')
        /\ Memberships(derived', Derived) /\ Placed(derived', life')
    BY <1>1, <1>4, <2>1, MovedIsPlaced DEF Kinds
  <2>3. Fits(direct, derived)'
    BY <2>1, <2>2, MovesFit
  <2> QED BY <1>1, <1>2, <1>3, <2>2, <2>3 DEF Here, RecordsOK
<1>6. CASE ~equivalent
  <2>1. UNCHANGED <<direct, derived, broken>>
    BY <1>6 DEF Merge
  <2>2. RecordsOK(life, direct, derived)'
    BY <1>2, <1>4, <2>1 DEF Here, RecordsOK
  <2>3. Fits(direct, derived)'
    BY <2>1 DEF Here, Fits
  <2> QED BY <1>1, <1>3, <2>2, <2>3 DEF Here
<1> QED BY <1>5, <1>6

\* So does a merge that is refused half way.
LEMMA RefusedMergeTyped ==
  ASSUME Here, NEW s \in Domain, NEW a \in Domain, NEW moved, NEW movedDerived,
         RefusedMerge(s, a, moved, movedDerived)
  PROVE  Here'
<1>1. /\ s # a /\ s \in DOMAIN life
      /\ UNCHANGED <<life, relations, rules, coverage, generation, epoch>>
      /\ moved \in SUBSET Movable(direct, a) /\ movedDerived \in SUBSET Movable(derived, a)
      /\ direct' = DemotedIn(MovedTo(direct, s, a, moved), a, "Superseded")
      /\ derived' = DemotedIn(MovedTo(derived, s, a, movedDerived), a, "Superseded")
      /\ MoveMarks(s, moved) \subseteq broken'
  BY DEF RefusedMerge, Mergeable
<1>2. /\ Memberships(direct', Direct) /\ Placed(direct', life)
      /\ Memberships(derived', Derived) /\ Placed(derived', life)
  BY <1>1, MovedIsPlaced DEF Kinds, Here, RecordsOK
<1>3. Fits(direct, derived)'
  BY <1>1, <1>2, MovesFit
<1>4. RecordsOK(life, direct, derived)' /\ RestOK(life, relations, rules, coverage)'
  BY <1>1, <1>2 DEF Here, RecordsOK
<1> QED BY <1>1, <1>3, <1>4 DEF Here

\* A registry with nothing in it.
LEMMA EmptyTyped ==
  /\ RecordsOK(<< >>, << >>, << >>) /\ RestOK(<< >>, {}, << >>, << >>)
  /\ Cardinality(DOMAIN << >>) + Cardinality(DOMAIN << >>) = 0
<1>1. DOMAIN << >> = {} /\ IsFiniteSet({}) /\ Cardinality({}) = 0
  BY FS_EmptySet
<1>2. << >> \in [{} -> CoverageState]
  OBVIOUS
<1> QED
  BY <1>1, <1>2, TopologyAssumption DEF RecordsOK, RestOK, Memberships, Placed

\* The types hold in every state, of the registry and of its image.
LEMMA TypeInvHolds == Spec => []TypeInv
<1>1. Init => TypeInv
  <2> SUFFICES ASSUME Init PROVE TypeInv
    OBVIOUS
  <2>1. /\ life = << >> /\ direct = << >> /\ derived = << >> /\ relations = {} /\ rules = << >>
        /\ coverage = << >> /\ generation = 0 /\ epoch = 0
        /\ image.Contents.life = << >> /\ image.Contents.direct = << >>
        /\ image.Contents.derived = << >> /\ image.gen = 0 /\ image.epoch = 0
        /\ image.rest[1] = {} /\ image.rest[2] = << >> /\ image.rest[3] = << >>
    BY DEF Init, Contents
  <2>2. Fits(<< >>, << >>)
    BY EmptyTyped, TopologyAssumption DEF Fits
  <2> QED BY <2>1, <2>2, EmptyTyped DEF TypeInv, Here, Saved
<1>2. TypeInv /\ [Next]_vars => TypeInv'
  <2> SUFFICES ASSUME TypeInv, [Next]_vars
               PROVE  TypeInv'
    OBVIOUS
  <2>1. CASE Mutation /\ UNCHANGED snapshots
    <3>1. UNCHANGED <<image, broken>>
      BY <2>1 DEF snapshots
    <3>2. Saved'
      BY <3>1 DEF TypeInv, Saved, Fits
    <3> QED BY <2>1, <3>2, MutationTyped DEF TypeInv
  <2>2. CASE TakeSnapshot
    <3>1. UNCHANGED image /\ broken \cap {"BeyondLimit"} \subseteq broken'
      BY <2>2 DEF TakeSnapshot
    <3>2. Saved'
      BY <3>1 DEF TypeInv, Saved, Fits
    <3>3. Here'
      BY <2>2, <3>1 DEF TakeSnapshot, TypeInv, Here, Fits, topology
    <3> QED BY <3>2, <3>3 DEF TypeInv
  <2>3. CASE Save
    <3>1. Here' /\ UNCHANGED <<topology, broken>>
      BY <2>3 DEF Save, topology, TypeInv, Here, Fits
    <3>2. /\ image'.Contents.life = life /\ image'.Contents.direct = direct
          /\ image'.Contents.derived = derived /\ image'.gen = generation /\ image'.epoch = epoch
          /\ image'.rest[1] = relations /\ image'.rest[2] = rules /\ image'.rest[3] = coverage
      BY <2>3 DEF Save, Contents
    <3>3. Saved'
      BY <3>1, <3>2 DEF TypeInv, Here, Saved, Fits
    <3> QED BY <3>1, <3>3 DEF TypeInv
  <2>4. CASE Start
    <3>1. /\ UNCHANGED image /\ broken \subseteq broken'
          /\ life' = image.Contents.life /\ direct' = image.Contents.direct
          /\ derived' = image.Contents.derived /\ relations' = image.rest[1]
          /\ rules' = image.rest[2] /\ coverage' = image.rest[3]
          /\ generation' = image.gen + 2 /\ epoch' = image.epoch + 1
      BY <2>4 DEF Start
    <3>2. Saved'
      BY <3>1 DEF TypeInv, Saved, Fits
    <3>3. Here'
      BY <3>1 DEF TypeInv, Saved, Here, Fits
    <3> QED BY <3>2, <3>3 DEF TypeInv
  <2>5. CASE Reset
    <3>1. /\ UNCHANGED <<image, epoch>> /\ broken \subseteq broken'
          /\ life' = << >> /\ direct' = << >> /\ derived' = << >> /\ relations' = {}
          /\ rules' = << >> /\ coverage' = << >> /\ generation' = 1
      BY <2>5 DEF Reset
    <3>2. Saved'
      BY <3>1 DEF TypeInv, Saved, Fits
    <3>3. Here'
      BY <3>1, EmptyTyped, TopologyAssumption DEF TypeInv, Here, Fits
    <3> QED BY <3>2, <3>3 DEF TypeInv
  <2>6. ASSUME NEW d \in Domain, NEW x \in Domain, NEW equivalent \in BOOLEAN,
               Merge(d, x, equivalent)
        PROVE  TypeInv'
    <3>1. UNCHANGED image /\ broken \subseteq broken'
      BY <2>6 DEF Merge
    <3>2. Saved'
      BY <3>1 DEF TypeInv, Saved, Fits
    <3> QED BY <2>6, <3>2, MergeTyped DEF TypeInv
  <2>7. ASSUME NEW d \in Domain, NEW x \in Domain, NEW moved, NEW movedDerived,
               RefusedMerge(d, x, moved, movedDerived)
        PROVE  TypeInv'
    <3>1. UNCHANGED image /\ broken \subseteq broken'
      BY <2>7 DEF RefusedMerge
    <3>2. Saved'
      BY <3>1 DEF TypeInv, Saved, Fits
    <3> QED BY <2>7, <3>2, RefusedMergeTyped DEF TypeInv
  <2>8. CASE UNCHANGED vars
    BY <2>8 DEF vars, topology, snapshots, TypeInv, Here, Saved, Fits
  <2> QED BY <2>1, <2>2, <2>3, <2>4, <2>5, <2>6, <2>7, <2>8 DEF Next
<1> QED BY <1>1, <1>2, PTL DEF Spec

\* Whatever is done to the registry, what is saved and what is loaded: its
\* records are well formed, their domains and the ends of its relations are on
\* record, and only a merge takes it beyond its limit on memberships.
THEOREM TopologyTyped == Spec => []TypeOK
<1>1. TypeInv => TypeOK
  <2> SUFFICES ASSUME TypeInv PROVE TypeOK
    OBVIOUS
  <2>1. \A k \in DOMAIN derived :
          LET r == derived[k]
          IN  /\ r.life \in MemberLife /\ r.valid \in BOOLEAN /\ r.rule \in Rule
              /\ DOMAIN r.src \subseteq Key
              /\ \A s \in DOMAIN r.src : r.src[s] \in 1..MaxGeneration
    BY DEF TypeInv, Here, RecordsOK, Memberships, Derived, Sources
  <2>2. TopologyOK
    BY <2>1 DEF TypeInv, Here, RecordsOK, RestOK, Memberships, TopologyOK
  <2>3. EndsExist /\ DomainsExist
    BY DEF TypeInv, Here, RecordsOK, RestOK, Placed, EndsExist, DomainsExist
  <2> QED BY <2>2, <2>3 DEF TypeOK, TypeInv, Here, RestOK, Fits
<1> QED BY <1>1, TypeInvHolds, PTL

\* Any run over all the enabled rules, at any time, leaves exactly what they
\* derive from current sources, but for what there was no room for, what was
\* closed before, and what its own rule retires before a later one derives it.
THEOREM RunsAreExact == Spec => []RunIsExact
<1>1. TypeInv => RunIsExact
  BY RunsAreExactHere DEF TypeInv, Here
<1> QED BY <1>1, TypeInvHolds, PTL

(***************************************************************************)
(* The derivations.                                                        *)
(***************************************************************************)
\* What invalidate_derived_memberships leaves current mentions none of the
\* entities.
LEMMA InvalidatedIsNotCurrent ==
  ASSUME NEW ds, NEW affected, NEW k \in DOMAIN ds,
         Invalidated(ds, affected)[k].life = "Current"
  PROVE  /\ ds[k].life = "Current" /\ Invalidated(ds, affected)[k] = ds[k]
         /\ ~Mentions(k, ds[k], affected)
<1>1. <<"Current", "Revalidate">> \in MembershipTransitions /\ "Current" \notin Terminal
  BY DEF MembershipTransitions, Terminal
<1>2. CASE Invalidated(ds, affected)[k] = [ds[k] EXCEPT !.life = "Revalidate", !.valid = FALSE]
  BY <1>2
<1>3. CASE Invalidated(ds, affected)[k] = ds[k]
  BY <1>1, <1>3 DEF Invalidated
<1> QED BY <1>2, <1>3 DEF Invalidated

\* A change of an entity takes every membership of it, and everything that was
\* derived from one, out of the current ones in the same step.
THEOREM ChangesAreFelt == Spec => ChangeIsFelt
<1> DEFINE Felt(e) == \A k \in DOMAIN derived :
             derived'[k].life = "Current" => \A s \in DOMAIN derived[k].src \cup {k} : s[2] # e
<1>1. ASSUME NEW e \in Entity, NotifyTopologyChange({e})
      PROVE  Felt(e)
  BY <1>1, InvalidatedIsNotCurrent DEF NotifyTopologyChange, Mentions
<1>2. ASSUME NEW e \in Entity, InvalidateEntity(e)
      PROVE  Felt(e)
  <2> DEFINE hit(k, r) == k[2] = e /\ <<r.life, "Revalidate">> \in MembershipTransitions
             demoted   == [k \in DOMAIN derived |->
                             IF hit(k, derived[k])
                             THEN [derived[k] EXCEPT !.life = "Revalidate", !.valid = FALSE]
                             ELSE derived[k]]
  <2>1. derived' = Invalidated(demoted, {e})
    BY <1>2 DEF InvalidateEntity
  <2>2. ASSUME NEW k \in DOMAIN derived, demoted[k].life = "Current"
        PROVE  demoted[k] = derived[k]
    BY <2>2
  <2> QED
    <3> HIDE DEF demoted
    <3>1. DOMAIN demoted = DOMAIN derived
      BY DEF demoted
    <3> QED BY <2>1, <2>2, <3>1, InvalidatedIsNotCurrent DEF Mentions
<1> QED
  <2>1. \A e \in Entity : InvalidateEntity(e) \/ NotifyTopologyChange({e}) => Felt(e)
    BY <1>1, <1>2
  <2> QED BY <2>1, PTL DEF ChangeIsFelt

\* No step but a reconciliation, a start and a merge makes an invalidated
\* record current that does not rest on current sources: a run computes a
\* record again from what its sources are now.
THEOREM InvalidRecordsStayOut == Spec => InvalidStaysOut
<1> DEFINE Returns(k) == ~derived[k].valid /\ derived[k].life # "Current" /\ derived'[k].life = "Current"
           Allowed(k) == Reconcile(k) \/ Start \/ MergedInto(k[1]) \/ Grounded(derived[k])'
<1>1. ASSUME TypeInv, [Next]_vars, NEW k \in DOMAIN derived \cap DOMAIN derived', Returns(k)
      PROVE  Allowed(k)
  <2>1. CASE UNCHANGED derived
    BY <1>1, <2>1
  <2>2. ASSUME NEW d, NEW l, NEW target, ChangeDomain(d, l, target)
        PROVE  Allowed(k)
    <3>1. target \in {"None", "Retired", "Revalidate"} /\ derived' = DemotedIn(derived, d, target)
      BY <2>2 DEF ChangeDomain, Targets
    <3>2. target \in MemberLife => derived'[k] = derived[k] \/ derived'[k].life = target
      BY <1>1, <3>1, MovedType DEF DemotedIn, TypeInv, Here, RecordsOK, Memberships
    <3>3. target = "None" => <<derived[k].life, target>> \notin MembershipTransitions
      BY Lives DEF MemberLife
    <3>4. target = "None" => derived'[k] = derived[k]
      BY <1>1, <3>1, <3>3 DEF DemotedIn
    <3> QED BY <1>1, <3>1, <3>2, <3>4, Lives
  <2>3. CASE Detach(k) \/ Mark(k)
    <3>1. derived[k] \in Derived
      BY <1>1 DEF TypeInv, Here, RecordsOK, Memberships
    <3>2. derived'[k].life \in {"Retired", "Revalidate"}
      BY <1>1, <2>3, <3>1 DEF Detach, Mark, Derived
    <3> QED BY <1>1, <3>2
  <2>4. ASSUME NEW j \in Key, j # k, Detach(j) \/ Mark(j) \/ Reconcile(j)
        PROVE  Allowed(k)
    BY <1>1, <2>4 DEF Detach, Mark, Reconcile
  <2>5. ASSUME NEW selected \in SUBSET Rule, RunDerivation(selected)
        PROVE  Allowed(k)
    <3>1. PICK ds, on : on \in SUBSET Rule /\ ds \in Pass(on) /\ ds = derived' /\ UNCHANGED direct
      BY <2>5 DEF RunDerivation
    <3>2. RunInv(ds, on, Len(Rules))
      BY <1>1, <3>1, RunInvHolds DEF TypeInv, Here
    <3>3. ComputedBy(ds[k], k, on)
      BY <1>1, <3>1, <3>2 DEF RunInv, ClosedBy, Untouched, Terminal
    <3> QED BY <3>1, <3>3 DEF ComputedBy, Grounded, CurrentIn
  <2>6. ASSUME NEW affected, NotifyTopologyChange(affected)
        PROVE  Allowed(k)
    BY <1>1, <2>6, InvalidatedIsNotCurrent DEF NotifyTopologyChange
  <2>7. ASSUME NEW e, InvalidateEntity(e)
        PROVE  Allowed(k)
    <3> DEFINE hit(j, r) == j[2] = e /\ <<r.life, "Revalidate">> \in MembershipTransitions
               demoted   == [j \in DOMAIN derived |->
                               IF hit(j, derived[j])
                               THEN [derived[j] EXCEPT !.life = "Revalidate", !.valid = FALSE]
                               ELSE derived[j]]
    <3>1. derived' = Invalidated(demoted, {e})
      BY <2>7 DEF InvalidateEntity
    <3>2. DOMAIN demoted = DOMAIN derived /\ (demoted[k].life = "Current" => demoted[k] = derived[k])
      BY <1>1
    <3> HIDE DEF demoted
    <3> QED BY <1>1, <3>1, <3>2, InvalidatedIsNotCurrent
  <2>8. ASSUME NEW s \in Domain, NEW a \in Domain, NEW moved, k[1] # s,
               \/ derived' = MovedTo(derived, s, a, moved)
               \/ derived' = DemotedIn(MovedTo(derived, s, a, moved), a, "Superseded")
        PROVE  Allowed(k)
    <3> DEFINE g == MovedTo(derived, s, a, moved)
    <3>1. k \in DOMAIN g /\ derived[k] \in Derived
      BY <1>1 DEF MovedTo, TypeInv, Here, RecordsOK, Memberships
    <3>2. g[k] = derived[k] \/ g[k] = Moved(derived[k], "Superseded")
      BY <2>8, <3>1 DEF MovedTo
    <3>3. g[k] \in Derived /\ g[k].life \in {derived[k].life, "Superseded"}
      BY <3>1, <3>2, MovedType, Lives
    <3> HIDE DEF g
    <3>4. DemotedIn(g, a, "Superseded")[k].life \in {g[k].life, "Superseded"}
      BY <3>1, <3>3, MovedType, Lives DEF DemotedIn
    <3> QED BY <1>1, <2>8, <3>3, <3>4 DEF g
  <2>9. ASSUME NEW s \in Domain, NEW a \in Domain, NEW equivalent \in BOOLEAN,
               Merge(s, a, equivalent)
        PROVE  Allowed(k)
    <3>1. CASE equivalent = TRUE /\ k[1] = s
      BY <2>9, <3>1 DEF MergedInto
    <3>2. CASE equivalent = TRUE /\ k[1] # s
      <4>1. derived' = MovedTo(derived, s, a, Movable(derived, a))
        BY <2>9, <3>2 DEF Merge
      <4> QED BY <2>8, <3>2, <4>1
    <3>3. CASE equivalent = FALSE
      BY <2>1, <2>9, <3>3 DEF Merge
    <3> QED BY <3>1, <3>2, <3>3
  <2>10. ASSUME NEW s \in Domain, NEW a \in Domain, NEW moved \in SUBSET Entity,
                NEW movedDerived \in SUBSET Entity, RefusedMerge(s, a, moved, movedDerived)
         PROVE  Allowed(k)
    <3>1. CASE k[1] = s
      BY <2>10, <3>1 DEF MergedInto
    <3>2. CASE k[1] # s
      BY <2>8, <2>10, <3>2 DEF RefusedMerge
    <3> QED BY <3>1, <3>2
  <2>11. CASE Mutation /\ UNCHANGED snapshots
    <3>1. \A r \in Rule : {r} \in SUBSET Rule
      OBVIOUS
    <3> HIDE DEF Allowed
    <3>2. ASSUME NEW j \in Key, Detach(j) \/ Mark(j) \/ Reconcile(j)
          PROVE  Allowed(k)
      BY <2>3, <2>4, <3>2 DEF Allowed
    <3>3. UNCHANGED derived => Allowed(k)
      BY <2>1
    <3> QED
      BY <2>2, <2>5, <2>6, <2>7, <2>11, <3>1, <3>2, <3>3
      DEF Mutation, DeclareDomain, AttachDirect, ChangeDirect, AddRelation, PublishRule,
          DeclareCoverage
  <2>12. CASE TakeSnapshot \/ Save \/ UNCHANGED vars
    BY <2>1, <2>12 DEF TakeSnapshot, Save, topology, vars
  <2>13. CASE Start
    BY <2>13
  <2>14. CASE Reset
    BY <1>1, <2>14 DEF Reset
  <2> HIDE DEF Allowed
  <2> QED BY <1>1, <2>9, <2>10, <2>11, <2>12, <2>13, <2>14 DEF Next
<1>2. TypeInv /\ [Next]_vars =>
        \A k \in DOMAIN derived \cap DOMAIN derived' : Returns(k) => Allowed(k)
  BY <1>1
<1> QED BY <1>2, TypeInvHolds, PTL DEF InvalidStaysOut, Spec

(***************************************************************************)
(* What the records say of their sources.                                  *)
(***************************************************************************)
\* The derived records know their sources: a generation that a source still
\* has, and is not the last of all, is one in which it was current.
Knows(di, de) ==
  \A k \in DOMAIN de :
    /\ DOMAIN de[k].src \subseteq DOMAIN di
    /\ \A s \in DOMAIN de[k].src :
         /\ de[k].src[s] <= di[s].gen
         /\ de[k].src[s] = di[s].gen /\ di[s].gen < MaxGeneration => di[s].life = "Current"

ContextInv ==
  "Revived" \notin broken =>
    Knows(direct, derived) /\ Knows(image.Contents.direct, image.Contents.derived)

\* A record stays, gets a new generation, or has the last one of all.
Follows(f, g) ==
  \A s \in DOMAIN f : /\ s \in DOMAIN g
                      /\ g[s] = f[s] \/ g[s].gen > f[s].gen \/ g[s].gen = MaxGeneration

\* Every set of sources was there before, or is one of current ones.
Sourced(de, ds) ==
  \A k \in DOMAIN ds :
    \/ \E j \in DOMAIN de : ds[k].src = de[j].src
    \/ /\ DOMAIN ds[k].src \subseteq CurrentIn(direct)
       /\ \A s \in DOMAIN ds[k].src : ds[k].src[s] = direct[s].gen

\* Direct records that follow the old ones and sources that were known or are
\* current now: then what the records say of their sources stays true.
LEMMA KnowledgeIsKept ==
  ASSUME Memberships(direct, Direct), Memberships(derived, Derived), Knows(direct, derived),
         NEW di, Memberships(di, Direct), Follows(direct, di), NEW ds, Sourced(derived, ds)
  PROVE  Knows(di, ds)
<1> SUFFICES ASSUME NEW k \in DOMAIN ds, NEW s \in DOMAIN ds[k].src
             PROVE  /\ s \in DOMAIN di /\ ds[k].src[s] <= di[s].gen
                    /\ ds[k].src[s] = di[s].gen /\ di[s].gen < MaxGeneration
                         => di[s].life = "Current"
  BY DEF Knows
<1>1. /\ s \in DOMAIN direct /\ ds[k].src[s] \in 1..MaxGeneration /\ ds[k].src[s] <= direct[s].gen
      /\ ds[k].src[s] = direct[s].gen /\ direct[s].gen < MaxGeneration
           => direct[s].life = "Current"
  <2>1. CASE \E j \in DOMAIN derived : ds[k].src = derived[j].src
    BY <2>1 DEF Knows, Memberships, Derived, Sources
  <2>2. CASE DOMAIN ds[k].src \subseteq CurrentIn(direct) /\ ds[k].src[s] = direct[s].gen
    BY <2>2 DEF CurrentIn, Memberships, Direct
  <2> QED BY <2>1, <2>2 DEF Sourced
<1>2. /\ s \in DOMAIN di /\ di[s].gen \in 1..MaxGeneration /\ direct[s].gen \in 1..MaxGeneration
      /\ di[s] = direct[s] \/ di[s].gen > direct[s].gen \/ di[s].gen = MaxGeneration
  BY <1>1 DEF Follows, Memberships, Direct
<1> QED BY <1>1, <1>2, TopologyAssumption

\* A record that moves follows what it was.
LEMMA MovedFollows ==
  ASSUME NEW r \in Direct, NEW l \in MemberLife
  PROVE  Moved(r, l).gen > r.gen \/ Moved(r, l).gen = MaxGeneration
<1>1. "gen" \in DOMAIN r /\ r.gen \in 1..MaxGeneration
  BY DEF Direct
<1>2. Moved(r, l).gen = NextGen(r.gen)
  BY <1>1 DEF Moved, Direct
<1> QED BY <1>1, <1>2, TopologyAssumption DEF NextGen

\* What follows a follower follows.
LEMMA FollowsIsTransitive ==
  ASSUME NEW f, Memberships(f, Direct), NEW g, Memberships(g, Direct), NEW h,
         Memberships(h, Direct), Follows(f, g), Follows(g, h)
  PROVE  Follows(f, h)
<1> SUFFICES ASSUME NEW s \in DOMAIN f
             PROVE  /\ s \in DOMAIN h
                    /\ h[s] = f[s] \/ h[s].gen > f[s].gen \/ h[s].gen = MaxGeneration
  BY DEF Follows
<1>1. s \in DOMAIN g /\ s \in DOMAIN h
  BY DEF Follows
<1>2. /\ f[s].gen \in 1..MaxGeneration /\ g[s].gen \in 1..MaxGeneration
      /\ h[s].gen \in 1..MaxGeneration
  BY <1>1 DEF Memberships, Direct
<1>3. /\ g[s] = f[s] \/ g[s].gen > f[s].gen \/ g[s].gen = MaxGeneration
      /\ h[s] = g[s] \/ h[s].gen > g[s].gen \/ h[s].gen = MaxGeneration
  BY <1>1 DEF Follows
<1> QED BY <1>1, <1>2, <1>3, TopologyAssumption

\* A bulk move gives a new generation to each record it moves.
LEMMA DemotedFollows ==
  ASSUME NEW f, Memberships(f, Direct), NEW d, NEW target
  PROVE  Follows(f, DemotedIn(f, d, target))
<1>1. ASSUME NEW k \in DOMAIN f, <<f[k].life, target>> \in MembershipTransitions
      PROVE  Moved(f[k], target).gen > f[k].gen \/ Moved(f[k], target).gen = MaxGeneration
  BY <1>1, Lives, MovedFollows DEF Memberships
<1> QED BY <1>1 DEF DemotedIn, Follows

\* And it leaves the sources of derived records.
LEMMA DemotedIsSourced ==
  ASSUME NEW f, Memberships(f, Derived), NEW d, NEW target, NEW k \in DOMAIN f
  PROVE  DemotedIn(f, d, target)[k].src = f[k].src
<1>1. <<f[k].life, target>> \in MembershipTransitions
        => Moved(f[k], target) = [f[k] EXCEPT !.life = target]
  BY Lives, MovedType DEF Memberships
<1>2. [f[k] EXCEPT !.life = target].src = f[k].src
  BY DEF Memberships, Derived
<1> QED BY <1>1, <1>2 DEF DemotedIn

\* A merge that revives no closed record.
LEMMA MovedToFollows ==
  ASSUME NEW f, Memberships(f, Direct), NEW s \in Domain, NEW a \in Domain, s # a,
         NEW moved \in SUBSET Movable(f, a), ({s} \X moved) \cap DOMAIN f = {}
  PROVE  Follows(f, MovedTo(f, s, a, moved))
<1> DEFINE g == MovedTo(f, s, a, moved)
<1> SUFFICES ASSUME NEW k \in DOMAIN f
             PROVE  /\ k \in DOMAIN g
                    /\ g[k] = f[k] \/ g[k].gen > f[k].gen \/ g[k].gen = MaxGeneration
  BY DEF Follows
<1>1. k \in DOMAIN g
  BY DEF MovedTo
<1>2. ~ (k[1] = s /\ k[2] \in moved)
  <2>1. k \in Key
    BY DEF Memberships
  <2> QED BY <2>1 DEF Key
<1>3. g[k] = f[k] \/ g[k] = Moved(f[k], "Superseded")
  BY <1>1, <1>2 DEF MovedTo
<1>4. Moved(f[k], "Superseded").gen > f[k].gen \/ Moved(f[k], "Superseded").gen = MaxGeneration
  BY MovedFollows, Lives DEF Memberships
<1> HIDE DEF g
<1> QED BY <1>1, <1>3, <1>4

\* A merge moves derived records with their sources.
LEMMA MovedToIsSourced ==
  ASSUME NEW f, Memberships(f, Derived), NEW s \in Domain, NEW a \in Domain, s # a,
         NEW moved \in SUBSET Movable(f, a), NEW k \in DOMAIN MovedTo(f, s, a, moved)
  PROVE  \E j \in DOMAIN f : MovedTo(f, s, a, moved)[k].src = f[j].src
<1> DEFINE g == MovedTo(f, s, a, moved)
<1>1. k \in DOMAIN f \cup {s} \X moved
      /\ g[k] = IF k[2] \notin moved \/ k[1] \notin {s, a} THEN f[k]
     ELSE IF k[1] = s THEN [f[<<a, k[2]>>] EXCEPT !.life = "Current"]
     ELSE Moved(f[k], "Superseded")
  BY DEF MovedTo
<1>2. \A r \in Derived : /\ [r EXCEPT !.life = "Current"].src = r.src
                         /\ [r EXCEPT !.life = "Superseded"].src = r.src
  BY DEF Derived
<1>3. \A j \in DOMAIN f : f[j] \in Derived
  BY DEF Memberships
<1> HIDE DEF g
<1>4. CASE k[2] \notin moved \/ k[1] \notin {s, a}
  BY <1>1, <1>4 DEF g
<1>5. CASE k[2] \in moved /\ k[1] = s
  <2>1. <<a, k[2]>> \in DOMAIN f
    BY <1>5 DEF Movable
  <2>2. g[k] = [f[<<a, k[2]>>] EXCEPT !.life = "Current"]
    BY <1>1, <1>5
  <2> QED BY <1>2, <1>3, <2>1, <2>2 DEF g
<1>6. CASE k[2] \in moved /\ k[1] = a
  <2>1. k \in DOMAIN f
    BY <1>1, <1>6
  <2>2. g[k] = [f[k] EXCEPT !.life = "Superseded"]
    BY <1>1, <1>3, <1>6, <2>1, MovedType, Lives
  <2> QED BY <1>2, <1>3, <2>1, <2>2 DEF g
<1> QED BY <1>4, <1>5, <1>6

\* What a run leaves is sourced.
LEMMA RunIsSourced ==
  ASSUME Here, NEW on \in SUBSET Rule, NEW ds \in Pass(on)
  PROVE  Sourced(derived, ds)
<1>1. RunInv(ds, on, Len(Rules))
  BY RunInvHolds DEF Here
<1> QED BY <1>1 DEF RunInv, ClosedBy, ComputedBy, Untouched, Grounded, Sourced

\* A step that leaves the direct records, or the sources of the derived ones,
\* as they are.
LEMMA SameIsFollowedAndSourced ==
  /\ \A f : Follows(f, f)
  /\ \A de, ds : (\A k \in DOMAIN ds : k \in DOMAIN de /\ ds[k].src = de[k].src) => Sourced(de, ds)
BY DEF Follows, Sourced

\* An invalidation leaves the sources.
LEMMA InvalidatedIsSourced ==
  ASSUME NEW ds, Memberships(ds, Derived), NEW affected, NEW k \in DOMAIN Invalidated(ds, affected)
  PROVE  k \in DOMAIN ds /\ Invalidated(ds, affected)[k].src = ds[k].src
<1>1. \A r \in Derived : [r EXCEPT !.life = "Revalidate", !.valid = FALSE].src = r.src
  BY DEF Derived
<1> QED BY <1>1 DEF Invalidated, Memberships

\* Every mutation gives a record it changes a new generation, and sources that
\* were known or are current now.
LEMMA MutationKeepsSources ==
  ASSUME Here, Mutation
  PROVE  Follows(direct, direct') /\ Sourced(derived, derived')
<1>1. Memberships(direct, Direct) /\ Memberships(derived, Derived)
  BY DEF Here, RecordsOK
<1>2. CASE UNCHANGED <<direct, derived>>
  BY <1>2, SameIsFollowedAndSourced
<1>3. ASSUME NEW d, NEW l, NEW target, ChangeDomain(d, l, target)
      PROVE  Follows(direct, direct') /\ Sourced(derived, derived')
  <2>1. direct' = DemotedIn(direct, d, target) /\ derived' = DemotedIn(derived, d, target)
    BY <1>3 DEF ChangeDomain
  <2>2. DOMAIN derived' = DOMAIN derived
    BY <2>1 DEF DemotedIn
  <2> QED BY <1>1, <2>1, <2>2, DemotedFollows, DemotedIsSourced, SameIsFollowedAndSourced
<1>4. ASSUME NEW k, AttachDirect(k)
      PROVE  Follows(direct, direct') /\ Sourced(derived, derived')
  BY <1>4, SameIsFollowedAndSourced DEF AttachDirect, Put, Follows
<1>5. ASSUME NEW k, NEW l, ChangeDirect(k, l)
      PROVE  Follows(direct, direct') /\ Sourced(derived, derived')
  <2>1. /\ k \in DOMAIN direct /\ l \in MemberLife
        /\ direct' = [direct EXCEPT ![k] = Moved(direct[k], l)] /\ derived' = derived
    BY <1>5, Lives DEF ChangeDirect
  <2>2. Moved(direct[k], l).gen > direct[k].gen \/ Moved(direct[k], l).gen = MaxGeneration
    BY <1>1, <2>1, MovedFollows DEF Memberships
  <2>3. Follows(direct, direct')
    BY <2>1, <2>2 DEF Follows
  <2> QED BY <2>1, <2>3, SameIsFollowedAndSourced
<1>6. ASSUME NEW k, Detach(k) \/ Mark(k) \/ Reconcile(k)
      PROVE  Follows(direct, direct') /\ Sourced(derived, derived')
  <2>1. PICK l \in MemberLife : /\ k \in DOMAIN derived /\ UNCHANGED direct
                                /\ derived' = [derived EXCEPT ![k].life = l]
    BY <1>6, Lives DEF Detach, Mark, Reconcile, CurrentIn
  <2>2. [derived[k] EXCEPT !.life = l].src = derived[k].src
    BY <1>1, <2>1 DEF Memberships, Derived
  <2>3. \A j \in DOMAIN derived' : j \in DOMAIN derived /\ derived'[j].src = derived[j].src
    BY <2>1, <2>2
  <2> QED BY <2>1, <2>3, SameIsFollowedAndSourced
<1>7. ASSUME NEW selected \in SUBSET Rule, RunDerivation(selected)
      PROVE  Follows(direct, direct') /\ Sourced(derived, derived')
  <2>1. PICK ds, on : on \in SUBSET Rule /\ ds \in Pass(on) /\ ds = derived' /\ UNCHANGED direct
    BY <1>7 DEF RunDerivation
  <2> QED BY <2>1, RunIsSourced, SameIsFollowedAndSourced
<1>8. ASSUME NEW e, InvalidateEntity(e)
      PROVE  Follows(direct, direct') /\ Sourced(derived, derived')
  <2> DEFINE hit(k, r) == k[2] = e /\ <<r.life, "Revalidate">> \in MembershipTransitions
             demoted   == [k \in DOMAIN derived |->
                             IF hit(k, derived[k])
                             THEN [derived[k] EXCEPT !.life = "Revalidate", !.valid = FALSE]
                             ELSE derived[k]]
  <2>1. /\ derived' = Invalidated(demoted, {e})
        /\ direct' = [k \in DOMAIN direct |->
                        IF hit(k, direct[k]) THEN Moved(direct[k], "Revalidate") ELSE direct[k]]
    BY <1>8 DEF InvalidateEntity
  <2>2. \A r \in Derived : /\ [r EXCEPT !.life = "Revalidate", !.valid = FALSE] \in Derived
                           /\ [r EXCEPT !.life = "Revalidate", !.valid = FALSE].src = r.src
    BY Lives DEF Derived
  <2>3. /\ Memberships(demoted, Derived) /\ DOMAIN demoted = DOMAIN derived
        /\ \A k \in DOMAIN demoted : demoted[k].src = derived[k].src
    BY <1>1, <2>2 DEF Memberships
  <2> HIDE DEF demoted
  <2>4. \A k \in DOMAIN derived' : k \in DOMAIN derived /\ derived'[k].src = derived[k].src
    BY <2>1, <2>3, InvalidatedIsSourced
  <2>5. \A k \in DOMAIN direct :
          \/ Moved(direct[k], "Revalidate").gen > direct[k].gen
          \/ Moved(direct[k], "Revalidate").gen = MaxGeneration
    BY <1>1, MovedFollows, Lives DEF Memberships
  <2>6. Follows(direct, direct')
    BY <2>1, <2>5 DEF Follows
  <2> QED BY <2>4, <2>6, SameIsFollowedAndSourced
<1>9. ASSUME NEW affected, NotifyTopologyChange(affected)
      PROVE  Follows(direct, direct') /\ Sourced(derived, derived')
  <2>1. \A k \in DOMAIN derived' : k \in DOMAIN derived /\ derived'[k].src = derived[k].src
    BY <1>1, <1>9, InvalidatedIsSourced DEF NotifyTopologyChange
  <2> QED BY <1>9, <2>1, SameIsFollowedAndSourced DEF NotifyTopologyChange
<1>10. \A r \in Rule : {r} \in SUBSET Rule
  OBVIOUS
<1> QED
  BY <1>2, <1>3, <1>4, <1>5, <1>6, <1>7, <1>8, <1>9, <1>10
  DEF Mutation, DeclareDomain, AddRelation, PublishRule, DeclareCoverage

\* So does a merge that moves nothing over a closed record.
LEMMA MergeKeepsSources ==
  ASSUME Here, NEW s \in Domain, NEW a \in Domain,
         NEW moved, NEW movedDerived, "Revived" \notin broken',
         Merge(s, a, TRUE) \/ Merge(s, a, FALSE) \/ RefusedMerge(s, a, moved, movedDerived)
  PROVE  Follows(direct, direct') /\ Sourced(derived, derived')
<1>1. Memberships(direct, Direct) /\ Memberships(derived, Derived)
  BY DEF Here, RecordsOK
<1>2. CASE Merge(s, a, FALSE)
  BY <1>2, SameIsFollowedAndSourced DEF Merge
<1>3. ASSUME NEW m \in SUBSET Movable(direct, a), MoveMarks(s, m) \subseteq broken'
      PROVE  Follows(direct, MovedTo(direct, s, a, m)) \/ s = a
  <2>1. ({s} \X m) \cap DOMAIN direct = {}
    BY <1>3 DEF MoveMarks
  <2> QED BY <1>1, <1>3, <2>1, MovedToFollows
<1>4. CASE Merge(s, a, TRUE)
  <2>1. /\ s # a /\ direct' = MovedTo(direct, s, a, Movable(direct, a))
        /\ derived' = MovedTo(derived, s, a, Movable(derived, a))
        /\ MoveMarks(s, Movable(direct, a)) \subseteq broken'
    BY <1>4 DEF Merge, Mergeable
  <2>2. Follows(direct, direct')
    BY <1>3, <2>1
  <2>3. Sourced(derived, derived')
    BY <1>1, <2>1, MovedToIsSourced DEF Sourced
  <2> QED BY <2>2, <2>3
<1>5. CASE RefusedMerge(s, a, moved, movedDerived)
  <2> DEFINE f == MovedTo(direct, s, a, moved)
             g == MovedTo(derived, s, a, movedDerived)
  <2>1. /\ s # a /\ moved \in SUBSET Movable(direct, a) /\ movedDerived \in SUBSET Movable(derived, a)
        /\ direct' = DemotedIn(f, a, "Superseded") /\ derived' = DemotedIn(g, a, "Superseded")
        /\ MoveMarks(s, moved) \subseteq broken'
    BY <1>5 DEF RefusedMerge, Mergeable
  <2>2. Follows(direct, f) /\ \A k \in DOMAIN g : \E j \in DOMAIN derived : g[k].src = derived[j].src
    BY <1>1, <1>3, <2>1, MovedToIsSourced
  <2>3. Memberships(f, Direct) /\ Memberships(g, Derived)
    BY <1>1, <2>1, MovedToType DEF Kinds
  <2> HIDE DEF f, g
  <2>4. /\ Memberships(direct', Direct) /\ Follows(f, direct')
        /\ DOMAIN derived' = DOMAIN g /\ \A k \in DOMAIN g : derived'[k].src = g[k].src
    BY <2>1, <2>3, DemotedInType, DemotedFollows, DemotedIsSourced DEF Kinds
  <2>5. Follows(direct, direct')
    BY <1>1, <2>2, <2>3, <2>4, FollowsIsTransitive
  <2>6. Sourced(derived, derived')
    BY <2>2, <2>4 DEF Sourced
  <2> QED BY <2>5, <2>6
<1> QED BY <1>2, <1>4, <1>5

\* In every state the derived records know their sources.
LEMMA ContextInvHolds == Spec => []ContextInv
<1>1. Init => ContextInv
  BY DEF Init, ContextInv, Knows, Contents
<1>2. TypeInv /\ TypeInv' /\ ContextInv /\ [Next]_vars => ContextInv'
  <2> SUFFICES ASSUME TypeInv, TypeInv', ContextInv, [Next]_vars, "Revived" \notin broken'
               PROVE  Knows(direct', derived') /\ Knows(image'.Contents.direct, image'.Contents.derived)
    BY DEF ContextInv
  <2>1. /\ Here /\ Memberships(direct, Direct) /\ Memberships(derived, Derived)
        /\ Memberships(direct', Direct)
    BY DEF TypeInv, Here, RecordsOK
  <2>2. "Revived" \notin broken
    BY DEF Next, TakeSnapshot, Save, Start, Reset, Merge, RefusedMerge, snapshots, vars
  <2>3. Knows(direct, derived) /\ Knows(image.Contents.direct, image.Contents.derived)
    BY <2>2 DEF ContextInv
  <2>4. CASE UNCHANGED image /\ Follows(direct, direct') /\ Sourced(derived, derived')
    BY <2>1, <2>3, <2>4, KnowledgeIsKept
  <2>5. CASE Mutation /\ UNCHANGED snapshots
    BY <2>1, <2>4, <2>5, MutationKeepsSources DEF snapshots
  <2>6. CASE TakeSnapshot \/ UNCHANGED vars
    BY <2>3, <2>6 DEF TakeSnapshot, topology, snapshots, vars
  <2>7. CASE Save
    BY <2>3, <2>7 DEF Save, topology, Contents
  <2>8. CASE Start
    BY <2>3, <2>8 DEF Start
  <2>9. CASE Reset
    BY <2>3, <2>9 DEF Reset, Knows
  <2>10. ASSUME NEW s \in Domain, NEW a \in Domain, NEW moved, NEW movedDerived,
                Merge(s, a, TRUE) \/ Merge(s, a, FALSE) \/ RefusedMerge(s, a, moved, movedDerived)
         PROVE  Knows(direct', derived') /\ Knows(image'.Contents.direct, image'.Contents.derived)
    <3>1. UNCHANGED image
      BY <2>10 DEF Merge, RefusedMerge
    <3> QED BY <2>1, <2>4, <2>10, <3>1, MergeKeepsSources
  <2> QED BY <2>5, <2>6, <2>7, <2>8, <2>9, <2>10 DEF Next
<1> QED BY <1>1, <1>2, TypeInvHolds, PTL DEF Spec

\* The generations that a derived record keeps are enough to see that it is
\* stale: while they are those of its sources the sources are current, unless a
\* merge revived a closed record or a source has run out of generations.
THEOREM ContextsAreExact == Spec => []ContextIsExact
<1>1. ContextInv => ContextIsExact
  BY DEF ContextInv, Knows, ContextIsExact
<1> QED BY <1>1, ContextInvHolds, PTL

(***************************************************************************)
(* The snapshots.                                                          *)
(***************************************************************************)
\* A snapshot of this epoch is not of a later generation, and one of this
\* generation holds what the registry holds.
SnapshotIsOfThePast ==
  /\ snap.epoch <= epoch
  /\ snap.epoch = epoch => /\ snap.gen <= generation
                           /\ snap.gen = generation => snap.Contents = Contents

SnapshotInv ==
  /\ generation \in Nat /\ epoch \in Nat
  /\ image.gen \in Nat /\ image.epoch \in Nat /\ image.epoch <= epoch
  /\ snap # NoSnapshot =>
       /\ snap.gen \in Nat /\ snap.epoch \in Nat
       /\ broken = {} => SnapshotIsOfThePast

\* Every mutation gives the registry a new generation or leaves its records.
LEMMA MutationsAreCounted ==
  ASSUME Mutation
  PROVE  generation' = generation + 1 \/ UNCHANGED <<life, direct, derived, generation>>
BY DEF Mutation, Bump, DeclareDomain, ChangeDomain, AttachDirect, ChangeDirect, Detach, Mark,
       Reconcile, AddRelation, PublishRule, RunDerivation, InvalidateEntity, NotifyTopologyChange,
       DeclareCoverage

\* Generations and epochs order the snapshots in every state.
LEMMA SnapshotInvHolds == Spec => []SnapshotInv
<1>1. Init => SnapshotInv
  BY DEF Init, SnapshotInv
<1>2. SnapshotInv /\ [Next]_vars => SnapshotInv'
  <2> SUFFICES ASSUME SnapshotInv, [Next]_vars
               PROVE  SnapshotInv'
    OBVIOUS
  <2>1. CASE /\ generation' = generation + 1 \/ UNCHANGED <<Contents, generation>>
             /\ UNCHANGED <<epoch, snap, image>> /\ broken \subseteq broken'
    BY <2>1 DEF SnapshotInv, SnapshotIsOfThePast
  <2>2. CASE Mutation /\ UNCHANGED snapshots
    BY <2>1, <2>2, MutationsAreCounted DEF snapshots, Contents
  <2>3. CASE TakeSnapshot
    BY <2>3 DEF TakeSnapshot, topology, SnapshotInv, SnapshotIsOfThePast, Contents
  <2>4. CASE Save
    BY <2>4 DEF Save, topology, SnapshotInv, SnapshotIsOfThePast, Contents
  <2>5. CASE Start
    BY <2>5 DEF Start, SnapshotInv, SnapshotIsOfThePast
  <2>6. CASE Reset
    BY <2>6 DEF Reset, SnapshotInv
  <2>7. ASSUME NEW d, NEW x, NEW equivalent, Merge(d, x, equivalent)
        PROVE  SnapshotInv'
    BY <2>1, <2>7 DEF Merge, Bump
  <2>8. ASSUME NEW d, NEW x, NEW moved, NEW movedDerived, RefusedMerge(d, x, moved, movedDerived)
        PROVE  SnapshotInv'
    BY <2>8 DEF RefusedMerge, SnapshotInv
  <2>9. CASE UNCHANGED vars
    BY <2>1, <2>9 DEF vars, topology, snapshots, Contents
  <2> QED BY <2>2, <2>3, <2>4, <2>5, <2>6, <2>7, <2>8, <2>9 DEF Next
<1> QED BY <1>1, <1>2, PTL DEF Spec

\* Between two states that are the same nothing is reported but the domains
\* that are superseded.
LEMMA SameStatesDoNotDiffer ==
  ASSUME NEW a, NEW change \in Diff(a, a)
  PROVE  change[2] = "Superseded"
<1>1. CASE change \in DiffOf("domain", a.life, a.life)
  BY <1>1 DEF DiffOf, Changed, DiffDomain
<1>2. DiffOf("membership", a.direct, a.direct) = {}
  BY DEF DiffOf, Changed, DiffMember
<1>3. DiffOf("derived", a.derived, a.derived) = {}
  BY DEF DiffOf, Changed, DiffDerived, DiffMember
<1> QED BY <1>1, <1>2, <1>3 DEF Diff

\* A client that holds a snapshot of the generation and epoch the registry is
\* at holds the registry's records, as long as generations tell of every change.
THEOREM SnapshotsAreFaithful == Spec => []CurrentSnapshotIsFaithful
<1>1. SnapshotInv => CurrentSnapshotIsFaithful
  BY SameStatesDoNotDiffer
  DEF SnapshotInv, SnapshotIsOfThePast, CurrentSnapshotIsFaithful, SnapshotIsCurrent
<1> QED BY <1>1, SnapshotInvHolds, PTL
=============================================================================
