--------------------------- MODULE Hierarchy_proofs ---------------------------
(***************************************************************************)
(* The hierarchy of the domains, for every number of domains and every     *)
(* limit: it has no cycle, no chain longer than the ceiling, and the       *)
(* bounded walks over it say truly whether they were cut.                  *)
(***************************************************************************)
EXTENDS Topology, TLAPS, FiniteSetTheorems

(***************************************************************************)
(* Induction over numbers, for sets of numbers.                            *)
(***************************************************************************)
\* Every set of numbers that is not empty has a least one.
LEMMA LeastNat ==
  ASSUME NEW T, T \subseteq Nat, T # {}
  PROVE  \E m \in T : \A n \in T : ~ (n < m)
<1>1. PICK m \in T : \A n \in T : ~ (<<n, m>> \in OpToRel(<, Nat))
  BY NatLessThanWellFounded, WFMin
<1>2. \A n \in T : n < m => <<n, m>> \in OpToRel(<, Nat)
  BY DEF OpToRel
<1> QED BY <1>1, <1>2

\* A set that has 0 and with a number the next has all of them.
LEMMA Induction ==
  ASSUME NEW N \in Nat, NEW Good, 0 \in Good,
         \A n \in Nat : n < N /\ n \in Good => n + 1 \in Good
  PROVE  \A n \in 0..N : n \in Good
<1> DEFINE Bad == 0..N \ Good
<1> SUFFICES ASSUME Bad # {} PROVE FALSE
  OBVIOUS
<1>1. PICK m \in Bad : \A n \in Bad : ~ (n < m)
  <2>1. Bad \subseteq Nat
    OBVIOUS
  <2> HIDE DEF Bad
  <2> QED BY <2>1, LeastNat
<1>2. m # 0 /\ m \in 0..N
  BY <1>1
<1>3. m - 1 \in Nat /\ m - 1 < N /\ m - 1 < m /\ m - 1 \in 0..N /\ (m - 1) + 1 = m
  BY <1>2
<1>4. m - 1 \in Good
  BY <1>1, <1>3
<1> QED BY <1>1, <1>3, <1>4

(***************************************************************************)
(* What can be reached.                                                    *)
(***************************************************************************)
\* What is reached from d is closed under the relation.
LEMMA ReachIsClosed ==
  ASSUME NEW R, NEW d, NEW x \in Reach(R, d), NEW y, <<x, y>> \in R
  PROVE  y \in Reach(R, d)
<1> DEFINE E == Ends(R) \cup {d}
<1>1. y \in E
  BY DEF Ends
<1>2. ASSUME NEW S \in SUBSET E, d \in S, Successors(R, S) \subseteq S
      PROVE  y \in S
  <2>1. x \in S
    BY <1>2 DEF Reach
  <2>2. y \in Successors(R, S)
    BY <2>1 DEF Successors
  <2> QED BY <2>2, <1>2
<1> QED BY <1>1, <1>2 DEF Reach

\* It has d itself.
LEMMA ReachHasStart ==
  ASSUME NEW R, NEW d
  PROVE  d \in Reach(R, d)
BY DEF Reach

\* A set without a way out of it is a cycle.
LEMMA ClosedSetIsCycle ==
  ASSUME NEW R, NEW S, S # {},
         \A x \in S : \E y \in S : <<x, y>> \in R
  PROVE  ~NoCycle(R)
<1>1. ASSUME NEW x \in S
      PROVE  x \in Ends(R)
  <2>1. PICK y \in S : <<x, y>> \in R
    OBVIOUS
  <2>2. x \in {<<x, y>>[1], <<x, y>>[2]}
    OBVIOUS
  <2> QED BY <2>1, <2>2 DEF Ends
<1>2. ASSUME NEW x \in S
      PROVE  Successors(R, {x}) \cap S # {}
  <2>1. PICK y \in S : <<x, y>> \in R
    OBVIOUS
  <2> QED BY <2>1 DEF Successors
<1> QED BY <1>1, <1>2 DEF NoCycle

\* Every element of a set without a way out has a successor in the set.
LEMMA CycleHasSuccessors ==
  ASSUME NEW A, NEW R \in SUBSET (A \X A), NEW S, NEW x \in S,
         Successors(R, {x}) \cap S # {}
  PROVE  \E y \in S : <<x, y>> \in R
<1>1. PICK y \in S : y \in Successors(R, {x})
  OBVIOUS
<1>2. PICK e \in R : e[1] = x /\ e[2] = y
  BY <1>1 DEF Successors
<1>3. e = <<x, y>>
  BY <1>2
<1> QED BY <1>2, <1>3

\* An edge that closes no cycle leaves an acyclic relation acyclic.
LEMMA EdgeKeepsNoCycle ==
  ASSUME NEW A, NEW R \in SUBSET (A \X A), NoCycle(R),
         NEW s \in A, NEW t \in A, ClosesNoCycle(R, s, t)
  PROVE  NoCycle(R \cup {<<s, t>>})
<1> DEFINE Q == R \cup {<<s, t>>}
<1>1. SUFFICES ASSUME NEW S \in SUBSET Ends(Q), S # {},
                      \A x \in S : Successors(Q, {x}) \cap S # {}
               PROVE  FALSE
  BY DEF NoCycle
<1>2. ASSUME NEW x \in S
      PROVE  \E y \in S : <<x, y>> \in Q
  <2>1. Q \in SUBSET (A \X A)
    OBVIOUS
  <2> HIDE DEF Q
  <2> QED BY <1>1, <2>1, CycleHasSuccessors
<1>3. s \in S /\ t \in S
  <2>1. SUFFICES ASSUME ~(s \in S /\ t \in S)
                 PROVE  FALSE
    OBVIOUS
  <2>2. \A x \in S : \E y \in S : <<x, y>> \in R
    BY <1>2, <2>1
  <2> QED BY <2>2, <1>1, ClosedSetIsCycle
<1> DEFINE T == S \cap Reach(R, t)
<1>4. T # {}
  BY <1>3, ReachHasStart
<1>5. ASSUME NEW x \in T
      PROVE  \E y \in T : <<x, y>> \in R
  <2>1. PICK y \in S : <<x, y>> \in Q
    BY <1>2
  <2>2. x # s
    BY DEF ClosesNoCycle
  <2>3. <<x, y>> \in R
    BY <2>1, <2>2
  <2>4. y \in Reach(R, t)
    BY <2>3, ReachIsClosed
  <2> QED BY <2>3, <2>4
<1> QED
  <2> HIDE DEF T
  <2> QED BY <1>4, <1>5, ClosedSetIsCycle

(***************************************************************************)
(* The walks of the queries.                                               *)
(***************************************************************************)
\* A level of a walk that has found F.
Level(R, d, F) ==
  IF Cardinality(F) >= MaxWalk THEN F ELSE F \cup (Successors(R, F \cup {d}) \ {d})

\* The levels are well defined, and a walk is the last of them.
LEMMA WalkLevels ==
  ASSUME NEW R, NEW d, IsFiniteSet(Ends(R))
  PROVE  \E f : /\ f[0] = {}
                /\ \A n \in 1..Cardinality(Ends(R)) : f[n] = Level(R, d, f[n - 1])
                /\ Walk(R, d) = f[Cardinality(Ends(R))]
<1> DEFINE most == Cardinality(Ends(R))
           Step(n, f) == IF n = 0 THEN {}
             ELSE IF Cardinality(f[n - 1]) >= MaxWalk THEN f[n - 1]
             ELSE f[n - 1] \cup (Successors(R, f[n - 1] \cup {d}) \ {d})
           Upto(k, f) == f = [n \in 0..k |-> Step(n, f)]
           Good == {k \in Nat : \E f : Upto(k, f)}
<1>1. most \in Nat
  BY FS_CardinalityType
<1>2. 0 \in Good
  <2>1. Upto(0, [n \in 0..0 |-> {}])
    OBVIOUS
  <2> QED BY <2>1
<1>3. ASSUME NEW k \in Nat, k \in Good
      PROVE  k + 1 \in Good
  <2>1. PICK f : Upto(k, f)
    BY <1>3
  <2> DEFINE g == [n \in 0..k + 1 |-> IF n = k + 1 THEN Step(k + 1, f) ELSE f[n]]
  <2>2. \A n \in 0..k : f[n] = Step(n, f)
    <3> HIDE DEF Step
    <3> QED BY <2>1
  <2>3. ASSUME NEW n \in 0..k + 1
        PROVE  g[n] = Step(n, g)
    <3>1. n = 0 \/ (n - 1 \in 0..k /\ g[n - 1] = f[n - 1])
      OBVIOUS
    <3>2. Step(n, g) = Step(n, f)
      <4> HIDE DEF g
      <4> QED BY <3>1
    <3>3. n = k + 1 \/ n \in 0..k
      OBVIOUS
    <3> HIDE DEF Step
    <3> QED BY <2>2, <3>2, <3>3
  <2>4. g = [n \in 0..k + 1 |-> g[n]]
    OBVIOUS
  <2>5. Upto(k + 1, g)
    <3> HIDE DEF g, Step
    <3> QED BY <2>3, <2>4
  <2> HIDE DEF Upto
  <2> QED BY <2>5
<1> DEFINE found == CHOOSE f : Upto(most, f)
<1>4. Upto(most, found)
  <2>1. most \in Good
    <3> HIDE DEF Good, most
    <3>1. most \in 0..most
      BY <1>1
    <3> QED BY <1>1, <1>2, <1>3, <3>1, Induction
  <2> HIDE DEF Upto
  <2> QED BY <2>1
<1>5. Walk(R, d) = found[most]
  BY DEF Walk
<1> HIDE DEF most
<1>6. \A n \in 0..most : found[n] = Step(n, found)
  <2> HIDE DEF found, Step
  <2> QED BY <1>4
<1>7. found[0] = {}
  <2>1. found[0] = Step(0, found)
    <3> HIDE DEF found, Step
    <3> QED BY <1>6, <1>1
  <2> HIDE DEF found
  <2> QED BY <2>1
<1>8. ASSUME NEW n \in 1..most
      PROVE  found[n] = Level(R, d, found[n - 1])
  <2>1. n # 0 /\ found[n] = Step(n, found)
    <3> HIDE DEF found, Step
    <3> QED BY <1>1, <1>6
  <2> HIDE DEF found
  <2> QED BY <2>1 DEF Level
<1> HIDE DEF found
<1> QED BY <1>5, <1>7, <1>8 DEF most

\* A walk that finds nothing more.
Settled(R, d, F) == Successors(R, F \cup {d}) \ {d} \subseteq F

\* It has found everything that can be reached.
LEMMA SettledIsReach ==
  ASSUME NEW R, NEW d, NEW F \in SUBSET Ends(R), Settled(R, d, F)
  PROVE  Reach(R, d) \subseteq F \cup {d}
<1>1. /\ F \cup {d} \in SUBSET (Ends(R) \cup {d}) /\ d \in F \cup {d}
      /\ Successors(R, F \cup {d}) \subseteq F \cup {d}
  BY DEF Settled
<1> QED BY <1>1 DEF Reach

\* Successors are ends of edges.
LEMMA SuccessorsAreEnds ==
  ASSUME NEW R, NEW S
  PROVE  Successors(R, S) \subseteq Ends(R)
BY DEF Successors, Ends

\* Successors of what is reached are reached.
LEMMA ReachTakesSuccessors ==
  ASSUME NEW A, NEW R \in SUBSET (A \X A), NEW d, NEW S \in SUBSET Reach(R, d)
  PROVE  Successors(R, S) \subseteq Reach(R, d)
<1> SUFFICES ASSUME NEW e \in R, e[1] \in S
             PROVE  e[2] \in Reach(R, d)
  BY DEF Successors
<1>1. e = <<e[1], e[2]>>
  OBVIOUS
<1> QED BY <1>1, ReachIsClosed

\* What the n-th level of a walk has: only what can be reached, at least n
\* domains unless the walk was cut or is over.
LevelOK(R, d, n, F) ==
  /\ F \subseteq Reach(R, d) \ {d} /\ F \subseteq Ends(R)
  /\ Cardinality(F) >= n \/ Cardinality(F) >= MaxWalk \/ Settled(R, d, F)

\* A level of more keeps that.
LEMMA LevelKeepsOK ==
  ASSUME NEW A, NEW R \in SUBSET (A \X A), IsFiniteSet(Ends(R)), NEW d,
         NEW n \in Nat, NEW F, LevelOK(R, d, n, F)
  PROVE  LevelOK(R, d, n + 1, Level(R, d, F))
<1> DEFINE found == Successors(R, F \cup {d}) \ {d}
<1>1. F \cup {d} \in SUBSET Reach(R, d)
  BY ReachHasStart DEF LevelOK
<1>2. found \subseteq Reach(R, d) \ {d} /\ found \subseteq Ends(R)
  BY <1>1, ReachTakesSuccessors, SuccessorsAreEnds
<1>3. CASE Cardinality(F) >= MaxWalk
  BY <1>3 DEF LevelOK, Level
<1>4. CASE Settled(R, d, F)
  <2>1. Level(R, d, F) = F
    BY <1>4 DEF Level, Settled
  <2> QED BY <2>1, <1>4 DEF LevelOK
<1>5. CASE ~ (Cardinality(F) >= MaxWalk) /\ ~ Settled(R, d, F)
  <2>1. Level(R, d, F) = F \cup found
    BY <1>5 DEF Level
  <2>2. F \cup found \subseteq Ends(R) /\ F \cup found # F
    BY <1>2, <1>5 DEF LevelOK, Settled
  <2>3. IsFiniteSet(F \cup found)
    BY <2>2, FS_Subset
  <2>4. /\ Cardinality(F) <= Cardinality(F \cup found)
        /\ Cardinality(F) # Cardinality(F \cup found)
    BY <2>2, <2>3, FS_Subset
  <2>5. Cardinality(F) \in Nat /\ Cardinality(F \cup found) \in Nat
    BY <2>2, <2>3, FS_Subset, FS_CardinalityType
  <2>6. Cardinality(F) >= n
    BY <1>5 DEF LevelOK
  <2>7. Cardinality(F \cup found) >= n + 1
    <3> HIDE DEF found
    <3> QED BY <2>4, <2>5, <2>6
  <2> QED BY <1>2, <2>1, <2>2, <2>7 DEF LevelOK
<1> QED BY <1>3, <1>4, <1>5

\* A walk finds only what can be reached, and all of it unless it says that it
\* was cut.
LEMMA WalkIsExact ==
  ASSUME NEW A, NEW R \in SUBSET (A \X A), IsFiniteSet(Ends(R)), NEW d, MaxWalk \in Nat
  PROVE  /\ Walk(R, d) \subseteq Reach(R, d) \ {d} /\ Walk(R, d) \subseteq Ends(R)
         /\ ~Truncated(Walk(R, d)) => Walk(R, d) = Reach(R, d) \ {d}
<1> DEFINE most == Cardinality(Ends(R))
<1>1. most \in Nat
  BY FS_CardinalityType
<1>2. PICK f : /\ f[0] = {}
               /\ \A n \in 1..most : f[n] = Level(R, d, f[n - 1])
               /\ Walk(R, d) = f[most]
  BY WalkLevels
<1> DEFINE Good == {n \in Nat : n <= most => LevelOK(R, d, n, f[n])}
<1> HIDE DEF most
<1>3. \A n \in 0..most : n \in Good
  <2>1. 0 \in Good
    BY <1>2, FS_EmptySet DEF LevelOK
  <2>2. ASSUME NEW n \in Nat, n < most, n \in Good
        PROVE  n + 1 \in Good
    <3>1. n + 1 \in 1..most /\ (n + 1) - 1 = n /\ n <= most
      BY <1>1, <2>2
    <3>2. LevelOK(R, d, n, f[n])
      BY <2>2, <3>1
    <3>3. LevelOK(R, d, n + 1, Level(R, d, f[n]))
      BY <3>2, LevelKeepsOK
    <3> QED BY <1>2, <3>1, <3>3
  <2> HIDE DEF Good
  <2> QED BY <1>1, <2>1, <2>2, Induction
<1>4. LevelOK(R, d, most, Walk(R, d))
  <2>1. most \in 0..most /\ most <= most
    BY <1>1
  <2> QED BY <1>2, <1>3, <2>1
<1>5. ASSUME ~Truncated(Walk(R, d))
      PROVE  Settled(R, d, Walk(R, d))
  <2>1. CASE Cardinality(Walk(R, d)) >= most
    <3>1. /\ Cardinality(Walk(R, d)) <= most
          /\ Cardinality(Walk(R, d)) = most => Ends(R) = Walk(R, d)
          /\ Cardinality(Walk(R, d)) \in Nat
      BY <1>4, FS_Subset, FS_CardinalityType DEF LevelOK, most
    <3>2. Ends(R) = Walk(R, d)
      BY <2>1, <3>1, <1>1
    <3> QED BY <3>2, SuccessorsAreEnds DEF Settled
  <2> QED BY <2>1, <1>4, <1>5 DEF LevelOK, Truncated
<1>6. Walk(R, d) \subseteq Reach(R, d) \ {d} /\ Walk(R, d) \in SUBSET Ends(R)
  BY <1>4 DEF LevelOK
<1> QED BY <1>5, <1>6, SettledIsReach

\* What is reached from d is d or reached from a successor of d.
LEMMA ReachBeginsWithStep ==
  ASSUME NEW A, NEW R \in SUBSET (A \X A), NEW d, NEW x \in Reach(R, d), x # d
  PROVE  \E y : <<d, y>> \in R /\ x \in Reach(R, y)
<1> DEFINE E == Ends(R) \cup {d}
           S == {z \in E : z = d \/ \E y : <<d, y>> \in R /\ z \in Reach(R, y)}
<1>1. ASSUME NEW e \in R, e[1] \in S
      PROVE  e[2] \in S
  <2>1. e = <<e[1], e[2]>> /\ e[2] \in E
    BY DEF Ends
  <2>2. CASE e[1] = d
    BY <2>1, <2>2, ReachHasStart
  <2>3. ASSUME NEW y, <<d, y>> \in R, e[1] \in Reach(R, y)
        PROVE  e[2] \in S
    BY <2>1, <2>3, ReachIsClosed
  <2> QED BY <1>1, <2>2, <2>3
<1>2. S \in SUBSET E /\ d \in S /\ Successors(R, S) \subseteq S
  <2> HIDE DEF S
  <2>1. S \in SUBSET E /\ d \in S
    BY DEF S
  <2> QED BY <1>1, <2>1 DEF Successors
<1>3. x \in S
  <2> HIDE DEF S
  <2> QED BY <1>2 DEF Reach
<1> QED BY <1>3

\* Without cycles, every set of domains has one above no other of them.
LEMMA SomeReachesNoOther ==
  ASSUME NEW A, NEW R \in SUBSET (A \X A), NoCycle(R), NEW S, S # {}
  PROVE  \E d \in S : (Reach(R, d) \ {d}) \cap S = {}
<1> SUFFICES ASSUME \A d \in S : \E x \in S : x \in Reach(R, d) /\ x # d
             PROVE  FALSE
  OBVIOUS
<1> DEFINE T == {y \in A : \E x \in S : x \in Reach(R, y) /\ x # y}
<1>1. ASSUME NEW d \in S
      PROVE  d \in T
  <2>1. PICK x \in S : x \in Reach(R, d) /\ x # d
    OBVIOUS
  <2>2. PICK y : <<d, y>> \in R
    BY <2>1, ReachBeginsWithStep
  <2> QED BY <2>1, <2>2
<1>2. ASSUME NEW y \in T
      PROVE  \E z \in T : <<y, z>> \in R
  <2>1. PICK x \in S : x \in Reach(R, y) /\ x # y
    OBVIOUS
  <2>2. PICK z : <<y, z>> \in R /\ x \in Reach(R, z)
    BY <2>1, ReachBeginsWithStep
  <2>3. z \in T
    BY <1>1, <2>1, <2>2
  <2> QED BY <2>2, <2>3
<1>3. T # {}
  BY <1>1
<1> HIDE DEF T
<1> QED BY <1>2, <1>3, ClosedSetIsCycle

\* Against the arrows there is no cycle either: of the smallest one the domain
\* without a successor could be left out.
LEMMA ReversedHasNoCycle ==
  ASSUME NEW A, NEW R \in SUBSET (A \X A), NoCycle(R), IsFiniteSet(A)
  PROVE  NoCycle(Reversed(R))
<1> DEFINE Cycles == {S \in SUBSET A : S # {} /\ \A x \in S : \E y \in S : <<y, x>> \in R}
           Sizes  == {Cardinality(S) : S \in Cycles}
<1>1. ASSUME Cycles # {}
      PROVE  FALSE
  <2>1. Sizes \subseteq Nat /\ Sizes # {}
    BY <1>1, FS_Subset, FS_CardinalityType
  <2>2. PICK n \in Sizes : \A m \in Sizes : ~ (m < n)
    <3> HIDE DEF Sizes
    <3> QED BY <2>1, LeastNat
  <2>3. PICK S \in Cycles : Cardinality(S) = n
    BY <2>2
  <2>4. S \in SUBSET A /\ S # {} /\ \A x \in S : \E y \in S : <<y, x>> \in R
    BY <2>3
  <2>5. PICK x \in S : \A z \in S : <<x, z>> \notin R
    BY <2>4, ClosedSetIsCycle
  <2>6. S \ {x} \in Cycles
    <3>1. S \ {x} # {}
      <4>1. PICK y \in S : <<y, x>> \in R
        BY <2>4
      <4>2. y # x
        BY <2>5, <4>1
      <4> QED BY <4>2
    <3>2. \A z \in S \ {x} : \E y \in S \ {x} : <<y, z>> \in R
      BY <2>4, <2>5
    <3> QED BY <2>4, <3>1, <3>2
  <2>7. IsFiniteSet(S) /\ Cardinality(S \ {x}) = Cardinality(S) - 1 /\ Cardinality(S) \in Nat
    BY <2>4, FS_Subset, FS_RemoveElement, FS_CardinalityType
  <2>8. Cardinality(S \ {x}) \in Sizes
    BY <2>6
  <2>9. Cardinality(S \ {x}) < n
    BY <2>3, <2>7
  <2> HIDE DEF Sizes
  <2> QED BY <2>2, <2>8, <2>9
<1>2. ASSUME NEW S \in SUBSET Ends(Reversed(R)), S # {},
             \A x \in S : Successors(Reversed(R), {x}) \cap S # {}
      PROVE  FALSE
  <2>1. Reversed(R) \in SUBSET (A \X A)
    BY DEF Reversed
  <2>2. S \in SUBSET A
    BY <2>1 DEF Ends
  <2>3. ASSUME NEW x \in S
        PROVE  \E y \in S : <<y, x>> \in R
    <3>1. PICK y \in S : <<x, y>> \in Reversed(R)
      BY <1>2, <2>1, CycleHasSuccessors
    <3>2. PICK e \in R : <<e[2], e[1]>> = <<x, y>>
      BY <3>1 DEF Reversed
    <3>3. e = <<y, x>>
      BY <3>2
    <3> QED BY <3>2, <3>3
  <2> QED BY <1>1, <1>2, <2>2, <2>3
<1> QED BY <1>2 DEF NoCycle

\* There are only so many edges.
LEMMA EdgesAreFinite ==
  ASSUME NEW type, relations \subseteq Relation
  PROVE  /\ Edges(type) \in SUBSET (Domain \X Domain)
         /\ Reversed(Edges(type)) \in SUBSET (Domain \X Domain)
         /\ IsFiniteSet(Domain)
         /\ IsFiniteSet(Ends(Edges(type))) /\ IsFiniteSet(Ends(Reversed(Edges(type))))
<1>1. Edges(type) \in SUBSET (Domain \X Domain)
  BY DEF Edges, Relation
<1>2. Reversed(Edges(type)) \in SUBSET (Domain \X Domain)
  <2> HIDE <1>1
  <2> QED BY <1>1 DEF Reversed
<1>3. \A R \in SUBSET (Domain \X Domain) : Ends(R) \subseteq Domain
  BY DEF Ends
<1>4. IsFiniteSet(Domain)
  BY TopologyAssumption
<1> QED BY <1>1, <1>2, <1>3, <1>4, FS_Subset

(***************************************************************************)
(* The depth of chains.                                                    *)
(***************************************************************************)
\* The sets of domains that begin chains are well defined.
LEMMA ChainDepthLevels ==
  ASSUME NEW R, NEW d, MaxDepth \in Nat
  PROVE  \E f : /\ f[0] = Ends(R) \cup {d}
                /\ \A n \in 1..MaxDepth + 1 :
                     f[n] = {x \in Ends(R) : Successors(R, {x}) \cap f[n - 1] # {}}
                /\ ChainDepth(R, d) = CHOOSE n \in 0..MaxDepth + 1 :
                     /\ d \in f[n]
                     /\ n <= MaxDepth => d \notin f[n + 1]
<1> DEFINE Step(n, f) == IF n = 0 THEN Ends(R) \cup {d}
             ELSE {x \in Ends(R) : Successors(R, {x}) \cap f[n - 1] # {}}
           Upto(k, f) == f = [n \in 0..k |-> Step(n, f)]
           Good == {k \in Nat : \E f : Upto(k, f)}
<1>1. 0 \in Good
  <2>1. Upto(0, [n \in 0..0 |-> Ends(R) \cup {d}])
    OBVIOUS
  <2> QED BY <2>1
<1>2. ASSUME NEW k \in Nat, k \in Good
      PROVE  k + 1 \in Good
  <2>1. PICK f : Upto(k, f)
    BY <1>2
  <2> DEFINE g == [n \in 0..k + 1 |-> IF n = k + 1 THEN Step(k + 1, f) ELSE f[n]]
  <2>2. \A n \in 0..k : f[n] = Step(n, f)
    <3> HIDE DEF Step
    <3> QED BY <2>1
  <2>3. ASSUME NEW n \in 0..k + 1
        PROVE  g[n] = Step(n, g)
    <3>1. n = 0 \/ (n - 1 \in 0..k /\ g[n - 1] = f[n - 1])
      OBVIOUS
    <3>2. Step(n, g) = Step(n, f)
      <4> HIDE DEF g
      <4> QED BY <3>1
    <3>3. n = k + 1 \/ n \in 0..k
      OBVIOUS
    <3> HIDE DEF Step
    <3> QED BY <2>2, <3>2, <3>3
  <2>4. g = [n \in 0..k + 1 |-> g[n]]
    OBVIOUS
  <2>5. Upto(k + 1, g)
    <3> HIDE DEF g, Step
    <3> QED BY <2>3, <2>4
  <2> HIDE DEF Upto
  <2> QED BY <2>5
<1>3. MaxDepth + 1 \in Good
  <2>1. MaxDepth + 1 \in Nat /\ MaxDepth + 1 \in 0..MaxDepth + 1
    OBVIOUS
  <2> HIDE DEF Good
  <2> QED BY <1>1, <1>2, <2>1, Induction
<1> DEFINE starts == CHOOSE f : Upto(MaxDepth + 1, f)
<1>4. Upto(MaxDepth + 1, starts)
  <2>1. \E f : Upto(MaxDepth + 1, f)
    BY <1>3
  <2> HIDE DEF Upto
  <2> QED BY <2>1
<1>5. \A n \in 0..MaxDepth + 1 : starts[n] = Step(n, starts)
  <2> HIDE DEF starts, Step
  <2> QED BY <1>4
<1>6. starts[0] = Ends(R) \cup {d}
  <2>1. starts[0] = Step(0, starts)
    <3> HIDE DEF starts, Step
    <3> QED BY <1>5
  <2> HIDE DEF starts
  <2> QED BY <2>1
<1>7. ASSUME NEW n \in 1..MaxDepth + 1
      PROVE  starts[n] = {x \in Ends(R) : Successors(R, {x}) \cap starts[n - 1] # {}}
  <2>1. n # 0 /\ starts[n] = Step(n, starts)
    <3> HIDE DEF starts, Step
    <3> QED BY <1>5
  <2> HIDE DEF starts
  <2> QED BY <2>1
<1>8. ChainDepth(R, d) = CHOOSE n \in 0..MaxDepth + 1 :
                     /\ d \in starts[n]
                     /\ n <= MaxDepth => d \notin starts[n + 1]
  BY DEF ChainDepth
<1> HIDE DEF starts
<1> QED BY <1>6, <1>7, <1>8

\* A chain of n edges of R.
IsChain(R, n, c) ==
  /\ \A i \in 1..n : c[i] \in R
  /\ \A i \in 1..n - 1 : c[i][2] = c[i + 1][1]

\* containment_chain_depth counts every edge of a chain that leaves d, up to
\* one above the ceiling.
LEMMA ChainDepthCovers ==
  ASSUME MaxDepth \in Nat, NEW R, NEW d, NEW n \in 0..MaxDepth + 1, NEW c,
         IsChain(R, n, c), n > 0 => c[1][1] = d
  PROVE  ChainDepth(R, d) \in n..MaxDepth + 1
<1>1. PICK f : /\ f[0] = Ends(R) \cup {d}
               /\ \A m \in 1..MaxDepth + 1 :
                    f[m] = {x \in Ends(R) : Successors(R, {x}) \cap f[m - 1] # {}}
               /\ ChainDepth(R, d) = CHOOSE m \in 0..MaxDepth + 1 :
                    /\ d \in f[m]
                    /\ m <= MaxDepth => d \notin f[m + 1]
  BY ChainDepthLevels
\* The k-th domain before the end begins a chain of k edges.
<1>2. \A m \in 0..n : m \in {k \in Nat : k >= 1 /\ k <= n => c[n + 1 - k][1] \in f[k]}
  <2> DEFINE Good == {k \in Nat : k >= 1 /\ k <= n => c[n + 1 - k][1] \in f[k]}
  <2>1. 0 \in Good
    OBVIOUS
  <2>2. ASSUME NEW k \in Nat, k < n, k \in Good
        PROVE  k + 1 \in Good
    <3> DEFINE i == n - k
    <3>1. i \in 1..n /\ n + 1 - (k + 1) = i /\ (k + 1) - 1 = k /\ k + 1 \in 1..MaxDepth + 1
      BY <2>2
    <3>2. c[i] \in R
      BY <3>1 DEF IsChain
    <3>3. c[i][1] \in Ends(R) /\ c[i][2] \in Ends(R) /\ c[i][2] \in Successors(R, {c[i][1]})
      BY <3>2 DEF Ends, Successors
    <3>4. c[i][2] \in f[k]
      <4>1. CASE k = 0
        BY <4>1, <1>1, <3>3
      <4>2. CASE k # 0
        <5>1. i \in 1..n - 1 /\ i + 1 = n + 1 - k /\ k >= 1 /\ k <= n
          BY <4>2, <2>2
        <5>2. c[i][2] = c[i + 1][1]
          BY <5>1 DEF IsChain
        <5>3. c[n + 1 - k][1] \in f[k]
          BY <2>2, <5>1
        <5> HIDE DEF i
        <5> QED BY <5>1, <5>2, <5>3
      <4> QED BY <4>1, <4>2
    <3>5. f[k + 1] = {x \in Ends(R) : Successors(R, {x}) \cap f[k] # {}}
      <4>1. k + 1 \in 1..MaxDepth + 1
        BY <2>2
      <4> HIDE DEF i, Good
      <4>2. f[k + 1] = {x \in Ends(R) : Successors(R, {x}) \cap f[(k + 1) - 1] # {}}
        BY <1>1, <4>1
      <4>3. (k + 1) - 1 = k
        OBVIOUS
      <4> QED BY <4>2, <4>3
    <3>6. c[i][1] \in f[k + 1]
      <4> HIDE DEF i
      <4> QED BY <3>3, <3>4, <3>5
    <3> HIDE DEF i
    <3> QED BY <3>1, <3>6
  <2>3. n \in Nat
    OBVIOUS
  <2> HIDE DEF Good
  <2>4. \A m \in 0..n : m \in Good
    BY <2>1, <2>2, <2>3, Induction
  <2> QED BY <2>4 DEF Good
<1>3. d \in f[n]
  <2>1. n > 0 => n + 1 - n = 1
    OBVIOUS
  <2> QED BY <1>1, <1>2, <2>1
\* Fewer and fewer domains begin longer and longer chains.
<1>4. \A m \in 0..MaxDepth + 1 :
        m \in {k \in Nat : k <= MaxDepth + 1 => \A j \in 0..k : f[k] \subseteq f[j]}
  <2> DEFINE Good == {k \in Nat : k <= MaxDepth + 1 => \A j \in 0..k : f[k] \subseteq f[j]}
  <2>1. 0 \in Good
    OBVIOUS
  <2>2. ASSUME NEW k \in Nat, k < MaxDepth + 1, k \in Good
        PROVE  k + 1 \in Good
    <3>1. f[k + 1] = {x \in Ends(R) : Successors(R, {x}) \cap f[k] # {}}
      BY <1>1, <2>2
    <3>2. f[k + 1] \subseteq f[k]
      <4>1. CASE k = 0
        BY <4>1, <3>1, <1>1
      <4>2. CASE k # 0
        <5>1. k \in 1..MaxDepth + 1 /\ k - 1 \in 0..k
          BY <4>2, <2>2
        <5>2. f[k] = {x \in Ends(R) : Successors(R, {x}) \cap f[k - 1] # {}}
          BY <5>1, <1>1
        <5>3. f[k] \subseteq f[k - 1]
          BY <5>1, <2>2
        <5> QED BY <3>1, <5>2, <5>3
      <4> QED BY <4>1, <4>2
    <3>3. ASSUME NEW j \in 0..k + 1
          PROVE  f[k + 1] \subseteq f[j]
      <4>1. CASE j = k + 1
        BY <4>1
      <4>2. CASE j \in 0..k
        BY <4>2, <3>2, <2>2
      <4> QED BY <4>1, <4>2
    <3> QED BY <3>3
  <2> HIDE DEF Good
  <2>3. \A m \in 0..MaxDepth + 1 : m \in Good
    BY <2>1, <2>2, Induction
  <2> QED BY <2>3 DEF Good
<1> DEFINE Depth(m) == /\ d \in f[m]
                       /\ m <= MaxDepth => d \notin f[m + 1]
<1>5. \E m \in 0..MaxDepth + 1 : Depth(m)
  <2> SUFFICES ASSUME \A m \in 0..MaxDepth + 1 : ~Depth(m)
               PROVE  FALSE
    OBVIOUS
  <2> DEFINE Good == {k \in Nat : d \in f[k]}
  <2>1. 0 \in Good
    BY <1>1
  <2>2. ASSUME NEW k \in Nat, k < MaxDepth + 1, k \in Good
        PROVE  k + 1 \in Good
    BY <2>2
  <2>3. MaxDepth + 1 \in Nat /\ MaxDepth + 1 \in 0..MaxDepth + 1
    OBVIOUS
  <2>4. MaxDepth + 1 \in Good
    <3> HIDE DEF Good
    <3> QED BY <2>1, <2>2, <2>3, Induction
  <2> QED BY <2>3, <2>4
<1>6. ChainDepth(R, d) \in 0..MaxDepth + 1 /\ Depth(ChainDepth(R, d))
  <2>1. ChainDepth(R, d) = CHOOSE m \in 0..MaxDepth + 1 : Depth(m)
    BY <1>1
  <2> HIDE DEF Depth
  <2> QED BY <1>5, <2>1
<1>7. ASSUME ChainDepth(R, d) < n
      PROVE  FALSE
  <2> DEFINE m == ChainDepth(R, d)
  <2>1. m + 1 \in 0..n /\ m <= MaxDepth
    BY <1>6, <1>7
  <2>2. f[n] \subseteq f[m + 1]
    <3> HIDE DEF m
    <3> QED BY <1>4, <2>1
  <2> QED BY <1>3, <1>6, <2>1, <2>2
<1> QED BY <1>6, <1>7

\* Against the arrows the same chain ends where it began.
LEMMA ChainDepthCoversBack ==
  ASSUME MaxDepth \in Nat, NEW R, NEW d, NEW n \in 0..MaxDepth + 1, NEW c,
         IsChain(R, n, c), n > 0 => c[n][2] = d
  PROVE  ChainDepth(Reversed(R), d) \in n..MaxDepth + 1
<1> DEFINE b == [i \in 1..n |-> <<c[n + 1 - i][2], c[n + 1 - i][1]>>]
<1>1. ASSUME NEW i \in 1..n
      PROVE  b[i] \in Reversed(R)
  <2>1. n + 1 - i \in 1..n
    OBVIOUS
  <2>2. c[n + 1 - i] \in R
    BY <2>1 DEF IsChain
  <2> QED BY <2>2 DEF Reversed
<1>2. ASSUME NEW i \in 1..n - 1
      PROVE  b[i][2] = b[i + 1][1]
  <2>1. n - i \in 1..n - 1 /\ n + 1 - i = (n - i) + 1 /\ n + 1 - (i + 1) = n - i
        /\ i \in 1..n /\ i + 1 \in 1..n
    OBVIOUS
  <2>2. c[n - i][2] = c[(n - i) + 1][1]
    BY <2>1 DEF IsChain
  <2>3. b[i][2] = c[n + 1 - i][1] /\ b[i + 1][1] = c[n + 1 - (i + 1)][2]
    BY <2>1
  <2> HIDE DEF b
  <2> QED BY <2>1, <2>2, <2>3
<1>3. IsChain(Reversed(R), n, b)
  <2> HIDE DEF b
  <2> QED BY <1>1, <1>2 DEF IsChain
<1>4. n > 0 => b[1][1] = d
  <2> SUFFICES ASSUME n > 0 PROVE b[1][1] = d
    OBVIOUS
  <2>1. 1 \in 1..n /\ n + 1 - 1 = n
    OBVIOUS
  <2>2. b[1][1] = c[n + 1 - 1][2]
    BY <2>1
  <2> HIDE DEF b
  <2> QED BY <2>1, <2>2
<1> HIDE DEF b
<1> QED BY <1>3, <1>4, ChainDepthCovers

\* No chain of containment is longer than the ceiling.
NoLongChain(R) == \A c : ~IsChain(R, MaxDepth + 1, c)

\* An edge that a chain goes through twice closes a cycle.
LEMMA ChainReturns ==
  ASSUME NEW A, NEW R \in SUBSET (A \X A), NEW s, NEW t, NEW c, NEW i \in Nat, NEW j \in Nat, i < j,
         c[i] = <<s, t>>, c[j] = <<s, t>>,
         \A k \in i + 1..j - 1 : c[k] \in R, \A k \in i..j - 1 : c[k][2] = c[k + 1][1]
  PROVE  s \in Reach(R, t)
<1> DEFINE Good == {k \in Nat : k <= j - 1 - i => c[i + k][2] \in Reach(R, t)}
<1>1. 0 \in Good
  <2>1. c[i + 0][2] = t
    OBVIOUS
  <2> QED BY <2>1, ReachHasStart
<1>2. ASSUME NEW k \in Nat, k < j - 1 - i, k \in Good
      PROVE  k + 1 \in Good
  <2>1. i + k \in i..j - 1 /\ i + (k + 1) = (i + k) + 1 /\ (i + k) + 1 \in i + 1..j - 1
    BY <1>2
  <2>2. c[i + k][2] \in Reach(R, t) /\ c[i + k][2] = c[(i + k) + 1][1] /\ c[(i + k) + 1] \in R
    BY <1>2, <2>1
  <2>3. <<c[(i + k) + 1][1], c[(i + k) + 1][2]>> \in R
    BY <2>2
  <2>4. c[(i + k) + 1][2] \in Reach(R, t)
    BY <2>2, <2>3, ReachIsClosed
  <2> QED BY <2>1, <2>4
<1>3. j - 1 - i \in Nat /\ j - 1 - i \in 0..j - 1 - i
  OBVIOUS
<1>4. j - 1 - i \in Good
  <2> HIDE DEF Good
  <2> QED BY <1>1, <1>2, <1>3, Induction
<1>5. i + (j - 1 - i) = j - 1 /\ j - 1 \in i..j - 1 /\ (j - 1) + 1 = j
  OBVIOUS
<1> QED BY <1>4, <1>5

\* A relation that leaves room for what meets at its ends makes no chain longer
\* than the ceiling.
LEMMA EdgeKeepsChainsShort ==
  ASSUME MaxDepth \in Nat, NEW A, NEW R \in SUBSET (A \X A), NEW s, NEW t, NoLongChain(R),
         s \notin Reach(R, t), DepthThrough(R, s, t) <= MaxDepth
  PROVE  NoLongChain(R \cup {<<s, t>>})
<1> DEFINE N == MaxDepth + 1
<1> SUFFICES ASSUME NEW c, IsChain(R \cup {<<s, t>>}, N, c)
             PROVE  FALSE
  BY DEF NoLongChain
<1>1. /\ N \in Nat /\ N >= 1
      /\ \A i \in 1..N : c[i] \in R \/ c[i] = <<s, t>>
      /\ \A i \in 1..N - 1 : c[i][2] = c[i + 1][1]
  BY DEF IsChain
<1> HIDE DEF N
<1> DEFINE New == {i \in 1..N : c[i] = <<s, t>>}
<1>2. PICK i \in New : \A j \in New : ~ (j < i)
  <2>1. New \subseteq Nat
    OBVIOUS
  <2>2. New # {}
    <3>1. CASE New = {}
      <4>1. IsChain(R, N, c)
        BY <1>1, <3>1 DEF IsChain
      <4> QED BY <4>1 DEF NoLongChain, N
    <3> QED BY <3>1
  <2> HIDE DEF New
  <2> QED BY <2>1, <2>2, LeastNat
<1>3. i \in 1..N /\ i \in Nat /\ c[i] = <<s, t>>
  BY <1>2
<1>4. \A k \in 1..i - 1 : c[k] \in R
  <2> TAKE k \in 1..i - 1
  <2>1. k \in 1..N /\ k < i
    BY <1>1, <1>3
  <2>2. k \notin New
    BY <1>2, <2>1
  <2> QED BY <1>1, <2>1, <2>2
<1> DEFINE Later == {j \in New : j > i}
<1>5. Later = {}
  <2> SUFFICES ASSUME Later # {} PROVE FALSE
    OBVIOUS
  <2>1. PICK j \in Later : \A k \in Later : ~ (k < j)
    <3>1. Later \subseteq Nat
      OBVIOUS
    <3> HIDE DEF Later
    <3> QED BY <3>1, LeastNat
  <2>2. j \in 1..N /\ j \in Nat /\ i < j /\ c[j] = <<s, t>>
    BY <2>1, <1>3
  <2>3. ASSUME NEW k \in i + 1..j - 1
        PROVE  c[k] \in R
    <3>1. k \in 1..N /\ k > i /\ k < j
      BY <1>1, <1>3, <2>2
    <3>2. k \notin New
      BY <2>1, <3>1
    <3> QED BY <1>1, <3>1, <3>2
  <2>4. \A k \in i..j - 1 : c[k][2] = c[k + 1][1]
    <3> TAKE k \in i..j - 1
    <3>1. k \in 1..N - 1
      BY <1>1, <1>3, <2>2
    <3> QED BY <1>1, <3>1
  <2> HIDE DEF New, Later
  <2> QED BY <1>3, <2>2, <2>3, <2>4, ChainReturns
<1>6. ASSUME NEW k \in i + 1..N
      PROVE  c[k] \in R
  <2>1. k \in 1..N /\ k > i
    BY <1>1, <1>3
  <2>2. k \notin New
    BY <1>5, <2>1
  <2> QED BY <1>1, <2>1, <2>2
<1> HIDE DEF New, Later
\* What meets at s, and at t.
<1>7. ChainDepth(Reversed(R), s) \in Nat /\ ChainDepth(Reversed(R), s) >= i - 1
  <2>1. i - 1 \in 0..MaxDepth + 1 /\ \A k \in 1..(i - 1) - 1 : k \in 1..N - 1
    BY <1>1, <1>3 DEF N
  <2>2. IsChain(R, i - 1, c)
    BY <1>1, <1>4, <2>1 DEF IsChain
  <2>3. i - 1 > 0 => c[i - 1][2] = s
    <3>1. i - 1 > 0 => i - 1 \in 1..N - 1 /\ (i - 1) + 1 = i
      BY <1>1, <1>3
    <3> QED BY <1>1, <1>3, <3>1
  <2>4. ChainDepth(Reversed(R), s) \in i - 1..MaxDepth + 1
    BY <2>1, <2>2, <2>3, ChainDepthCoversBack
  <2> QED BY <2>1, <2>4
<1>8. ChainDepth(R, t) \in Nat /\ ChainDepth(R, t) >= N - i
  <2> DEFINE b == [k \in 1..N - i |-> c[i + k]]
  <2>1. N - i \in 0..MaxDepth + 1
    BY <1>1, <1>3 DEF N
  <2>2. \A k \in 1..N - i : b[k] \in R
    <3>1. \A k \in 1..N - i : i + k \in i + 1..N
      BY <1>1, <1>3
    <3> QED BY <1>6, <3>1
  <2>3. ASSUME NEW k \in 1..(N - i) - 1
        PROVE  b[k][2] = b[k + 1][1]
    <3>1. k \in 1..N - i /\ k + 1 \in 1..N - i /\ i + k \in 1..N - 1 /\ i + (k + 1) = (i + k) + 1
      BY <1>1, <1>3
    <3>2. b[k] = c[i + k] /\ b[k + 1] = c[i + (k + 1)]
      BY <3>1
    <3> HIDE DEF b
    <3> QED BY <1>1, <3>1, <3>2
  <2>4. IsChain(R, N - i, b)
    <3> HIDE DEF b
    <3> QED BY <2>2, <2>3 DEF IsChain
  <2>5. N - i > 0 => b[1][1] = t
    <3> SUFFICES ASSUME N - i > 0 PROVE b[1][1] = t
      OBVIOUS
    <3>1. i \in 1..N - 1 /\ 1 \in 1..N - i
      BY <1>1, <1>3
    <3>2. b[1] = c[i + 1] /\ c[i][2] = c[i + 1][1]
      BY <1>1, <3>1
    <3> HIDE DEF b
    <3> QED BY <1>3, <3>2
  <2>6. ChainDepth(R, t) \in N - i..MaxDepth + 1
    <3> HIDE DEF b
    <3> QED BY <2>1, <2>4, <2>5, ChainDepthCovers
  <2> QED BY <2>1, <2>6
<1> QED BY <1>1, <1>3, <1>7, <1>8 DEF N, DepthThrough

(***************************************************************************)
(* The invariant: the relations of the registry and of the state last      *)
(* saved.                                                                  *)
(***************************************************************************)
EdgesIn(rels, type) == {<<r.source, r.target>> : r \in {x \in rels : x.type = type}}

Ordered(rels) ==
  /\ rels \subseteq Relation
  /\ \A type \in Acyclic : NoCycle(EdgesIn(rels, type))
  /\ NoLongChain(EdgesIn(rels, ContainedBy))

HierarchyInv == Ordered(relations) /\ Ordered(image.rest[1])

\* A registry without relations has no cycles and no chains.
LEMMA EmptyIsOrdered == Ordered({})
<1>1. 1 \in 1..MaxDepth + 1
  BY TopologyAssumption
<1> QED BY <1>1 DEF Ordered, EdgesIn, NoCycle, Ends, NoLongChain, IsChain

\* add_relation keeps the order.
LEMMA AddKeepsOrder ==
  ASSUME Ordered(relations), NEW type \in RelationType, NEW s \in Domain, NEW t \in Domain,
         AddRelation(type, s, t)
  PROVE  Ordered(relations')
<1> DEFINE new == [type |-> type, source |-> s, target |-> t]
<1>1. relations' = relations \cup {new} /\ new \in Relation
  BY DEF AddRelation, Relation
<1>2. \A other : /\ EdgesIn(relations, other) = Edges(other)
                 /\ Edges(other) \in SUBSET (Domain \X Domain)
  BY EdgesAreFinite DEF Ordered, EdgesIn, Edges
<1>3. ASSUME NEW other, other # type
      PROVE  EdgesIn(relations', other) = Edges(other)
  BY <1>1, <1>3 DEF EdgesIn, Edges
<1>4. EdgesIn(relations', type) = Edges(type) \cup {<<s, t>>}
  <2>1. new.type = type /\ new.source = s /\ new.target = t
    OBVIOUS
  <2>2. {x \in relations' : x.type = type} = {x \in relations : x.type = type} \cup {new}
    BY <1>1, <2>1
  <2> HIDE DEF new
  <2> QED BY <2>1, <2>2 DEF EdgesIn, Edges
<1>5. ASSUME NEW other \in Acyclic
      PROVE  NoCycle(EdgesIn(relations', other))
  <2>1. NoCycle(Edges(other))
    BY <1>2 DEF Ordered
  <2>2. other = type => ClosesNoCycle(Edges(type), s, t)
    BY DEF AddRelation
  <2> QED BY <1>2, <1>3, <1>4, <2>1, <2>2, EdgeKeepsNoCycle
<1>6. NoLongChain(EdgesIn(relations', ContainedBy))
  <2>1. NoLongChain(Edges(ContainedBy)) /\ MaxDepth \in Nat
    BY <1>2, TopologyAssumption DEF Ordered
  <2>2. type = ContainedBy => /\ s \notin Reach(Edges(type), t)
                              /\ DepthThrough(Edges(type), s, t) <= MaxDepth
    BY TopologyAssumption DEF AddRelation, ClosesNoCycle
  <2>3. CASE type = ContainedBy
    <3>1. NoLongChain(Edges(type) \cup {<<s, t>>})
      BY <1>2, <2>1, <2>2, <2>3, EdgeKeepsChainsShort
    <3> QED BY <1>4, <2>3, <3>1
  <2>4. CASE type # ContainedBy
    BY <1>3, <2>1, <2>4
  <2> QED BY <2>3, <2>4
<1>7. relations' \subseteq Relation
  BY <1>1 DEF Ordered
<1> QED BY <1>5, <1>6, <1>7 DEF Ordered

\* Where relations come from.
LEMMA RelationSteps ==
  ASSUME [Next]_vars
  PROVE  /\ \/ relations' \in {relations, image.rest[1], {}}
            \/ \E type \in RelationType, s, t \in Domain : AddRelation(type, s, t)
         /\ image'.rest[1] \in {image.rest[1], relations}
<1>1. CASE Mutation /\ UNCHANGED snapshots
  <2>1. UNCHANGED relations \/ \E type \in RelationType, s, t \in Domain : AddRelation(type, s, t)
    BY <1>1 DEF Mutation, DeclareDomain, ChangeDomain, AttachDirect, ChangeDirect, Detach, Mark,
       Reconcile, PublishRule, RunDerivation, InvalidateEntity, NotifyTopologyChange, DeclareCoverage
  <2> QED BY <1>1, <2>1 DEF snapshots
<1>2. CASE TakeSnapshot \/ Start \/ Reset \/ UNCHANGED vars
  BY <1>2 DEF TakeSnapshot, Start, Reset, vars, topology, snapshots
<1>3. CASE Save
  BY <1>3 DEF Save, topology
<1>4. ASSUME NEW d, NEW x, NEW moved, NEW movedDerived,
             Merge(d, x, TRUE) \/ Merge(d, x, FALSE) \/ RefusedMerge(d, x, moved, movedDerived)
      PROVE  UNCHANGED <<relations, image>>
  BY <1>4 DEF Merge, RefusedMerge
<1> QED BY <1>1, <1>2, <1>3, <1>4 DEF Next

\* The relations are ordered in every state.
LEMMA HierarchyInvHolds == Spec => []HierarchyInv
<1>1. Init => HierarchyInv
  BY EmptyIsOrdered DEF Init, HierarchyInv
<1>2. HierarchyInv /\ [Next]_vars => HierarchyInv'
  BY RelationSteps, AddKeepsOrder, EmptyIsOrdered DEF HierarchyInv
<1> QED BY <1>1, <1>2, PTL DEF Spec

\* No relation type that has to be acyclic has a cycle, in any state of the
\* registry: add_relation looks for a path back, a start loads what was saved,
\* and no other operation touches a relation.
THEOREM HierarchyIsAcyclic == Spec => []ImageIsAcyclic
<1>1. HierarchyInv => ImageIsAcyclic
  BY DEF HierarchyInv, Ordered, ImageIsAcyclic, Edges, EdgesIn
<1> QED BY <1>1, HierarchyInvHolds, PTL

\* No chain of containment is ever longer than max_hierarchy_depth: the depth
\* below one end, the relation itself and the depth above the other are counted
\* together.
THEOREM ChainsStayShort == Spec => []ChainsAreBounded
<1>1. HierarchyInv => ChainsAreBounded
  <2> SUFFICES ASSUME HierarchyInv, NEW chain \in [1..MaxDepth + 1 -> Edges(ContainedBy)],
                      \A i \in 1..MaxDepth : chain[i][2] = chain[i + 1][1]
               PROVE  FALSE
    BY DEF ChainsAreBounded
  <2>1. MaxDepth \in Nat /\ (MaxDepth + 1) - 1 = MaxDepth
    BY TopologyAssumption
  <2>2. IsChain(Edges(ContainedBy), MaxDepth + 1, chain)
    BY <2>1 DEF IsChain
  <2> QED BY <2>2 DEF HierarchyInv, Ordered, NoLongChain, EdgesIn, Edges
<1> QED BY <1>1, HierarchyInvHolds, PTL

\* ancestors(), descendants() and the blast radius are right, and complete below
\* the bound of the walk; only a walk that was cut can make overlap call a domain
\* most specific that has a shared one below it.
THEOREM WalksAreTrue == Spec => []WalksAreExact
<1>1. HierarchyInv => WalksAreExact
  <2> SUFFICES ASSUME HierarchyInv
               PROVE  WalksAreExact
    OBVIOUS
  <2> DEFINE above == Edges(ContainedBy)
             below == Reversed(above)
  <2>1. /\ below \in SUBSET (Domain \X Domain) /\ above \in SUBSET (Domain \X Domain)
        /\ IsFiniteSet(Ends(below)) /\ IsFiniteSet(Ends(above))
        /\ IsFiniteSet(Domain) /\ MaxWalk \in Nat
    BY EdgesAreFinite, TopologyAssumption DEF HierarchyInv, Ordered
  <2>2. NoCycle(below)
    <3>1. NoCycle(above)
      BY TopologyAssumption DEF HierarchyInv, Ordered, EdgesIn, Edges
    <3> QED BY <2>1, <3>1, ReversedHasNoCycle
  <2>3. ASSUME NEW R \in SUBSET (Domain \X Domain), IsFiniteSet(Ends(R)), NEW d
        PROVE  /\ FullBelowBound(Walk(R, d), R, d)
               /\ ~Truncated(Walk(R, d)) => Walk(R, d) = Reach(R, d) \ {d}
    <3>1. /\ Walk(R, d) \subseteq Reach(R, d) \ {d} /\ Walk(R, d) \subseteq Ends(R)
          /\ ~Truncated(Walk(R, d)) => Walk(R, d) = Reach(R, d) \ {d}
      BY <2>1, <2>3, WalkIsExact
    <3>2. Cardinality(Walk(R, d)) \in Nat
      BY <2>3, <3>1, FS_Subset, FS_CardinalityType
    <3>3. Cardinality(Walk(R, d)) < MaxWalk => ~Truncated(Walk(R, d))
      BY <2>1, <3>2 DEF Truncated
    <3> QED BY <3>1, <3>3 DEF FullBelowBound
  <2>4. ASSUME NEW d
        PROVE  /\ FullBelowBound(Ancestors(d), above, d)
               /\ FullBelowBound(Descendants(d), below, d)
               /\ ~Truncated(Descendants(d)) => Descendants(d) = Reach(below, d) \ {d}
    BY <2>1, <2>3 DEF Ancestors, Descendants
  <2>5. ASSUME NEW S \in SUBSET Ends(below), S # {}
        PROVE  MostSpecific(S) # {}
    <3> HIDE DEF below
    <3>1. PICK d \in S : (Reach(below, d) \ {d}) \cap S = {}
      BY <2>1, <2>2, <2>5, SomeReachesNoOther
    <3>2. Descendants(d) \cap S = {}
      BY <2>4, <3>1 DEF FullBelowBound
    <3> QED BY <3>2 DEF MostSpecific
  <2>6. ASSUME NEW S \in SUBSET Ends(below), NEW d \in S
        PROVE  IF (Reach(below, d) \ {d}) \cap S = {} THEN d \in MostSpecific(S)
               ELSE d \in MostSpecific(S) => Cardinality(Descendants(d)) >= MaxWalk
    <3> HIDE DEF below
    <3>1. /\ Descendants(d) \subseteq Reach(below, d) \ {d}
          /\ ~Truncated(Descendants(d)) => Descendants(d) = Reach(below, d) \ {d}
      BY <2>4 DEF FullBelowBound
    <3> QED BY <3>1 DEF MostSpecific, Truncated
  <2> HIDE DEF above, below
  <2>7. ASSUME NEW d
        PROVE  ~BlastRadius(d).truncated => BlastRadius(d).children = Reach(below, d) \ {d}
    BY <2>4 DEF BlastRadius
  <2> QED BY <2>4, <2>5, <2>6, <2>7 DEF WalksAreExact, above, below
<1> QED BY <1>1, HierarchyInvHolds, PTL
=============================================================================
