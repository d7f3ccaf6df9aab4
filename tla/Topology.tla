------------------------------ MODULE Topology ------------------------------
(***************************************************************************)
(* The classification the registry keeps: the hierarchy, the derivations,  *)
(* the coverage and the snapshots over one set of domains and memberships. *)
(***************************************************************************)
EXTENDS Hierarchy, Derivation, Queries, Snapshots

Init ==
  /\ life = << >> /\ direct = << >> /\ derived = << >>
  /\ relations = {} /\ rules = << >> /\ coverage = << >> /\ generation = 0
  /\ epoch = 0 /\ snap = NoSnapshot /\ broken = {}
  /\ image = [Contents |-> Contents, gen |-> 0, epoch |-> 0, rest |-> <<{}, << >>, << >>>>]

Mutation ==
  \/ \E d \in Domain, l \in DomainLife :
       \/ DeclareDomain(d, l)
       \/ \E target \in {"None", "Revalidate", "Retired"} : ChangeDomain(d, l, target)
  \/ \E k \in Key :
       \/ AttachDirect(k) \/ \E l \in MemberLife : ChangeDirect(k, l)
       \/ Detach(k) \/ Mark(k) \/ Reconcile(k)
  \/ \E type \in RelationType, s, t \in Domain : AddRelation(type, s, t)
  \/ \E r \in Rule, enabled \in BOOLEAN : PublishRule(r, enabled)
  \/ \E selected \in {Rule} \cup {{r} : r \in Rule} : RunDerivation(selected)
  \/ \E e \in Entity : InvalidateEntity(e)
  \/ \E affected \in SUBSET Entity : NotifyTopologyChange(affected)
  \/ \E s \in Scopes, c \in Class, state \in CoverageState : DeclareCoverage(s, c, state)

Next ==
  \/ Mutation /\ UNCHANGED snapshots
  \/ TakeSnapshot \/ Save \/ Start \/ Reset
  \/ \E d, x \in Domain :
       \/ \E equivalent \in BOOLEAN : Merge(d, x, equivalent)
       \/ \E moved, movedDerived \in SUBSET Entity : RefusedMerge(d, x, moved, movedDerived)

vars == <<topology, snapshots>>
Spec == Init /\ [][Next]_vars

\* The records are well formed, their domains are on record, and there are no
\* more of them than the limits of the registry allow, but for memberships a
\* merge has made.
TypeOK ==
  /\ TopologyOK /\ EndsExist /\ DomainsExist /\ epoch \in Nat
  /\ Cardinality(relations) <= MaxRelations /\ Cardinality(DOMAIN coverage) <= MaxCoverage
  /\ Cardinality(DOMAIN direct) + Cardinality(DOMAIN derived) > MaxMemberships
       => "BeyondLimit" \in broken

(***************************************************************************)
(* The hierarchy.                                                          *)
(***************************************************************************)
\* No acyclic relation type ever has a cycle, although the walk that decides
\* is bounded and domains close under their relations.  decode_payload refuses
\* an image with a cycle, by a walk without a bound.
ImageIsAcyclic == \A type \in Acyclic : NoCycle(Edges(type))

\* No chain of containment is longer than max_hierarchy_depth, also not one
\* that a relation joined from two chains.
ChainsAreBounded ==
  \A chain \in [1..MaxDepth + 1 -> Edges(ContainedBy)] :
    \E i \in 1..MaxDepth : chain[i][2] # chain[i + 1][1]

\* A walk that found fewer domains than max_ancestor_walk found all there are,
\* and none that is not reached.
FullBelowBound(found, R, d) ==
  /\ found \subseteq Reach(R, d) \ {d}
  /\ Cardinality(found) < MaxWalk => found = Reach(R, d) \ {d}

\* The walks of the queries are cut at max_ancestor_walk domains, whatever the
\* depth of the hierarchy, and only a blast radius says so (truncated).  What a
\* cut leaves true: ancestors() and descendants() are right, and complete below
\* the bound; a blast radius that does not say it is truncated is complete; what
\* overlap calls most specific has no shared domain below it, unless the walk of
\* its descendants was cut, and what it does not has one; some domain is.
WalksAreExact ==
  LET above == Edges(ContainedBy)
      below == Reversed(above)
  IN  /\ \A d \in DOMAIN life :
           /\ FullBelowBound(Ancestors(d), above, d)
           /\ FullBelowBound(Descendants(d), below, d)
           /\ ~BlastRadius(d).truncated => BlastRadius(d).children = Reach(below, d) \ {d}
      /\ \A shared \in SUBSET Ends(below) :
           /\ shared # {} => MostSpecific(shared) # {}
           /\ \A d \in shared :
                IF (Reach(below, d) \ {d}) \cap shared = {} THEN d \in MostSpecific(shared)
                ELSE d \in MostSpecific(shared) => Cardinality(Descendants(d)) >= MaxWalk

(***************************************************************************)
(* The derivations.                                                        *)
(***************************************************************************)
\* A record that rests on what its sources are now.
Grounded(r) ==
  /\ r.life = "Current" /\ r.valid
  /\ DOMAIN r.src \subseteq CurrentIn(direct)
  /\ \A s \in DOMAIN r.src : r.src[s] = direct[s].gen

\* The rule that owns the record comes before every enabled rule that derives
\* it, so that a run retires the record before one of them is asked.
LostFirst(k, on) ==
  \E i \in 1..Len(Rules) : /\ Rules[i] = derived[k].rule
                           /\ \A j \in 1..i : Rules[j] \in on => k \notin Derivable(Rules[j])

\* A run over all rules, at any time, leaves the open records of the enabled
\* rules derivable, each grounded in current sources: nothing it could not
\* derive any more stays.  And nothing is missing but what there was no room
\* for, records that were closed before, and those that are lost: retired by
\* their own rule when a later one still derives them.
RunIsExact ==
  LET on     == {r \in Rule : Enabled(r)}
      wanted == UNION {Derivable(r) : r \in on}
  IN  on # {} =>
        \A ds \in Pass(on) :
          LET results == {k \in DOMAIN ds : ds[k].life \notin Terminal /\ ds[k].rule \in on}
          IN  /\ \A k \in results : k \in wanted /\ Grounded(ds[k])
              /\ wanted \ DOMAIN ds # {} => Room(ds) <= 0
              /\ \A k \in (wanted \cap DOMAIN ds) \ results :
                   /\ k \in DOMAIN derived /\ ds[k].life \in Terminal
                   /\ derived[k].life \in Terminal \/ LostFirst(k, on)

\* The generations a record keeps of its sources tell whether it is stale: as
\* long as they are the sources' own the sources are current.  (A merge moves a record
\* with its generation over a closed one, and so may take the latter back; and
\* the last generation of all is followed by itself.)
ContextIsExact ==
  "Revived" \notin broken => \A k \in DOMAIN derived :
    /\ DOMAIN derived[k].src \subseteq DOMAIN direct
    /\ \A s \in DOMAIN derived[k].src :
         derived[k].src[s] = direct[s].gen /\ direct[s].gen < MaxGeneration
           => direct[s].life = "Current"

\* An entity that changed takes every open record that rests on one of its
\* memberships out of the current ones at once.
ChangeIsFelt ==
  [][\A e \in Entity :
       InvalidateEntity(e) \/ NotifyTopologyChange({e}) =>
         \A k \in DOMAIN derived :
           derived'[k].life = "Current" => \A s \in DOMAIN derived[k].src \cup {k} : s[2] # e]_vars

MergedInto(s) ==
  \E a \in Domain : \/ Merge(s, a, TRUE)
                    \/ \E moved, movedDerived \in SUBSET Entity :
                         RefusedMerge(s, a, moved, movedDerived)

\* A record that was invalidated comes back through a run that grounds it, or
\* through a reconciliation or a merge, which do not look at its sources and leave
\* it current and invalid, or through a start from an older image.
InvalidStaysOut ==
  [][\A k \in DOMAIN derived \cap DOMAIN derived' :
       ~derived[k].valid /\ derived[k].life # "Current" /\ derived'[k].life = "Current"
         => Reconcile(k) \/ Start \/ MergedInto(k[1]) \/ Grounded(derived[k])']_vars

(***************************************************************************)
(* The queries.                                                            *)
(***************************************************************************)
\* Domains of an addressed class an open membership of the entity is in.
OpenIn(e, classes) ==
  {d \in DomainsWith({e}, MemberLife \ Terminal) : ClassOf[d] \in classes}

\* Independence is only proven of entities that share no domain of the classes,
\* not even through a membership in doubt, and where coverage is complete.  The
\* lifecycle of the domain is the exception: two current memberships in a domain
\* that is itself in doubt are passed over.
IndependenceIsSound ==
  \A entities \in SUBSET Entity, classes \in (SUBSET {ClassOf[d] : d \in DOMAIN life}) \ {{}} :
   \A scopes \in {{s} : s \in Scopes} \cup {EffectiveScopes(entities)} :
    Independence(entities, classes, scopes) = "ProvenIndependent" =>
      /\ scopes # {} /\ CompleteForAll(scopes, classes)
      /\ \A e, f \in entities :
           e # f => OpenIn(e, classes) \cap OpenIn(f, classes) \cap CurrentDomains = {}

\* The three queries agree about two entities.  The exceptions: a correlation
\* passes over records in doubt, and only an overlap sees shared domains of
\* extension classes.
QueriesAgree ==
  \A e, f \in Entity :
    LET scopes == EffectiveScopes({e, f})
        over   == Overlap({e, f})
        ind    == Independence({e, f}, Canonical, scopes)
        cor    == Correlation({e}, {f}, Canonical, scopes)
    IN  e # f =>
          /\ over # ind => /\ over = "SharedDomain"
                            /\ \A d \in Shared({e, f}) : ClassOf[d] \notin Canonical
          /\ cor # ind => ind \in {"Conflicted", "RevalidationRequired"}

(***************************************************************************)
(* The snapshots.                                                          *)
(***************************************************************************)
\* A snapshot of the current generation and epoch shows the registry as it is,
\* unless the registry was reset, a merge was refused half way or an epoch was
\* used twice; what the difference then reports are domains superseded before.
CurrentSnapshotIsFaithful ==
  snap # NoSnapshot /\ SnapshotIsCurrent /\ snap.epoch = epoch /\ broken = {} =>
    \A change \in Diff(snap.Contents, Contents) : change[2] = "Superseded"
=============================================================================
