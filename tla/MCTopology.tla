----------------------------- MODULE MCTopology -----------------------------
(***************************************************************************)
(* Four scenes, each with the steps it is about: relations between four    *)
(* domains, derivations, coverage and queries, snapshots.                  *)
(***************************************************************************)
EXTENDS Topology

CONSTANTS t1, t2, t3, t4,   \* domains of the hierarchy
          d1, d2, d3, d4,        \* domains of the other scenes
          e1, e2, tier, near, far, ext, s1, s2, cb, fed, risk

Tiers == {t1, t2, t3, t4}

MCClassOf == [t \in Tiers |-> tier]
               @@ (d1 :> near) @@ (d2 :> near) @@ (d3 :> far) @@ (d4 :> ext)
MCScopeOf == [t \in Tiers |-> s1] @@ (d1 :> s1) @@ (d2 :> s1) @@ (d3 :> s2) @@ (d4 :> s1)

Share == [source |-> near, target |-> far, op |-> "MembersShareContainingClass",
          entities |-> {e1}]
Other == [source |-> near, target |-> far, op |-> "SameDomainMemberRelationship",
          entities |-> Entity]
MCRules == <<Other, Share>>

\* A start of a scene: domains that exist and direct memberships.
Scene(ds, keys) ==
  /\ life = [d \in ds |-> "Current"]
  /\ direct = [k \in keys |-> [life |-> "Current", gen |-> 1]]
  /\ derived = << >> /\ relations = {} /\ coverage = << >> /\ generation = 0
  /\ epoch = 0 /\ snap = NoSnapshot /\ broken = {}
  /\ image = [Contents |-> Contents, gen |-> 0, epoch |-> 0, rest |-> <<{}, << >>, << >>>>]

\* Relations are about tiers, derivations have rules, queries have d4.
MCInit ==
  \/ rules = << >> /\ \E ds \in {Tiers, {d1, d3, d4}} : Scene(ds, {})
  \/ rules = << >> /\ Scene({d1, d2}, {<<d1, e1>>, <<d2, e1>>, <<d1, e2>>})
  \/ rules = [r \in Rule |-> TRUE]
     /\ Scene({d1, d2, d3}, {<<d1, e1>>, <<d1, e2>>, <<d2, e1>>, <<d3, e2>>})

Hierarchies == t1 \in DOMAIN life
Derivings   == rules # << >>
Querying    == d4 \in DOMAIN life
Snapping    == ~Hierarchies /\ ~Derivings /\ ~Querying

DomainStep(lives) ==
  \E d \in DOMAIN life, l \in lives :
    \E target \in Targets(d, l) : ChangeDomain(d, l, target)
DirectStep(ds, lives) ==
  \E k \in ds \X Entity : AttachDirect(k) \/ \E l \in lives : ChangeDirect(k, l)

MergeStep ==
  \E d, x \in DOMAIN life :
    \/ \E equivalent \in BOOLEAN : Merge(d, x, equivalent)
    \/ \E moved, movedDerived \in SUBSET Entity : RefusedMerge(d, x, moved, movedDerived)

HierarchyNext ==
  \/ \E type \in RelationType, s, t \in Tiers : AddRelation(type, s, t)
  \/ \E d \in Tiers, l \in DomainLife : ChangeDomain(d, l, "None")

DerivationNext ==
  \/ DomainStep({"Current", "Revalidate", "Superseded"}) \/ DirectStep({d1, d3}, {"Current", "Revalidate", "Retired"})
  \/ \E k \in Key : Detach(k) \/ Mark(k) \/ Reconcile(k)
  \/ \E r \in Rule, enabled \in BOOLEAN : PublishRule(r, enabled)
  \/ \E selected \in {Rule} \cup {{r} : r \in Rule} : RunDerivation(selected)
  \/ \E e \in Entity : InvalidateEntity(e)
  \/ \E affected \in SUBSET Entity : NotifyTopologyChange(affected)

QueryNext ==
  \/ DomainStep(DomainLife) \/ DirectStep({d1, d3, d4}, MemberLife)
  \/ \E c \in {<<s1, near>>, <<s1, far>>, <<s2, far>>}, state \in CoverageState :
       DeclareCoverage(c[1], c[2], state)

SnapshotNext ==
  \/ /\ \/ \E d \in {d1, d2} : DeclareDomain(d, "Current")
        \/ DomainStep({"Superseded"}) \/ DirectStep({d1}, {"Current", "Revalidate"})
     /\ UNCHANGED snapshots
  \/ TakeSnapshot \/ Save \/ Start \/ Reset
  \/ MergeStep

MCNext ==
  \/ Hierarchies /\ HierarchyNext /\ UNCHANGED snapshots
  \/ Derivings /\ DerivationNext /\ UNCHANGED snapshots
  \/ Derivings /\ MergeStep
  \/ Querying /\ QueryNext /\ UNCHANGED snapshots
  \/ Snapping /\ SnapshotNext


\* Only derivations read the generations of the memberships, only snapshots and
\* images that of the registry.
Lives(f) == [k \in DOMAIN f |-> f[k].life]
Seen(c)  == <<c.life, Lives(c.direct)>>
View ==
  IF Snapping THEN <<Seen(Contents), generation, epoch, broken, Seen(image.Contents), image.gen,
                     image.epoch, IF snap = NoSnapshot THEN snap
                                  ELSE <<Seen(snap.Contents), snap.gen, snap.epoch>>>>
  ELSE <<life, IF Derivings THEN direct ELSE Lives(direct), derived, relations, rules, coverage,
         broken>>

Count(f, good) == Cardinality({k \in DOMAIN f : f[k] # good})
InDoubt        == Count(life, "Current")
Doubted        == Cardinality({k \in DOMAIN direct : direct[k].life # "Current"})

HierarchyScene  ==
  /\ Hierarchies /\ InDoubt <= 1 /\ InDoubt + Cardinality(relations) <= MaxRelations
  /\ \E type \in RelationType : Cardinality({r \in relations : r.type # type}) <= 1
DerivationScene ==
  /\ Derivings
  /\ InDoubt + Count(rules, TRUE) + SumFunction([k \in DOMAIN direct |-> direct[k].gen - 1]) <= 2
QueryScene      ==
  /\ Querying
  /\ Cardinality(DOMAIN direct) <= 2 /\ Doubted + InDoubt <= 1 /\ Count(coverage, "Complete") <= 1
SnapshotScene   == Snapping /\ generation <= 3 /\ epoch <= 1 /\ image.gen <= 1 /\ InDoubt + Doubted <= 1

Scenes == HierarchyScene \/ DerivationScene \/ QueryScene \/ SnapshotScene

\* A step beyond the bounds of its scene is not taken.
MCSpec == MCInit /\ [][MCNext /\ Scenes']_vars

Symmetry == Permutations(Tiers)
=============================================================================
