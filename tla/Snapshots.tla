------------------------------ MODULE Snapshots ------------------------------
(***************************************************************************)
(* Snapshots, the test whether one is current and the difference of two    *)
(* (src/src/registry_digest.cpp), against a registry that is also reset,   *)
(* loaded from an image, and left half merged by a refused merge.          *)
(***************************************************************************)
EXTENDS Hierarchy

CONSTANT NoSnapshot

VARIABLES
  epoch,   \* the coordinator epoch
  snap,    \* a snapshot somebody holds, or NoSnapshot
  image,   \* the state last saved
  broken   \* what happened that generations do not tell

snapshots == <<epoch, snap, image, broken>>

Contents == [life |-> life, direct |-> direct, derived |-> derived]

TakeSnapshot ==
  /\ snap' = [Contents |-> Contents, gen |-> generation, epoch |-> epoch]
  /\ broken' = broken \cap {"Revived", "BeyondLimit"}
  /\ UNCHANGED <<topology, epoch, image>>

Save ==
  /\ image' = [Contents |-> Contents, gen |-> generation, epoch |-> epoch,
               rest |-> <<relations, rules, coverage>>]
  /\ UNCHANGED <<topology, epoch, snap, broken>>

\* decode_payload refuses a relation without its ends, a membership without
\* its domain, and a cycle, which it looks for without a bound.
EndsExist == \A r \in relations : {r.source, r.target} \subseteq DOMAIN life

DomainsExist == \A k \in DOMAIN direct \cup DOMAIN derived : k[1] \in DOMAIN life

Loadable == EndsExist /\ DomainsExist /\ \A type \in Acyclic : NoCycle(Edges(type))

\* Mutant of Start: a start does not advance the epoch.
StartSameEpoch ==
  /\ life' = image.Contents.life
  /\ direct' = image.Contents.direct /\ derived' = image.Contents.derived
  /\ relations' = image.rest[1] /\ rules' = image.rest[2] /\ coverage' = image.rest[3]
  /\ generation' = image.gen + 2 /\ epoch' = image.epoch
  /\ broken' = IF image.epoch < epoch THEN broken \cup {"EpochReused"} ELSE broken
  /\ UNCHANGED <<snap, image>>

\* A coordinator loads the image it finds, which counts as one generation, and
\* advances the epoch, which counts as another.  It does not start without an
\* image it can load.  Without a save since the last start the epoch is that
\* start's.  (What it fences is module Coordinator.)
Start ==
  /\ life' = image.Contents.life
  /\ direct' = image.Contents.direct /\ derived' = image.Contents.derived
  /\ relations' = image.rest[1] /\ rules' = image.rest[2] /\ coverage' = image.rest[3]
  /\ generation' = image.gen + 2 /\ epoch' = image.epoch + 1
  /\ broken' = IF image.epoch < epoch THEN broken \cup {"EpochReused"} ELSE broken
  /\ Loadable' /\ UNCHANGED <<snap, image>>

\* reset keeps the epoch and starts the generations again.
Reset ==
  /\ life' = << >> /\ direct' = << >> /\ derived' = << >> /\ relations' = {}
  /\ rules' = << >> /\ coverage' = << >> /\ generation' = 1
  /\ broken' = broken \cup {"Reset"}
  /\ UNCHANGED <<epoch, snap, image>>

(***************************************************************************)
(* merge_domains.  Direct and derived memberships move alike, over a       *)
(* closed one where there is one, and nothing asks whether there is room.  *)
(***************************************************************************)
Mergeable(survivor, absorbed) ==
  /\ survivor # absorbed /\ {survivor, absorbed} \subseteq DOMAIN life
  /\ life[survivor] \notin Terminal /\ life[absorbed] \notin Terminal
  /\ ClassOf[survivor] = ClassOf[absorbed]

Movable(f, d)       == {e \in Entity : <<d, e>> \in DOMAIN f /\ f[<<d, e>>].life \notin Terminal}
Collisions(f, s, a) == Movable(f, s) \cap Movable(f, a)

MovedTo(f, s, a, moved) ==
  [k \in DOMAIN f \cup {s} \X moved |->
     IF k[2] \notin moved \/ k[1] \notin {s, a} THEN f[k]
     ELSE IF k[1] = s THEN [f[<<a, k[2]>>] EXCEPT !.life = "Current"]
     ELSE Moved(f[k], "Superseded")]

\* What a move leaves behind that is told nowhere.
MoveMarks(s, moved) ==
  (IF ({s} \X moved) \cap DOMAIN direct # {} THEN {"Revived"} ELSE {})
  \cup (IF Room(derived)' < 0 THEN {"BeyondLimit"} ELSE {})

Merge(s, a, equivalent) ==
  /\ Mergeable(s, a)
  /\ IF equivalent
     THEN /\ Collisions(direct, s, a) = {} /\ Collisions(derived, s, a) = {}
          /\ direct' = MovedTo(direct, s, a, Movable(direct, a))
          /\ derived' = MovedTo(derived, s, a, Movable(derived, a))
          /\ broken' = broken \cup MoveMarks(s, Movable(direct, a))
     ELSE /\ a \notin {k[1] : k \in CurrentIn(direct) \cup CurrentIn(derived)}
          /\ UNCHANGED <<direct, derived, broken>>
  /\ life' = [life EXCEPT ![a] = "Superseded"] /\ Bump
  /\ UNCHANGED <<relations, rules, coverage, epoch, snap, image>>

\* What has been done when a membership meets an equivalent one: those before
\* it have moved, the others are superseded, and there is no new generation.
RefusedMerge(s, a, moved, movedDerived) ==
  /\ Mergeable(s, a)
  /\ Collisions(direct, s, a) \cup Collisions(derived, s, a) # {}
  /\ moved \subseteq Movable(direct, a) \ Movable(direct, s)
  /\ movedDerived \subseteq Movable(derived, a) \ Movable(derived, s)
  /\ direct' = DemotedIn(MovedTo(direct, s, a, moved), a, "Superseded")
  /\ derived' = DemotedIn(MovedTo(derived, s, a, movedDerived), a, "Superseded")
  /\ broken' = broken \cup {"RefusedMerge"} \cup MoveMarks(s, moved)
  /\ UNCHANGED <<life, relations, rules, coverage, generation, epoch, snap, image>>

(***************************************************************************)
(* snapshot_is_current, and diff.                                          *)
(***************************************************************************)
SnapshotIsCurrent == snap.gen = generation

DiffMember(r, s) == IF r.life # s.life THEN {"Lifecycle"} ELSE {}

\* A derivation made again with the same sources has another generation, which
\* is left out.
DiffDerived(r, s) ==
  DiffMember(r, s) \cup IF <<r.rule, r.src>> # <<s.rule, s.src>> THEN {"Derivation"} ELSE {}

\* A domain that is superseded is reported whether or not it was before.
DiffDomain(l, m) ==
  (IF l # m THEN {"Lifecycle"} ELSE {}) \cup IF m = "Superseded" THEN {"Superseded"} ELSE {}

Changed(kind, r, s) ==
  IF kind = "domain" THEN DiffDomain(r, s)
  ELSE IF kind = "membership" THEN DiffMember(r, s) ELSE DiffDerived(r, s)

\* The records of one kind: added, removed, and changed in a field.
DiffOf(kind, a, b) ==
  {<<kind, "Added", k>> : k \in DOMAIN b \ DOMAIN a}
  \cup {<<kind, "Removed", k>> : k \in DOMAIN a \ DOMAIN b}
  \cup UNION {{<<kind, f, k>> : f \in Changed(kind, a[k], b[k])} : k \in DOMAIN a \cap DOMAIN b}

Diff(a, b) ==
  DiffOf("domain", a.life, b.life) \cup DiffOf("membership", a.direct, b.direct)
  \cup DiffOf("derived", a.derived, b.derived)
=============================================================================
