----------------------------- MODULE Derivation -----------------------------
(***************************************************************************)
(* Derived memberships (src/src/registry_derivation.cpp).  A rule is a     *)
(* record [source, target, op, entities]: the classes it reads and writes, *)
(* its operator, and the entities of its member class (all of them where   *)
(* it names none).  The attempt and the author of a request only add       *)
(* refusals.                                                               *)
(***************************************************************************)
EXTENDS TopologyState

\* The current direct members of a source domain of the rule.
SourceDomains(r) == {d \in CurrentDomains : ClassOf[d] = r.source}
CoMembers(d)     == {e \in Entity : <<d, e>> \in CurrentIn(direct)}

\* The current direct memberships whose domains members of d inherit from e.
Inheritable(r, d, e) ==
  {k \in CurrentIn(direct) : /\ k[2] = e /\ k[1] # d
                             /\ k[1] \in CurrentDomains /\ ClassOf[k[1]] = r.target}

Subjects(r, d) ==
  IF r.op = "MembersShareContainingClass" THEN CoMembers(d) \cap r.entities ELSE CoMembers(d)

\* The members of d whose domains its member e inherits.
Givers(r, d, e) ==
  IF r.op = "MembersShareContainingClass" THEN CoMembers(d)
  ELSE (CoMembers(d) \cap r.entities) \ {e}

(***************************************************************************)
(* What a rule derives: pairs of a membership and its sources.  A domain   *)
(* that is inherited through two source domains is derived once, from      *)
(* either of the two sets of sources.                                      *)
(***************************************************************************)
Derivations(r) ==
  LET From(k) ==   \* what the source membership k gives to its entity
        LET given == UNION {Inheritable(r, k[1], g) : g \in Givers(r, k[1], k[2])}
        IN  {<<<<t, k[2]>>, {k} \cup {x \in given : x[1] = t}>> : t \in {x[1] : x \in given}}
  IN  UNION {From(k) : k \in {x \in CurrentIn(direct) : /\ x[1] \in SourceDomains(r)
                                                          /\ x[2] \in Subjects(r, x[1])}}

Derivable(r) == {x[1] : x \in Derivations(r)}

\* The ways to take one set of sources for each.
SourceChoices(all) ==
  LET Ways(k)   == {x[2] : x \in {y \in all : y[1] = k}}
      ambiguous == {k \in {x[1] : x \in all} : Cardinality(Ways(k)) > 1}
  IN  {[k \in {x[1] : x \in all} |-> IF k \in ambiguous THEN f[k] ELSE CHOOSE S \in Ways(k) : TRUE] :
         f \in {g \in [ambiguous -> {x[2] : x \in all}] : \A k \in ambiguous : g[k] \in Ways(k)}}

\* derivation_context_of: the sources with the generations they have.
Context(sources) == [s \in sources |-> direct[s].gen]

\* Mutant of Fresh: a record that is current is left as it is.
FreshWhileCurrent(old, r, src) == old.valid /\ old.life = "Current"

\* A record the rule would not change.
Fresh(old, r, src) ==
  /\ old.valid /\ old.life = "Current" /\ old.rule = r /\ old.src = Context(src)

\* Mutant of Computed: the record stays marked as invalid.
ComputedInvalid(r, src) == [life |-> "Current", valid |-> FALSE, rule |-> r, src |-> Context(src)]

Computed(r, src) == [life |-> "Current", valid |-> TRUE, rule |-> r, src |-> Context(src)]

\* A record there is: a closed one stays closed, what the rule derives it
\* computes, and what it owns and does not derive any more it retires.
Updated(r, old, derives, src) ==
  IF old.life \in Terminal \/ (IF derives THEN Fresh(old, r, src) ELSE old.rule # r) THEN old
  ELSE IF derives THEN Computed(r, src)
  ELSE [old EXCEPT !.life = "Retired", !.valid = FALSE]

\* New records are made as long as there is room.
Admitted(new, room) ==
  IF Cardinality(new) <= room THEN {new}
  ELSE {S \in SUBSET new : Cardinality(S) = IF room < 0 THEN 0 ELSE room}

\* The records ds after the rule, with the sources f and the new records S.
Made(r, ds, f, S) ==
  [k \in DOMAIN ds \cup S |-> IF k \in DOMAIN ds THEN Updated(r, ds[k], k \in Derivable(r), f[k])
                              ELSE Computed(r, f[k])]

\* evaluate_rule on the derived records ds: what it may leave.
Evaluated(r, ds) ==
  {Made(r, ds, f, S) : f \in SourceChoices(Derivations(r)),
                       S \in Admitted(Derivable(r) \ DOMAIN ds, Room(ds))}

(***************************************************************************)
(* run_derivation_locked: the enabled rules in the order of their          *)
(* identifiers, or one of them.                                            *)
(***************************************************************************)
Enabled(r) == r \in DOMAIN rules /\ rules[r]

Pass(selected) ==
  LET results[n \in 0..Len(Rules)] ==   \* of the first n rules
        IF n = 0 THEN {derived}
        ELSE IF Rules[n] \in selected
             THEN UNION {Evaluated(Rules[n], ds) : ds \in results[n - 1]}
        ELSE results[n - 1]
  IN  results[Len(Rules)]

RunDerivation(selected) ==
  /\ \E r \in selected : Enabled(r)
  /\ UNCHANGED <<life, direct, relations, rules, coverage>>
  /\ derived' \in Pass({r \in selected : Enabled(r)})
  /\ generation' = IF derived' # derived THEN generation + 1 ELSE generation

\* publish_derivation_rule stores a rule, or replaces one of the same content
\* with its enabled flag.
PublishRule(r, enabled) ==
  /\ r.source # r.target /\ {r.source, r.target} \subseteq Canonical
  /\ r \in DOMAIN rules => rules[r] # enabled
  /\ rules' = Put(rules, r, enabled) /\ Bump
  /\ UNCHANGED <<life, direct, derived, relations, coverage>>

(***************************************************************************)
(* invalidate_derived_memberships, and the two handlers that call it.      *)
(***************************************************************************)
\* Mutant of Mentions: only the member of the record is looked at.
MentionsMember(k, r, affected) == k[2] \in affected

Mentions(k, r, affected) ==
  k[2] \in affected \/ \E s \in DOMAIN r.src : s \notin DOMAIN direct \/ s[2] \in affected

Invalidated(ds, affected) ==
  [k \in DOMAIN ds |->
     IF /\ ds[k].life \notin Terminal
        /\ Mentions(k, ds[k], affected)
        /\ <<ds[k].life, "Revalidate">> \in MembershipTransitions
     THEN [ds[k] EXCEPT !.life = "Revalidate", !.valid = FALSE] ELSE ds[k]]

\* invalidate_entity demotes the memberships of the entity, derived ones as
\* well, and then what was derived from them.
InvalidateEntity(e) ==
  LET hit(k, r) == k[2] = e /\ <<r.life, "Revalidate">> \in MembershipTransitions
  IN  /\ direct' = [k \in DOMAIN direct |->
                      IF hit(k, direct[k]) THEN Moved(direct[k], "Revalidate") ELSE direct[k]]
      /\ derived' = Invalidated(
                      [k \in DOMAIN derived |->
                         IF hit(k, derived[k])
                         THEN [derived[k] EXCEPT !.life = "Revalidate", !.valid = FALSE]
                         ELSE derived[k]], {e})
      /\ Bump
      /\ UNCHANGED <<life, relations, rules, coverage>>

\* notify_topology_change; one that is not structurally relevant does nothing.
NotifyTopologyChange(affected) ==
  /\ derived' = (IF affected = {} THEN derived ELSE Invalidated(derived, affected))
  /\ Bump
  /\ UNCHANGED <<life, direct, relations, rules, coverage>>
=============================================================================
