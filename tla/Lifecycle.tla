------------------------------ MODULE Lifecycle ------------------------------
(***************************************************************************)
(* The lifecycle tables and the evidence ranking every mutation of the     *)
(* registry consults (src/src/lifecycle.cpp, src/src/provenance.cpp and    *)
(* the precedence rule of src/src/registry_mutations.cpp).  No state: the  *)
(* tables are sets of edges, the ranking is an order on 1..7.              *)
(***************************************************************************)
EXTENDS Naturals

(***************************************************************************)
(* Lifecycles.                                                             *)
(***************************************************************************)
DomainLife == {"Candidate", "Current", "Revalidate", "Superseded",
               "Retired", "Conflicted", "Rejected"}

\* A membership has no Candidate state, and no edge leads to Rejected.
MemberLife == {"Current", "Revalidate", "Superseded", "Retired", "Conflicted"}

Terminal == {"Superseded", "Retired", "Rejected"}

DomainTransitions ==
       {"Candidate"}  \X {"Current", "Rejected", "Retired"}
  \cup {"Current"}    \X {"Revalidate", "Superseded", "Retired", "Conflicted"}
  \cup {"Revalidate"} \X {"Current", "Superseded", "Retired", "Conflicted"}
  \cup {"Conflicted"} \X {"Current", "Retired", "Rejected"}

MembershipTransitions ==
       {"Current"}    \X {"Revalidate", "Superseded", "Retired", "Conflicted"}
  \cup {"Revalidate"} \X {"Current", "Superseded", "Retired", "Conflicted"}
  \cup {"Conflicted"} \X {"Current", "Retired"}

\* Mutant of Demoted: the table is not consulted.
DemotedAlways(life, target) == target

\* Where a record goes when it is asked to move to target: nowhere unless the
\* table has the edge.
Demoted(life, target) ==
  IF <<life, target>> \in MembershipTransitions THEN target ELSE life

(***************************************************************************)
(* Evidence classes, by rank: 1 is direct authoritative infrastructure, 2  *)
(* direct hardware controller, 3 administrative declaration, 4 derived     *)
(* topology, 5 imported static inventory, 6 inferred, 7 synthetic.  A      *)
(* smaller rank is the stronger claim.                                     *)
(***************************************************************************)
EvidenceClass == 1..7

\* Classes whose worth ends with the process that published them.
ProcessBound == {2, 4, 6}

Outranks(c, e) == c < e

\* compare_provenance: what an incoming provenance is to the existing one.  A
\* provenance is a record with fields pub, boot, src and cls; src has a field
\* kind (the ProvenanceSource) and stands, as a whole, for the source, its
\* identity and its truth class.
Precedence(existing, incoming) ==
  CASE Outranks(existing.cls, incoming.cls)        -> "Weaker"
    [] \/ Outranks(incoming.cls, existing.cls)
       \/ /\ existing.cls = incoming.cls
          /\ existing.pub = incoming.pub
          /\ existing.src.kind = incoming.src.kind -> "Stronger"
    [] OTHER -> IF existing.src = incoming.src
                THEN "EqualSameSource" ELSE "EqualDifferentSource"

\* same_attestation: whatever incarnation made it.
SameAttestation(e, f) == e.cls = f.cls /\ e.pub = f.pub /\ e.src = f.src
=============================================================================
