--------------------------- MODULE IncarnationLease ---------------------------
(***************************************************************************)
(* What the fencing of worker incarnations promises, without sessions,     *)
(* epochs or evidence: a publisher's authority is a lease one incarnation  *)
(* holds at a time; an incarnation that loses it is barred at once and may *)
(* not take it back while it stays barred.  Bars may lapse, but only when  *)
(* another incarnation is barred, and never the newest one.                *)
(***************************************************************************)
EXTENDS Naturals

CONSTANTS Publisher, Boot

VARIABLES holder,   \* publisher -> the set of boots that hold its lease
          barred    \* publisher -> the boots that may not take it

lease == <<holder, barred>>

Init == /\ holder = [p \in Publisher |-> {}]
        /\ barred = [p \in Publisher |-> {}]

\* The boots in lost are barred, and none that was not barred before.
Bar(p, lost, next) == lost \subseteq next /\ next \subseteq barred[p] \cup lost

Take(p, b) ==
  /\ b \notin barred[p] \cup holder[p]
  /\ holder' = [holder EXCEPT ![p] = {b}]
  /\ \E next \in SUBSET (barred[p] \cup holder[p]) :
       /\ Bar(p, holder[p], next)
       /\ barred' = [barred EXCEPT ![p] = next]

Revoke(p, b) ==
  /\ b \notin barred[p]
  /\ holder' = [holder EXCEPT ![p] = @ \ {b}]
  /\ \E next \in SUBSET (barred[p] \cup {b}) :
       /\ Bar(p, {b}, next)
       /\ barred' = [barred EXCEPT ![p] = next]

RevokeAll ==
  /\ holder' = [p \in Publisher |-> {}]
  /\ \E next \in [Publisher -> SUBSET Boot] :
       /\ \A p \in Publisher : Bar(p, holder[p], next[p])
       /\ barred' = next

Next == \/ \E p \in Publisher, b \in Boot : Take(p, b) \/ Revoke(p, b)
        \/ RevokeAll

Spec == Init /\ [][Next]_lease
=============================================================================
