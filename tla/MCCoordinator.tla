---------------------------- MODULE MCCoordinator ----------------------------
EXTENDS Coordinator, TLC

CONSTANTS s1, s2, b1, b2, b3, p1, p2

OnePublisher == b1 :> p1 @@ b2 :> p1

TwoPublishers == OnePublisher @@ b3 :> p2

\* The incarnations that are, or were, attached, as memory and the files tell.
Involved ==
  live \cup fenced \cup ({conn[s].boot : s \in Session} \ {None})
    \cup UNION {content[f].fenced \cup content[f].bound : f \in {g \in File : content[g] # None}}

SavingAtOnce(n) == Cardinality({t \in Thread : save[t] # Idle}) <= n

\* Two incarnations of one publisher and saves of which two overlap, or one of
\* each of two publishers and saves one at a time.
Bounds == \/ b3 \notin Involved /\ SavingAtOnce(2)
          \/ Cardinality(Involved) <= 2 /\ SavingAtOnce(1)

\* No step reads what clients were told.
View == <<disk, save, life, registry, conn>>

Symmetry == Permutations({s1, s2}) \cup Permutations({b1, b2})
=============================================================================
