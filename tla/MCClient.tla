------------------------------ MODULE MCClient ------------------------------
(***************************************************************************)
(* Two clients of a publisher and two threads: t1 connects, calls and      *)
(* closes, and t2 calls on the first client while t1 does so.  The         *)
(* requests are a create_domain, a retire_domain under the same attempt,   *)
(* and an invalidate_entity under a later one.                             *)
(***************************************************************************)
EXTENDS PublisherClient

CONSTANTS t1, t2, c1, c2, create, retire, invalidate

MCAttemptOf == [r \in Request |-> IF r = invalidate THEN 2 ELSE 1]

MCNext ==
  \/ \E c \in Client : Connect(t1, c)
  \/ \E what \in Request \cup {"Bye"} : Call(t1, c1, what)
  \/ Call(t1, c2, create)
  \/ \E what \in Request : Call(t2, c1, what) /\ Wire(c2) = 0 /\ epoch = 1
  \/ \E t \in Thread : ReadHeader(t) \/ ReadBody(t) \/ ReadFails(t)
  \/ \E n \in DOMAIN wires : Serve(n) \/ SessionEnds(n) \/ (n = 1 /\ Lose(n))
  \/ Restart

MCSpec == Init /\ [][MCNext]_vars /\ Fairness
=============================================================================
