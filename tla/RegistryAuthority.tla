-------------------------- MODULE RegistryAuthority --------------------------
(***************************************************************************)
(* Grants, worker incarnations, fences and the coordinator epoch           *)
(* (src/src/registry_authority.cpp).                                       *)
(***************************************************************************)
EXTENDS RegistryState

\* Every way to put a set of incarnations in sequence.
Orders(S) == {f \in [1..Cardinality(S) -> S] :
                \A m, n \in 1..Cardinality(S) : f[m] = f[n] => m = n}

\* Mutants of Remember: the bound is not applied, or applied one early.
RememberAll(f, order) == f \o order

RememberFewer(f, order) ==
  LET all == f \o order
  IN  SubSeq(all, IF Len(all) >= MaxFences THEN Len(all) - MaxFences + 2 ELSE 1,
             Len(all))

\* Fences are pushed one by one and the oldest falls out past the limit.
Remember(f, order) ==
  LET all == f \o order
  IN  SubSeq(all, IF Len(all) > MaxFences THEN Len(all) - MaxFences + 1 ELSE 1,
             Len(all))

NoSessions == \A p \in Publisher : sessions[p] = {}

(***************************************************************************)
(* grant_publisher: an incomplete authority may only bootstrap, while no   *)
(* publisher is attached; otherwise a publisher of every class grants.     *)
(***************************************************************************)
InstallGrant(p, g) ==
  /\ p \in DOMAIN grants \/ Cardinality(DOMAIN grants) < MaxPublishers
  /\ grants' = Store(grants, p, g)
  /\ UNCHANGED <<sessions, fences, epoch, domains, members>>

BootstrapGrant(p, g) == NoSessions /\ InstallGrant(p, g)

AuthorizedGrant(a, p, g) ==
  /\ AuthorizedAny(a)
  /\ grants[a.pub].classes = Class
  /\ InstallGrant(p, g)

(***************************************************************************)
(* attach_worker: a boot that is attached stays as it is; a fresh one      *)
(* fences every other incarnation of its publisher and takes its place.    *)
(***************************************************************************)
Attachable(p, b, e) ==
  /\ p \in DOMAIN grants
  /\ epoch # 0 /\ e = epoch
  /\ b \notin Fenced(p)

Reattach(p, b, e) ==
  /\ Attachable(p, b, e) /\ b \in Live(p)
  /\ sessions' = [sessions EXCEPT ![p] =
                    {IF s.boot = b THEN [s EXCEPT !.epoch = e] ELSE s : s \in @}]
  /\ UNCHANGED <<grants, fences, epoch, domains, members>>

\* Mutants of AttachWorker: the sessions it found stay, or are not fenced.
AttachWorkerBeside(p, b, e) ==
  /\ Attachable(p, b, e) /\ b \notin Live(p)
  /\ sessions' = [sessions EXCEPT ![p] = @ \cup {[boot |-> b, epoch |-> e]}]
  /\ UNCHANGED <<grants, fences, epoch, domains, members>>

AttachWorkerUnfenced(p, b, e) ==
  /\ Attachable(p, b, e) /\ b \notin Live(p)
  /\ Lose({<<p, c>> : c \in Live(p)})
  /\ sessions' = [sessions EXCEPT ![p] = {[boot |-> b, epoch |-> e]}]
  /\ UNCHANGED <<grants, fences, epoch>>

AttachWorker(p, b, e) ==
  /\ Attachable(p, b, e) /\ b \notin Live(p)
  /\ \E order \in Orders(Live(p)) :
       fences' = [fences EXCEPT ![p] = Remember(@, order)]
  /\ Lose({<<p, c>> : c \in Live(p)})
  /\ sessions' = [sessions EXCEPT ![p] = {[boot |-> b, epoch |-> e]}]
  /\ UNCHANGED <<grants, epoch>>

(***************************************************************************)
(* fence_worker: whether or not the incarnation is attached.               *)
(***************************************************************************)
\* Mutant of FenceWorker: a fenced boot is fenced once more.
FenceWorkerAgain(p, b) ==
  /\ p \in DOMAIN grants
  /\ sessions' = [sessions EXCEPT ![p] = {s \in @ : s.boot # b}]
  /\ fences' = [fences EXCEPT ![p] = Remember(@, <<b>>)]
  /\ Lose({<<p, b>>})
  /\ UNCHANGED <<grants, epoch>>

FenceWorker(p, b) ==
  /\ p \in DOMAIN grants
  /\ b \notin Fenced(p)
  /\ sessions' = [sessions EXCEPT ![p] = {s \in @ : s.boot # b}]
  /\ fences' = [fences EXCEPT ![p] = Remember(@, <<b>>)]
  /\ Lose({<<p, b>>})
  /\ UNCHANGED <<grants, epoch>>

(***************************************************************************)
(* advance_epoch: every live incarnation of every publisher is fenced.     *)
(***************************************************************************)
\* Mutant of AdvanceEpoch: the sessions of the old epoch stay.
AdvanceEpochKeepsSessions(expected) ==
  /\ expected = epoch
  /\ epoch < MaxEpoch
  /\ epoch' = epoch + 1
  /\ UNCHANGED <<grants, sessions, fences, domains, members>>

AdvanceEpoch(expected) ==
  /\ expected = epoch
  /\ epoch < MaxEpoch
  /\ \E order \in [Publisher -> UNION {Orders(Live(p)) : p \in Publisher}] :
       /\ \A p \in Publisher : order[p] \in Orders(Live(p))
       /\ fences' = [p \in Publisher |-> Remember(fences[p], order[p])]
  /\ Lose({i \in Publisher \X Boot : i[2] \in Live(i[1])})
  /\ sessions' = [p \in Publisher |-> {}]
  /\ epoch' = epoch + 1
  /\ UNCHANGED grants

AuthorityNext ==
  \/ \E p \in Publisher, g \in Grants :
       \/ BootstrapGrant(p, g)
       \/ \E a \in Authority : AuthorizedGrant(a, p, g)
  \/ \E p \in Publisher, b \in Boot :
       \/ \E e \in 0..MaxEpoch : Reattach(p, b, e) \/ AttachWorker(p, b, e)
       \/ FenceWorker(p, b)
  \/ \E expected \in 0..MaxEpoch : AdvanceEpoch(expected)
=============================================================================
