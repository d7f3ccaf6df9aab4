# Failure-Domain-Registry: a TLA+ development

This directory specifies the Failure Domain Registry (`src/`) in TLA+, checks small
instances with TLC and proves what matters most about the registry with TLAPS.
`PROJECT.json` maps every definition to the lines it stands for.

## 1. The system

The registry records *failure domains* (a rack, a power feed, a fibre conduit), which
entities are *members* of them, and who said so. Publishers assert memberships with
*evidence* of a class; some classes depend on a live process (`ProcessBound`), some do
not. A publisher runs as one *incarnation* at a time (a worker boot); an incarnation
that is replaced, lost or left behind by a new coordinator epoch is *fenced*, and its
process-bound evidence is withdrawn.

| Component | State | Operations | What is hard | What makes it correct |
| --- | --- | --- | --- | --- |
| Authority (`registry_authority.cpp`, `registry.cpp`) | grants, live sessions, bounded fence lists, epoch | grant, attach, fence, advance the epoch, authorize | three code paths end an incarnation; the fence list forgets; evidence is found through an index | one incarnation per publisher, none of a lost one's authority left, fences last as long as the list allows |
| Domains (`registry_mutations.cpp`) | domain records with a lifecycle, generation, provenance | create, update, supersede, retire, merge | bulk demotion of members, redeclaration by several sources, merges half done | closed domains stay closed, lifecycles follow the table, images load again |
| Memberships (`registry_mutations.cpp`) | records with a multiset of evidence and a headline | attach, detach, replace, publish, withdraw, reconcile, mark, invalidate | evidence comes and goes in any order, exclusivity, conflicts of equal evidence | current rests on evidence, the headline is the strongest evidence, closed stays closed, one domain of an exclusive class |
| Coordinator (`coordinator.cpp`) | life of the process, a thread per connection | start, accept, dispatch, lose a peer, stop | crashes, threads that save concurrently, a start that listens before it saves | nothing stale is trusted after a restart, losses are fenced, a stop ends and loses nothing |
| Persistence (`persistence.cpp`) | the state file and a temporary one | save, load | saves overlap, fail or are cut off | the state file always reads back |
| Relations and containment (`registry_mutations.cpp`, `registry.cpp`, `registry_query.cpp`) | typed edges between domains; no operation removes one | add, ancestors, descendants, blast radius | cycles, depth through a joining edge, walks cut by a bound | acyclic, bounded chains, a walk is complete below its bound |
| Derivation (`registry_derivation.cpp`) | rules, derived memberships with the generations of their sources | publish a rule, run, invalidate | staleness between a change and a run; other mutations touch derived records too | a run leaves what can be derived and no more; a change is felt; an invalidated record comes back recomputed |
| Coverage and queries (`registry_query.cpp`) | coverage declarations | declare, overlap, independence, correlation | absence of records is not independence; records in doubt; three codes for one question | independence only of what shares nothing, where coverage is complete |
| Attempts (`registry.cpp`) | remembered outcomes of each publisher, bounded | find, remember, evict | retries, eviction by identifier, loads, handlers that do not ask | nothing acts again once it committed |
| Publisher client (`publisher.cpp`) | a socket, a mutex some calls take, the epoch it learned | connect, call, Goodbye, close | threads that share a client, a frame read in two receives, reconnection, no receive timeout | an answer belongs to its request, a connected client is attached, calls end |
| Snapshots (`registry_digest.cpp`) | copies of the registry with a generation and an epoch | take, compare, diff, reset | changes that bump nothing, generations that repeat | a snapshot that is current shows what there is |
| Frames, codec, transport, ids, digests, explanations, limits, discovery, synthetic, tools | none of their own | encode, hash, render, validate | | |

How they interact: a session thread of the coordinator decodes a request and calls one
public method of the registry. Each method takes the registry mutex exclusively for its
whole body, so each is one atomic step. The thread then saves the state without the
mutex (the image is encoded under a shared lock, and written and renamed under none),
and answers. When the connection ends the thread fences the incarnation that said Hello
on it, and saves once more. `start` loads, fences every incarnation with process-bound
evidence in the image, advances the epoch, listens and saves; `stop` joins the session
threads and saves.

## 2. The modules

| Module | Models |
| --- | --- |
| `Lifecycle` | transition tables, evidence classes, precedence of attestations (`lifecycle.cpp`, `provenance.cpp`, `compare_provenance`) |
| `RegistryState` | the registry's variables, authorization, withdrawal of evidence, bulk demotion, exclusivity |
| `RegistryAuthority` | `grant_publisher`, `attach_worker`, `fence_worker`, `advance_epoch` |
| `RegistryMembers` | the membership mutations |
| `RegistryDomains` | the domain mutations |
| `Registry` | composes the three: `Init`, `Next`, `Spec`, and all properties of the registry |
| `IncarnationLease` | abstract: a publisher's authority as a lease that one incarnation holds |
| `Persistence` | the steps of a save, by any number of threads |
| `Coordinator` | the process around it: connections, crash, restart, stop |
| `TopologyState` | what derivations, hierarchy, queries and snapshots read: lifecycles and generations, and what the domain and membership mutations may do to them |
| `Hierarchy` | `add_relation` with `path_exists` and `containment_chain_depth`, the walks of the queries, `blast_radius` |
| `Derivation` | rules, `evaluate_rule`, `run_derivation`, `invalidate_derived_memberships` and its callers |
| `Queries` | `declare_coverage`, `overlap`, `independence`, `correlate_member_sets`, the coverage report |
| `Snapshots` | `snapshot`, `snapshot_is_current`, `diff`, `reset`; save, start and `merge_domains` as they see them |
| `Topology` | composes the four: `Init`, `Next`, `Spec`, and their properties |
| `Attempts` | `find_mutation`, `remember_mutation`, `gc_idempotency` |
| `PublisherClient` | clients and their threads, connections, the sessions that serve them, over `Attempts` |
| `MCFencing`, `MCRecords`, `MCCoordinator`, `MCTopology`, `MCClient` | instances for TLC |
| `Registry_proofs` | theorems about `Registry`: grants, incarnations, fences |
| `Lease_proofs` | `Registry` implements `IncarnationLease` |
| `Records_proofs` | theorems about the records of `Registry`: types, lifecycles, headlines, exclusivity, bindings |
| `Evidence_proofs` | theorems about `Registry`: evidence and the incarnations behind it |
| `Hierarchy_proofs` | theorems about the relations of `Topology`, and the lemmas about chains, levels and induction they rest on |
| `Topology_proofs` | theorems about the rest of `Topology`: types, derivations, queries, snapshots |
| `Coordinator_proofs`, `Client_proofs` | theorems about `Coordinator` and `PublisherClient` |

### State and actions against the code

* `grants`, `sessions`, `fences`, `epoch`, `domains`, `members` are the maps of
  `RegistryState` (`registry_internal.hpp`). A domain record keeps lifecycle, generation
  and provenance; a membership record keeps lifecycle, the domain generation it is bound
  to, its headline provenance and its *live* evidence as a multiset (`ev[e]` counts the
  live entries). Dead entries decide nothing except through the size of the list, see
  below.
* Each public mutation is an action with the guards of its early returns; a refusal that
  changes nothing is a stutter, and one that changes something is an action
  (`AttachConflict`, `RedeclareConflict`, `MergeConflict`). What a handler does besides
  the obvious is part of its action: the withdrawal, re-election of headlines and
  demotion in `Lose`, the bulk demotion of a retirement.
* Abstracted in these: attempt ids (see `Attempts`), expected generations, names, metadata, roles, administrative
  scopes, history, lineage pointers, explanation and digest. They add refusals or
  content no lifecycle rule reads. The kind of a membership is one value. A membership's
  own generation is left out: here nothing but an expected generation reads it; the
  derivations do, and `Topology` has it. The refusals
  of `check_record_size` and the limit on domains are left out; limits on publishers,
  fences, evidence and memberships are constants.
* `OwnAttribution`: `attribute_provenance` fills in what a request leaves blank but keeps
  a publisher and boot the request names. With `OwnAttribution` every request is assumed
  to name its own; the runs take that, and the theorem about evidence assumes it by name.

The coordinator module cuts the registry down to epoch, live, fenced and
process-bound incarnations, which is what an image and a crash can tell apart.
`Image` is what `encode_payload` keeps (live sessions are not in it), `Recovered` what
`start` makes of it. A session thread is `free`, `reading`, `answering` (which includes
its save), `lost` or `closing`. A mutation names an incarnation of its own and is not
tied to the connection's Hello, as in `dispatch`. The save has four steps: encode, open
(which truncates), write, rename; files are separate from names, so a thread keeps
writing to a file that was renamed under it. A file that is shared by two saves reads
back when the last of them has written the whole of it and nothing longer was there.
The model is that of a POSIX file system with `PersistenceConfig::atomic`, its default;
where opening a file excludes others (`_wfopen_s`) the second save fails instead,
which the model includes as `SaveFails`. A stopped coordinator object is not started
again.

`Topology` is a second view of the registry. Its records carry a lifecycle and a
generation; what evidence makes of a membership is left to `RegistryMembers`, and
`DeclareDomain`, `ChangeDomain`, `AttachDirect` and `ChangeDirect` are any step along the
tables that module may take, with the bulk demotion. Derived records are mutated by
detachment, marks, reconciliation and merges as direct ones are. An entity has one
generation here and a domain at most one direct membership of it. `Reach` and `NoCycle`
define reachability and acyclicity by closed sets; `ClosesNoCycle` says what
`path_exists` answers, `ChainDepth` what `containment_chain_depth` counts, and `Walk`
goes level by level as `descendants_of` does. An image is all of the state; `Start` is a
load and the advance of the epoch, of an image that `Loadable` accepts: the checks
`decode_payload` makes of the ends of relations, the domains of memberships and cycles.
`broken` records what happened that generations do not tell (a reset, a refused merge, a
repeated epoch, a closed record overwritten, a limit a merge passed); it decides nothing
and the properties name the exceptions through it.

`Derivation` gives each derived record the set of its sources with their generations.
Where a domain is inherited through two source domains the code derives one record,
from whichever it sees last in an order of identifiers; the model takes either
(`SourceChoices`). New records beyond `max_memberships` are dropped, any of them.

In `PublisherClient` a call is a send and two receives (header and payload), each a step
of its own, since calls that take no mutex interleave between them. `torn` marks a
stream of which two threads have read parts of a frame: what is read then is no header
and the call fails. `Serve` is a session thread's handling of one request,
`SessionEnds` the fence of what said Hello on a connection that is gone. `effects`,
`forgotten`, `sharing`, `strayed` and `reattached` are history. `Execute` tells three
ends of a request that is not known: refused for nothing, refused after it changed
records (a conflict of equal evidence, a merge that stops half way; `Disputable`), which
is not remembered, and committed, which is.

In `Coordinator`, `told` and `left` are history. `left` holds the live incarnations whose
connection has said Hello for an incarnation of another publisher since: `serve`
remembers the last Hello alone (`coordinator.cpp:181`), and would not fence them.

## 3. The runs

| Run | Instance | What it shows |
| --- | --- | --- |
| `fencing` | 2 publishers, 3 boots, fence lists of 2, 2 epochs, one domain and one entity, a process-bound and a durable class; from the empty registry | the eight properties of incarnations, evidence and fences below |
| `records` | two scenes, told apart by the epoch: every membership mutation over 2 current domains of an exclusive class, an entity of 2 generations, sources of 2 kinds, 2 evidence entries, 2 memberships; every domain mutation with 3 memberships, of which 2 may be closed, and 2 generations of a domain, from no domains | headline, attestation, closed memberships and domains, the two tables, exclusivity, bindings |
| `coordinator` | 2 connections, 2 boots of one publisher and one of another, 2 starts; 2 saves at once within one publisher, 1 with both | what a restart trusts, who may be orphaned, a clean stop is durable |
| `stop` | 1 connection, 2 boots, 2 starts, fair threads | a stop ends; a lost incarnation is fenced |
| `topology` | four scenes of one instance: 4 domains of a containment class with 3 relation types (depth 2, walk 2, 4 relations); 2 rules over 3 domains and 2 entities; 3 domains, 2 scopes, 3 declarations; 2 domains with merges, resets, saves, starts and a snapshot | hierarchy, derivation, queries, snapshots |
| `client` | 2 clients of one publisher, 2 threads, 3 requests, 4 calls, 2 connections, 2 epochs, a table of 1 attempt, fair threads and sessions | attempts, answers, attachment, calls end |
| `exclusivity`, `merge_refused`, `merge_revives`, `unlisted`, `torn_image`, `epoch_reused` | the same instances | the code does what a document says it does not; section 5 |

Deadlock is not checked: the counters have last values, and a coordinator whose state
file does not read back cannot start again.

Properties, with the run that checks them:

* `OneLiveIncarnation`, `LiveSessionsAreFit`, `FencesAreDistinct`,
  `FencesFadeOnlyByOverflow`, `IncarnationsAreLeased` (`fencing`): who is in charge. The
  last is refinement: attach, fence and epoch are steps of the abstract lease, with
  `holder` the boots with a session and `barred` the fenced ones.
* `EvidenceOfTheLiving`, `LostIncarnationsHoldNoDomain` (`fencing`): what becomes of the
  word of a lost incarnation.
* `HeadlineIsStrongest`, `AttestationIsKept`, `ClosedMembershipsStay`,
  `ExclusivityIsKept`, `BindingsAreLoadable`, `ClosedDomainsStay` (`records`): what
  memberships rest on, and what stays closed. Merges are the named exception of the
  second and third, merges and reconciliations of the fourth.
* `MembershipStepsAreListed`, `DomainStepsAreListed` (`records`): how much of the claim that
  every transition is in the tables is so. The claim itself, `EveryTransitionIsListed`, is
  false (`unlisted`, section 5); the two say which handlers leave the tables, and by
  which moves, and that no other does.
* `TrustIsLive`, `NoOrphan`, `CleanStopIsDurable` (`coordinator`), `StopEnds`,
  `LossIsFenced` (`stop`).
* `ImageIsAcyclic`, `ChainsAreBounded`, `WalksAreExact` (`topology`): the hierarchy. The
  walk that decides about a cycle and the walks of the queries give up at the same
  bound: the first then refuses, a blast radius says it is truncated, and `ancestors()`,
  `descendants()` and overlap's most specific domains say nothing. `WalksAreExact` says of
  each what is true of its answer, cut or not.
* `RunIsExact`, `ContextIsExact`, `ChangeIsFelt`, `InvalidStaysOut` (`topology`): the
  derivations. The first asks of every reachable state what a run would leave in it.
  That a derived record is current does not mean its sources are: between a change and
  a run it may not be, which is what the generations tell.
* `IndependenceIsSound`, `QueriesAgree` (`topology`), with the exceptions the code has.
* `CurrentSnapshotIsFaithful` (`topology`).
* `AtMostOnce`, `AnswersAreOwn`, `ConnectedIsAttached`, `CallsEnd` (`client`). Each names
  in its comment when it does not hold: operations that do not ask the table and refusals
  that have an effect, calls that take no mutex, a reconnection before the old session
  ended.

### Why the bounds are enough

A fence list overflows with two places and three boots; the third boot is what replaces
the first two. Two epochs give traffic of an older one. Two publishers make evidence of
a stranger on one membership. An exclusive class needs two domains and one entity, and a
second generation of that entity, since exclusivity is about the entity and not its
generation. Two source kinds make a conflict of equal evidence; the scene
of the domains fixes which of them comes first, which is symmetric. Evidence lists of two are enough for a headline
that loses to, wins over or ties with what is left. Two domain generations tell a
binding that is too new from one that is not. In `coordinator`, two saves at once are
enough to share a file, one crash and one restart to read what they left, and two
connections to take an incarnation from each other. `stop` has one connection: session
threads wait for nothing but their own save, so the number of them only adds to what is
joined.

In `topology` a scene takes only the steps it is about and stays within a bound on what
deviates from its start (`InDoubt`, `Doubted`, the generations); a step beyond the bound
is not taken. Four tiers hold a chain longer than the depth of 2, two chains that an
edge joins, and a walk of three domains beyond the bound of 2. Two source domains
and two entities give a record with two possible sets of sources and a membership two
rules derive; two changes are enough to make a source stale and take it back. The two rules are in
the order in which the first may retire what the second still derives. Three generations
leave two steps to tell from the last one, which `next()` does not leave. The
queries need one domain in each of two scopes and one of an extension class, and one
record in doubt. A snapshot needs three generations after it and one repeated epoch. The
view drops the generations a scene does not read. Tiers are symmetric.

In `client`, t1 connects, calls and closes for both clients, and t2 calls on the first
while t1 does so, which is enough for two calls at once and for one that outlives its
connection. The second client is the incarnation that replaces the first. Two requests
share an attempt and the third, which does not ask the table, is under a later one: a
table of one entry then sees a retry, a conflict, an eviction, and a commit that is
evicted at once; the restart empties it.

In `coordinator`, three incarnations of two publishers are one too many for saves that
overlap: the constraint lets two saves overlap as long as only the first publisher's
incarnations are involved, and lets both publishers share the connections with one of
each and one save at a time. A step that attaches or fences waits for
no save but its own thread's.

### Fairness

`stop` assumes weak fairness of a session thread's own steps and of the main thread's,
which is what a scheduler gives. `serve` sets a receive timeout of 200 ms
and looks at the flag after each receive, and `shutdown_live_sockets` ends a send that
blocks, so a thread does take its next step while a stop is under way. Nothing is
assumed of peers, of accepting, of saves succeeding, of starts, stops or crashes.

`client` assumes weak fairness of the receives of each thread of a client and of each
session (serve a request or see the end of the connection): the scheduler again, and a
coordinator that answers. Nothing is assumed of making calls, of losses or of restarts.
A client's socket has no receive timeout (`ConnectConfig::io_timeout_ms` is not used), so
a call ends only because its answer comes or its connection is seen to be gone.

## 4. What is proved

Every invariant and every action property of a passing run is a theorem, for all values
of the constants that meet the assumptions of the module that declares them. TLC
evaluates the assumptions on every run; what they ask is in the table.

| Assumption | Why the code justifies it |
| --- | --- |
| `IdentityAssumption`, `BoundAssumption` (`RegistryState`) | an identifier of a domain is hashed from its class; limits and bounds are positive (`RegistryLimits::validate`) |
| `TopologyAssumption` | the same; identifiers are finitely many; `max_ancestor_walk` is at least `max_hierarchy_depth` (`limits.cpp:65`); rules have a finite order |
| `FileAssumption`, `ThreadAssumption` (`Persistence`, `Coordinator`) | a file a save opens anew is always there, so there are more files than threads; sessions and the main thread are different threads |
| `ImageAssumption` (`Coordinator`) | `None` is no image and no boot |
| `AttemptAssumption`, `ClientAssumption` | a request has one attempt and the table a limit; requests are not Hello or Goodbye; `None` is nobody |

About `Registry`:

* `OneIncarnation`, `FitSessions` (`Registry_proofs`). The inductive invariant is
  `IncarnationInv == AuthorityTypeOK /\ OneLiveIncarnation /\ LiveSessionsAreFit`. Neither
  property is inductive alone: an attachment fences *each* session it finds, and only
  because there is at most one is the newest fence certain to survive the bound on the
  list (`RememberFacts`); the epoch of a session is current only because `AdvanceEpoch`
  clears all of them.
* `DistinctFences`, `FencesFade` (`Registry_proofs`): no boot twice in a fence list,
  because an incarnation that is fenced has no session and what is fenced by an
  attachment or explicitly is looked up first. Each step continues the list it finds,
  less its oldest entries, and drops one only to leave a full list (`RememberFades`).
* `Leased` (`Lease_proofs`): under `IncarnationInv` every step is a step of
  `IncarnationLease` or leaves it alone. One lemma per action that touches sessions.
* `TypeCorrect` (`Records_proofs`): `TypeInv`, `IncarnationInv` with the types of the
  records, through every mutation.
* `MembershipsFollowTheTable`, `ClosedUntilMerged`, `AttestedUntilMerged`,
  `AttestedWithoutMerges`, `ExclusiveUntilUnasked`, `ExclusiveWhenAsked` (`Records_proofs`).
  All six rest on `StepChanges`: whatever the step, each membership it changes without
  a merge is `Relived` (another lifecycle, the same evidence), `Reasserts` (it takes
  evidence and is current) or `Weakens` (it loses evidence, and its standing with the
  last entry), and what becomes current in one step was asked for conflicts with the rest of
  the registry and with each other, unless it is a reconciliation (`MembersStep`). Two
  theorems are about a registry in which merges, or merges and reconciliations, are never
  asked for: there `CurrentIsAttested` and `Exclusivity` are invariants. The run
  `exclusivity` shows that the latter fails with them.
* `HeadlinesAreStrongest` (`Records_proofs`): each way a record changes leaves a headline
  among the strongest of the evidence held. Withdrawal takes one of the strongest by
  choice (`Strongest`), so the proof does not depend on the order of the evidence.
* `DomainsFollowTheTable`, `BindingsStayLoadable` (`Records_proofs`): a step revises domains
  (`DomainsRevised`): generations do not fall and lifecycles follow the table. Each
  membership is then bound to a generation its domain still has reached.
* `EvidenceLives` (`Evidence_proofs`): with `OwnAttribution`, process-bound evidence is
  of a live incarnation. Inductive with `TypeInv`: evidence is only added by an authorized,
  hence live, incarnation, and every step that ends one removes all it holds.
* `LostHoldNoDomain`, `ClosedForGood` (`Evidence_proofs`): action properties, from
  `TypeInv`.

About `Coordinator`, for any number of connections, incarnations, saves and starts:

* `CoordinatorTyped`: `TypeInv` ties the step of each save to what it carries (`Coherent`)
  and the life of the process to the threads that may be at work (`ThreadInv`). That a
  save finds a file is a pigeonhole argument: each name and each thread keeps one.
* `TrustHolds`: `TrustIsLive` is inductive; `Recovered` is what makes it hold initially
  after a crash.
* `NobodyIsOrphaned`: for any publishers. A Hello leaves behind the incarnation its
  connection had: one of the same publisher is replaced, another is in `left` from
  then on. `Standing` adds to `NoOrphan` the types of connections, that nothing live is fenced,
  that the boot of a closing thread is fenced already, and that no thread has a
  connection while the process is down or flushing.
* `StopsAreDurable`: while the process flushes, no session is at work (`ThreadInv`), so
  the image of the main thread stays the registry's and the temporary name the file it
  opened (`FlushInv`).

About `Topology`:

* `HierarchyIsAcyclic`. `HierarchyInv` says that no acyclic type has a cycle and no chain of
  containment is too long, in the state and in the image, which a start brings back.
  `EdgeKeepsNoCycle` is the graph fact: a cycle that a new edge closes holds all that can be
  reached from the target, so the edge's source was reachable. The bound of the walk
  plays no part because a cut walk refuses. That a load refuses cycles is not used: no
  image that is saved has one.
* `ChainsStayShort`: the depth the code counts level by level covers every chain that ends
  there (`ChainDepthCovers`, by induction on the chain), because without a cycle a chain
  holds no domain twice and no more domains than there are. A chain through the new edge
  is a chain to its source and one from its target, and `DepthThrough` adds the two.
* `WalksAreTrue`: a level adds a domain, or settles the walk, or is the last before the
  bound (`LevelOK`); a walk of as many levels as domains is settled or cut. A walk that
  found fewer domains than the bound was not cut (`WalkIsExact`), which is what is left to
  say of the walks that report nothing.
* `TopologyTyped`: `TypeInv` types the state and the image. What passes
  `max_memberships` is marked by the merge that does it, since nothing else is stored
  without asking for room.
* `RunsAreExact`: by induction on the rules of the pass. `RunInv` says of each record after
  n rules that it is closed, for one of the reasons the property names, was computed by
  one of the n from current sources, or has not been touched, and that what is missing
  had no room.
* `ContextsAreExact`: `ContextInv` adds to the property that no record knows a source by a
  generation the source has not reached: each step leaves a source alone, or gives it a
  new generation, or has run out of them.
* `InvalidRecordsStayOut`: an invalidated record becomes current again only through a run
  that grounded it, a reconciliation, a start or a merge; the last three may leave it
  current and invalid.
* `ChangesAreFelt`: an action property of `InvalidateEntity` and `NotifyTopologyChange`.
* `IndependenceProven`, `QueriesDoAgree`: what the queries answer against what the records
  say and against each other, for all entities, classes and scopes. `QueryInv` is what
  types the records and declarations.
* `SnapshotsAreFaithful`. `SnapshotInv` is that a snapshot is of an earlier generation or
  epoch or shows the state, unless `broken`: each step either counts or marks.

About `PublisherClient`, for any number of clients, threads, connections and requests:

* `OneEffectPerAttempt`: `AttemptsInv` ties the table, what was forgotten and what was
  committed together (`Traced`), through every step of clients, sessions and restarts. It
  says nothing of refusals before the commit, which do repeat their effects.
* `AnswersStayOwn`, `ConnectedStaysAttached`: from `ClientInv`. Its core is `PipeInv`: while
  no call shares the socket of a client, the client is `Orderly`: at most one thread is in a
  call on it, and its connection holds one message, the request or the answer of that
  call, and none between calls (`Exchange`). An answer that welcomes a Hello is on the wire
  only while the session stands for the incarnation. `SessionInv` says what becomes of it
  then: two sessions stand for one incarnation only if it attached again or is fenced.
  `SocketInv` keeps sockets apart and closed ones out of use; `LockInv` ties the mutex to
  a thread in a call that takes it. The proof has a lemma per action and, for the steps
  that end or begin a call, per kind of connection left behind.
* `ClientTyped`: `ClientInv` with `TableInv`: one attempt more than the limit evicts one.

Only model-checked:

* `CallsEnd`, `StopEnds`, `LossIsFenced`: liveness under fairness, and `ENABLED`, are out of
  the prover's reach.
* The properties of the violated runs, which are false.

The library's induction theorems take an operator as a parameter, which the installed
provers cannot instantiate. What is needed of induction is proved instead from the
well-foundedness of the naturals (`LeastNat`, `Induction` in `Hierarchy_proofs`): a
property that fails somewhere fails first somewhere. That a recursive function has the
value its definition gives is proved the same way where a theorem needs it
(`ChainDepthLevels`, `WalkLevels`, `PassLevels`). The modules declare no RECURSIVE operator.

## 5. Where code and documents disagree

1. *Exclusivity.* "an entity occupies one of each" (`README.md:111-113`). A demoted
   membership is reconciled back to current without the question `exclusive_conflict`,
   after another domain of the class took the entity.
2. *Transactional merge* (`README.md:498`). `merge_domains` returns MembershipConflict
   from the middle of its loop.
3. *Terminal records* (`lifecycle.hpp:6-8`). The record a merge moves replaces a closed
   one of the same identity.
4. *Atomic replacement* (`README.md:328`, which also says the file is read back). Two
   saves of one process write to `<path>.tmp-<pid>`; one renames what the other
   truncated. A crash then leaves a state file the next start refuses.
5. *A restart advances the epoch* (`README.md:230`). The epoch is told before it is
   saved, and a failed save is ignored.
6. *Every legal transition is listed and enforced* (`lifecycle.hpp:6`; `lifecycle.cpp:6-8`: no
   transition outside the tables is ever accepted). Four handlers write a lifecycle
   without asking the tables: `create_domain` takes a Candidate to Conflicted
   (`registry_mutations.cpp:536`, the run `unlisted`), `supersede_domain` and `merge_domains`
   take a Candidate or Conflicted domain to Superseded, and `reconcile_membership` takes a
   Conflicted membership without evidence to RevalidationRequired (`:2270-2288`).

Further divergences, without a run of their own. The first group is in the models, where
a property names it as its exception:

* Fences. "The previous incarnation is permanently fenced" (`README.md:225-226`): its fence
  is the oldest entry of a bounded list after `max_fenced_boots_per_publisher` - 1 others,
  and gone after one more; the incarnation may then attach again.
* Session loss. "fences exactly the incarnation that owned this connection"
  (`coordinator.cpp:505`): a connection that said Hello for two publishers fences the last
  of them and leaves the first attached (`left` in `NoOrphan`).
* Walks. "a walk can never truncate silently" (`limits.hpp:81-82`, `limits.cpp:60-67`,
  `README.md:522-525`): `max_ancestor_walk` bounds the number of domains found and
  `max_hierarchy_depth` the length of a chain, so a wide hierarchy is cut below the
  depth. A blast radius says so; `ancestors()` and `descendants()` return what they have, and
  overlap may call a domain most specific that is not (`registry_query.cpp:444-460`).
* Snapshots. A refused merge changes records without a new generation, so
  `snapshot_is_current` answers true for a registry that changed; `reset` starts the
  generations at 1 again, and a crash repeats those not saved (`README.md:287-289`). `diff`
  reports DomainSuperseded for domains that were superseded before.
* Derivation. `reconcile_membership` and `merge_domains` bring an invalidated derived
  membership back as current without recomputing it (`README.md:176-186`). "When a source
  generation moves on, the derived membership is recomputed or withdrawn - it is never
  left quietly standing" (`README.md:182-184`): it stays current until somebody asks for a
  run, unless an entity of its sources is invalidated (`ContextIsExact` is what can be
  told meanwhile). Two rules that
  derive the same membership take it from each other on every pass. The records of a
  rule that is disabled stand for ever.
* Derivation. Rules run in the order of their identifiers, and each retires what it no
  longer derives itself. A record whose own rule comes first is closed for good when a
  later rule that derives it is asked, and the membership is lost although a rule
  derives it (`registry_derivation.cpp:277` and `:340`; the rules are described one by one in
  `README.md:176-186`, without an order). `LostFirst` is this exception of `RunIsExact`.
* A generation that has reached its last value stays, and what compares generations
  takes such a source for unchanged (`ContextIsExact` leaves it out; 2^64 changes away).
* Merge ignores `max_memberships`, and moves a record with an older generation over a
  closed one.
* Queries. Independence asks about canonical classes unless told otherwise, correlation
  looks at no record in doubt, and two current memberships in a domain in doubt are
  passed over (`README.md:263-266`, `query.hpp:30-40`). `declare_coverage` replaces what was
  declared, where `README.md:271-272` says the weakest wins.
* Replay. reconcile, mark_revalidation, declare_coverage, invalidate_entity,
  notify_topology_change and run_derivation do not ask the table of attempts, so an
  exact replay acts again ("returns IDEMPOTENT and advances nothing", `README.md:213-214`).
  A refusal that has changed records (DomainConflict of `create_domain`,
  MembershipConflict of `attach_member` and of a merge) is not remembered either: its
  replay changes them again, and advances the generation unless it is the merge.
* Client. create_domain, attach_member, publish_memberships, withdraw_evidence,
  declare_coverage, invalidate_entity and run_derivation take no mutex, although
  `README.md:484` says a client serialises its exchanges. One in flight across a
  reconnection may take the answer to the Hello and leave `connect` waiting with the
  mutex.

The second group is not modelled:

* Recovery does not recompute derived memberships although `README.md:331-334` says so.
* `coordinator.hpp:77` says a stop fences with CoordinatorRestart; the session threads
  use SessionLost. The fence a Hello causes is not saved until the next commit.
* Fences are saved sorted (`persistence.cpp:765`), so a restart changes which the list
  forgets first.
* Strings longer than 1024 bytes are saved and do not load.
* `check_record_size` may refuse a supersession after one of the two domains was stored,
  and a merge late (`registry_mutations.cpp:847-856`, `:1246-1250`): records have changed then
  and the generation has not.

## 6. Plan

Done: authority, domains, memberships, coordinator, persistence, hierarchy, derivation,
coverage and queries, snapshots, attempts, the client; the theorems above.

Left:

1. Theorems about the abstract side of the other components, as `IncarnationLease` is for
   incarnations: an abstract save (a clean stop leaves the last state) and an abstract
   exchange (a request and its answer) that `Coordinator` and `PublisherClient` implement.
2. The order of the fence list across a save and a load would need `RegistryAuthority`
   inside `Coordinator`.
3. Saves that overtake each other: nothing in the documents says which acknowledged
   mutations are on disk, so there is no property to state yet.

Not modelled: the encoding of frames, messages and records, sockets below send and
receive, hashing and identifiers, explanations, discovery, synthetic topologies and the
tools. They are pure functions or I/O without state that outlives a call. Lengths of strings,
the limits on domains, query entities and derived memberships of one rule, the
administrative scope of a grant, and the bound on sessions are left out of the modelled
components.
