----------------------------- MODULE Coordinator -----------------------------
(***************************************************************************)
(* The coordinator process (src/src/coordinator.cpp): one thread for each  *)
(* connection, a main thread that starts and stops, and the state file     *)
(* they all save.  The registry is cut down to what a crash can make a     *)
(* difference to: the incarnations attached and fenced, and those whose    *)
(* process-bound evidence the records hold.  RegistryAuthority has the     *)
(* whole of these operations.  The fence list does not reach its bound     *)
(* here, and every publisher has its grant.                                *)
(***************************************************************************)
EXTENDS Persistence

CONSTANTS Session, Main, Boot,
          PublisherOf,          \* boot -> its publisher
          MaxEpoch              \* the last epoch

Images == [epoch : 1..MaxEpoch, fenced : SUBSET Boot, bound : SUBSET Boot]

ASSUME ThreadAssumption == Thread = Session \cup {Main} /\ Main \notin Session

ASSUME ImageAssumption == MaxEpoch \in Nat \ {0} /\ None \notin Images /\ None \notin Boot

VARIABLES
  life,                 \* of the process: down, up, stopping or flushing
  epoch, live, fenced, bound,   \* the registry; bound: in records still open
  conn,                 \* session thread -> its connection
  told,                 \* the last epoch a client was ever told (history)
  left                  \* live incarnations whose connection said Hello for an
                        \* incarnation of another publisher since (history)

registry == <<epoch, live, fenced, bound, left>>
vars == <<disk, save, life, registry, conn, told>>

Blank == [epoch |-> 0, fenced |-> {}, bound |-> {}]

\* What encode_payload writes: live sessions are not part of it.
Image == [epoch |-> epoch, fenced |-> fenced, bound |-> bound]

NoConn == [step |-> "free", boot |-> None]

\* The memory of a process that does not run.
Memory(i) == /\ epoch' = i.epoch /\ fenced' = i.fenced
             /\ bound' = i.bound /\ live' = {} /\ left' = {}

Init == /\ DiskInit
        /\ life = "down" /\ conn = [s \in Session |-> NoConn]
        /\ epoch = 0 /\ live = {} /\ fenced = {} /\ bound = {}
        /\ told = 0 /\ left = {}

-----------------------------------------------------------------------------
(***************************************************************************)
(* Start: load the state file, fence every incarnation that still has      *)
(* process-bound evidence in it, advance the epoch, listen.  Only then is  *)
(* the new epoch saved, next to sessions that may already be accepted.  A  *)
(* file that does not read back stops the start.                           *)
(***************************************************************************)
\* Mutant of Recovered: what the file held is trusted.
RecoveredAsSaved(i) == [i EXCEPT !.epoch = @ + 1]

Recovered(i) == [i EXCEPT !.epoch = @ + 1, !.fenced = @ \cup i.bound, !.bound = {}]

Begin(i) == /\ life = "down" /\ i.epoch < MaxEpoch
            /\ Memory(Recovered(i))
            /\ life' = "up" /\ Request(Main)
            /\ UNCHANGED <<disk, conn, told>>

Start == \/ "state" \notin DOMAIN names /\ Begin(Blank)
         \/ Reads("state") /\ Begin(content[names["state"]])

(***************************************************************************)
(* A session thread.                                                       *)
(***************************************************************************)
At(s, step) == conn[s].step = step

Accept(s) == /\ life = "up" /\ At(s, "free")
             /\ conn' = [conn EXCEPT ![s].step = "reading"]
             /\ UNCHANGED <<disk, save, life, registry, told>>

\* Hello: attach_worker, for whatever incarnation the request names, of whatever
\* publisher, as often as the peer asks.  The connection remembers the last.
Hello(s, b) ==
  LET stale == {c \in live : PublisherOf[c] = PublisherOf[b]} \ {b}
  IN  /\ At(s, "reading")
      /\ b \notin fenced
      /\ live' = (live \ stale) \cup {b}
      /\ fenced' = fenced \cup stale
      /\ bound' = bound \ stale
      /\ left' = ((left \cup {conn[s].boot}) \ {b}) \cap live'
      /\ conn' = [conn EXCEPT ![s] = [step |-> "answering", boot |-> b]]
      /\ UNCHANGED <<disk, save, life, epoch, told>>

\* A request that changes nothing: a query, a heartbeat, a refused request.
Ask(s) == /\ At(s, "reading")
          /\ conn' = [conn EXCEPT ![s].step = "answering"]
          /\ UNCHANGED <<disk, save, life, registry, told>>

\* A committed mutation in the name of any live incarnation, on any connection:
\* it adds process-bound evidence of its own, or withdraws anyone's, or closes
\* the records that hold it.  It is saved before its answer.
Mutate(s, b) ==
  /\ At(s, "reading") /\ b \in live
  /\ bound' \in SUBSET (bound \cup {b})
  /\ conn' = [conn EXCEPT ![s].step = "answering"]
  /\ Request(s)
  /\ UNCHANGED <<disk, life, epoch, live, fenced, told, left>>

\* Every answer tells the epoch, whether or not the save went well.  (One request
\* is read at a time: the flag is looked at after each receive, and a receive
\* ends with finitely many requests.)
Answer(s) ==
  /\ At(s, "answering") /\ save[s] = Idle
  /\ conn' = [conn EXCEPT ![s].step = IF life = "up" THEN "reading" ELSE "lost"]
  /\ told' = IF epoch > told THEN epoch ELSE told
  /\ UNCHANGED <<disk, save, life, registry>>

\* The peer is gone when the thread reads, or when it answers.
Lose(s) == /\ At(s, "reading") \/ (At(s, "answering") /\ save[s] = Idle)
           /\ conn' = [conn EXCEPT ![s].step = "lost"]
           /\ UNCHANGED <<disk, save, life, registry, told>>

\* Mutant of SeeStop: a receive without a timeout never looks.
SeeNothing(s) == FALSE

\* A thread that reads looks at the stop flag each time a receive expires.
SeeStop(s) == life = "stopping" /\ At(s, "reading") /\ Lose(s)

\* fence_worker and a save, if the connection was attached.
FenceLost(s) ==
  LET b == conn[s].boot
  IN  /\ At(s, "lost") /\ b # None
      /\ live' = live \ {b} /\ fenced' = fenced \cup {b} /\ bound' = bound \ {b}
      /\ left' = left \ {b}
      /\ conn' = [conn EXCEPT ![s].step = "closing"]
      /\ Request(s)
      /\ UNCHANGED <<disk, life, epoch, told>>

\* Mutant of Close: an attached connection may end without its fence.
CloseQuietly(s) == /\ At(s, "lost") \/ (At(s, "closing") /\ save[s] = Idle)
                   /\ conn' = [conn EXCEPT ![s] = NoConn]
                   /\ UNCHANGED <<disk, save, life, registry, told>>

Close(s) == /\ \/ At(s, "lost") /\ conn[s].boot = None
               \/ At(s, "closing") /\ save[s] = Idle
            /\ conn' = [conn EXCEPT ![s] = NoConn]
            /\ UNCHANGED <<disk, save, life, registry, told>>

(***************************************************************************)
(* Stop: raise the flag, wait for every session thread, save, end.         *)
(***************************************************************************)
Stop == /\ life = "up" /\ save[Main] = Idle
        /\ life' = "stopping"
        /\ UNCHANGED <<disk, save, registry, conn, told>>

\* Mutant of Joined: the session threads are not waited for.
JoinedEarly == /\ life = "stopping"
               /\ life' = "flushing" /\ Request(Main)
               /\ UNCHANGED <<disk, registry, conn, told>>

Joined == /\ life = "stopping" /\ \A s \in Session : At(s, "free")
          /\ life' = "flushing" /\ Request(Main)
          /\ UNCHANGED <<disk, registry, conn, told>>

Ended == /\ life = "flushing" /\ save[Main] = Idle
         /\ life' = "down" /\ Memory(Blank)
         /\ UNCHANGED <<disk, save, conn, told>>

\* The process dies: what is not in a file is gone.
Crash == /\ life # "down" /\ life' = "down"
         /\ Memory(Blank) /\ Halt
         /\ conn' = [s \in Session |-> NoConn]
         /\ UNCHANGED told

Saving(t) == SaveStep(t, Image) /\ UNCHANGED <<life, registry, conn, told>>

SaveFails(t) == GiveUp(t) /\ UNCHANGED <<life, registry, conn, told>>

\* What a session thread does by itself, and what its peer makes it do.
Own(s)  == Answer(s) \/ SeeStop(s) \/ FenceLost(s) \/ Close(s) \/ Saving(s)
Peer(s) == Accept(s) \/ Ask(s) \/ Lose(s) \/ \E b \in Boot : Hello(s, b) \/ Mutate(s, b)

OwnMain == Joined \/ Ended \/ Saving(Main)

Next == \/ Start \/ Stop \/ Crash \/ OwnMain
        \/ \E s \in Session : Own(s) \/ Peer(s)
        \/ \E t \in Thread : SaveFails(t)

Spec == Init /\ [][Next]_vars

\* Threads run.  Nothing is assumed of peers, of starts, stops and crashes.
FairSpec == Spec /\ WF_vars(OwnMain) /\ \A s \in Session : WF_vars(Own(s))

-----------------------------------------------------------------------------
(***************************************************************************)
(* Every variable has its type, an unused connection has no incarnation,   *)
(* and no thread works for a process that is down.                         *)
(***************************************************************************)
TypeOK ==
  /\ DiskTypeOK(Images)
  /\ life \in {"down", "up", "stopping", "flushing"}
  /\ epoch \in 0..MaxEpoch
  /\ live \subseteq Boot /\ fenced \subseteq Boot /\ bound \subseteq Boot
  /\ told \in 0..MaxEpoch /\ left \subseteq live
  /\ \A s \in Session :
       /\ conn[s].step \in {"free", "reading", "answering", "lost", "closing"}
       /\ conn[s].boot \in Boot \cup {None}
       /\ At(s, "free") => conn[s] = NoConn
       /\ life = "down" \/ save[s] # Idle => ~At(s, "reading") /\ ~At(s, "lost")

(***************************************************************************)
(* Durability does not imply process authority: whatever image a crash     *)
(* left behind and a start read, process-bound evidence in the records is  *)
(* of an incarnation attached now, and no attached one is fenced           *)
(* (Coordinator::start, attach_worker, fence_worker).                      *)
(***************************************************************************)
TrustIsLive == bound \subseteq live /\ live \cap fenced = {}

(***************************************************************************)
(* "Session loss is detected here, through the real socket, and fences     *)
(* exactly the incarnation that owned this connection"                     *)
(* (coordinator.cpp:505): no incarnation is attached that no connection    *)
(* stands for, since nothing would fence it.  That is so with one          *)
(* exception: a connection may say Hello for a second publisher, serve     *)
(* remembers the last Hello alone, and the first incarnation stays         *)
(* attached, until its publisher attaches another or a peer says Hello for *)
(* it again.  However connections end, and whoever attaches the same       *)
(* incarnation or another of its publisher meanwhile, no other is orphaned.*)
(***************************************************************************)
NoOrphan == live \subseteq {conn[s].boot : s \in Session} \cup left

(***************************************************************************)
(* After a clean stop the file holds the registry's last state: by the     *)
(* time the main thread replaces it no session thread is still saving, so  *)
(* neither a torn nor an older image can take its place                    *)
(* (Coordinator::stop joins before it saves).                              *)
(***************************************************************************)
CleanStopIsDurable ==
  [][life = "flushing" /\ Rename(Main)
       => "state" \in DOMAIN names' /\ content'[names'["state"]] = Image]_vars

(***************************************************************************)
(* "A restarted coordinator advances its epoch [...] and rejects old-epoch *)
(* traffic" (README.md, section 6): no start uses an epoch that a client   *)
(* was told before.  Session threads tell it while the save that would     *)
(* make it durable is still under way (Coordinator::start).                *)
(***************************************************************************)
EpochsAreFresh == [][life = "down" /\ life' = "up" => epoch' > told]_vars

(***************************************************************************)
(* A stop ends, whatever the peers do: each session thread sees the flag,  *)
(* fences, saves and ends (Coordinator::stop, serve's receive timeout).    *)
(***************************************************************************)
StopEnds == life = "stopping" ~> life = "down"

(***************************************************************************)
(* "Session loss [...] fences exactly the incarnation that owned this      *)
(* connection" (coordinator.cpp, serve): once the peer of an attached      *)
(* connection is lost its incarnation gets fenced, if the process lives.   *)
(***************************************************************************)
LossIsFenced ==
  \A s \in Session, b \in Boot :
    At(s, "lost") /\ conn[s].boot = b ~> b \in fenced \/ life = "down"
=============================================================================
