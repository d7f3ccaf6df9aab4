-------------------------- MODULE Coordinator_proofs --------------------------
(***************************************************************************)
(* Proofs about the coordinator process, for any number of connections,    *)
(* incarnations and overlapping saves, and a crash at any step.            *)
(***************************************************************************)
EXTENDS Coordinator, TLAPS, FiniteSetTheorems

\* Saves read the registry and touch the disk.
LEMMA SavesLeaveTheRest ==
  ASSUME NEW t, Saving(t) \/ SaveFails(t)
  PROVE  UNCHANGED <<life, registry, conn, told>>
BY DEF Saving, SaveFails

(***************************************************************************)
(* What a start trusts.                                                    *)
(***************************************************************************)
LEMMA TrustInit == Init => TrustIsLive
BY DEF Init, TrustIsLive

LEMMA TrustStep == TrustIsLive /\ [Next]_vars => TrustIsLive'
<1> SUFFICES ASSUME TrustIsLive, [Next]_vars
             PROVE  TrustIsLive'
  OBVIOUS
<1>1. CASE UNCHANGED registry
  BY <1>1 DEF registry, TrustIsLive
<1>2. ASSUME NEW i, Begin(i)
      PROVE  TrustIsLive'
  <2>1. bound' = Recovered(i).bound /\ live' = {}
    BY <1>2 DEF Begin, Memory
  <2>2. CASE Recovered(i).bound = {}
    BY <2>1, <2>2 DEF TrustIsLive
  <2> QED BY <2>2 DEF Recovered
<1>3. CASE Ended \/ Crash
  BY <1>3 DEF Ended, Crash, Memory, Blank, TrustIsLive
<1>4. ASSUME NEW s, NEW b, Hello(s, b)
      PROVE  TrustIsLive'
  BY <1>4 DEF Hello, TrustIsLive
<1>5. ASSUME NEW s, NEW b, Mutate(s, b)
      PROVE  TrustIsLive'
  BY <1>5 DEF Mutate, TrustIsLive
<1>6. ASSUME NEW s, FenceLost(s)
      PROVE  TrustIsLive'
  BY <1>6 DEF FenceLost, TrustIsLive
<1>7. ASSUME NEW s, Own(s) \/ Peer(s)
      PROVE  TrustIsLive'
  BY <1>1, <1>4, <1>5, <1>6, <1>7, SavesLeaveTheRest
  DEF Own, Peer, Answer, SeeStop, Close, Accept, Ask, Lose
<1>8. CASE Start
  BY <1>2, <1>8 DEF Start
<1>9. CASE Stop \/ OwnMain \/ \E t \in Thread : SaveFails(t)
  BY <1>1, <1>3, <1>9, SavesLeaveTheRest DEF Stop, OwnMain, Joined
<1>10. CASE UNCHANGED vars
  BY <1>1, <1>10 DEF vars
<1> QED BY <1>3, <1>7, <1>8, <1>9, <1>10 DEF Next

\* Whatever file a crash left and a start read, only attached incarnations have
\* process-bound evidence in the records, and no attached one is fenced.
THEOREM TrustHolds == Spec => []TrustIsLive
BY TrustInit, TrustStep, PTL DEF Spec

(***************************************************************************)
(* Who stands for an incarnation.  The loss of a connection leaves its     *)
(* boot to the thread until it closes, fenced by then; and the process     *)
(* ends only when no thread has a connection.                              *)
(***************************************************************************)
Steps == {"free", "reading", "answering", "lost", "closing"}

ConnType == conn \in [Session -> [step : Steps, boot : Boot \cup {None}]]

ClosingIsFenced == \A s \in Session : At(s, "closing") => conn[s].boot \in fenced

AllFree == \A s \in Session : At(s, "free")

Standing ==
  /\ ConnType /\ live \subseteq Boot /\ live \cap fenced = {}
  /\ ClosingIsFenced
  /\ life \in {"down", "flushing"} => AllFree
  /\ NoOrphan

LEMMA StandingInit == Init => Standing
BY DEF Init, Standing, ConnType, Steps, NoConn, ClosingIsFenced, At, AllFree, NoOrphan

\* A step of a thread that leaves the registry and the boot of its connection.
LEMMA OnlyAStepFurther ==
  ASSUME Standing, NEW s \in Session, NEW step \in Steps, UNCHANGED <<life, registry>>,
         conn' = [conn EXCEPT ![s].step = step], step # "closing",
         life \notin {"down", "flushing"}
  PROVE  Standing'
<1>1. ConnType'
  BY DEF Standing, ConnType, Steps
<1>2. \A t \in Session : /\ conn'[t].boot = conn[t].boot
                          /\ (t # s => conn'[t].step = conn[t].step)
                          /\ (t = s => conn'[t].step = step)
  BY DEF Standing, ConnType, Steps
<1>3. NoOrphan'
  BY <1>2 DEF Standing, NoOrphan, registry
<1>4. ClosingIsFenced'
  BY <1>2 DEF Standing, ClosingIsFenced, At, registry
<1> QED BY <1>1, <1>3, <1>4 DEF Standing, registry

\* While a thread has a connection the process is up or stopping.
LEMMA BusyMeansRunning ==
  ASSUME Standing, NEW s \in Session, ~At(s, "free")
  PROVE  life \notin {"down", "flushing"}
BY DEF Standing, AllFree

LEMMA HelloKeepsStanding ==
  ASSUME Standing, NEW s \in Session, NEW b \in Boot, Hello(s, b)
  PROVE  Standing'
<1>1. /\ live' \subseteq live \cup {b} /\ live' \subseteq Boot
      /\ left' = ((left \cup {conn[s].boot}) \ {b}) \cap live'
  BY DEF Hello, Standing
<1>2. /\ fenced \subseteq fenced' /\ live' \cap fenced' = {}
      /\ conn' = [conn EXCEPT ![s] = [step |-> "answering", boot |-> b]]
      /\ UNCHANGED life
  BY DEF Hello, Standing
<1>3. life \notin {"down", "flushing"}
  BY BusyMeansRunning DEF Hello, At
<1>4. ConnType'
  BY <1>2 DEF Standing, ConnType, Steps
<1>5. \A t \in Session : conn'[t] = IF t = s THEN [step |-> "answering", boot |-> b] ELSE conn[t]
  BY <1>2 DEF Standing, ConnType, Steps
<1>6. NoOrphan'
  <2> SUFFICES ASSUME NEW c \in live', c \notin left'
               PROVE  \E t \in Session : conn'[t].boot = c
    BY DEF NoOrphan
  <2>1. CASE c = b
    BY <1>5, <2>1
  <2>2. CASE c # b
    <3>1. c \in live /\ c \notin left /\ c # conn[s].boot
      BY <1>1, <2>2
    <3>2. PICK t \in Session : conn[t].boot = c
      BY <3>1 DEF Standing, NoOrphan
    <3> QED BY <1>5, <3>1, <3>2
  <2> QED BY <2>1, <2>2
<1>7. ClosingIsFenced'
  BY <1>2, <1>5 DEF Standing, ClosingIsFenced, At
<1> QED BY <1>1, <1>2, <1>3, <1>4, <1>6, <1>7 DEF Standing

LEMMA FenceKeepsStanding ==
  ASSUME Standing, NEW s \in Session, FenceLost(s)
  PROVE  Standing'
<1>1. /\ live' = live \ {conn[s].boot} /\ fenced' = fenced \cup {conn[s].boot}
      /\ left' = left \ {conn[s].boot}
      /\ conn' = [conn EXCEPT ![s].step = "closing"] /\ UNCHANGED life
  BY DEF FenceLost
<1>2. life \notin {"down", "flushing"}
  BY BusyMeansRunning DEF FenceLost, At
<1>3. ConnType'
  BY <1>1 DEF Standing, ConnType, Steps
<1>4. \A t \in Session : /\ conn'[t].boot = conn[t].boot
                          /\ t # s => conn'[t].step = conn[t].step
  BY <1>1 DEF Standing, ConnType, Steps
<1>5. NoOrphan'
  BY <1>1, <1>4 DEF Standing, NoOrphan
<1>6. ClosingIsFenced'
  BY <1>1, <1>4 DEF Standing, ClosingIsFenced, At
<1> QED BY <1>1, <1>2, <1>3, <1>5, <1>6 DEF Standing

LEMMA CloseKeepsStanding ==
  ASSUME Standing, NEW s \in Session, Close(s)
  PROVE  Standing'
<1>1. conn' = [conn EXCEPT ![s] = NoConn] /\ UNCHANGED <<life, registry>>
  BY DEF Close
<1>2. conn[s].boot \notin live \/ conn[s].boot = None
  BY DEF Close, Standing, ClosingIsFenced
<1>3. life \notin {"down", "flushing"}
  BY BusyMeansRunning DEF Close, At
<1>4. ConnType'
  BY <1>1 DEF Standing, ConnType, NoConn, Steps
<1>5. \A t \in Session : conn'[t] = IF t = s THEN NoConn ELSE conn[t]
  BY <1>1 DEF Standing, ConnType, Steps
<1>6. NoOrphan'
  BY <1>1, <1>2, <1>5 DEF Standing, NoOrphan, NoConn, registry
<1>7. ClosingIsFenced'
  BY <1>1, <1>5 DEF Standing, ClosingIsFenced, At, NoConn, registry
<1> QED BY <1>1, <1>3, <1>4, <1>6, <1>7 DEF Standing, registry

\* The process begins or ends with no connections and nothing attached.
LEMMA EmptyIsStanding ==
  ASSUME ConnType', live' = {}, AllFree'
  PROVE  Standing'
<1>1. ClosingIsFenced'
  BY DEF AllFree, ClosingIsFenced, At
<1> QED BY <1>1 DEF Standing, NoOrphan

LEMMA ThreadsKeepStanding ==
  ASSUME Standing, NEW s \in Session, Own(s) \/ Peer(s)
  PROVE  Standing'
<1>1. CASE UNCHANGED <<life, registry, conn>>
  BY <1>1 DEF Standing, ConnType, ClosingIsFenced, At, AllFree, NoOrphan, registry
<1>2. CASE Answer(s)
  BY <1>2, OnlyAStepFurther, BusyMeansRunning DEF Answer, At, Steps
<1>3. CASE Lose(s) \/ SeeStop(s)
  BY <1>3, OnlyAStepFurther, BusyMeansRunning DEF Lose, SeeStop, At, Steps
<1>4. CASE Accept(s)
  BY <1>4, OnlyAStepFurther DEF Accept, Steps
<1>5. CASE Ask(s)
  BY <1>5, OnlyAStepFurther, BusyMeansRunning DEF Ask, At, Steps
<1>6. ASSUME NEW b \in Boot, Mutate(s, b)
      PROVE  Standing'
  <2>1. conn' = [conn EXCEPT ![s].step = "answering"] /\ UNCHANGED <<life, live, fenced, left>>
    BY <1>6 DEF Mutate
  <2>2. life \notin {"down", "flushing"}
    BY <1>6, BusyMeansRunning DEF Mutate, At
  <2>3. ConnType'
    BY <2>1 DEF Standing, ConnType, Steps
  <2>4. \A t \in Session : /\ conn'[t].boot = conn[t].boot
                            /\ conn'[t].step = IF t = s THEN "answering" ELSE conn[t].step
    BY <2>1 DEF Standing, ConnType, Steps
  <2>5. NoOrphan'
    BY <2>1, <2>4 DEF Standing, NoOrphan
  <2>6. ClosingIsFenced'
    BY <2>1, <2>4 DEF Standing, ClosingIsFenced, At
  <2> QED BY <2>1, <2>2, <2>3, <2>5, <2>6 DEF Standing
<1> QED
  BY <1>1, <1>2, <1>3, <1>4, <1>5, <1>6, HelloKeepsStanding, FenceKeepsStanding,
     CloseKeepsStanding, SavesLeaveTheRest
  DEF Own, Peer

LEMMA StandingStep == Standing /\ [Next]_vars => Standing'
<1> SUFFICES ASSUME Standing, [Next]_vars
             PROVE  Standing'
  OBVIOUS
<1>1. CASE UNCHANGED <<life, registry, conn>>
  BY <1>1 DEF Standing, ConnType, ClosingIsFenced, At, AllFree, NoOrphan, registry
<1>2. ASSUME NEW i, Begin(i)
      PROVE  Standing'
  <2>1. live' = {} /\ UNCHANGED conn /\ AllFree
    BY <1>2 DEF Begin, Memory, Standing
  <2> QED BY <2>1, EmptyIsStanding DEF Standing, ConnType, AllFree, At
<1>3. CASE Ended
  <2>1. live' = {} /\ UNCHANGED conn /\ AllFree
    BY <1>3 DEF Ended, Memory, Standing
  <2> QED BY <2>1, EmptyIsStanding DEF Standing, ConnType, AllFree, At
<1>4. CASE Crash
  <2>1. live' = {} /\ conn' = [s \in Session |-> NoConn]
    BY <1>4 DEF Crash, Memory
  <2>2. ConnType' /\ AllFree'
    BY <2>1 DEF ConnType, AllFree, At, NoConn, Steps
  <2> QED BY <2>1, <2>2, EmptyIsStanding
<1>5. CASE Stop
  BY <1>5 DEF Stop, Standing, ConnType, ClosingIsFenced, At, NoOrphan, registry
<1>6. CASE Joined
  BY <1>6 DEF Joined, Standing, ConnType, ClosingIsFenced, At, AllFree, NoOrphan, registry
<1>7. CASE Saving(Main) \/ \E t \in Thread : SaveFails(t)
  BY <1>1, <1>7, SavesLeaveTheRest
<1>8. CASE UNCHANGED vars
  BY <1>1, <1>8 DEF vars
<1> QED
  BY <1>2, <1>3, <1>4, <1>5, <1>6, <1>7, <1>8, ThreadsKeepStanding DEF Next, Start, OwnMain

\* Whatever publishers say Hello on whatever connections, an attached incarnation
\* without a connection that stands for it is one its connection left for that of
\* another publisher.
THEOREM NobodyIsOrphaned == Spec => []NoOrphan
<1>1. Standing => NoOrphan
  BY DEF Standing
<1>2. Standing /\ [Next]_vars => Standing'
  BY StandingStep
<1> QED BY <1>1, <1>2, StandingInit, PTL DEF Spec

(***************************************************************************)
(* Types.  A save belongs to a thread that answers or closes, or to the    *)
(* main thread while the process starts, runs or flushes: nobody begins a  *)
(* save beside another of its own.                                         *)
(***************************************************************************)
SaveSteps == {"idle", "encode", "open", "write", "rename"}

Save == [step : SaveSteps, image : Images \cup {None}, file : File \cup {None}]

\* What the step of a save says of the image and the file it has.
Coherent(v) ==
  /\ v.image \in Images <=> v.step \notin {"idle", "encode"}
  /\ v.file \in File <=> v.step = "write"

DiskInv ==
  /\ DOMAIN names \subseteq {"state", "temp"}
  /\ names \in [DOMAIN names -> File]
  /\ content \in [File -> Images \cup {None}]
  /\ save \in [Thread -> Save]
  /\ \A t \in Thread : Coherent(save[t])

RegistryType ==
  /\ epoch \in 0..MaxEpoch /\ (life # "down" => epoch > 0)
  /\ live \subseteq Boot /\ fenced \subseteq Boot /\ bound \subseteq Boot
  /\ told \in 0..MaxEpoch /\ left \subseteq live

Lives == {"down", "up", "stopping", "flushing"}

Busy == {"answering", "closing"}

ThreadInv ==
  /\ life \in Lives /\ ConnType
  /\ \A s \in Session : /\ At(s, "free") => conn[s] = NoConn
                        /\ save[s] # Idle => conn[s].step \in Busy
  /\ life \in {"down", "flushing"} => AllFree
  /\ life \in {"down", "stopping"} => save[Main] = Idle

TypeInv == DiskInv /\ RegistryType /\ ThreadInv

LEMMA IdleFacts ==
  /\ Idle \in Save /\ Coherent(Idle) /\ Idle.step = "idle"
  /\ \A v \in Save : Coherent(v) /\ v.step = "idle" => v = Idle
BY FileAssumption, ImageAssumption DEF Idle, Save, SaveSteps, Coherent

LEMMA TypeInvImplies == TypeInv => TypeOK
<1> SUFFICES ASSUME TypeInv PROVE TypeOK
  OBVIOUS
<1> USE DEF TypeInv
<1>1. DiskTypeOK(Images)
  <2>1. \A t \in Thread : save[t].step \in SaveSteps /\ Coherent(save[t])
    BY DEF DiskInv, Save
  <2> QED BY <2>1 DEF DiskInv, DiskTypeOK, Coherent, SaveSteps
<1>2. \A s \in Session : conn[s].step \in Steps /\ conn[s].boot \in Boot \cup {None}
  BY DEF ThreadInv, ConnType
<1>3. ASSUME NEW s \in Session, life = "down" \/ save[s] # Idle
      PROVE  ~At(s, "reading") /\ ~At(s, "lost")
  BY <1>3 DEF ThreadInv, AllFree, At, Busy
<1> QED BY <1>1, <1>2, <1>3 DEF TypeOK, RegistryType, ThreadInv, Lives, Steps

LEMMA TypeInit == Init => TypeInv
<1> SUFFICES ASSUME Init PROVE TypeInv
  OBVIOUS
<1>1. DiskInv
  BY IdleFacts DEF Init, DiskInit, DiskInv
<1>2. RegistryType
  BY ImageAssumption DEF Init, RegistryType
<1>3. ThreadInv
  BY ThreadAssumption DEF Init, DiskInit, ThreadInv, Lives, ConnType, Steps, NoConn, At, AllFree
<1> QED BY <1>1, <1>2, <1>3 DEF TypeInv

(***************************************************************************)
(* The disk.                                                               *)
(***************************************************************************)
\* A file with no name and no writer is left when a save has to create one.
LEMMA FreshFile ==
  ASSUME DiskInv, NEW t \in Thread, save[t].file = None, "temp" \notin DOMAIN names
  PROVE  \E g \in File : g \notin Used
<1> SUFFICES ASSUME File \subseteq Used PROVE FALSE
  OBVIOUS
<1> DEFINE state == IF "state" \in DOMAIN names THEN names["state"] ELSE None
           h == [x \in Thread |-> IF x = t THEN state ELSE save[x].file]
           T == {h[x] : x \in Thread}
<1>1. Range(names) \subseteq {state}
  BY DEF DiskInv, Range
<1>2. state \in T /\ \A x \in Thread : save[x].file # None => save[x].file \in T
  <2>1. h[t] = state
    OBVIOUS
  <2>2. \A x \in Thread : save[x].file # None => h[x] = save[x].file
    OBVIOUS
  <2> HIDE DEF h, state
  <2> QED BY <2>1, <2>2
<1>3. Used \subseteq T
  <2> HIDE DEF T, state
  <2> QED BY <1>1, <1>2 DEF Used
<1>4. h \in Surjection(Thread, T)
  <2> HIDE DEF state
  <2> QED BY DEF Surjection
<1> HIDE DEF h, T
<1>5. IsFiniteSet(T) /\ Cardinality(T) <= Cardinality(Thread)
  BY <1>4, FileAssumption, FS_Surjection
<1>6. Cardinality(File) <= Cardinality(T)
  BY <1>3, <1>5, FS_Subset
<1>7. Cardinality(T) \in Nat /\ Cardinality(Thread) \in Nat /\ Cardinality(File) \in Nat
  BY <1>5, FileAssumption, FS_CardinalityType
<1> QED BY <1>5, <1>6, <1>7, FileAssumption

LEMMA HoldingType ==
  ASSUME NEW c \in [File -> Images \cup {None}], Holding(c)
  PROVE  content' \in [File -> Images \cup {None}]
BY DEF Holding

\* What a thread that may save does to its own save and to no other's.
OnlyItsOwn(t) == \A u \in Thread \ {t} : save'[u] = save[u]

LEMMA RequestType ==
  ASSUME DiskInv, NEW t \in Thread, save[t] = Idle, Request(t), UNCHANGED disk
  PROVE  DiskInv' /\ OnlyItsOwn(t) /\ save'[t].step = "encode"
<1> DEFINE v == [Idle EXCEPT !.step = "encode"]
<1>1. save' = [save EXCEPT ![t] = v]
  BY DEF Request, DiskInv
<1>2. v \in Save /\ Coherent(v) /\ v.step = "encode"
  BY FileAssumption, ImageAssumption DEF Idle, Save, SaveSteps, Coherent
<1> HIDE DEF v
<1>3. save' \in [Thread -> Save] /\ (\A u \in Thread : Coherent(save'[u])) /\ save'[t] = v
  BY <1>1, <1>2 DEF DiskInv
<1> QED BY <1>1, <1>2, <1>3 DEF DiskInv, disk, OnlyItsOwn

LEMMA FinishType ==
  ASSUME save \in [Thread -> Save], \A u \in Thread : Coherent(save[u]),
         NEW t \in Thread, Finish(t)
  PROVE  /\ save' \in [Thread -> Save] /\ \A u \in Thread : Coherent(save'[u])
         /\ OnlyItsOwn(t) /\ save'[t] = Idle
BY IdleFacts DEF Finish, OnlyItsOwn

LEMMA SaveStepType ==
  ASSUME DiskInv, NEW t \in Thread, NEW image \in Images,
         SaveStep(t, image) \/ GiveUp(t)
  PROVE  DiskInv' /\ OnlyItsOwn(t) /\ save[t] # Idle
<1> USE DEF DiskInv
<1>1. save[t] \in Save /\ Coherent(save[t]) /\ (save[t].step # "idle" => save[t] # Idle)
  BY IdleFacts
<1>2. CASE Encode(t, image)
  <2> DEFINE v == [save[t] EXCEPT !.step = "open", !.image = image]
  <2>1. v \in Save /\ Coherent(v)
    BY <1>1, <1>2 DEF Save, SaveSteps, Coherent, Encode
  <2>2. save' = [save EXCEPT ![t] = v] /\ save[t].step = "encode" /\ UNCHANGED disk
    BY <1>2 DEF Encode
  <2> HIDE DEF v
  <2> QED BY <1>1, <2>1, <2>2 DEF disk, OnlyItsOwn
<1>3. CASE Open(t)
  <2> DEFINE f == IF "temp" \in DOMAIN names THEN names["temp"]
                  ELSE CHOOSE g \in File : g \notin Used
             v == [save[t] EXCEPT !.step = "write", !.file = f]
  <2>8. save[t].step = "open" /\ save' = [save EXCEPT ![t].step = "write", ![t].file = f]
    BY <1>3, Zenon DEF Open
  <2>9. \A g : [save EXCEPT ![t].step = "write", ![t].file = g]
               = [save EXCEPT ![t] = [save[t] EXCEPT !.step = "write", !.file = g]]
    BY <1>1
  <2>1. save[t].step = "open" /\ save' = [save EXCEPT ![t] = v]
    BY <2>8, <2>9, Zenon
  <2>2. /\ names' = [n \in DOMAIN names \cup {"temp"} |-> IF n = "temp" THEN f ELSE names[n]]
        /\ content' = [content EXCEPT ![f] = None]
    BY <1>3 DEF Open
  <2>3. save[t].file = None
    BY <1>1, <2>1 DEF Coherent, Save
  <2>4. f \in File
    BY <2>3, FreshFile
  <2> HIDE DEF f
  <2>5. v \in Save /\ Coherent(v)
    BY <1>1, <2>1, <2>4 DEF Save, SaveSteps, Coherent
  <2> HIDE DEF v
  <2>6. /\ DOMAIN names' \subseteq {"state", "temp"} /\ names' \in [DOMAIN names' -> File]
        /\ content' \in [File -> Images \cup {None}]
    BY <2>2, <2>4
  <2>7. /\ save' \in [Thread -> Save] /\ \A u \in Thread : Coherent(save'[u])
        /\ OnlyItsOwn(t)
    BY <2>1, <2>5 DEF OnlyItsOwn
  <2> QED BY <1>1, <2>1, <2>6, <2>7
<1>4. CASE Write(t)
  <2> DEFINE v == [save[t] EXCEPT !.step = "rename", !.file = None]
  <2>1. /\ save[t].step = "write" /\ save' = [save EXCEPT ![t] = v] /\ UNCHANGED names
        /\ \E i \in {save[t].image, None} : Holding([content EXCEPT ![save[t].file] = i])
    BY <1>4 DEF Write
  <2>2. save[t].image \in Images /\ v \in Save /\ Coherent(v)
    BY <1>1, <2>1, FileAssumption DEF Save, SaveSteps, Coherent
  <2>3. content' \in [File -> Images \cup {None}]
    BY <2>1, <2>2, HoldingType
  <2> HIDE DEF v
  <2> QED BY <1>1, <2>1, <2>2, <2>3 DEF OnlyItsOwn
<1>5. CASE Rename(t) \/ GiveUp(t)
  <2>1. save[t].step # "idle" /\ Finish(t) /\ Holding(content)
    BY <1>5 DEF Rename, GiveUp
  <2>2. DOMAIN names' \subseteq {"state", "temp"} /\ names' \in [DOMAIN names' -> File]
    BY <1>5 DEF Rename, GiveUp
  <2>3. content' \in [File -> Images \cup {None}]
    BY <2>1, HoldingType
  <2> QED BY <1>1, <2>1, <2>2, <2>3, FinishType
<1> QED BY <1>2, <1>3, <1>4, <1>5 DEF SaveStep

\* While a thread saves the registry has an epoch, and its image can be written.
LEMMA ImageType ==
  ASSUME RegistryType, life # "down"
  PROVE  Image \in Images
BY ImageAssumption DEF Image, Images, RegistryType

(***************************************************************************)
(* The threads.                                                            *)
(***************************************************************************)
LEMMA OnlySaves ==
  ASSUME TypeInv, NEW t \in Thread, Saving(t) \/ SaveFails(t)
  PROVE  TypeInv'
<1> USE DEF TypeInv
<1>1. UNCHANGED <<life, registry, conn, told>> /\ (SaveStep(t, Image) \/ GiveUp(t))
  BY DEF Saving, SaveFails
<1>2. save[t] # Idle
  <2>1. save[t].step # "idle"
    BY <1>1 DEF SaveStep, Encode, Open, Write, Rename, GiveUp
  <2> QED BY <2>1, IdleFacts
<1>3. life # "down" /\ (t = Main => life # "stopping")
  BY <1>2, ThreadAssumption DEF ThreadInv, AllFree, At, Busy
<1>4. DiskInv' /\ OnlyItsOwn(t)
  BY <1>1, <1>3, ImageType, SaveStepType
<1>5. RegistryType'
  BY <1>1 DEF RegistryType, registry
<1>6. ThreadInv'
  <2>1. \A s \in Session : /\ At(s, "free")' => conn'[s] = NoConn
                           /\ save'[s] # Idle => conn'[s].step \in Busy
    BY <1>1, <1>2, <1>4, ThreadAssumption DEF ThreadInv, At, OnlyItsOwn
  <2>2. life \in {"down", "stopping"} => save'[Main] = Idle
    BY <1>3, <1>4, ThreadAssumption DEF ThreadInv, OnlyItsOwn
  <2> QED BY <1>1, <2>1, <2>2 DEF ThreadInv, ConnType, AllFree, At
<1> QED BY <1>4, <1>5, <1>6

\* A thread without a save takes its connection further, and may begin one.
LEMMA OnlyItsConn ==
  ASSUME ThreadInv, NEW s \in Session, UNCHANGED life, life \notin {"down", "flushing"},
         NEW c \in [step : Steps, boot : Boot \cup {None}], conn' = [conn EXCEPT ![s] = c],
         c.step = "free" => c = NoConn,
         OnlyItsOwn(s), save'[s] # Idle => c.step \in Busy
  PROVE  ThreadInv'
<1>1. ConnType' /\ \A u \in Session : conn'[u] = IF u = s THEN c ELSE conn[u]
  BY DEF ThreadInv, ConnType
<1>2. \A u \in Session : /\ At(u, "free")' => conn'[u] = NoConn
                         /\ save'[u] # Idle => conn'[u].step \in Busy
  BY <1>1, ThreadAssumption DEF ThreadInv, At, OnlyItsOwn
<1>3. save'[Main] = save[Main]
  BY ThreadAssumption DEF OnlyItsOwn
<1> QED BY <1>1, <1>2, <1>3 DEF ThreadInv

LEMMA KeptSave ==
  ASSUME UNCHANGED save, NEW s
  PROVE  OnlyItsOwn(s)
BY DEF OnlyItsOwn

LEMMA ThreadsKeepTypes ==
  ASSUME TypeInv, NEW s \in Session, Own(s) \/ Peer(s)
  PROVE  TypeInv'
<1> USE DEF TypeInv
<1> s \in Thread
  BY ThreadAssumption
<1>1. conn[s] \in [step : Steps, boot : Boot \cup {None}]
  BY DEF ThreadInv, ConnType
<1>2. At(s, "reading") \/ At(s, "lost") => save[s] = Idle
  BY DEF ThreadInv, At, Busy
<1>3. ~At(s, "free") => life \notin {"down", "flushing"}
  BY DEF ThreadInv, AllFree
<1>4. ASSUME UNCHANGED <<disk, save>> PROVE DiskInv'
  BY <1>4 DEF DiskInv, disk
<1>5. ASSUME NEW step \in Steps, step # "free",
             conn' = [conn EXCEPT ![s].step = step]
      PROVE  \E c \in [step : Steps, boot : Boot \cup {None}] :
               /\ conn' = [conn EXCEPT ![s] = c] /\ c.step = step /\ c.boot = conn[s].boot
  <2> DEFINE c == [conn[s] EXCEPT !.step = step]
  <2>1. c \in [step : Steps, boot : Boot \cup {None}] /\ c.step = step /\ c.boot = conn[s].boot
    BY <1>1
  <2>2. conn' = [conn EXCEPT ![s] = c]
    BY <1>5
  <2> HIDE DEF c
  <2> QED BY <2>1, <2>2
<1>6. ASSUME NEW step \in Steps, step # "free", life \notin {"down", "flushing"},
             conn' = [conn EXCEPT ![s].step = step], save[s] = Idle,
             UNCHANGED <<disk, save, life, registry>>, told' \in 0..MaxEpoch
      PROVE  TypeInv'
  <2>1. DiskInv' /\ RegistryType'
    BY <1>4, <1>6 DEF RegistryType, registry
  <2>2. ThreadInv'
    BY <1>5, <1>6, OnlyItsConn, KeptSave
  <2> QED BY <2>1, <2>2
<1>7. {"reading", "answering", "lost", "closing"} \subseteq Steps /\ told \in 0..MaxEpoch
  BY DEF Steps, RegistryType
<1>8. CASE Accept(s)
  <2>1. save[s] = Idle
    BY <1>8 DEF Accept, At, ThreadInv, Busy
  <2> QED BY <1>6, <1>7, <1>8, <2>1 DEF Accept
<1>9. CASE Ask(s)
  BY <1>2, <1>3, <1>6, <1>7, <1>9 DEF Ask, At
<1>10. CASE Lose(s) \/ SeeStop(s)
  BY <1>2, <1>3, <1>6, <1>7, <1>10 DEF Lose, SeeStop, At
<1>11. CASE Answer(s)
  <2>1. (IF epoch > told THEN epoch ELSE told) \in 0..MaxEpoch
    BY DEF RegistryType
  <2>2. (IF life = "up" THEN "reading" ELSE "lost") \in Steps \ {"free"}
    BY DEF Steps
  <2> QED BY <1>3, <1>6, <1>11, <2>1, <2>2 DEF Answer, At
<1>12. ASSUME NEW b \in Boot, Hello(s, b) PROVE TypeInv'
  <2> DEFINE c == [step |-> "answering", boot |-> b]
  <2>1. /\ conn' = [conn EXCEPT ![s] = c] /\ UNCHANGED <<disk, save, life, epoch, told>>
        /\ save[s] = Idle /\ life \notin {"down", "flushing"}
    BY <1>2, <1>3, <1>12 DEF Hello, At
  <2>2. /\ live' \subseteq Boot /\ fenced' \subseteq Boot /\ bound' \subseteq Boot
        /\ left' \subseteq live'
    BY <1>12 DEF Hello, RegistryType
  <2>3. c \in [step : Steps, boot : Boot \cup {None}] /\ c.step = "answering"
    BY DEF Steps
  <2> HIDE DEF c
  <2>4. ThreadInv'
    BY <2>1, <2>3, OnlyItsConn, KeptSave
  <2> QED BY <1>4, <2>1, <2>2, <2>4 DEF RegistryType
<1>13. ASSUME NEW b \in Boot, Mutate(s, b) PROVE TypeInv'
  <2>1. /\ conn' = [conn EXCEPT ![s].step = "answering"] /\ Request(s)
        /\ UNCHANGED <<disk, life, epoch, live, fenced, told, left>>
        /\ save[s] = Idle /\ life \notin {"down", "flushing"}
    BY <1>2, <1>3, <1>13 DEF Mutate, At
  <2>2. bound' \subseteq Boot
    BY <1>13 DEF Mutate, RegistryType
  <2>3. DiskInv' /\ OnlyItsOwn(s)
    BY <2>1, RequestType
  <2>4. ThreadInv'
    BY <1>5, <1>7, <2>1, <2>3, OnlyItsConn DEF Busy
  <2> QED BY <2>1, <2>2, <2>3, <2>4 DEF RegistryType
<1>14. CASE FenceLost(s)
  <2>1. /\ conn' = [conn EXCEPT ![s].step = "closing"] /\ Request(s)
        /\ UNCHANGED <<disk, life, epoch, told>>
        /\ save[s] = Idle /\ life \notin {"down", "flushing"}
    BY <1>2, <1>3, <1>14 DEF FenceLost, At
  <2>2. /\ live' \subseteq Boot /\ fenced' \subseteq Boot /\ bound' \subseteq Boot
        /\ left' \subseteq live'
    BY <1>1, <1>14 DEF FenceLost, RegistryType
  <2>3. DiskInv' /\ OnlyItsOwn(s)
    BY <2>1, RequestType
  <2>4. ThreadInv'
    BY <1>5, <1>7, <2>1, <2>3, OnlyItsConn DEF Busy
  <2> QED BY <2>1, <2>2, <2>3, <2>4 DEF RegistryType
<1>15. CASE Close(s)
  <2>1. /\ conn' = [conn EXCEPT ![s] = NoConn] /\ UNCHANGED <<disk, save, life, registry, told>>
        /\ save[s] = Idle /\ life \notin {"down", "flushing"}
    BY <1>2, <1>3, <1>15 DEF Close, At
  <2>2. NoConn \in [step : Steps, boot : Boot \cup {None}]
    BY DEF NoConn, Steps
  <2>3. ThreadInv'
    BY <2>1, <2>2, OnlyItsConn, KeptSave
  <2> QED BY <1>4, <2>1, <2>3 DEF RegistryType, registry
<1>16. CASE Saving(s)
  BY <1>16, OnlySaves
<1> QED BY <1>8, <1>9, <1>10, <1>11, <1>12, <1>13, <1>14, <1>15, <1>16 DEF Own, Peer

LEMMA BeginKeepsTypes ==
  ASSUME TypeInv, NEW i \in [epoch : 0..MaxEpoch, fenced : SUBSET Boot, bound : SUBSET Boot],
         Begin(i)
  PROVE  TypeInv'
<1> USE DEF TypeInv
<1>1. Main \in Thread /\ Main \notin Session
  BY ThreadAssumption
<1>2. /\ life = "down" /\ life' = "up" /\ Request(Main) /\ UNCHANGED <<disk, conn, told>>
      /\ i.epoch < MaxEpoch /\ Memory(Recovered(i))
  BY DEF Begin
<1>3. save[Main] = Idle
  BY <1>2 DEF ThreadInv
<1>4. DiskInv' /\ OnlyItsOwn(Main)
  BY <1>1, <1>2, <1>3, RequestType
<1>5. /\ Recovered(i).epoch = i.epoch + 1 /\ Recovered(i).fenced \subseteq Boot
      /\ Recovered(i).bound \subseteq Boot
  BY DEF Recovered
<1>6. RegistryType'
  BY <1>2, <1>5, ImageAssumption DEF RegistryType, Memory
<1>7. ThreadInv'
  BY <1>1, <1>2, <1>4, ThreadAssumption DEF ThreadInv, ConnType, At, OnlyItsOwn, Lives
<1> QED BY <1>4, <1>6, <1>7

LEMMA TypeStep == TypeInv /\ [Next]_vars => TypeInv'
<1> SUFFICES ASSUME TypeInv, [Next]_vars PROVE TypeInv'
  OBVIOUS
<1> USE DEF TypeInv
<1>1. Main \in Thread /\ Main \notin Session
  BY ThreadAssumption
<1>2. CASE Start
  <2> DEFINE All == [epoch : 0..MaxEpoch, fenced : SUBSET Boot, bound : SUBSET Boot]
  <2>1. Blank \in All
    BY ImageAssumption DEF Blank
  <2>2. Reads("state") => content[names["state"]] \in All
    <3>1. Reads("state") => content[names["state"]] \in Images
      BY DEF Reads, DiskInv
    <3> QED BY <3>1, ImageAssumption DEF Images
  <2> HIDE DEF All
  <2>3. \E i \in All : Begin(i)
    BY <1>2, <2>1, <2>2 DEF Start
  <2> QED BY <2>3, BeginKeepsTypes DEF All
<1>3. CASE Stop
  BY <1>3 DEF Stop, DiskInv, disk, RegistryType, registry, ThreadInv, Lives, ConnType, At
<1>4. CASE Joined
  <2>1. /\ life = "stopping" /\ (\A s \in Session : At(s, "free")) /\ life' = "flushing"
        /\ Request(Main) /\ UNCHANGED <<disk, registry, conn, told>> /\ save[Main] = Idle
    BY <1>4 DEF Joined, ThreadInv
  <2>2. DiskInv' /\ OnlyItsOwn(Main)
    BY <1>1, <2>1, RequestType
  <2>3. ThreadInv'
    BY <1>1, <2>1, <2>2, ThreadAssumption
    DEF ThreadInv, ConnType, At, AllFree, OnlyItsOwn, Lives
  <2>4. RegistryType'
    BY <2>1 DEF RegistryType, registry
  <2> QED BY <2>2, <2>3, <2>4
<1>5. CASE Ended
  <2>1. /\ life = "flushing" /\ save[Main] = Idle /\ life' = "down" /\ Memory(Blank)
        /\ UNCHANGED <<disk, save, conn, told>>
    BY <1>5 DEF Ended
  <2>2. ThreadInv'
    BY <2>1 DEF ThreadInv, ConnType, At, AllFree, Lives
  <2>3. RegistryType'
    BY <2>1, ImageAssumption DEF RegistryType, Memory, Blank
  <2> QED BY <2>1, <2>2, <2>3 DEF DiskInv, disk
<1>6. CASE Crash
  <2>1. /\ life' = "down" /\ Memory(Blank) /\ Halt /\ conn' = [s \in Session |-> NoConn]
        /\ UNCHANGED told
    BY <1>6 DEF Crash
  <2>2. DiskInv'
    <3>1. save' = [t \in Thread |-> Idle]
      BY <2>1 DEF Halt
    <3>2. DOMAIN names' \subseteq {"state", "temp"} /\ names' \in [DOMAIN names' -> File]
      BY <2>1 DEF Halt, DiskInv
    <3>3. content' \in [File -> Images \cup {None}]
      BY <2>1, HoldingType DEF Halt, DiskInv
    <3> QED BY <3>1, <3>2, <3>3, IdleFacts DEF DiskInv
  <2>3. ThreadInv'
    BY <1>1, <2>1, ThreadAssumption
    DEF Halt, ThreadInv, ConnType, At, AllFree, Lives, NoConn, Steps
  <2>4. RegistryType'
    BY <2>1, ImageAssumption DEF RegistryType, Memory, Blank
  <2> QED BY <2>2, <2>3, <2>4
<1>7. CASE Saving(Main) \/ \E t \in Thread : SaveFails(t)
  BY <1>1, <1>7, OnlySaves
<1>8. CASE UNCHANGED vars
  BY <1>8 DEF vars, DiskInv, disk, RegistryType, registry, ThreadInv, ConnType, At, AllFree
<1> QED
  BY <1>2, <1>3, <1>4, <1>5, <1>6, <1>7, <1>8, ThreadsKeepTypes DEF Next, OwnMain

\* With any number of connections and overlapping saves, and a crash at any
\* step, the files and saves keep their types, a connection that ended is
\* forgotten, and no thread reads while it saves or while the process is down.
THEOREM CoordinatorTyped == Spec => []TypeOK
BY TypeInit, TypeStep, TypeInvImplies, PTL DEF Spec

(***************************************************************************)
(* A clean stop.  While the main thread flushes nothing else moves: its    *)
(* save has the image of the registry, the temporary name is the file it   *)
(* opened, and nobody else writes to that.                                 *)
(***************************************************************************)
FlushInv ==
  life = "flushing" =>
    /\ save[Main].step \in {"open", "write", "rename"} => save[Main].image = Image
    /\ save[Main].step = "write" =>
         "temp" \in DOMAIN names /\ names["temp"] = save[Main].file
         /\ content[names["temp"]] = None
    /\ save[Main].step = "rename" => "temp" \in DOMAIN names /\ content[names["temp"]] = Image

LEMMA FlushInit == Init => FlushInv
BY DEF Init, FlushInv

\* A file with a name keeps what it holds when others are let go.
LEMMA NamedIsHeld ==
  ASSUME NEW c, Holding(c), NEW n \in DOMAIN names', names'[n] \in File,
         None \notin File
  PROVE  content'[names'[n]] = c[names'[n]]
<1>1. names'[n] \in Used'
  BY DEF Used, Range
<1> QED BY <1>1 DEF Holding

\* Only the main thread's save goes on while it flushes.
LEMMA OnlyMainMoves ==
  ASSUME TypeInv, life = "flushing", life' = "flushing", [Next]_vars
  PROVE  \/ UNCHANGED vars
         \/ UNCHANGED registry /\ (SaveStep(Main, Image) \/ GiveUp(Main))
<1> USE DEF TypeInv
<1>1. \A s \in Session : At(s, "free") /\ save[s] = Idle
  BY DEF ThreadInv, AllFree, At, Busy
<1>2. ASSUME NEW s \in Session PROVE ~Saving(s) /\ ~SaveFails(s)
  <2>1. save[s].step = "idle"
    BY <1>1, IdleFacts
  <2> QED BY <2>1 DEF Saving, SaveFails, SaveStep, Encode, Open, Write, Rename, GiveUp
<1>3. ASSUME NEW s \in Session PROVE ~Own(s) /\ ~Peer(s)
  <2>1. conn[s].step = "free"
    BY <1>1 DEF At
  <2> QED BY <1>2, <2>1
          DEF Own, Peer, At, Answer, SeeStop, FenceLost, Close, Accept, Ask, Lose, Hello, Mutate
<1>4. ~Start /\ ~Stop /\ ~Crash /\ ~Joined /\ ~Ended
  BY DEF Start, Begin, Stop, Crash, Joined, Ended
<1> QED BY <1>2, <1>3, <1>4, ThreadAssumption DEF Next, OwnMain, Saving, SaveFails

LEMMA FlushStep == TypeInv /\ FlushInv /\ [Next]_vars => FlushInv'
<1> SUFFICES ASSUME TypeInv, FlushInv, [Next]_vars, life' = "flushing" PROVE FlushInv'
  BY DEF FlushInv
<1> USE DEF TypeInv
<1>1. Main \in Thread /\ save[Main] \in Save /\ Coherent(save[Main]) /\ save \in [Thread -> Save]
  BY ThreadAssumption DEF DiskInv
<1>2. CASE life # "flushing"
  <2>1. Joined
    <3>1. \A s \in Session : ~Own(s) /\ ~Peer(s)
      BY <1>2 DEF Own, Peer, Answer, SeeStop, FenceLost, Close, Accept, Ask, Lose, Hello, Mutate,
                  Saving
    <3> QED BY <1>2, <3>1 DEF Next, OwnMain, Start, Begin, Stop, Crash, Ended, Saving, SaveFails, vars
  <2>2. save'[Main].step = "encode"
    BY <1>1, <2>1 DEF Joined, Request
  <2> QED BY <2>2 DEF FlushInv
<1>3. ASSUME life = "flushing", UNCHANGED registry, SaveStep(Main, Image) \/ GiveUp(Main)
      PROVE  FlushInv'
  <2>1. Image' = Image
    BY <1>3 DEF Image, registry
  <2>2. CASE Encode(Main, Image)
    <3>1. save'[Main].step = "open" /\ save'[Main].image = Image
      BY <1>1, <2>2 DEF Encode, Save
    <3> QED BY <2>1, <3>1 DEF FlushInv
  <2>3. CASE Open(Main)
    <3> DEFINE f == IF "temp" \in DOMAIN names THEN names["temp"]
                    ELSE CHOOSE g \in File : g \notin Used
    <3>1. save[Main].step = "open" /\ save' = [save EXCEPT ![Main].step = "write", ![Main].file = f]
      BY <2>3, Zenon DEF Open
    <3>2. /\ names' = [n \in DOMAIN names \cup {"temp"} |-> IF n = "temp" THEN f ELSE names[n]]
          /\ content' = [content EXCEPT ![f] = None]
      BY <2>3 DEF Open
    <3>3. f \in File
      <4>1. save[Main].file = None
        BY <1>1, <3>1 DEF Coherent, Save
      <4> QED BY <1>1, <4>1, FreshFile DEF DiskInv
    <3> HIDE DEF f
    <3>4. /\ save'[Main].step = "write" /\ save'[Main].file = f
          /\ save'[Main].image = save[Main].image
      BY <1>1, <3>1 DEF Save
    <3>5. "temp" \in DOMAIN names' /\ names'["temp"] = f /\ content'[f] = None
      BY <3>2, <3>3 DEF DiskInv
    <3> QED BY <1>3, <2>1, <3>1, <3>4, <3>5 DEF FlushInv
  <2>4. CASE Write(Main)
    <3> DEFINE f == save[Main].file
    <3>1. /\ save[Main].step = "write" /\ UNCHANGED names
          /\ save' = [save EXCEPT ![Main].step = "rename", ![Main].file = None]
          /\ \E i \in {save[Main].image} \cup (IF content[f] = None THEN {} ELSE {None}) :
               Holding([content EXCEPT ![f] = i])
      BY <2>4 DEF Write
    <3>2. /\ "temp" \in DOMAIN names /\ names["temp"] = f /\ content[f] = None
          /\ save[Main].image = Image /\ f \in File
      BY <1>1, <1>3, <3>1 DEF FlushInv, Coherent
    <3>3. Holding([content EXCEPT ![f] = Image])
      BY <3>1, <3>2
    <3>4. content'[names'["temp"]] = [content EXCEPT ![f] = Image][names'["temp"]]
      BY <3>1, <3>2, <3>3, NamedIsHeld, FileAssumption
    <3>5. content'[names'["temp"]] = Image
      BY <3>1, <3>2, <3>4 DEF DiskInv
    <3>6. save'[Main].step = "rename" /\ save'[Main].image = save[Main].image
      BY <1>1, <3>1 DEF Save
    <3> QED BY <2>1, <3>1, <3>2, <3>5, <3>6 DEF FlushInv
  <2>5. CASE Rename(Main) \/ GiveUp(Main)
    <3>1. save'[Main] = Idle
      BY <1>1, <2>5 DEF Rename, GiveUp, Finish
    <3> QED BY <3>1, IdleFacts DEF FlushInv
  <2> QED BY <1>3, <2>2, <2>3, <2>4, <2>5 DEF SaveStep
<1>4. CASE UNCHANGED vars
  BY <1>4 DEF FlushInv, vars, disk, registry, Image
<1> QED BY <1>2, <1>3, <1>4, OnlyMainMoves

LEMMA FlushedIsDurable ==
  ASSUME TypeInv, FlushInv, life = "flushing", Rename(Main)
  PROVE  "state" \in DOMAIN names' /\ content'[names'["state"]] = Image
<1>1. /\ save[Main].step = "rename" /\ Holding(content)
      /\ "temp" \in DOMAIN names /\ content[names["temp"]] = Image
  BY DEF Rename, FlushInv
<1>2. names' = [n \in {"state"} |-> names["temp"]]
  BY <1>1 DEF Rename
<1>3. "state" \in DOMAIN names' /\ names'["state"] = names["temp"] /\ names["temp"] \in File
  BY <1>1, <1>2 DEF TypeInv, DiskInv
<1> QED BY <1>1, <1>3, NamedIsHeld, FileAssumption

\* What the last save of a stop leaves under the name of the state file is the
\* image of the registry as it was, whatever saves and crashes came before: the
\* main thread begins it only after every session thread ended.
THEOREM StopsAreDurable == Spec => CleanStopIsDurable
<1>1. TypeInv /\ FlushInv /\ [Next]_vars =>
        [life = "flushing" /\ Rename(Main)
           => "state" \in DOMAIN names' /\ content'[names'["state"]] = Image]_vars
  BY FlushedIsDurable
<1> QED BY <1>1, TypeInit, TypeStep, FlushInit, FlushStep, PTL DEF Spec, CleanStopIsDurable
=============================================================================
