---------------------------- MODULE Client_proofs ----------------------------
(***************************************************************************)
(* Proofs about the publisher clients, over all connections, threads and   *)
(* restarts: what the coordinator commits under one attempt; that a call   *)
(* takes its own answer and a connected client is attached, from what one  *)
(* connection can hold while no call shares it (ClientInv); and the types. *)
(***************************************************************************)
EXTENDS PublisherClient, TLAPS, FiniteSetTheorems

(***************************************************************************)
(* What was committed under an attempt is in the table or was in it.       *)
(***************************************************************************)
EffectType == [request : Request, code : {"Committed", "Refused"}]

Traced ==
  \A i \in DOMAIN effects :
    effects[i].code = "Committed" /\ effects[i].request \in Guarded =>
      AttemptOf[effects[i].request] \in DOMAIN table \cup forgotten

AttemptsInv == effects \in Seq(EffectType) /\ Traced /\ AtMostOnce

LEMMA OneMoreEffect ==
  ASSUME effects \in Seq(EffectType), NEW r \in Request,
         NEW code \in {"Committed", "Refused"}, Effect(r, code)
  PROVE  /\ effects' \in Seq(EffectType)
         /\ DOMAIN effects' = DOMAIN effects \cup {Len(effects) + 1}
         /\ \A i \in DOMAIN effects : effects'[i] = effects[i] /\ i < Len(effects) + 1 /\ i \in Nat
         /\ effects'[Len(effects) + 1] = [request |-> r, code |-> code]
         /\ Len(effects) + 1 \in Nat
<1> DEFINE e == [request |-> r, code |-> code]
<1>1. e \in EffectType /\ effects' = Append(effects, e)
  BY DEF EffectType, Effect
<1> HIDE DEF e
<1>2. Len(effects) \in Nat /\ DOMAIN effects = 1..Len(effects)
  OBVIOUS
<1>3. /\ effects' \in Seq(EffectType) /\ DOMAIN effects' = 1..(Len(effects) + 1)
      /\ effects'[Len(effects) + 1] = e
      /\ \A i \in 1..Len(effects) : effects'[i] = effects[i]
  BY <1>1
<1> QED BY <1>2, <1>3 DEF e

\* What remember_mutation drops is recorded as forgotten.
LEMMA RememberTraces ==
  ASSUME NEW r \in Request, Remember(r)
  PROVE  DOMAIN table' \cup forgotten' = DOMAIN table \cup forgotten \cup {AttemptOf[r]}
<1> DEFINE all == DOMAIN table \cup {AttemptOf[r]}
<1>1. DOMAIN table' = Kept(all) /\ forgotten' = forgotten \cup (all \ Kept(all))
  BY DEF Remember
<1>2. Kept(all) \subseteq all
  BY DEF Kept
<1> QED BY <1>1, <1>2

\* A request takes effect after the commit of another of its attempt only if
\* the attempt was forgotten, or its operation does not ask.
LEMMA EffectsKeepAttempts ==
  ASSUME AttemptsInv, NEW r \in Request, NEW code \in {"Committed", "Refused"},
         Effect(r, code), ~Known(r), forgotten \subseteq forgotten',
         DOMAIN table \cup forgotten \subseteq DOMAIN table' \cup forgotten',
         code = "Committed" => AttemptOf[r] \in DOMAIN table' \cup forgotten'
  PROVE  AttemptsInv'
<1> DEFINE n == Len(effects) + 1
           e == [request |-> r, code |-> code]
<1> effects \in Seq(EffectType)
  BY DEF AttemptsInv
<1>1. /\ effects' \in Seq(EffectType) /\ DOMAIN effects' = DOMAIN effects \cup {n}
      /\ \A i \in DOMAIN effects : effects'[i] = effects[i] /\ i < n /\ i \in Nat
      /\ effects'[n] = e /\ n \in Nat
  BY OneMoreEffect
<1>2. e.request = r /\ e.code = code
  OBVIOUS
<1> HIDE DEF n, e
<1>3. Traced'
  BY <1>1, <1>2 DEF AttemptsInv, Traced
<1>4. ASSUME NEW i \in DOMAIN effects', NEW j \in DOMAIN effects', i < j,
             effects'[i].code = "Committed", effects'[i].request \in Guarded,
             effects'[j].request \in Guarded,
             AttemptOf[effects'[i].request] = AttemptOf[effects'[j].request]
      PROVE  AttemptOf[effects'[i].request] \in forgotten'
  <2>1. i \in DOMAIN effects /\ effects'[i] = effects[i]
    BY <1>1, <1>4
  <2>2. CASE j \in DOMAIN effects
    <3>1. AttemptOf[effects[i].request] \in forgotten
      BY <1>1, <1>4, <2>1, <2>2 DEF AttemptsInv, AtMostOnce
    <3> QED BY <2>1, <3>1
  <2>3. CASE j = n
    <3>1. r \in Guarded /\ AttemptOf[r] = AttemptOf[effects[i].request]
      BY <1>1, <1>2, <1>4, <2>1, <2>3
    <3>2. AttemptOf[r] \notin DOMAIN table
      BY <3>1 DEF Known
    <3>3. AttemptOf[effects[i].request] \in DOMAIN table \cup forgotten
      BY <1>4, <2>1 DEF AttemptsInv, Traced
    <3> QED BY <2>1, <3>1, <3>2, <3>3
  <2> QED BY <1>1, <2>2, <2>3
<1>5. AtMostOnce'
  BY <1>4 DEF AtMostOnce
<1> QED BY <1>1, <1>3, <1>5 DEF AttemptsInv

LEMMA ExecuteKeepsAttempts ==
  ASSUME AttemptsInv, NEW r \in Request, NEW authorised, NEW code, Execute(r, authorised, code)
  PROVE  AttemptsInv'
<1>1. CASE UNCHANGED attempts
  BY <1>1 DEF AttemptsInv, Traced, AtMostOnce, attempts
<1>2. CASE ~Known(r) /\ code = "Refused" /\ Effect(r, code) /\ UNCHANGED <<table, forgotten>>
  BY <1>2, EffectsKeepAttempts
<1>3. CASE ~Known(r) /\ code = "Committed" /\ Effect(r, code) /\ Remember(r)
  <2>1. DOMAIN table' \cup forgotten' = DOMAIN table \cup forgotten \cup {AttemptOf[r]}
    BY <1>3, RememberTraces
  <2>2. forgotten \subseteq forgotten'
    BY <1>3 DEF Remember
  <2> QED BY <1>3, <2>1, <2>2, EffectsKeepAttempts
<1> QED BY <1>1, <1>2, <1>3 DEF Execute

\* A start forgets the table, and nothing of what took effect.
LEMMA ForgetKeepsAttempts ==
  ASSUME AttemptsInv, Forget
  PROVE  AttemptsInv'
BY DEF AttemptsInv, Traced, AtMostOnce, Forget

\* Clients and connections have no part in the table.
LEMMA ClientsKeepAttempts ==
  ASSUME NEW t, NEW c, NEW what, NEW n,
         Connect(t, c) \/ Call(t, c, what) \/ ReadHeader(t) \/ ReadBody(t) \/ ReadFails(t)
           \/ SessionEnds(n) \/ Lose(n)
  PROVE  UNCHANGED attempts
BY DEF Connect, Call, ReadHeader, ReadBody, ReadFails, Take, Fail, SessionEnds, Lose

LEMMA ServeKeepsAttempts ==
  ASSUME AttemptsInv, NEW n, Serve(n)
  PROVE  AttemptsInv'
<1>1. CASE UNCHANGED attempts
  BY <1>1 DEF AttemptsInv, Traced, AtMostOnce, attempts
<1>2. ASSUME NEW r \in Request, NEW authorised, NEW code, Execute(r, authorised, code)
      PROVE  AttemptsInv'
  BY <1>2, ExecuteKeepsAttempts
<1> QED BY <1>1, <1>2 DEF Serve

LEMMA AttemptsInvHolds == Spec => []AttemptsInv
<1>1. Init => AttemptsInv
  BY AttemptAssumption DEF Init, AttemptsInit, AttemptsInv, Traced, AtMostOnce
<1>2. AttemptsInv /\ [Next]_vars => AttemptsInv'
  <2> SUFFICES ASSUME AttemptsInv, [Next]_vars
               PROVE  AttemptsInv'
    OBVIOUS
  <2>1. CASE UNCHANGED attempts
    BY <2>1 DEF AttemptsInv, Traced, AtMostOnce, attempts
  <2>2. ASSUME NEW n \in DOMAIN wires, Serve(n)
        PROVE  AttemptsInv'
    BY <2>2, ServeKeepsAttempts
  <2>3. CASE Restart
    BY <2>3, ForgetKeepsAttempts DEF Restart
  <2>4. CASE UNCHANGED vars
    BY <2>1, <2>4 DEF vars
  <2> QED BY <2>1, <2>2, <2>3, <2>4, ClientsKeepAttempts DEF Next
<1> QED BY <1>1, <1>2, PTL DEF Spec

\* Whatever threads, connections and restarts do, once a request of an attempt
\* has committed none of those that ask the table of remembered mutations has any
\* effect under the attempt, committed or refused, until the table has dropped it.
THEOREM OneEffectPerAttempt == Spec => []AtMostOnce
<1>1. AttemptsInv => AtMostOnce
  BY DEF AttemptsInv
<1> QED BY <1>1, AttemptsInvHolds, PTL

(***************************************************************************)
(* Types.                                                                  *)
(***************************************************************************)
Kinds   == Request \cup {"Hello", "HelloAgain", "Bye"}
Hellos  == {"Hello", "HelloAgain"}
Codes   == {"Committed", "Idempotent", "StaleEpoch", "StaleWorkerBoot", "Refused",
            "ConflictingReplay"}
Asked   == [id : Nat, what : Kinds, boot : Client, epoch : Nat]
Told    == [id : Nat, code : Codes, epoch : Nat]
Running == [step : {"header", "body"}, client : Client, what : Kinds, id : Nat]
Side    == [wire : Nat, connected : BOOLEAN, lock : Thread \cup {None}, epoch : Nat]
Link    == [state : {"open", "lost", "closed"}, up : Seq(Asked), down : Seq(Told),
            torn : BOOLEAN, boot : Client \cup {None}, session : BOOLEAN]

SideType == client \in [Client -> Side] /\ call \in [Thread -> Running \cup {Idle}]
LinkType == wires \in Seq(Link)
RestType == /\ epoch \in Nat /\ calls \in Nat /\ live \subseteq Client
            /\ sharing \in [Client -> {"no", "shared", "crossed"}]

\* A call that takes the mutex has it, and who has it is in a call.
LockInv ==
  \A c \in Client :
    /\ client[c].lock \in {None} \cup Users(c)
    /\ \A t \in Users(c) : TakesLock(call[t].what) => client[c].lock = t

\* A client keeps no socket it has closed, and no two have the same.
SocketInv ==
  /\ \A c \in Client :
       Wire(c) # 0 => Wire(c) \in DOMAIN wires /\ wires[Wire(c)].state # "closed"
  /\ \A c, d \in Client : Wire(c) = Wire(d) /\ Wire(c) # 0 => c = d
  /\ \A n \in DOMAIN wires : /\ wires[n].state = "lost" => wires[n].down = << >>
                             /\ wires[n].state = "open" => wires[n].session

\* An attached incarnation is known, and one that two sessions stand for either
\* attached again or is fenced.
SessionInv ==
  /\ (\A b, c \in live : b = c) /\ live \cap DOMAIN fenced = {}
  /\ \A n \in DOMAIN wires :
       wires[n].session /\ wires[n].boot # None => wires[n].boot \in live \cup DOMAIN fenced
  /\ \A n, k \in DOMAIN wires :
       n # k /\ wires[n].session /\ wires[k].session /\ wires[n].boot = wires[k].boot
         /\ wires[n].boot # None
       => wires[n].boot \in reattached \cup DOMAIN fenced

Attached(c) == \/ c \in live
               \/ c \in DOMAIN fenced /\ fenced[c] = "Reincarnated"
               \/ c \in reattached

Stands(c) == wires[Wire(c)].boot = c /\ Attached(c)

\* The one message on the connection of c while the thread t is in a call on it:
\* its request, or the answer to that.
Exchange(c, t) ==
  LET w == wires[Wire(c)]
  IN  \/ \E m \in Asked : /\ w.up = <<m>> /\ w.down = << >>
                          /\ m.id = call[t].id /\ m.what = call[t].what /\ m.boot = c
      \/ \E m \in Told : /\ w.up = << >> /\ w.down = <<m>> /\ m.id = call[t].id
                         /\ (call[t].what \in Hellos /\ Welcome(m.code) => Stands(c))

Orderly(c) ==
  /\ \A t, u \in Users(c) : t = u
  /\ Open(Wire(c)) =>
       /\ ~wires[Wire(c)].torn
       /\ Users(c) = {} => wires[Wire(c)].up = << >> /\ wires[Wire(c)].down = << >>
       /\ \A t \in Users(c) : Exchange(c, t)
       /\ client[c].connected => Stands(c)

PipeInv == \A c \in Client : sharing[c] = "no" => Orderly(c) /\ c \notin strayed

ClientInv == SideType /\ LinkType /\ RestType /\ LockInv /\ SocketInv /\ SessionInv /\ PipeInv

(***************************************************************************)
(* Connections.                                                            *)
(***************************************************************************)
LEMMA LinkAt ==
  ASSUME NEW ws \in Seq(Link), NEW n \in DOMAIN ws
  PROVE  /\ ws[n] \in Link /\ n # 0 /\ ws[n].state \in {"open", "lost", "closed"}
         /\ ws[n].up \in Seq(Asked) /\ ws[n].down \in Seq(Told)
         /\ ws[n].boot \in Client \cup {None}
<1>1. ws[n] \in Link /\ n # 0
  OBVIOUS
<1> QED BY <1>1 DEF Link

\* Everything but what the connection has sent, is about to tell, or is.
LEMMA UpOf ==
  ASSUME NEW w \in Link, NEW q \in Seq(Asked)
  PROVE  LET v == [w EXCEPT !.up = q]
         IN  v \in Link /\ v.up = q /\ v.down = w.down /\ v.state = w.state /\ v.torn = w.torn
             /\ v.boot = w.boot /\ v.session = w.session
BY DEF Link

LEMMA DownOf ==
  ASSUME NEW w \in Link, NEW q \in Seq(Told)
  PROVE  LET v == [w EXCEPT !.down = q]
         IN  v \in Link /\ v.up = w.up /\ v.down = q /\ v.state = w.state /\ v.torn = w.torn
             /\ v.boot = w.boot /\ v.session = w.session
BY DEF Link

LEMMA StateOf ==
  ASSUME NEW w \in Link, NEW q \in {"open", "lost", "closed"}
  PROVE  LET v == [w EXCEPT !.state = q]
         IN  v \in Link /\ v.up = w.up /\ v.down = w.down /\ v.state = q /\ v.torn = w.torn
             /\ v.boot = w.boot /\ v.session = w.session
BY DEF Link

\* How a step may change the connection n: nothing else of ws changes.
Edits(ws, n, rs) ==
  /\ rs \in Seq(Link) /\ DOMAIN rs = DOMAIN ws /\ Len(rs) = Len(ws)
  /\ \A k \in DOMAIN ws \ {n} : rs[k] = ws[k]

LEMMA EditLink ==
  ASSUME NEW ws \in Seq(Link), NEW n \in DOMAIN ws, NEW w \in Link
  PROVE  Edits(ws, n, [ws EXCEPT ![n] = w]) /\ [ws EXCEPT ![n] = w][n] = w
<1> HIDE DEF Link
<1> QED BY DEF Edits

LEMMA SentEffect ==
  ASSUME NEW ws \in Seq(Link), NEW n \in DOMAIN ws \cup {0}, NEW m \in Asked
  PROVE  /\ Edits(ws, n, Sent(ws, n, m))
         /\ n # 0 =>
              /\ Sent(ws, n, m)[n].up = IF ws[n].state = "open" THEN Append(ws[n].up, m)
                                        ELSE ws[n].up
              /\ Sent(ws, n, m)[n].down = ws[n].down
              /\ Sent(ws, n, m)[n].state = ws[n].state
              /\ Sent(ws, n, m)[n].torn = ws[n].torn
              /\ Sent(ws, n, m)[n].boot = ws[n].boot
              /\ Sent(ws, n, m)[n].session = ws[n].session
<1>1. CASE n # 0 /\ ws[n].state = "open"
  <2> DEFINE q == Append(ws[n].up, m)
             w == [ws[n] EXCEPT !.up = q]
  <2>1. ws[n] \in Link /\ q \in Seq(Asked)
    BY <1>1, LinkAt
  <2>2. Sent(ws, n, m) = [ws EXCEPT ![n] = w]
    BY <1>1 DEF Sent
  <2> HIDE DEF q
  <2>3. w \in Link /\ w.up = q /\ w.down = ws[n].down /\ w.state = ws[n].state
        /\ w.torn = ws[n].torn /\ w.boot = ws[n].boot /\ w.session = ws[n].session
    BY <2>1, UpOf
  <2> HIDE DEF w
  <2> QED BY <1>1, <2>2, <2>3, EditLink DEF q
<1>2. CASE ~(n # 0 /\ ws[n].state = "open")
  BY <1>2 DEF Sent, Edits
<1> QED BY <1>1, <1>2

LEMMA ClosedEffect ==
  ASSUME NEW ws \in Seq(Link), NEW n \in DOMAIN ws \cup {0}
  PROVE  /\ Edits(ws, n, Closed(ws, n))
         /\ n # 0 => Closed(ws, n)[n].state # "open"
                     /\ Closed(ws, n)[n].down = ws[n].down
                     /\ (Closed(ws, n)[n].state = "lost" => ws[n].state = "lost")
                     /\ Closed(ws, n)[n].boot = ws[n].boot
                     /\ Closed(ws, n)[n].session = ws[n].session
<1>1. CASE n # 0 /\ ws[n].state = "open"
  <2> DEFINE w == [ws[n] EXCEPT !.state = "closed"]
  <2>1. ws[n] \in Link
    BY <1>1, LinkAt
  <2>2. Closed(ws, n) = [ws EXCEPT ![n] = w]
    BY <1>1 DEF Closed
  <2>3. w \in Link /\ w.down = ws[n].down /\ w.state = "closed" /\ w.boot = ws[n].boot
        /\ w.session = ws[n].session
    BY <2>1, StateOf
  <2> HIDE DEF w
  <2> QED BY <1>1, <2>2, <2>3, EditLink
<1>2. CASE ~(n # 0 /\ ws[n].state = "open")
  BY <1>2 DEF Closed, Edits
<1> QED BY <1>1, <1>2

LEMMA TakenEffect ==
  ASSUME LinkType, NEW n \in DOMAIN wires, wires[n].down # << >>
  PROVE  /\ Edits(wires, n, Taken(n))
         /\ Taken(n)[n].down = Tail(wires[n].down)
         /\ Taken(n)[n].up = wires[n].up /\ Taken(n)[n].state = wires[n].state
         /\ Taken(n)[n].torn = wires[n].torn /\ Taken(n)[n].boot = wires[n].boot
         /\ Taken(n)[n].session = wires[n].session
<1> USE DEF LinkType
<1> DEFINE q == Tail(wires[n].down)
           w == [wires[n] EXCEPT !.down = q]
<1>1. wires[n] \in Link /\ q \in Seq(Told)
  BY LinkAt
<1>2. Taken(n) = [wires EXCEPT ![n] = w]
  BY DEF Taken
<1> HIDE DEF q
<1>3. w \in Link /\ w.up = wires[n].up /\ w.down = q /\ w.state = wires[n].state
      /\ w.torn = wires[n].torn /\ w.boot = wires[n].boot /\ w.session = wires[n].session
  BY <1>1, DownOf
<1> HIDE DEF w
<1> QED BY <1>2, <1>3, EditLink DEF q

(***************************************************************************)
(* Frames: what stays true when the rest of the state is left alone.       *)
(***************************************************************************)
\* A thread is in a call exactly when it has a record of one.
LEMMA InACall ==
  \A r \in Running \cup {Idle} : /\ r.step = "idle" <=> r = Idle
                                 /\ r.step # "idle" <=> r \in Running
<1>1. \A r \in Running : r.step # "idle"
  BY DEF Running
<1>2. Idle.step = "idle"
  BY DEF Idle
<1> QED BY <1>1, <1>2

LEMMA InCalls ==
  ASSUME SideType, NEW t \in Thread
  PROVE  /\ In(t, "idle") <=> call[t] = Idle
         /\ ~In(t, "idle") <=> call[t] \in Running
         /\ \A c : t \in Users(c) <=> call[t] \in Running /\ call[t].client = c
BY InACall DEF SideType, In, Users

LEMMA InCallsNext ==
  ASSUME SideType', NEW t \in Thread
  PROVE  \A c : t \in Users(c)' <=> call'[t] \in Running /\ call'[t].client = c
BY InACall DEF SideType, In, Users

LEMMA SessionsStay ==
  ASSUME SessionInv, UNCHANGED <<live, fenced, reattached>>,
         DOMAIN wires \subseteq DOMAIN wires',
         \A k \in DOMAIN wires : /\ wires'[k].boot = wires[k].boot
                                 /\ wires'[k].session = wires[k].session,
         \A k \in DOMAIN wires' \ DOMAIN wires : wires'[k].boot = None
  PROVE  SessionInv'
BY DEF SessionInv

LEMMA SocketsStay ==
  ASSUME SocketInv, SideType, NEW c \in Client, Edits(wires, Wire(c), wires'),
         \A d \in Client \ {c} : client'[d].wire = client[d].wire,
         client'[c].wire \in {0, Wire(c)},
         Wire(c) # 0 =>
           /\ wires'[Wire(c)].state = "lost" => wires[Wire(c)].state = "lost"
                                                /\ wires'[Wire(c)].down = wires[Wire(c)].down
           /\ client'[c].wire # 0 => wires'[Wire(c)].state # "closed"
           /\ wires'[Wire(c)].state = "open" => wires'[Wire(c)].session
  PROVE  SocketInv'
<1>1. DOMAIN wires' = DOMAIN wires /\ \A k \in DOMAIN wires \ {Wire(c)} : wires'[k] = wires[k]
  BY DEF Edits
<1>2. \A d \in Client : /\ client'[d].wire \in {0, client[d].wire}
                        /\ d # c => client'[d].wire = client[d].wire
  BY DEF Wire
<1>3. ASSUME NEW d \in Client, client'[d].wire # 0
      PROVE  client'[d].wire \in DOMAIN wires' /\ wires'[client'[d].wire].state # "closed"
  <2>1. client[d].wire = client'[d].wire /\ client[d].wire \in DOMAIN wires
        /\ wires[client[d].wire].state # "closed"
    BY <1>2, <1>3 DEF SocketInv, Wire
  <2>2. CASE client[d].wire = Wire(c)
    <3>1. d = c
      BY <1>3, <2>1, <2>2 DEF SocketInv, Wire
    <3> QED BY <1>1, <1>3, <2>1, <2>2, <3>1
  <2>3. CASE client[d].wire # Wire(c)
    BY <1>1, <2>1, <2>3
  <2> QED BY <2>2, <2>3
<1>4. ASSUME NEW d \in Client, NEW e \in Client, client'[d].wire = client'[e].wire,
             client'[d].wire # 0
      PROVE  d = e
  BY <1>2, <1>4 DEF SocketInv, Wire
<1>5. ASSUME NEW k \in DOMAIN wires'
      PROVE  /\ wires'[k].state = "lost" => wires'[k].down = << >>
             /\ wires'[k].state = "open" => wires'[k].session
  <2>1. CASE k = Wire(c)
    <3>1. k \in DOMAIN wires
      BY <1>1, <1>5
    <3>2. k # 0 \/ k = 0
      OBVIOUS
    <3>3. Wire(c) # 0
      BY <2>1, <3>1, LinkAt DEF Edits
    <3> QED BY <2>1, <3>1, <3>3 DEF SocketInv
  <2>2. CASE k # Wire(c)
    BY <1>1, <1>5, <2>2 DEF SocketInv
  <2> QED BY <2>1, <2>2
<1> QED BY <1>3, <1>4, <1>5 DEF SocketInv, Wire

LEMMA OthersStayOrderly ==
  ASSUME SideType, SocketInv, NEW d \in Client, Orderly(d),
         client'[d].wire = client[d].wire, client'[d].connected => client[d].connected,
         \A t \in Thread : t \in Users(d)' <=> t \in Users(d),
         \A t \in Users(d) : call'[t].id = call[t].id /\ call'[t].what = call[t].what,
         Open(Wire(d))' => /\ Open(Wire(d)) /\ wires'[Wire(d)] = wires[Wire(d)]
                           /\ Stands(d) => Attached(d)'
  PROVE  Orderly(d)'
<1>1. Users(d)' = Users(d)
  BY DEF Users
<1>2. \A t, u \in Users(d) : t = u
  BY DEF Orderly
<1>3. CASE Open(Wire(d))'
  <2>1. Open(Wire(d)) /\ Wire(d)' = Wire(d) /\ wires'[Wire(d)] = wires[Wire(d)]
    BY <1>3 DEF Wire
  <2>2. Stands(d) => Stands(d)'
    BY <1>3, <2>1 DEF Stands
  <2>3. ASSUME NEW t \in Users(d) PROVE Exchange(d, t)'
    <3>1. Exchange(d, t)
      BY <2>1, <2>3 DEF Orderly
    <3> QED BY <2>1, <2>2, <2>3, <3>1 DEF Exchange
  <2>4. client'[d].connected => Stands(d)'
    BY <2>1, <2>2 DEF Orderly
  <2> QED BY <1>1, <1>2, <2>1, <2>3, <2>4 DEF Orderly
<1>4. CASE ~Open(Wire(d))'
  BY <1>1, <1>2, <1>4 DEF Orderly
<1> QED BY <1>3, <1>4

(***************************************************************************)
(* The end of a call.                                                      *)
(***************************************************************************)
\* What a call leaves behind, whichever way it ends: connected and its socket
\* are looked at where it matters.
Leaves(t, c) ==
  /\ SideType' /\ LinkType'
  /\ \A u \in Thread : call'[u] = IF u = t THEN Idle ELSE call[u]
  /\ \A d \in Client \ {c} : client'[d] = client[d]
  /\ client'[c].wire \in {0, Wire(c)}
  /\ client'[c].lock = IF client[c].lock = t THEN None ELSE client[c].lock
  /\ Edits(wires, Wire(c), wires')
  /\ Wire(c) # 0 =>
       /\ wires'[Wire(c)].boot = wires[Wire(c)].boot
       /\ wires'[Wire(c)].session = wires[Wire(c)].session
       /\ wires'[Wire(c)].state = "open" => wires[Wire(c)].state = "open"
       /\ wires'[Wire(c)].state = "lost" => wires[Wire(c)].state = "lost"
                                            /\ wires'[Wire(c)].down = wires[Wire(c)].down
       /\ client'[c].wire # 0 => wires'[Wire(c)].state = wires[Wire(c)].state
  /\ UNCHANGED <<served, calls, sharing, reattached>>

\* What End does, without EXCEPT.
Ends(t, c, connected, keep) ==
  /\ SideType'
  /\ \A u \in Thread : call'[u] = IF u = t THEN Idle ELSE call[u]
  /\ \A d \in Client \ {c} : client'[d] = client[d]
  /\ client'[c].wire = IF keep THEN Wire(c) ELSE 0
  /\ client'[c].connected = connected
  /\ client'[c].lock = IF client[c].lock = t THEN None ELSE client[c].lock

LEMMA EndEffect ==
  ASSUME SideType, NEW t \in Thread, call[t] \in Running, NEW c, c = call[t].client,
         NEW connected \in BOOLEAN, NEW keep \in BOOLEAN, NEW learned \in Nat,
         End(t, c, connected, keep, learned)
  PROVE  Ends(t, c, connected, keep)
<1> DEFINE v == [wire |-> IF keep THEN client[c].wire ELSE 0, connected |-> connected,
                 epoch |-> learned, lock |-> IF client[c].lock = t THEN None ELSE client[c].lock]
<1>1. call' = [call EXCEPT ![t] = Idle] /\ client' = [client EXCEPT ![c] = v]
  BY DEF End
<1>2. c \in Client
  BY DEF Running
<1>3. client[c] \in Side
  BY <1>2 DEF SideType
<1>4. v \in Side /\ v.wire = (IF keep THEN Wire(c) ELSE 0) /\ v.connected = connected
      /\ v.lock = IF client[c].lock = t THEN None ELSE client[c].lock
  BY <1>3 DEF Side, Wire
<1> HIDE DEF v
<1> QED BY <1>1, <1>2, <1>4 DEF SideType, Ends

LEMMA LeavesUsers ==
  ASSUME SideType, NEW t \in Thread, call[t] \in Running, NEW c, Leaves(t, c)
  PROVE  \A d : Users(d)' = Users(d) \ {t}
<1>1. SideType' /\ \A u \in Thread : call'[u] = IF u = t THEN Idle ELSE call[u]
  BY DEF Leaves
<1>2. Idle \notin Running
  BY DEF Idle, Running
<1>3. \A d : \A u \in Thread : u \in Users(d)' <=> u \in Users(d) /\ u # t
  BY <1>1, <1>2, InCalls, InCallsNext
<1> QED BY <1>3 DEF Users

LEMMA LeavingKeepsLocks ==
  ASSUME SideType, LockInv, NEW t \in Thread, call[t] \in Running, Leaves(t, call[t].client)
  PROVE  LockInv'
<1> DEFINE c == call[t].client
<1>1. c \in Client /\ t \in Users(c)
  BY InCalls DEF Running
<1>2. /\ \A u \in Thread : call'[u] = IF u = t THEN Idle ELSE call[u]
      /\ \A d \in Client \ {c} : client'[d] = client[d]
      /\ client'[c].lock = IF client[c].lock = t THEN None ELSE client[c].lock
  BY DEF Leaves
<1>3. \A d : Users(d)' = Users(d) \ {t}
  BY LeavesUsers
<1>4. \A d \in Client \ {c} : t \notin Users(d)
  BY InCalls
<1>5. \A d : Users(d) \subseteq Thread
  BY DEF Users
<1> HIDE DEF c
<1>6. ASSUME NEW d \in Client
      PROVE  /\ client'[d].lock \in {None} \cup Users(d)'
             /\ \A u \in Users(d)' : TakesLock(call'[u].what) => client'[d].lock = u
  <2>1. /\ client[d].lock \in {None} \cup Users(d)
        /\ \A u \in Users(d) : TakesLock(call[u].what) => client[d].lock = u
    BY DEF LockInv
  <2>2. CASE d = c
    BY <1>2, <1>3, <1>5, <2>1, <2>2
  <2>3. CASE d # c
    BY <1>2, <1>3, <1>4, <1>5, <2>1, <2>3
  <2> QED BY <2>2, <2>3
<1> QED BY <1>6 DEF LockInv, TakesLock

LEMMA LeavingKeepsOthers ==
  ASSUME SideType, SocketInv, NEW t \in Thread, call[t] \in Running, Leaves(t, call[t].client),
         NEW d \in Client, d # call[t].client, Orderly(d)
  PROVE  Orderly(d)'
<1> DEFINE c == call[t].client
<1>1. c \in Client
  BY DEF Running
<1>2. /\ \A u \in Thread : call'[u] = IF u = t THEN Idle ELSE call[u]
      /\ \A e \in Client \ {c} : client'[e] = client[e]
      /\ Edits(wires, Wire(c), wires')
      /\ UNCHANGED <<served, reattached>>
  BY DEF Leaves
<1>3. Users(d)' = Users(d) /\ t \notin Users(d)
  BY LeavesUsers, InCalls
<1>4. Wire(d) # 0 => Wire(d) \in DOMAIN wires /\ Wire(d) # Wire(c)
  BY <1>1 DEF SocketInv
<1>5. Open(Wire(d))' => Open(Wire(d)) /\ wires'[Wire(d)] = wires[Wire(d)]
  BY <1>2, <1>4 DEF Open, Wire, Edits
<1>6. Stands(d) => Attached(d)'
  BY <1>2 DEF Attached, Stands, served
<1>7. \A u \in Users(d) : call'[u].id = call[u].id /\ call'[u].what = call[u].what
  BY <1>2, <1>3 DEF Users
<1>8. client'[d].wire = client[d].wire /\ (client'[d].connected => client[d].connected)
  BY <1>2
<1>9. \A u \in Thread : u \in Users(d)' <=> u \in Users(d)
  BY <1>3
<1> HIDE DEF c
<1> QED BY <1>9, <1>5, <1>6, <1>7, <1>8, OthersStayOrderly

LEMMA LeavingKeepsRest ==
  ASSUME SideType, LinkType, RestType, LockInv, SocketInv, SessionInv,
         NEW t \in Thread, call[t] \in Running, Leaves(t, call[t].client)
  PROVE  SideType' /\ LinkType' /\ RestType' /\ LockInv' /\ SocketInv' /\ SessionInv'
<1> DEFINE c == call[t].client
<1>1. c \in Client
  BY DEF Running
<1>2. SideType' /\ LinkType' /\ RestType'
  BY DEF Leaves, RestType, served
<1>3. Edits(wires, Wire(c), wires')
  BY DEF Leaves
<1>4. SocketInv'
  <2>1. Wire(c) # 0 => Wire(c) \in DOMAIN wires /\ wires[Wire(c)].state # "closed"
    BY <1>1 DEF SocketInv
  <2>2. Wire(c) # 0 => /\ wires'[Wire(c)].session = wires[Wire(c)].session
                       /\ wires'[Wire(c)].state = "open" => wires[Wire(c)].state = "open"
    BY DEF Leaves
  <2>3. Wire(c) # 0 => (wires[Wire(c)].state = "open" => wires[Wire(c)].session)
    BY <2>1 DEF SocketInv
  <2>4. /\ \A d \in Client \ {c} : client'[d].wire = client[d].wire
        /\ client'[c].wire \in {0, Wire(c)}
        /\ Wire(c) # 0 =>
             /\ wires'[Wire(c)].state = "lost" => wires[Wire(c)].state = "lost"
                                                  /\ wires'[Wire(c)].down = wires[Wire(c)].down
             /\ client'[c].wire # 0 => wires'[Wire(c)].state # "closed"
    BY <2>1 DEF Leaves
  <2> HIDE DEF c
  <2> QED BY <1>1, <1>3, <2>2, <2>3, <2>4, SocketsStay
<1>5. SessionInv'
  <2>1. DOMAIN wires' = DOMAIN wires
    BY <1>3 DEF Edits
  <2>2. \A k \in DOMAIN wires : /\ wires'[k].boot = wires[k].boot
                                /\ wires'[k].session = wires[k].session
    BY <1>3, LinkAt DEF Edits, Leaves, LinkType
  <2>3. UNCHANGED <<live, fenced, reattached>>
    BY DEF Leaves, served
  <2> QED BY <2>1, <2>2, <2>3, SessionsStay
<1> QED BY <1>2, <1>4, <1>5, LeavingKeepsLocks

(***************************************************************************)
(* A call that fails.                                                      *)
(***************************************************************************)
LEMMA FailLeaves ==
  ASSUME SideType, LinkType, SocketInv, NEW t \in Thread, call[t] \in Running,
         NEW torn \in BOOLEAN, Fail(t, torn)
  PROVE  /\ Leaves(t, call[t].client) /\ UNCHANGED <<strayed, attempts>>
         /\ client'[call[t].client].connected = FALSE
<1> DEFINE c == call[t].client
           n == Wire(c)
           keep == call[t].what \in Request
           ws == IF torn /\ n # 0 THEN [wires EXCEPT ![n].torn = TRUE] ELSE wires
<1>1. c \in Client /\ (n # 0 => n \in DOMAIN wires /\ wires[n].state # "closed")
  BY DEF Running, SocketInv
<1>2. /\ End(t, c, FALSE, keep, client[c].epoch)
      /\ wires' = IF keep THEN ws ELSE Closed(ws, n)
      /\ UNCHANGED <<served, calls, history, attempts>>
  BY DEF Fail
<1>3. client[c].epoch \in Nat /\ keep \in BOOLEAN
  BY <1>1 DEF SideType, Side
<1>4. /\ Edits(wires, n, ws) /\ ws \in Seq(Link)
      /\ n # 0 => /\ ws[n].down = wires[n].down /\ ws[n].state = wires[n].state
                  /\ ws[n].boot = wires[n].boot /\ ws[n].session = wires[n].session
  <2>1. CASE torn /\ n # 0
    <3> DEFINE w == [wires[n] EXCEPT !.torn = TRUE]
    <3>1. wires[n] \in Link
      BY <1>1, <2>1, LinkAt DEF LinkType
    <3>2. w \in Link /\ w.down = wires[n].down /\ w.state = wires[n].state
          /\ w.boot = wires[n].boot /\ w.session = wires[n].session
      BY <3>1 DEF Link
    <3>3. ws = [wires EXCEPT ![n] = w]
      BY <2>1
    <3> HIDE DEF w, ws, n
    <3> QED BY <1>1, <2>1, <3>2, <3>3, EditLink DEF LinkType, Edits
  <2>2. CASE ~(torn /\ n # 0)
    BY <2>2 DEF Edits, LinkType
  <2> QED BY <2>1, <2>2
<1>5. /\ Edits(ws, n, Closed(ws, n))
      /\ n # 0 => /\ Closed(ws, n)[n].state # "open"
                  /\ Closed(ws, n)[n].down = ws[n].down
                  /\ (Closed(ws, n)[n].state = "lost" => ws[n].state = "lost")
                  /\ Closed(ws, n)[n].boot = ws[n].boot
                  /\ Closed(ws, n)[n].session = ws[n].session
  <2>1. n \in DOMAIN ws \cup {0}
    BY <1>1, <1>4 DEF Edits
  <2> HIDE DEF n, ws
  <2> QED BY <1>4, <2>1, ClosedEffect
<1>9. c = call[t].client
  OBVIOUS
<1> HIDE DEF ws, n, keep, c
<1>6. Ends(t, c, FALSE, keep)
  BY <1>2, <1>3, <1>9, EndEffect
<1>7. /\ Edits(wires, n, wires')
      /\ n # 0 =>
           /\ wires'[n].boot = wires[n].boot /\ wires'[n].session = wires[n].session
           /\ wires'[n].state = "open" => wires[n].state = "open"
           /\ wires'[n].state = "lost" => wires[n].state = "lost" /\ wires'[n].down = wires[n].down
           /\ keep => wires'[n].state = wires[n].state
  <2>1. CASE keep
    BY <1>2, <1>4, <2>1
  <2>2. CASE ~keep
    BY <1>2, <1>4, <1>5, <2>2 DEF Edits
  <2> QED BY <2>1, <2>2
<1>8. LinkType' /\ UNCHANGED <<served, calls, sharing, reattached, strayed, attempts>>
  BY <1>2, <1>7 DEF LinkType, Edits, history
<1> QED BY <1>6, <1>7, <1>8 DEF Ends, Leaves, n, c

\* A call that took no other's answer leaves every client in order.
LEMMA LeavingKeepsOrder ==
  ASSUME SideType, SocketInv, PipeInv, NEW t \in Thread, call[t] \in Running,
         NEW c, c = call[t].client, Leaves(t, c), strayed' \subseteq strayed \cup {c},
         sharing[c] = "no" => c \notin strayed' /\ Orderly(c)'
  PROVE  PipeInv'
<1>1. UNCHANGED sharing
  BY DEF Leaves
<1>2. ASSUME NEW d \in Client, sharing[d] = "no"
      PROVE  Orderly(d)' /\ d \notin strayed'
  <2>1. Orderly(d) /\ d \notin strayed
    BY <1>2 DEF PipeInv
  <2>2. CASE d = c
    BY <1>2, <2>2
  <2>3. CASE d # c
    BY <2>1, <2>3, LeavingKeepsOthers
  <2> QED BY <2>2, <2>3
<1> QED BY <1>1, <1>2 DEF PipeInv

\* Only a call that is alone on a socket that is gone fails, when the socket is
\* not shared.
LEMMA FailStep ==
  ASSUME ClientInv, NEW t \in Thread, call[t] \in Running, NEW torn \in BOOLEAN, Fail(t, torn),
         sharing[call[t].client] = "no" => ~Open(Wire(call[t].client))
  PROVE  ClientInv'
<1> USE DEF ClientInv
<1>1. PICK c \in Client : c = call[t].client
  BY DEF Running
<1>2. /\ Leaves(t, c) /\ UNCHANGED <<strayed, attempts>>
      /\ client'[c].connected = FALSE
  BY <1>1, FailLeaves
<1>3. ASSUME sharing[c] = "no" PROVE c \notin strayed' /\ Orderly(c)'
  <2>1. ~Open(Wire(c)) /\ Orderly(c) /\ c \notin strayed
    BY <1>1, <1>3 DEF PipeInv
  <2>2. ~Open(Wire(c))'
    BY <1>2, <2>1 DEF Open, Wire, Leaves
  <2>3. Users(c)' \subseteq Users(c)
    BY <1>2, LeavesUsers
  <2> QED BY <1>2, <2>1, <2>2, <2>3 DEF Orderly
<1>4. PipeInv'
  BY <1>1, <1>2, <1>3, LeavingKeepsOrder
<1> QED BY <1>1, <1>2, <1>4, LeavingKeepsRest

(***************************************************************************)
(* Reading.                                                                *)
(***************************************************************************)
\* Nothing is read from a socket that is gone.
LEMMA ReadableIsOpen ==
  ASSUME SocketInv, NEW c \in Client, Wire(c) # 0, wires[Wire(c)].down # << >>, LinkType
  PROVE  Open(Wire(c)) /\ Wire(c) \in DOMAIN wires
<1>1. Wire(c) \in DOMAIN wires /\ wires[Wire(c)].state # "closed" /\ wires[Wire(c)].state # "lost"
  BY DEF SocketInv
<1> QED BY <1>1, LinkAt DEF Open, LinkType

\* The call that is alone reads the answer to its own request.
LEMMA ReadsItsOwn ==
  ASSUME ClientInv, NEW t \in Thread, call[t] \in Running, sharing[call[t].client] = "no",
         Wire(call[t].client) # 0, wires[Wire(call[t].client)].down # << >>
  PROVE  LET c == call[t].client  w == wires[Wire(c)]
         IN  /\ Orderly(c) /\ c \notin strayed /\ ~w.torn /\ Users(c) = {t}
             /\ w.up = << >> /\ Tail(w.down) = << >> /\ Head(w.down).id = call[t].id
             /\ (call[t].what \in Hellos /\ Welcome(Head(w.down).code) => Stands(c))
<1> USE DEF ClientInv
<1> DEFINE c == call[t].client
           w == wires[Wire(c)]
<1>1. c \in Client /\ t \in Users(c)
  BY InCalls DEF Running
<1>2. Orderly(c) /\ c \notin strayed /\ Open(Wire(c))
  BY <1>1, ReadableIsOpen DEF PipeInv
<1>3. ~w.torn /\ Users(c) = {t} /\ Exchange(c, t)
  BY <1>1, <1>2 DEF Orderly
<1>4. PICK m \in Told : /\ w.up = << >> /\ w.down = <<m>> /\ m.id = call[t].id
                        /\ (call[t].what \in Hellos /\ Welcome(m.code) => Stands(c))
  BY <1>3 DEF Exchange
<1>5. Head(w.down) = m /\ Tail(w.down) = << >>
  BY <1>4
<1> HIDE DEF w, c
<1> QED BY <1>2, <1>3, <1>4, <1>5 DEF w, c

LEMMA HeaderStep ==
  ASSUME ClientInv, NEW t \in Thread, ReadHeader(t)
  PROVE  ClientInv'
<1> USE DEF ClientInv
<1> DEFINE c == call[t].client
           n == Wire(c)
<1>1. call[t] \in Running /\ call[t].step = "header" /\ c \in Client
  <2>1. call[t].step = "header"
    BY DEF ReadHeader, In
  <2>2. call[t] \in Running
    BY <2>1, InCalls DEF In
  <2> QED BY <2>1, <2>2 DEF Running
<1>2. n # 0 /\ wires[n].down # << >>
  BY DEF ReadHeader
<1>3. CASE Fail(t, TRUE) /\ (wires[n].torn \/ \E u \in Users(c) \ {t} : In(u, "body"))
  <2>1. sharing[c] # "no"
    BY <1>1, <1>2, <1>3, ReadsItsOwn
  <2> QED BY <1>1, <1>3, <2>1, FailStep
<1>4. CASE /\ call' = [call EXCEPT ![t].step = "body"]
           /\ UNCHANGED <<client, wires, served, calls, history, attempts>>
  <2> DEFINE v == [call[t] EXCEPT !.step = "body"]
  <2>1. v \in Running /\ v.client = call[t].client /\ v.what = call[t].what /\ v.id = call[t].id
    BY <1>1 DEF Running
  <2>2. call' = [call EXCEPT ![t] = v]
    BY <1>4
  <2> HIDE DEF v
  <2>3. /\ \A u \in Thread : /\ call[u] \in Running => call'[u].what = call[u].what
                                                  /\ call'[u].id = call[u].id
                             /\ call'[u] \in Running <=> call[u] \in Running
                             /\ call'[u].client = call[u].client
        /\ SideType'
    BY <1>1, <1>4, <2>1, <2>2 DEF SideType
  <2>4. \A d : Users(d)' = Users(d)
    <3>1. \A d : \A u \in Thread : u \in Users(d)' <=> u \in Users(d)
      BY <2>3, InCalls, InCallsNext
    <3> QED BY <3>1 DEF Users
  <2>5. \A d : \A u \in Users(d) : call'[u].what = call[u].what /\ call'[u].id = call[u].id
    BY <2>3, InCalls DEF Users
  <2>6. UNCHANGED <<client, wires, epoch, live, fenced, calls, sharing, strayed, reattached>>
    BY <1>4 DEF served, history
  <2>7. LinkType' /\ RestType' /\ SocketInv' /\ SessionInv'
    BY <2>6 DEF LinkType, RestType, SocketInv, SessionInv, Wire
  <2>8. LockInv'
    BY <2>4, <2>5, <2>6 DEF LockInv, TakesLock
  <2>9. ASSUME NEW d \in Client, Orderly(d) PROVE Orderly(d)'
    <3>1. /\ \A u \in Thread : u \in Users(d)' <=> u \in Users(d)
          /\ \A u \in Users(d) : call'[u].id = call[u].id /\ call'[u].what = call[u].what
      BY <2>4, <2>5
    <3>2. Open(Wire(d))' => /\ Open(Wire(d)) /\ wires'[Wire(d)] = wires[Wire(d)]
                            /\ Stands(d) => Attached(d)'
      BY <2>6 DEF Open, Wire, Stands, Attached
    <3> QED BY <2>6, <2>9, <3>1, <3>2, OthersStayOrderly
  <2> QED BY <2>3, <2>6, <2>7, <2>8, <2>9 DEF PipeInv
<1> QED BY <1>3, <1>4 DEF ReadHeader

\* What is left of the connection of c when an answer is taken from it, and the
\* connection is kept or closed.
LEMMA TakenLeaves ==
  ASSUME LinkType, SocketInv, NEW c \in Client, NEW n, n = Wire(c), n # 0,
         wires[n].down # << >>
  PROVE  /\ n \in DOMAIN wires /\ wires[n].state = "open" /\ Head(wires[n].down) \in Told
         /\ \A ws \in {Taken(n), Closed(Taken(n), n)} :
              /\ Edits(wires, n, ws)
              /\ ws[n].boot = wires[n].boot /\ ws[n].session = wires[n].session
              /\ ws[n].state # "lost"
         /\ Taken(n)[n].state = "open" /\ Taken(n)[n].torn = wires[n].torn
         /\ Taken(n)[n].up = wires[n].up /\ Taken(n)[n].down = Tail(wires[n].down)
<1>1. n \in DOMAIN wires /\ wires[n].state = "open" /\ Open(n)
  BY ReadableIsOpen DEF Open
<1>2. wires[n].down \in Seq(Told) /\ Head(wires[n].down) \in Told
  BY <1>1, LinkAt DEF LinkType
<1>3. /\ Edits(wires, n, Taken(n))
      /\ Taken(n)[n].down = Tail(wires[n].down)
      /\ Taken(n)[n].up = wires[n].up /\ Taken(n)[n].state = wires[n].state
      /\ Taken(n)[n].torn = wires[n].torn /\ Taken(n)[n].boot = wires[n].boot
      /\ Taken(n)[n].session = wires[n].session
  BY <1>1, TakenEffect
<1>4. /\ Edits(Taken(n), n, Closed(Taken(n), n))
      /\ Closed(Taken(n), n)[n].state = "lost" => Taken(n)[n].state = "lost"
      /\ Closed(Taken(n), n)[n].boot = Taken(n)[n].boot
      /\ Closed(Taken(n), n)[n].session = Taken(n)[n].session
  BY <1>1, <1>3, ClosedEffect DEF Edits
<1>5. Edits(wires, n, Closed(Taken(n), n))
  BY <1>3, <1>4 DEF Edits
<1> QED BY <1>1, <1>2, <1>3, <1>4, <1>5

\* An answer ends the call: that of a request, of Bye, or of a Hello that is not
\* sent again.
LEMMA TakeEnds ==
  ASSUME ClientInv, NEW t \in Thread, call[t] \in Running,
         NEW c \in Client, c = call[t].client, NEW n, n = Wire(c), n # 0, wires[n].down # << >>,
         NEW m, m = Head(wires[n].down),
         strayed' = IF m.id # call[t].id THEN strayed \cup {c} ELSE strayed,
         NEW connected \in BOOLEAN, NEW keep \in BOOLEAN, NEW learned \in Nat,
         End(t, c, connected, keep, learned),
         wires' = IF keep THEN Taken(n) ELSE Closed(Taken(n), n),
         UNCHANGED <<served, calls, sharing, reattached, attempts>>,
         sharing[c] = "no" /\ keep /\ connected => Stands(c)
  PROVE  ClientInv'
<1> USE DEF ClientInv
<1>1. Ends(t, c, connected, keep)
  BY EndEffect
<1>2. /\ n \in DOMAIN wires /\ wires[n].state = "open"
      /\ \A ws \in {Taken(n), Closed(Taken(n), n)} :
           /\ Edits(wires, n, ws)
           /\ ws[n].boot = wires[n].boot /\ ws[n].session = wires[n].session
           /\ ws[n].state # "lost"
      /\ Taken(n)[n].state = "open" /\ Taken(n)[n].torn = wires[n].torn
      /\ Taken(n)[n].up = wires[n].up /\ Taken(n)[n].down = Tail(wires[n].down)
  BY TakenLeaves
<1>3. /\ Edits(wires, n, wires')
      /\ wires'[n].boot = wires[n].boot /\ wires'[n].session = wires[n].session
      /\ wires'[n].state # "lost"
  BY <1>2
<1>4. keep => wires'[n].state = wires[n].state
  BY <1>2
<1>5. Leaves(t, c)
  <2>1. LinkType'
    BY <1>3 DEF Edits, LinkType
  <2> QED BY <1>1, <1>2, <1>3, <1>4, <2>1 DEF Leaves, Ends
<1>6. ASSUME sharing[c] = "no" PROVE c \notin strayed' /\ Orderly(c)'
  <2>1. /\ Orderly(c) /\ c \notin strayed /\ ~wires[n].torn /\ Users(c) = {t}
        /\ wires[n].up = << >> /\ Tail(wires[n].down) = << >> /\ m.id = call[t].id
    BY <1>6, ReadsItsOwn
  <2>2. Users(c)' = {}
    BY <1>5, <2>1, LeavesUsers
  <2>3. CASE keep
    <3>1. Wire(c)' = n /\ wires' = Taken(n)
      BY <1>1, <2>3 DEF Ends, Wire
    <3>2. connected => Stands(c)'
      BY <1>3, <1>6, <2>3, <3>1 DEF Stands, Attached, served
    <3>3. client'[c].connected = connected
      BY <1>1 DEF Ends
    <3>4. ~wires'[n].torn /\ wires'[n].up = << >> /\ wires'[n].down = << >>
      BY <1>2, <2>1, <3>1
    <3> QED BY <2>1, <2>2, <3>1, <3>2, <3>3, <3>4 DEF Orderly
  <2>4. CASE ~keep
    <3>1. ~Open(Wire(c))'
      BY <1>1, <2>4 DEF Ends, Wire, Open
    <3> QED BY <2>1, <2>2, <3>1 DEF Orderly
  <2> QED BY <2>1, <2>3, <2>4
<1>7. PipeInv'
  BY <1>5, <1>6, LeavingKeepsOrder
<1> QED BY <1>5, <1>7, LeavingKeepsRest

\* A Hello that was told another epoch is sent once more, over the same socket
\* and under the same mutex.
Resends(t, c, n, q) ==
  /\ q \in Asked /\ q.id = call[t].id /\ q.what = "HelloAgain" /\ q.boot = c
  /\ SideType' /\ LinkType'
  /\ \A d \in Client : /\ client'[d].wire = client[d].wire /\ client'[d].lock = client[d].lock
                       /\ client'[d].connected = client[d].connected
  /\ \A u \in Thread : /\ call'[u] \in Running <=> call[u] \in Running
                       /\ call'[u].client = call[u].client
                       /\ call'[u].id = call[u].id
                       /\ u # t => call'[u].what = call[u].what
  /\ call[t].what = "Hello" /\ call'[t].what = "HelloAgain"
  /\ Edits(wires, n, wires') /\ wires[n].state = "open"
  /\ wires'[n].boot = wires[n].boot /\ wires'[n].session = wires[n].session
  /\ wires'[n].state = "open" /\ wires'[n].torn = wires[n].torn
  /\ wires'[n].up = Append(wires[n].up, q) /\ wires'[n].down = Tail(wires[n].down)
  /\ UNCHANGED <<served, calls, sharing, reattached>>

\* An answer was taken from the connection n of ws, and a request is sent on it.
Popped(ws, n, us) ==
  /\ n \in DOMAIN ws /\ Edits(ws, n, us)
  /\ us[n].boot = ws[n].boot /\ us[n].session = ws[n].session
  /\ us[n].state = "open" /\ us[n].torn = ws[n].torn /\ us[n].up = ws[n].up

Pushed(ws, n, q, us, rs) ==
  /\ Edits(ws, n, rs)
  /\ rs[n].boot = ws[n].boot /\ rs[n].session = ws[n].session
  /\ rs[n].state = "open" /\ rs[n].torn = ws[n].torn
  /\ rs[n].up = Append(ws[n].up, q) /\ rs[n].down = us[n].down

LEMMA ResentOnWire ==
  ASSUME NEW n, NEW q \in Asked, NEW ws \in Seq(Link), NEW us, Popped(ws, n, us)
  PROVE  Pushed(ws, n, q, us, Sent(us, n, q))
<1> DEFINE rs == Sent(us, n, q)
<1>1. us \in Seq(Link) /\ n \in DOMAIN us /\ n # 0
  BY LinkAt DEF Edits, Popped
<1>2. /\ Edits(us, n, rs)
      /\ rs[n].up = Append(us[n].up, q) /\ rs[n].down = us[n].down
      /\ rs[n].state = "open" /\ rs[n].torn = us[n].torn
      /\ rs[n].boot = us[n].boot /\ rs[n].session = us[n].session
  BY <1>1, SentEffect DEF Popped
<1> HIDE DEF rs
<1>3. Edits(ws, n, rs)
  BY <1>2 DEF Edits, Popped
<1>4. Pushed(ws, n, q, us, rs)
  BY <1>2, <1>3 DEF Pushed, Popped
<1> QED BY <1>4 DEF rs

LEMMA HelloResends ==
  ASSUME SideType, LinkType, SocketInv, NEW t \in Thread, call[t] \in Running,
         NEW c \in Client, c = call[t].client, NEW n, n = Wire(c), n # 0, wires[n].down # << >>,
         NEW m, m = Head(wires[n].down),
         call[t].what = "Hello",
         client' = [client EXCEPT ![c].epoch = m.epoch],
         call' = [call EXCEPT ![t].step = "header", ![t].what = "HelloAgain"],
         wires' = Sent(Taken(n), n, [id |-> call[t].id, what |-> "HelloAgain", boot |-> c,
                                     epoch |-> m.epoch]),
         UNCHANGED <<served, calls, sharing, reattached, attempts>>
  PROVE  \E q : Resends(t, c, n, q)
<1> DEFINE q == [id |-> call[t].id, what |-> "HelloAgain", boot |-> c, epoch |-> m.epoch]
           v == [call[t] EXCEPT !.step = "header", !.what = "HelloAgain"]
           s == [client[c] EXCEPT !.epoch = m.epoch]
<1>1. /\ n \in DOMAIN wires /\ wires[n].state = "open" /\ m \in Told
      /\ Edits(wires, n, Taken(n))
      /\ Taken(n)[n].boot = wires[n].boot /\ Taken(n)[n].session = wires[n].session
      /\ Taken(n)[n].state = "open" /\ Taken(n)[n].torn = wires[n].torn
      /\ Taken(n)[n].up = wires[n].up /\ Taken(n)[n].down = Tail(wires[n].down)
  BY TakenLeaves
<1>2. q \in Asked /\ q.id = call[t].id /\ q.what = "HelloAgain" /\ q.boot = c
  BY <1>1 DEF Asked, Told, Running, Kinds
<1>3. /\ v \in Running /\ v.client = c /\ v.what = "HelloAgain" /\ v.id = call[t].id
      /\ call' = [call EXCEPT ![t] = v]
  BY DEF Running, Kinds
<1>4. /\ s \in Side /\ s.wire = client[c].wire /\ s.lock = client[c].lock
      /\ s.connected = client[c].connected /\ client' = [client EXCEPT ![c] = s]
  <2>1. client[c] \in Side /\ m.epoch \in Nat
    BY <1>1 DEF SideType, Told
  <2> QED BY <2>1 DEF Side
<1> HIDE DEF q, v, s
<1>5. wires' = Sent(Taken(n), n, q)
  BY DEF q
<1>6. /\ Edits(wires, n, wires')
      /\ wires'[n].boot = wires[n].boot /\ wires'[n].session = wires[n].session
      /\ wires'[n].state = "open" /\ wires'[n].torn = wires[n].torn
      /\ wires'[n].up = Append(wires[n].up, q) /\ wires'[n].down = Tail(wires[n].down)
  <2>1. Popped(wires, n, Taken(n)) /\ wires \in Seq(Link) /\ q \in Asked
    BY <1>1, <1>2 DEF LinkType, Popped
  <2>2. Pushed(wires, n, q, Taken(n), Sent(Taken(n), n, q))
    BY <2>1, ResentOnWire, Zenon
  <2>3. Pushed(wires, n, q, Taken(n), wires')
    BY <1>5, <2>2, Zenon
  <2> QED BY <1>1, <2>3 DEF Pushed
<1>7. /\ \A d \in Client : /\ client'[d].wire = client[d].wire
                           /\ client'[d].lock = client[d].lock
                           /\ client'[d].connected = client[d].connected
      /\ client' \in [Client -> Side]
  BY <1>4 DEF SideType
<1>8. /\ SideType'
      /\ \A u \in Thread : /\ call'[u] \in Running <=> call[u] \in Running
                           /\ call'[u].client = call[u].client
                           /\ call'[u].id = call[u].id
                           /\ u # t => call'[u].what = call[u].what
      /\ call'[t].what = "HelloAgain"
  BY <1>3, <1>7 DEF SideType
<1>9. LinkType'
  BY <1>6 DEF LinkType, Edits
<1>10. Resends(t, c, n, q)
  BY <1>1, <1>2, <1>6, <1>7, <1>8, <1>9 DEF Resends
<1> QED BY <1>10

LEMMA ResendingKeepsInv ==
  ASSUME ClientInv, NEW t \in Thread, call[t] \in Running,
         NEW c \in Client, c = call[t].client, NEW n, n = Wire(c), n # 0, wires[n].down # << >>,
         strayed' = IF Head(wires[n].down).id # call[t].id THEN strayed \cup {c} ELSE strayed,
         NEW q, Resends(t, c, n, q)
  PROVE  ClientInv'
<1> USE DEF ClientInv
<1>1. /\ q \in Asked /\ q.id = call[t].id /\ q.what = "HelloAgain" /\ q.boot = c
      /\ SideType' /\ LinkType'
      /\ call[t].what = "Hello" /\ call'[t].what = "HelloAgain"
  BY DEF Resends
<1>2. \A d \in Client : /\ client'[d].wire = client[d].wire /\ client'[d].lock = client[d].lock
                        /\ client'[d].connected = client[d].connected
  BY DEF Resends
<1>3. \A u \in Thread : /\ call'[u] \in Running <=> call[u] \in Running
                        /\ call'[u].client = call[u].client
                        /\ call'[u].id = call[u].id
                        /\ u # t => call'[u].what = call[u].what
  BY DEF Resends
<1>4. /\ Edits(wires, n, wires') /\ wires[n].state = "open"
      /\ wires'[n].boot = wires[n].boot /\ wires'[n].session = wires[n].session
      /\ wires'[n].state = "open" /\ wires'[n].torn = wires[n].torn
      /\ wires'[n].up = Append(wires[n].up, q) /\ wires'[n].down = Tail(wires[n].down)
  BY DEF Resends
<1>5. UNCHANGED <<epoch, live, fenced, calls, sharing, reattached>>
  BY DEF Resends, served
<1>6. \A d : Users(d)' = Users(d)
  <2>1. \A d : \A u \in Thread : u \in Users(d)' <=> u \in Users(d)
    BY <1>1, <1>3, InCalls, InCallsNext
  <2> QED BY <2>1 DEF Users
<1>7. RestType'
  BY <1>5 DEF RestType
<1>8. LockInv'
  <2>1. TakesLock("Hello") /\ TakesLock("HelloAgain")
    BY ClientAssumption DEF TakesLock
  <2>2. \A u \in Thread : TakesLock(call'[u].what) => TakesLock(call[u].what)
    BY <1>1, <1>3, <2>1
  <2>3. \A d : Users(d) \subseteq Thread
    BY DEF Users
  <2> QED BY <1>2, <1>6, <2>2, <2>3 DEF LockInv, TakesLock
<1>9. SocketInv'
  <2>1. n \in DOMAIN wires /\ wires[n].session
    BY <1>4 DEF SocketInv
  <2> QED BY <1>2, <1>4, <2>1, SocketsStay DEF Wire
<1>10. SessionInv'
  <2>1. \A k \in DOMAIN wires : /\ wires'[k].boot = wires[k].boot
                                /\ wires'[k].session = wires[k].session
    BY <1>4 DEF Edits
  <2>2. DOMAIN wires' = DOMAIN wires
    BY <1>4 DEF Edits
  <2> QED BY <1>5, <2>1, <2>2, SessionsStay
<1>11. ASSUME NEW d \in Client, d # c, Orderly(d) PROVE Orderly(d)'
  <2>1. /\ \A u \in Thread : u \in Users(d)' <=> u \in Users(d)
        /\ \A u \in Users(d) : call'[u].id = call[u].id /\ call'[u].what = call[u].what
    <3>1. t \notin Users(d)
      BY <1>11, InCalls
    <3> QED BY <1>3, <1>6, <3>1 DEF Users
  <2>2. Wire(d) # 0 => Wire(d) \in DOMAIN wires /\ Wire(d) # n
    BY <1>11 DEF SocketInv
  <2>3. Wire(d)' = Wire(d)
    BY <1>2 DEF Wire
  <2>4. Wire(d) # 0 => wires'[Wire(d)] = wires[Wire(d)]
    BY <1>4, <2>2 DEF Edits
  <2>5. Open(Wire(d))' => Open(Wire(d)) /\ wires'[Wire(d)] = wires[Wire(d)]
    BY <2>3, <2>4 DEF Open
  <2>6. Stands(d) => Attached(d)'
    BY <1>5 DEF Stands, Attached
  <2> QED BY <1>2, <1>11, <2>1, <2>5, <2>6, OthersStayOrderly
<1>12. ASSUME sharing[c] = "no" PROVE c \notin strayed' /\ Orderly(c)'
  <2>1. /\ Orderly(c) /\ c \notin strayed /\ ~wires[n].torn /\ Users(c) = {t}
        /\ wires[n].up = << >> /\ Tail(wires[n].down) = << >>
        /\ Head(wires[n].down).id = call[t].id
    BY <1>12, ReadsItsOwn
  <2>2. Wire(c)' = n /\ Users(c)' = {t}
    BY <1>2, <1>6, <2>1 DEF Wire
  <2>3. Append(wires[n].up, q) = <<q>>
    BY <2>1
  <2>4. wires'[n].up = <<q>> /\ wires'[n].down = << >> /\ ~wires'[n].torn
    BY <1>4, <2>1, <2>3
  <2>5. Exchange(c, t)'
    BY <1>1, <1>3, <2>2, <2>4 DEF Exchange
  <2>6. client'[c].connected => Stands(c)'
    <3>1. client[c].connected => Stands(c)
      BY <1>4, <2>1 DEF Orderly, Open
    <3>2. Stands(c) => Stands(c)'
      BY <1>4, <1>5, <2>2 DEF Stands, Attached
    <3> QED BY <1>2, <3>1, <3>2
  <2> QED BY <2>1, <2>2, <2>4, <2>5, <2>6 DEF Orderly
<1>13. PipeInv'
  <2>1. \A d \in Client : d # c => (d \in strayed' <=> d \in strayed)
    OBVIOUS
  <2> QED BY <1>5, <1>11, <1>12, <2>1 DEF PipeInv
<1> QED BY <1>1, <1>7, <1>8, <1>9, <1>10, <1>13

\* A frame is read to its end.
LEMMA BodyStep ==
  ASSUME ClientInv, NEW t \in Thread, ReadBody(t)
  PROVE  ClientInv'
<1> USE DEF ClientInv
<1>1. call[t] \in Running /\ call[t].step = "body"
  <2>1. call[t].step = "body"
    BY DEF ReadBody, In
  <2> QED BY <2>1, InCalls DEF In
<1>2. PICK c \in Client : c = call[t].client
  BY <1>1 DEF Running
<1>3. PICK n : n = Wire(c)
  OBVIOUS
<1>4. PICK m : m = Head(wires[n].down)
  OBVIOUS
<1>5. n # 0 /\ wires[n].down # << >>
  BY <1>2, <1>3 DEF ReadBody
<1>6. CASE wires[n].torn /\ Fail(t, TRUE)
  <2>1. sharing[c] # "no"
    BY <1>1, <1>2, <1>3, <1>5, <1>6, ReadsItsOwn
  <2> QED BY <1>1, <1>2, <1>6, <2>1, FailStep
<1>7. CASE Take(t, m)
  <2> DEFINE what == call[t].what
             again == what = "Hello" /\ m.code = "StaleEpoch"
  <2>1. /\ strayed' = IF m.id # call[t].id THEN strayed \cup {c} ELSE strayed
        /\ UNCHANGED <<served, calls, sharing, reattached, attempts>>
        /\ \/ /\ what \in Request
              /\ End(t, c, client[c].connected, TRUE, client[c].epoch) /\ wires' = Taken(n)
           \/ /\ what = "Bye"
              /\ End(t, c, FALSE, FALSE, client[c].epoch) /\ wires' = Closed(Taken(n), n)
           \/ /\ again
              /\ client' = [client EXCEPT ![c].epoch = m.epoch]
              /\ call' = [call EXCEPT ![t].step = "header", ![t].what = "HelloAgain"]
              /\ wires' = Sent(Taken(n), n, [id |-> call[t].id, what |-> "HelloAgain", boot |-> c,
                                             epoch |-> m.epoch])
           \/ /\ what \in {"Hello", "HelloAgain"} /\ ~again
              /\ End(t, c, Welcome(m.code), Welcome(m.code), m.epoch)
              /\ wires' = IF Welcome(m.code) THEN Taken(n) ELSE Closed(Taken(n), n)
    BY <1>2, <1>3, <1>7 DEF Take
  <2>2. client[c] \in Side /\ m \in Told
    BY <1>3, <1>4, <1>5, TakenLeaves DEF SideType
  <2>3. client[c].connected \in BOOLEAN /\ client[c].epoch \in Nat /\ m.epoch \in Nat
        /\ Welcome(m.code) \in BOOLEAN
    BY <2>2 DEF Side, Told, Welcome
  <2>4. sharing[c] = "no" /\ client[c].connected => Stands(c)
    BY <1>3, <1>5, ReadableIsOpen DEF PipeInv, Orderly
  <2>5. CASE what \in Request
    <3>1. End(t, c, client[c].connected, TRUE, client[c].epoch) /\ wires' = Taken(n)
      BY <2>1, <2>5, ClientAssumption
    <3>2. wires' = IF TRUE THEN Taken(n) ELSE Closed(Taken(n), n)
      BY <3>1
    <3> QED BY <1>1, <1>2, <1>3, <1>4, <1>5, <2>1, <2>3, <2>4, <3>1, <3>2, TakeEnds
  <2>6. CASE what = "Bye"
    <3>1. End(t, c, FALSE, FALSE, client[c].epoch) /\ wires' = Closed(Taken(n), n)
      BY <2>1, <2>6, ClientAssumption
    <3>2. wires' = IF FALSE THEN Taken(n) ELSE Closed(Taken(n), n)
      BY <3>1
    <3> QED BY <1>1, <1>2, <1>3, <1>4, <1>5, <2>1, <2>3, <3>1, <3>2, TakeEnds
  <2>7. CASE /\ again
             /\ client' = [client EXCEPT ![c].epoch = m.epoch]
             /\ call' = [call EXCEPT ![t].step = "header", ![t].what = "HelloAgain"]
             /\ wires' = Sent(Taken(n), n, [id |-> call[t].id, what |-> "HelloAgain", boot |-> c,
                                            epoch |-> m.epoch])
    <3>1. \E q : Resends(t, c, n, q)
      BY <1>1, <1>2, <1>3, <1>4, <1>5, <2>1, <2>7, HelloResends
    <3> QED BY <1>1, <1>2, <1>3, <1>4, <1>5, <2>1, <3>1, ResendingKeepsInv
  <2>8. CASE /\ what \in {"Hello", "HelloAgain"}
             /\ End(t, c, Welcome(m.code), Welcome(m.code), m.epoch)
             /\ wires' = IF Welcome(m.code) THEN Taken(n) ELSE Closed(Taken(n), n)
    <3>1. sharing[c] = "no" /\ Welcome(m.code) => Stands(c)
      BY <1>1, <1>2, <1>3, <1>4, <1>5, <2>8, ReadsItsOwn DEF Hellos
    <3> QED BY <1>1, <1>2, <1>3, <1>4, <1>5, <2>1, <2>3, <2>8, <3>1, TakeEnds
  <2> QED BY <2>1, <2>5, <2>6, <2>7, <2>8
<1> QED BY <1>2, <1>3, <1>4, <1>6, <1>7 DEF ReadBody

LEMMA ReadFailsStep ==
  ASSUME ClientInv, NEW t \in Thread, ReadFails(t)
  PROVE  ClientInv'
<1>1. call[t] \in Running
  BY InCalls DEF ReadFails, ClientInv
<1> QED BY <1>1, FailStep DEF ReadFails

(***************************************************************************)
(* The beginning of a call.                                                *)
(***************************************************************************)
Starts(t, c, what) ==
  /\ SideType' /\ calls' \in Nat
  /\ call[t] = Idle /\ call'[t] \in Running
  /\ call'[t].client = c /\ call'[t].what = what /\ call'[t].id = calls
  /\ \A u \in Thread \ {t} : call'[u] = call[u]
  /\ TakesLock(what) => client[c].lock = None
  /\ client'[c].lock = Holder(t, c, what) /\ client'[c].connected = client[c].connected
  /\ \A d \in Client \ {c} : client'[d] = client[d]

LEMMA BeginStarts ==
  ASSUME SideType, RestType, NEW t \in Thread, NEW c \in Client, NEW what \in Kinds,
         Begin(t, c, what), NEW n \in Nat, NEW lock \in Thread \cup {None},
         lock = Holder(t, c, what),
         client' = [client EXCEPT ![c] = [client[c] EXCEPT !.lock = lock, !.wire = n]]
  PROVE  Starts(t, c, what) /\ client'[c].wire = n
<1> DEFINE v == [step |-> "header", client |-> c, what |-> what, id |-> calls]
           s == [client[c] EXCEPT !.lock = lock, !.wire = n]
<1>1. /\ call[t] = Idle /\ calls' \in Nat /\ call' = [call EXCEPT ![t] = v]
      /\ TakesLock(what) => client[c].lock = None
  BY InCalls DEF Begin, RestType
<1>2. v \in Running /\ v.client = c /\ v.what = what /\ v.id = calls
  BY DEF Running, RestType
<1>3. client[c] \in Side /\ client' = [client EXCEPT ![c] = s]
  BY DEF SideType
<1>4. s \in Side /\ s.lock = lock /\ s.wire = n /\ s.connected = client[c].connected
  BY <1>3 DEF Side
<1> HIDE DEF v, s
<1>5. call' \in [Thread -> Running \cup {Idle}] /\ client' \in [Client -> Side]
  BY <1>1, <1>2, <1>3, <1>4 DEF SideType
<1>6. /\ call'[t] = v /\ client'[c] = s
      /\ \A u \in Thread \ {t} : call'[u] = call[u]
      /\ \A d \in Client \ {c} : client'[d] = client[d]
  BY <1>1, <1>3 DEF SideType
<1> QED BY <1>1, <1>2, <1>4, <1>5, <1>6 DEF Starts, SideType

LEMMA StartsUsers ==
  ASSUME SideType, NEW t \in Thread, NEW c, NEW what, Starts(t, c, what)
  PROVE  \A d : t \notin Users(d) /\ Users(d)' = IF d = c THEN Users(d) \cup {t} ELSE Users(d)
<1>1. Idle \notin Running
  BY DEF Idle, Running
<1>2. /\ SideType' /\ call[t] = Idle /\ call'[t] \in Running /\ call'[t].client = c
      /\ \A u \in Thread \ {t} : call'[u] = call[u]
  BY DEF Starts
<1>3. \A d : \A u \in Thread : u \in Users(d)' <=> u \in Users(d) \/ (u = t /\ d = c)
  BY <1>1, <1>2, InCalls, InCallsNext
<1>4. \A d : t \notin Users(d)
  BY <1>1, <1>2, InCalls
<1>5. \A d : Users(d) \subseteq Thread /\ Users(d)' \subseteq Thread
  BY DEF Users
<1> QED BY <1>3, <1>4, <1>5

\* A call that overlaps no other begins alone: whoever is on the same client takes
\* the mutex, and the mutex is free.
LEMMA StartsAlone ==
  ASSUME SideType, LockInv, NEW t \in Thread, NEW c \in Client, NEW what, Starts(t, c, what),
         ~Overlaps(c, what)
  PROVE  Users(c) = {}
<1> SUFFICES ASSUME NEW u \in Users(c) PROVE FALSE
  OBVIOUS
<1>1. TakesLock(what) /\ TakesLock(call[u].what)
  BY DEF Overlaps, TakesLock
<1>2. client[c].lock = None /\ client[c].lock = u /\ u \in Thread
  BY <1>1 DEF Starts, LockInv, Users
<1> QED BY <1>2, ClientAssumption

LEMMA StartsLocks ==
  ASSUME SideType, LockInv, NEW t \in Thread, NEW c \in Client, NEW what, Starts(t, c, what)
  PROVE  LockInv'
<1>1. /\ call'[t].what = what /\ \A u \in Thread \ {t} : call'[u] = call[u]
      /\ TakesLock(what) => client[c].lock = None
      /\ client'[c].lock = IF TakesLock(what) THEN t ELSE client[c].lock
      /\ \A d \in Client \ {c} : client'[d] = client[d]
  BY DEF Starts, Holder
<1>2. \A d : t \notin Users(d) /\ Users(d)' = IF d = c THEN Users(d) \cup {t} ELSE Users(d)
  BY StartsUsers
<1>3. \A d : Users(d) \subseteq Thread
  BY DEF Users
<1>4. ASSUME NEW d \in Client
      PROVE  /\ client'[d].lock \in {None} \cup Users(d)'
             /\ \A u \in Users(d)' : TakesLock(call'[u].what) => client'[d].lock = u
  <2>1. /\ client[d].lock \in {None} \cup Users(d)
        /\ \A u \in Users(d) : TakesLock(call[u].what) => client[d].lock = u
    BY DEF LockInv
  <2>2. CASE d # c
    BY <1>1, <1>2, <1>3, <2>1, <2>2
  <2>3. CASE d = c /\ TakesLock(what)
    <3>1. client'[d].lock = t /\ Users(d)' = Users(d) \cup {t}
      BY <1>1, <1>2, <2>3
    <3>2. \A u \in Users(d) : ~TakesLock(call'[u].what)
      BY <1>1, <1>2, <1>3, <2>1, <2>3, ClientAssumption
    <3> QED BY <3>1, <3>2
  <2>4. CASE d = c /\ ~TakesLock(what)
    <3>1. client'[d].lock = client[d].lock /\ Users(d)' = Users(d) \cup {t}
      BY <1>1, <1>2, <2>4
    <3>2. ~TakesLock(call'[t].what)
      BY <1>1, <2>4
    <3>3. \A u \in Users(d) : call'[u] = call[u]
      BY <1>1, <1>2, <1>3
    <3> QED BY <2>1, <3>1, <3>2, <3>3
  <2> QED BY <2>2, <2>3, <2>4
<1> QED BY <1>4 DEF LockInv, TakesLock

LEMMA StartsOthers ==
  ASSUME SideType, SocketInv, NEW t \in Thread, NEW c \in Client, NEW what, Starts(t, c, what),
         NEW d \in Client, d # c, Orderly(d),
         Wire(d) # 0 => wires'[Wire(d)] = wires[Wire(d)],
         UNCHANGED <<live, fenced, reattached>>
  PROVE  Orderly(d)'
<1>1. client'[d] = client[d]
  BY DEF Starts
<1>2. Users(d)' = Users(d) /\ t \notin Users(d)
  BY StartsUsers
<1>3. \A u \in Users(d) : call'[u].id = call[u].id /\ call'[u].what = call[u].what
  BY <1>2 DEF Starts, Users
<1>4. Open(Wire(d))' => Open(Wire(d)) /\ wires'[Wire(d)] = wires[Wire(d)]
  BY <1>1 DEF Open, Wire
<1>5. Stands(d) => Attached(d)'
  BY DEF Stands, Attached
<1> QED BY <1>1, <1>2, <1>3, <1>4, <1>5, OthersStayOrderly

LEMMA CallStep ==
  ASSUME ClientInv, NEW t \in Thread, NEW c \in Client, NEW what, Call(t, c, what)
  PROVE  ClientInv'
<1> USE DEF ClientInv
<1> DEFINE q == Message(c, what, calls)
<1>1. PICK n : n = Wire(c)
  OBVIOUS
<1>2. /\ what \in Request \cup {"Bye"} /\ n # 0 /\ Begin(t, c, what)
      /\ wires' = Sent(wires, n, q)
      /\ client' = [client EXCEPT ![c].lock = Holder(t, c, what)]
      /\ sharing' = [sharing EXCEPT ![c] = IF Overlaps(c, what) /\ @ = "no" THEN "shared" ELSE @]
      /\ UNCHANGED <<epoch, live, fenced, strayed, reattached>>
  BY <1>1 DEF Call, served
<1>3. what \in Kinds /\ client[c] \in Side /\ n \in Nat /\ n \in DOMAIN wires
  BY <1>1, <1>2 DEF Kinds, SideType, Side, SocketInv, Wire
<1>4. q \in Asked /\ q.id = calls /\ q.what = what /\ q.boot = c
  BY <1>3 DEF Message, Asked, Side, RestType
<1>5. Holder(t, c, what) \in Thread \cup {None}
  BY <1>3 DEF Holder, Side
<1>6. Starts(t, c, what) /\ client'[c].wire = n
  <2> DEFINE lock == Holder(t, c, what)
  <2>1. client' = [client EXCEPT ![c].lock = lock]
    BY <1>2
  <2> HIDE DEF lock
  <2>2. [client[c] EXCEPT !.lock = lock] = [client[c] EXCEPT !.lock = lock, !.wire = n]
    BY <1>1, <1>3 DEF Side, Wire
  <2>3. client' = [client EXCEPT ![c] = [client[c] EXCEPT !.lock = lock, !.wire = n]]
    BY <2>1, <2>2
  <2>4. lock \in Thread \cup {None} /\ lock = Holder(t, c, what)
    BY <1>5 DEF lock
  <2>5. what \in Kinds /\ Begin(t, c, what) /\ n \in Nat
    BY <1>2, <1>3
  <2> QED BY <2>3, <2>4, <2>5, BeginStarts, ZenonT(30)
<1> HIDE DEF q
<1>7. /\ Edits(wires, n, wires')
      /\ wires'[n].up = IF wires[n].state = "open" THEN Append(wires[n].up, q) ELSE wires[n].up
      /\ wires'[n].down = wires[n].down /\ wires'[n].state = wires[n].state
      /\ wires'[n].torn = wires[n].torn /\ wires'[n].boot = wires[n].boot
      /\ wires'[n].session = wires[n].session
  BY <1>2, <1>3, <1>4, SentEffect DEF LinkType
<1>8. SideType' /\ LinkType' /\ RestType'
  BY <1>2, <1>6, <1>7 DEF Starts, LinkType, Edits, RestType
<1>9. \A d \in Client : client'[d].wire = client[d].wire
  BY <1>1, <1>6 DEF Starts, Wire
<1>10. SocketInv'
  <2>1. wires[n].state = "open" => wires[n].session
    BY <1>3 DEF SocketInv
  <2>2. wires[n].state # "closed"
    BY <1>1, <1>2 DEF SocketInv
  <2> QED BY <1>1, <1>7, <1>9, <2>1, <2>2, SocketsStay DEF Wire
<1>11. SessionInv'
  <2>1. \A k \in DOMAIN wires : /\ wires'[k].boot = wires[k].boot
                                /\ wires'[k].session = wires[k].session
    BY <1>7 DEF Edits
  <2>2. DOMAIN wires' = DOMAIN wires
    BY <1>7 DEF Edits
  <2> QED BY <1>2, <2>1, <2>2, SessionsStay
<1>12. ASSUME NEW d \in Client, d # c, Orderly(d) PROVE Orderly(d)'
  <2>1. Wire(d) # 0 => Wire(d) \in DOMAIN wires /\ Wire(d) # n
    BY <1>1, <1>12 DEF SocketInv
  <2>2. Wire(d) # 0 => wires'[Wire(d)] = wires[Wire(d)]
    BY <1>7, <2>1 DEF Edits
  <2> QED BY <1>2, <1>6, <1>12, <2>2, StartsOthers
<1>13. sharing' \in [Client -> {"no", "shared", "crossed"}]
       /\ (sharing'[c] = "no" => sharing[c] = "no" /\ ~Overlaps(c, what))
       /\ \A d \in Client \ {c} : sharing'[d] = sharing[d]
  BY <1>2 DEF RestType
<1>14. ASSUME sharing[c] = "no", ~Overlaps(c, what) PROVE Orderly(c)'
  <2>1. Orderly(c) /\ Users(c) = {}
    BY <1>6, <1>14, StartsAlone DEF PipeInv
  <2>2. Users(c)' = {t} /\ Wire(c)' = n
    BY <1>6, <2>1, StartsUsers DEF Wire
  <2>3. Open(Wire(c))' => Open(n)
    BY <1>7, <2>2 DEF Open
  <2>4. Open(n) => wires'[n].up = <<q>> /\ wires'[n].down = << >> /\ ~wires'[n].torn
    <3>1. Append(<< >>, q) = <<q>>
      OBVIOUS
    <3>2. Open(n) => wires[n].state = "open" /\ wires[n].up = << >> /\ wires[n].down = << >>
                     /\ ~wires[n].torn
      BY <1>1, <2>1 DEF Orderly, Open
    <3> QED BY <1>7, <3>1, <3>2
  <2>5. call'[t].id = calls /\ call'[t].what = what
    BY <1>6 DEF Starts
  <2>6. Open(n) => Exchange(c, t)'
    BY <1>4, <2>2, <2>4, <2>5 DEF Exchange
  <2>7. Open(n) /\ client'[c].connected => Stands(c)'
    <3>1. client'[c].connected = client[c].connected
      BY <1>6 DEF Starts
    <3>2. Open(n) /\ client[c].connected => Stands(c)
      BY <1>1, <2>1 DEF Orderly
    <3> QED BY <1>1, <1>2, <1>7, <2>2, <3>1, <3>2 DEF Stands, Attached
  <2> QED BY <2>2, <2>3, <2>4, <2>6, <2>7 DEF Orderly
<1>15. PipeInv'
  BY <1>2, <1>12, <1>13, <1>14 DEF PipeInv
<1>16. LockInv'
  BY <1>6, StartsLocks
<1> QED BY <1>8, <1>10, <1>11, <1>13, <1>15, <1>16 DEF RestType

\* What connect does to the connections: the old one of the client is closed, and
\* a new one carries the Hello.
Connects(c, n, q) ==
  /\ wires' \in Seq(Link) /\ DOMAIN wires' = DOMAIN wires \cup {n}
  /\ n \in Nat \ {0} /\ n \notin DOMAIN wires
  /\ \A k \in DOMAIN wires : /\ k # Wire(c) => wires'[k] = wires[k]
                             /\ wires'[k].boot = wires[k].boot
                             /\ wires'[k].session = wires[k].session
                             /\ wires'[k].down = wires[k].down
                             /\ wires'[k].state = "open" => wires[k].state = "open"
                             /\ wires'[k].state = "lost" => wires[k].state = "lost"
  /\ wires'[n].up = <<q>> /\ wires'[n].down = << >> /\ wires'[n].state = "open"
  /\ ~wires'[n].torn /\ wires'[n].boot = None /\ wires'[n].session

LEMMA ConnectOnWire ==
  ASSUME LinkType, NEW c, Wire(c) \in DOMAIN wires \cup {0}, NEW q \in Asked,
         NEW n, n = Len(wires) + 1,
         wires' = Sent(Append(Closed(wires, Wire(c)), NewWire), n, q)
  PROVE  Connects(c, n, q)
<1> DEFINE old == Wire(c)
           cs == Closed(wires, old)
           as == Append(cs, NewWire)
<1>1. /\ wires \in Seq(Link) /\ n \in Nat \ {0} /\ n \notin DOMAIN wires
      /\ old \in DOMAIN wires \cup {0} /\ wires' = Sent(as, n, q)
  <2> HIDE DEF Link
  <2> QED BY DEF LinkType
<1> HIDE DEF old
<1>2. /\ Edits(wires, old, cs)
      /\ old # 0 => /\ cs[old].state # "open" /\ cs[old].down = wires[old].down
                    /\ (cs[old].state = "lost" => wires[old].state = "lost")
                    /\ cs[old].boot = wires[old].boot /\ cs[old].session = wires[old].session
  BY <1>1, ClosedEffect
<1>3. NewWire \in Link /\ NewWire.up = << >> /\ NewWire.down = << >> /\ NewWire.state = "open"
      /\ NewWire.torn = FALSE /\ NewWire.boot = None /\ NewWire.session = TRUE
  BY DEF NewWire, Link
<1> HIDE DEF cs
<1>4. /\ as \in Seq(Link) /\ DOMAIN as = DOMAIN wires \cup {n} /\ as[n] = NewWire
      /\ \A k \in DOMAIN wires : as[k] = cs[k]
  <2>1. cs \in Seq(Link) /\ Len(cs) = Len(wires) /\ NewWire \in Link
    BY <1>2, <1>3 DEF Edits
  <2> QED BY <1>1, <2>1
<1> HIDE DEF as
<1>5. /\ Edits(as, n, wires') /\ wires'[n].down = << >> /\ wires'[n].state = "open"
      /\ wires'[n].torn = FALSE /\ wires'[n].boot = None /\ wires'[n].session = TRUE
      /\ wires'[n].up = Append(<< >>, q)
  <2>1. as \in Seq(Link) /\ n \in DOMAIN as \cup {0} /\ n # 0
    BY <1>1, <1>4
  <2>2. /\ as[n].up = << >> /\ as[n].down = << >> /\ as[n].state = "open"
        /\ as[n].torn = FALSE /\ as[n].boot = None /\ as[n].session = TRUE
    BY <1>3, <1>4
  <2>3. /\ Edits(as, n, Sent(as, n, q))
        /\ Sent(as, n, q)[n].up = IF as[n].state = "open" THEN Append(as[n].up, q) ELSE as[n].up
        /\ Sent(as, n, q)[n].down = as[n].down /\ Sent(as, n, q)[n].state = as[n].state
        /\ Sent(as, n, q)[n].torn = as[n].torn /\ Sent(as, n, q)[n].boot = as[n].boot
        /\ Sent(as, n, q)[n].session = as[n].session
    BY <2>1, SentEffect, ZenonT(30)
  <2> QED BY <1>1, <2>2, <2>3
<1>6. \A k \in DOMAIN wires : wires'[k] = cs[k]
  BY <1>1, <1>4, <1>5 DEF Edits
<1>7. ASSUME NEW k \in DOMAIN wires
      PROVE  /\ k # old => wires'[k] = wires[k]
             /\ wires'[k].boot = wires[k].boot /\ wires'[k].session = wires[k].session
             /\ wires'[k].down = wires[k].down
             /\ wires'[k].state = "open" => wires[k].state = "open"
             /\ wires'[k].state = "lost" => wires[k].state = "lost"
  <2>1. k # 0
    BY <1>1, LinkAt
  <2>2. CASE k = old
    BY <1>2, <1>6, <2>1, <2>2
  <2>3. CASE k # old
    BY <1>2, <1>6, <2>3 DEF Edits
  <2> QED BY <2>2, <2>3
<1>8. Append(<< >>, q) = <<q>>
  OBVIOUS
<1> QED BY <1>1, <1>4, <1>5, <1>7, <1>8 DEF Connects, Edits, old

LEMMA ConnectKeepsSockets ==
  ASSUME SideType, SocketInv, NEW c \in Client, NEW n, NEW q, Connects(c, n, q),
         client'[c].wire = n, \A d \in Client \ {c} : client'[d].wire = client[d].wire
  PROVE  SocketInv'
<1>1. /\ DOMAIN wires' = DOMAIN wires \cup {n} /\ n \notin DOMAIN wires /\ n # 0
      /\ wires'[n].state = "open" /\ wires'[n].session
      /\ \A k \in DOMAIN wires : /\ k # Wire(c) => wires'[k] = wires[k]
                                 /\ wires'[k].session = wires[k].session
                                 /\ wires'[k].down = wires[k].down
                                 /\ wires'[k].state = "open" => wires[k].state = "open"
                                 /\ wires'[k].state = "lost" => wires[k].state = "lost"
  BY DEF Connects
<1>2. ASSUME NEW d \in Client, client'[d].wire # 0
      PROVE  client'[d].wire \in DOMAIN wires' /\ wires'[client'[d].wire].state # "closed"
  <2>1. CASE d = c
    BY <1>1, <2>1
  <2>2. CASE d # c
    <3>1. client'[d].wire = Wire(d) /\ Wire(d) \in DOMAIN wires /\ Wire(d) # Wire(c)
          /\ wires[Wire(d)].state # "closed"
      BY <1>2, <2>2 DEF SocketInv, Wire
    <3> QED BY <1>1, <3>1
  <2> QED BY <2>1, <2>2
<1>3. ASSUME NEW d \in Client, NEW e \in Client, client'[d].wire = client'[e].wire,
             client'[d].wire # 0
      PROVE  d = e
  <2>1. \A f \in Client \ {c} : client'[f].wire = Wire(f) /\ (Wire(f) # 0 => Wire(f) \in DOMAIN wires)
    BY DEF SocketInv, Wire
  <2> QED BY <1>1, <1>3, <2>1 DEF SocketInv
<1>4. ASSUME NEW k \in DOMAIN wires'
      PROVE  /\ wires'[k].state = "lost" => wires'[k].down = << >>
             /\ wires'[k].state = "open" => wires'[k].session
  BY <1>1, <1>4 DEF SocketInv
<1> QED BY <1>2, <1>3, <1>4 DEF SocketInv, Wire

LEMMA ConnectStep ==
  ASSUME ClientInv, NEW t \in Thread, NEW c \in Client, Connect(t, c)
  PROVE  ClientInv'
<1> USE DEF ClientInv
<1> DEFINE q == Message(c, "Hello", calls)
<1>1. PICK n : n = Len(wires) + 1
  OBVIOUS
<1>2. /\ ~client[c].connected /\ Begin(t, c, "Hello")
      /\ wires' = Sent(Append(Closed(wires, Wire(c)), NewWire), n, q)
      /\ client' = [client EXCEPT ![c].lock = t, ![c].wire = n]
      /\ sharing' = [sharing EXCEPT ![c] = IF Overlaps(c, "Hello") THEN "crossed" ELSE "no"]
      /\ strayed' = IF Overlaps(c, "Hello") THEN strayed ELSE strayed \ {c}
      /\ UNCHANGED <<epoch, live, fenced, reattached>>
  BY <1>1 DEF Connect, served
<1>3. "Hello" \in Kinds /\ client[c] \in Side /\ Wire(c) \in DOMAIN wires \cup {0}
  BY DEF Kinds, SideType, SocketInv
<1>4. q \in Asked /\ q.id = calls /\ q.what = "Hello" /\ q.boot = c
  BY <1>3 DEF Message, Asked, Side, RestType
<1>5. TakesLock("Hello") /\ Holder(t, c, "Hello") = t
  BY ClientAssumption DEF TakesLock, Holder
<1> HIDE DEF q
<1>6. Connects(c, n, q)
  BY <1>1, <1>2, <1>3, <1>4, ConnectOnWire
<1>7. Starts(t, c, "Hello") /\ client'[c].wire = n
  <2>1. client' = [client EXCEPT ![c] = [client[c] EXCEPT !.lock = t, !.wire = n]]
    BY <1>2 DEF SideType
  <2>2. n \in Nat
    BY <1>6 DEF Connects
  <2>3. "Hello" \in Kinds /\ Begin(t, c, "Hello") /\ t \in Thread \cup {None}
        /\ t = Holder(t, c, "Hello")
    BY <1>2, <1>3, <1>5
  <2> QED BY <2>1, <2>2, <2>3, BeginStarts, ZenonT(30)
<1>8. SideType' /\ LinkType' /\ RestType'
  BY <1>2, <1>6, <1>7 DEF Starts, LinkType, Connects, RestType
<1>9. LockInv'
  BY <1>7, StartsLocks
<1>10. \A d \in Client \ {c} : client'[d] = client[d]
  BY <1>7 DEF Starts
<1>11. SocketInv'
  BY <1>6, <1>7, <1>10, ConnectKeepsSockets
<1>12. SessionInv'
  BY <1>2, <1>6, SessionsStay DEF Connects
<1>13. ASSUME NEW d \in Client, d # c, Orderly(d) PROVE Orderly(d)'
  <2>1. Wire(d) # 0 => Wire(d) \in DOMAIN wires /\ Wire(d) # Wire(c)
    BY <1>13 DEF SocketInv
  <2>2. Wire(d) # 0 => wires'[Wire(d)] = wires[Wire(d)]
    BY <1>6, <2>1 DEF Connects
  <2> QED BY <1>2, <1>7, <1>13, <2>2, StartsOthers
<1>14. /\ ~Overlaps(c, "Hello") => c \notin strayed'
       /\ sharing'[c] = "no" => ~Overlaps(c, "Hello")
       /\ \A d \in Client \ {c} : sharing'[d] = sharing[d] /\ (d \in strayed' => d \in strayed)
  BY <1>2 DEF RestType
<1>15. ASSUME ~Overlaps(c, "Hello") PROVE Orderly(c)'
  <2>1. Users(c)' = {t} /\ Wire(c)' = n
    BY <1>7, <1>15, StartsAlone, StartsUsers DEF Wire
  <2>2. call'[t].id = calls /\ call'[t].what = "Hello" /\ ~client'[c].connected
    BY <1>2, <1>7 DEF Starts
  <2>3. wires'[n].up = <<q>> /\ wires'[n].down = << >> /\ ~wires'[n].torn
    BY <1>6 DEF Connects
  <2>4. Exchange(c, t)'
    BY <1>4, <2>1, <2>2, <2>3 DEF Exchange
  <2> QED BY <2>1, <2>2, <2>3, <2>4 DEF Orderly
<1>16. PipeInv'
  BY <1>13, <1>14, <1>15 DEF PipeInv
<1> QED BY <1>8, <1>9, <1>11, <1>12, <1>16

(***************************************************************************)
(* The coordinator.                                                        *)
(***************************************************************************)
\* The coordinator's steps leave clients and calls alone.
LEMMA ServedRest ==
  ASSUME SideType, LockInv, UNCHANGED <<client, call>>
  PROVE  SideType' /\ LockInv' /\ \A d : Users(d)' = Users(d) /\ Wire(d)' = Wire(d)
BY DEF SideType, LockInv, Users, In, Wire, TakesLock

LEMMA ServedOthers ==
  ASSUME SideType, SocketInv, UNCHANGED <<client, call>>, NEW d \in Client, Orderly(d),
         Open(Wire(d))' => /\ Open(Wire(d)) /\ wires'[Wire(d)] = wires[Wire(d)]
                           /\ Stands(d) => Attached(d)'
  PROVE  Orderly(d)'
<1>1. \A t \in Thread : t \in Users(d)' <=> t \in Users(d)
  BY DEF Users, In
<1> QED BY <1>1, OthersStayOrderly

LEMMA ServedSockets ==
  ASSUME SocketInv, LinkType, UNCHANGED client, NEW n \in DOMAIN wires, Edits(wires, n, wires'),
         wires[n].state = "closed" \/ wires'[n].state # "closed",
         wires'[n].state = "lost" => wires'[n].down = << >>,
         wires'[n].state = "open" => wires'[n].session
  PROVE  SocketInv'
BY DEF SocketInv, Edits, Wire

\* attach_worker answers well only if it attached the incarnation; whoever was
\* attached before is then fenced, as reincarnated.
LEMMA AttachEffect ==
  ASSUME RestType, SessionInv, NEW n, NEW m \in Asked, NEW code, Attach(n, m, code)
  PROVE  /\ live' \subseteq Client
         /\ (\A d, e \in live' : d = e) /\ live' \cap DOMAIN fenced' = {}
         /\ live \cup DOMAIN fenced \subseteq live' \cup DOMAIN fenced'
         /\ DOMAIN fenced \subseteq DOMAIN fenced' /\ reattached \subseteq reattached'
         /\ \A d \in Client : Attached(d) => Attached(d)'
         /\ code \in {"Committed", "Idempotent"} =>
              /\ m.boot \in live'
              /\ m.boot \in live \cup DOMAIN fenced => m.boot \in reattached'
<1> DEFINE b == m.boot
<1>1. b \in Client /\ live \subseteq Client /\ live \cap DOMAIN fenced = {}
  BY DEF Asked, RestType, SessionInv
<1>2. CASE code \notin {"Committed", "Idempotent"} /\ UNCHANGED <<live, fenced, reattached>>
  BY <1>1, <1>2 DEF RestType, Attached, SessionInv
<1>3. CASE /\ b \notin DOMAIN fenced /\ live' = {b}
           /\ fenced' = [f \in DOMAIN fenced \cup (live \ {b}) |->
                           IF f \in DOMAIN fenced THEN fenced[f] ELSE "Reincarnated"]
           /\ reattached' = IF b \in live THEN reattached \cup {b} ELSE reattached
  <2>1. \A d, e \in live' : d = e
    BY <1>3
  <2>2. DOMAIN fenced' = DOMAIN fenced \cup (live \ {b})
        /\ \A f \in DOMAIN fenced' : fenced'[f] = IF f \in DOMAIN fenced THEN fenced[f] ELSE "Reincarnated"
    BY <1>3
  <2> HIDE DEF b
  <2>3. live' \cap DOMAIN fenced' = {} /\ live \cup DOMAIN fenced \subseteq live' \cup DOMAIN fenced'
        /\ reattached \subseteq reattached' /\ b \in live' /\ live' \subseteq Client
        /\ (b \in live \cup DOMAIN fenced => b \in reattached')
    BY <1>1, <1>3, <2>2
  <2>4. ASSUME NEW d \in Client, Attached(d) PROVE Attached(d)'
    BY <1>1, <1>3, <2>2, <2>4 DEF Attached
  <2> QED BY <2>1, <2>2, <2>3, <2>4 DEF b
<1> QED BY <1>2, <1>3 DEF Attach

\* What an answered request leaves of the connection n.
Serves(n, m, a) ==
  /\ m \in Asked /\ a \in Told /\ a.id = m.id /\ wires[n].up # << >> /\ m = Head(wires[n].up)
  /\ Edits(wires, n, wires')
  /\ wires'[n].up = Tail(wires[n].up)
  /\ wires'[n].down = IF wires[n].state = "open" THEN Append(wires[n].down, a) ELSE wires[n].down
  /\ wires'[n].state = wires[n].state /\ wires'[n].torn = wires[n].torn
  /\ wires'[n].session = wires[n].session
  /\ wires'[n].boot = IF m.what \in Hellos /\ a.code \in {"Committed", "Idempotent"}
                      THEN m.boot ELSE wires[n].boot
  /\ IF m.what \in Hellos THEN Attach(n, m, a.code) ELSE UNCHANGED <<live, fenced, reattached>>
  /\ wires[n].session /\ wires[n].state # "lost"
  /\ UNCHANGED <<client, call, epoch, calls, sharing, strayed>>

LEMMA ServeServes ==
  ASSUME LinkType, RestType, NEW n \in DOMAIN wires, Serve(n)
  PROVE  \E m, a : Serves(n, m, a)
<1>1. PICK m : m = Head(wires[n].up)
  OBVIOUS
<1>2. /\ wires[n] \in Link /\ wires[n].up \in Seq(Asked) /\ wires[n].down \in Seq(Told) /\ n # 0
      /\ wires[n].up # << >> /\ wires[n].session /\ wires[n].state # "lost"
      /\ wires[n].boot \in Client \cup {None}
  BY LinkAt DEF Serve, LinkType
<1>3. m \in Asked
  BY <1>1, <1>2
<1> DEFINE M == Head(wires[n].up)
<1>16. PICK code \in Codes :
         /\ \/ /\ M.what \in {"Hello", "HelloAgain"}
               /\ Attach(n, M, code) /\ UNCHANGED attempts
            \/ /\ M.what = "Bye" /\ code = "Committed"
               /\ UNCHANGED <<live, fenced, reattached, attempts>>
            \/ /\ M.what \in Request
               /\ Execute(M.what, M.boot \in live /\ M.epoch = epoch, code)
               /\ UNCHANGED <<live, fenced, reattached>>
         /\ wires' = [wires EXCEPT
              ![n].up = Tail(@),
              ![n].down = IF Open(n) THEN Append(@, [id |-> M.id, code |-> code, epoch |-> epoch])
                          ELSE @,
              ![n].boot = IF M.what \in {"Hello", "HelloAgain"}
                             /\ code \in {"Committed", "Idempotent"} THEN M.boot ELSE @]
  BY Zenon DEF Serve, Codes
<1>17. M = m
  BY <1>1
<1>4. /\ \/ m.what \in Hellos /\ Attach(n, m, code)
         \/ m.what \notin Hellos /\ UNCHANGED <<live, fenced, reattached>>
      /\ wires' = [wires EXCEPT
           ![n].up = Tail(@),
           ![n].down = IF Open(n) THEN Append(@, [id |-> m.id, code |-> code, epoch |-> epoch])
                       ELSE @,
           ![n].boot = IF m.what \in Hellos /\ code \in {"Committed", "Idempotent"}
                       THEN m.boot ELSE @]
  <2> HIDE DEF M
  <2> QED BY <1>16, <1>17, ClientAssumption DEF Hellos
<1> HIDE DEF M
<1> DEFINE a == [id |-> m.id, code |-> code, epoch |-> epoch]
           up == Tail(wires[n].up)
           down == IF Open(n) THEN Append(wires[n].down, a) ELSE wires[n].down
           boot == IF m.what \in Hellos /\ code \in {"Committed", "Idempotent"}
                   THEN m.boot ELSE wires[n].boot
           w == [wires[n] EXCEPT !.up = up, !.down = down, !.boot = boot]
<1>5. a \in Told /\ a.id = m.id /\ a.code = code
  BY <1>3, <1>4 DEF Told, Asked, RestType
<1>6. wires' = [wires EXCEPT ![n] = w]
  BY <1>4
<1> HIDE DEF a
<1>7. up \in Seq(Asked) /\ down \in Seq(Told)
  BY <1>2, <1>5
<1>8. boot \in Client \cup {None}
  BY <1>2, <1>3 DEF Asked
<1>9. down = IF wires[n].state = "open" THEN Append(wires[n].down, a) ELSE wires[n].down
  BY <1>2 DEF Open
<1> HIDE DEF up, down, boot
<1>10. /\ w \in Link /\ w.up = up /\ w.down = down /\ w.boot = boot /\ w.state = wires[n].state
       /\ w.torn = wires[n].torn /\ w.session = wires[n].session
  BY <1>2, <1>7, <1>8 DEF Link
<1> HIDE DEF w
<1>11. Edits(wires, n, wires') /\ wires'[n] = w
  BY <1>6, <1>10, EditLink DEF LinkType
<1>12. UNCHANGED <<client, call, epoch, calls, sharing, strayed>>
  BY DEF Serve
<1>13. IF m.what \in Hellos THEN Attach(n, m, a.code) ELSE UNCHANGED <<live, fenced, reattached>>
  BY <1>4, <1>5
<1>14. boot = IF m.what \in Hellos /\ a.code \in {"Committed", "Idempotent"}
              THEN m.boot ELSE wires[n].boot
  BY <1>5 DEF boot
<1>15. up = Tail(wires[n].up)
  BY DEF up
<1> QED BY <1>1, <1>2, <1>3, <1>5, <1>9, <1>10, <1>11, <1>12, <1>13, <1>14, <1>15 DEF Serves

LEMMA ServeKeepsSessions ==
  ASSUME SessionInv, RestType, SocketInv, NEW n \in DOMAIN wires, NEW m, NEW a, Serves(n, m, a)
  PROVE  SessionInv' /\ RestType' /\ \A d \in Client : Attached(d) => Attached(d)'
<1>1. /\ m \in Asked /\ Edits(wires, n, wires') /\ wires'[n].session = wires[n].session
      /\ wires'[n].boot = IF m.what \in Hellos /\ a.code \in {"Committed", "Idempotent"}
                          THEN m.boot ELSE wires[n].boot
      /\ IF m.what \in Hellos THEN Attach(n, m, a.code)
         ELSE UNCHANGED <<live, fenced, reattached>>
      /\ UNCHANGED <<epoch, calls, sharing>>
  BY DEF Serves
<1>2. DOMAIN wires' = DOMAIN wires /\ \A k \in DOMAIN wires : /\ k # n => wires'[k] = wires[k]
                                                              /\ wires'[k].session = wires[k].session
  BY <1>1 DEF Edits
<1>3. /\ live' \subseteq Client /\ (\A d, e \in live' : d = e) /\ live' \cap DOMAIN fenced' = {}
      /\ live \cup DOMAIN fenced \subseteq live' \cup DOMAIN fenced'
      /\ DOMAIN fenced \subseteq DOMAIN fenced' /\ reattached \subseteq reattached'
      /\ \A d \in Client : Attached(d) => Attached(d)'
      /\ m.what \in Hellos /\ a.code \in {"Committed", "Idempotent"} =>
           /\ m.boot \in live'
           /\ m.boot \in live \cup DOMAIN fenced => m.boot \in reattached'
  <2>1. CASE m.what \in Hellos
    BY <1>1, <2>1, AttachEffect
  <2>2. CASE m.what \notin Hellos
    BY <1>1, <2>2 DEF SessionInv, RestType, Attached
  <2> QED BY <2>1, <2>2
<1>4. ASSUME NEW k \in DOMAIN wires, wires[k].session, wires'[k].boot # None
      PROVE  wires'[k].boot \in live' \cup DOMAIN fenced'
  BY <1>1, <1>2, <1>3, <1>4 DEF SessionInv
<1>5. ASSUME NEW k \in DOMAIN wires, NEW l \in DOMAIN wires, k # l, wires[k].session,
             wires[l].session, wires'[k].boot = wires'[l].boot, wires'[k].boot # None
      PROVE  wires'[k].boot \in reattached' \cup DOMAIN fenced'
  <2>1. CASE wires'[k].boot = wires[k].boot /\ wires'[l].boot = wires[l].boot
    BY <1>3, <1>5, <2>1 DEF SessionInv
  <2>2. CASE k = n /\ m.what \in Hellos /\ a.code \in {"Committed", "Idempotent"}
    <3>1. wires[l].boot = m.boot /\ m.boot # None
      BY <1>1, <1>2, <1>5, <2>2
    <3> QED BY <1>1, <1>3, <1>5, <2>2, <3>1 DEF SessionInv
  <2>3. CASE l = n /\ m.what \in Hellos /\ a.code \in {"Committed", "Idempotent"}
    <3>1. wires[k].boot = m.boot /\ m.boot # None
      BY <1>1, <1>2, <1>5, <2>3
    <3> QED BY <1>1, <1>3, <1>5, <2>3, <3>1 DEF SessionInv
  <2> QED BY <1>1, <1>2, <2>1, <2>2, <2>3
<1>6. SessionInv'
  BY <1>2, <1>3, <1>4, <1>5 DEF SessionInv
<1>7. RestType'
  BY <1>1, <1>3 DEF RestType
<1> QED BY <1>3, <1>6, <1>7

\* The request that is answered is the one of the call, if the client's calls do
\* not overlap.
LEMMA ServeKeepsOrder ==
  ASSUME SideType, SocketInv, RestType, SessionInv, NEW n \in DOMAIN wires, NEW m, NEW a,
         Serves(n, m, a),
         \A e \in Client : Attached(e) => Attached(e)',
         NEW d \in Client, n = Wire(d), n # 0, Orderly(d), Open(n)
  PROVE  Orderly(d)'
<1>1. /\ m \in Asked /\ a \in Told /\ a.id = m.id
      /\ wires[n].up # << >> /\ m = Head(wires[n].up)
      /\ wires'[n].up = Tail(wires[n].up)
      /\ wires'[n].down = IF wires[n].state = "open" THEN Append(wires[n].down, a)
                          ELSE wires[n].down
      /\ wires'[n].state = wires[n].state /\ wires'[n].torn = wires[n].torn
      /\ wires'[n].boot = IF m.what \in Hellos /\ a.code \in {"Committed", "Idempotent"}
                          THEN m.boot ELSE wires[n].boot
      /\ IF m.what \in Hellos THEN Attach(n, m, a.code)
         ELSE UNCHANGED <<live, fenced, reattached>>
      /\ UNCHANGED <<client, call>>
  BY DEF Serves
<1>2. /\ ~wires[n].torn /\ wires[n].state = "open"
      /\ \A t, u \in Users(d) : t = u
      /\ Users(d) # {} /\ \A t \in Users(d) : Exchange(d, t)
      /\ client[d].connected => Stands(d)
  BY <1>1 DEF Orderly, Open
<1>3. ASSUME NEW t \in Users(d)
      PROVE  /\ wires[n].up = <<m>> /\ wires[n].down = << >>
             /\ m.id = call[t].id /\ m.what = call[t].what /\ m.boot = d
  <2>1. PICK q \in Asked : /\ wires[n].up = <<q>> /\ wires[n].down = << >>
                           /\ q.id = call[t].id /\ q.what = call[t].what /\ q.boot = d
    BY <1>1, <1>2 DEF Exchange
  <2>2. Head(<<q>>) = q
    OBVIOUS
  <2> QED BY <1>1, <2>1, <2>2
<1>4. m.boot = d /\ wires[n].up = <<m>> /\ wires[n].down = << >>
  BY <1>2, <1>3
<1>5. wires'[n].up = << >> /\ wires'[n].down = <<a>>
  <2>1. Tail(<<m>>) = << >> /\ Append(<< >>, a) = <<a>>
    OBVIOUS
  <2> QED BY <1>1, <1>2, <1>4, <2>1
<1>6. Users(d)' = Users(d) /\ Wire(d)' = n
  BY <1>1 DEF Users, In, Wire
<1>7. m.what \in Hellos /\ a.code \in {"Committed", "Idempotent"} => Stands(d)'
  <2>1. m.what \in Hellos /\ a.code \in {"Committed", "Idempotent"} => d \in live'
    BY <1>1, <1>4, AttachEffect
  <2> QED BY <1>1, <1>4, <1>6, <2>1 DEF Stands, Attached
<1>8. client[d].connected => Stands(d)'
  <2>1. Stands(d) => Attached(d)' /\ wires'[n].boot = d
    BY <1>1, <1>4 DEF Stands
  <2> QED BY <1>2, <1>6, <2>1 DEF Stands
<1>9. ASSUME NEW t \in Users(d) PROVE Exchange(d, t)'
  <2>1. a.id = call[t].id /\ m.what = call[t].what
    BY <1>1, <1>3
  <2>2. call'[t].what \in Hellos /\ Welcome(a.code) => Stands(d)'
    BY <1>1, <1>7, <2>1 DEF Welcome
  <2> QED BY <1>1, <1>5, <1>6, <2>1, <2>2 DEF Exchange, Welcome
<1> QED BY <1>1, <1>2, <1>6, <1>8, <1>9 DEF Orderly

LEMMA ServeStep ==
  ASSUME ClientInv, NEW n \in DOMAIN wires, Serve(n)
  PROVE  ClientInv'
<1> USE DEF ClientInv
<1>1. PICK m, a : Serves(n, m, a)
  BY ServeServes
<1>2. /\ Edits(wires, n, wires') /\ wires'[n].state = wires[n].state
      /\ wires'[n].session = wires[n].session /\ wires[n].state # "lost"
      /\ UNCHANGED <<client, call, sharing, strayed>> /\ wires[n].session
  BY <1>1 DEF Serves
<1>3. SideType' /\ LockInv' /\ LinkType'
  BY <1>2, ServedRest DEF Edits, LinkType
<1>4. SessionInv' /\ RestType' /\ \A d \in Client : Attached(d) => Attached(d)'
  BY <1>1, ServeKeepsSessions
<1>5. SocketInv'
  BY <1>2, ServedSockets
<1>6. ASSUME NEW d \in Client, Orderly(d) PROVE Orderly(d)'
  <2>1. CASE Wire(d) = n /\ Open(n)
    BY <1>1, <1>4, <1>6, <2>1, ServeKeepsOrder, LinkAt DEF LinkType
  <2>2. CASE ~(Wire(d) = n /\ Open(n))
    <3>1. Open(Wire(d))' => Open(Wire(d)) /\ wires'[Wire(d)] = wires[Wire(d)]
      BY <1>2, <2>2 DEF Open, Wire, Edits, SocketInv
    <3>2. Stands(d) => Attached(d)'
      BY <1>4 DEF Stands
    <3> QED BY <1>2, <1>6, <3>1, <3>2, ServedOthers
  <2> QED BY <2>1, <2>2
<1>7. PipeInv'
  BY <1>2, <1>6 DEF PipeInv
<1> QED BY <1>3, <1>4, <1>5, <1>7

LEMMA LoseStep ==
  ASSUME ClientInv, NEW n \in DOMAIN wires, Lose(n)
  PROVE  ClientInv'
<1> USE DEF ClientInv
<1> DEFINE w == [wires[n] EXCEPT !.state = "lost", !.down = << >>]
<1>1. /\ wires[n] \in Link /\ Open(n) /\ wires' = [wires EXCEPT ![n] = w]
      /\ UNCHANGED <<client, call, epoch, live, fenced, calls, sharing, strayed, reattached>>
  BY LinkAt DEF Lose, LinkType, served, history
<1>2. /\ w \in Link /\ w.state = "lost" /\ w.down = << >> /\ w.boot = wires[n].boot
      /\ w.session = wires[n].session
  <2>1. << >> \in Seq(Told)
    OBVIOUS
  <2> QED BY <1>1, <2>1 DEF Link
<1> HIDE DEF w
<1>3. Edits(wires, n, wires') /\ wires'[n] = w
  BY <1>1, <1>2, EditLink DEF LinkType
<1>4. SideType' /\ LockInv' /\ LinkType' /\ RestType'
  BY <1>1, <1>3, ServedRest DEF Edits, LinkType, RestType
<1>5. SocketInv'
  BY <1>1, <1>2, <1>3, ServedSockets
<1>6. SessionInv'
  <2>1. /\ DOMAIN wires' = DOMAIN wires
        /\ \A k \in DOMAIN wires : /\ wires'[k].boot = wires[k].boot
                                   /\ wires'[k].session = wires[k].session
    BY <1>2, <1>3 DEF Edits
  <2> QED BY <1>1, <2>1, SessionsStay
<1>7. ASSUME NEW d \in Client, Orderly(d) PROVE Orderly(d)'
  <2>1. Open(Wire(d))' => Open(Wire(d)) /\ wires'[Wire(d)] = wires[Wire(d)]
    BY <1>1, <1>2, <1>3 DEF Open, Wire, Edits, SocketInv
  <2>2. Stands(d) => Attached(d)'
    BY <1>1 DEF Stands, Attached
  <2> QED BY <1>1, <1>7, <2>1, <2>2, ServedOthers
<1>8. PipeInv'
  BY <1>1, <1>7 DEF PipeInv
<1> QED BY <1>4, <1>5, <1>6, <1>8

LEMMA SessionEndsStep ==
  ASSUME ClientInv, NEW n \in DOMAIN wires, SessionEnds(n)
  PROVE  ClientInv'
<1> USE DEF ClientInv
<1> DEFINE w == [wires[n] EXCEPT !.session = FALSE, !.up = << >>]
<1>1. PICK b : b = wires[n].boot
  OBVIOUS
<1>2. /\ wires[n] \in Link /\ wires[n].session /\ wires[n].state # "open"
      /\ wires' = [wires EXCEPT ![n] = w] /\ b \in Client \cup {None}
      /\ live' = live \ {b}
      /\ fenced' = IF b = None \/ b \in DOMAIN fenced THEN fenced
                   ELSE [f \in DOMAIN fenced \cup {b} |-> IF f = b THEN "SessionLost" ELSE fenced[f]]
      /\ UNCHANGED <<client, call, epoch, calls, sharing, strayed, reattached>>
  BY <1>1, LinkAt DEF SessionEnds, LinkType, history
<1>3. /\ w \in Link /\ w.state = wires[n].state /\ w.down = wires[n].down
      /\ w.boot = wires[n].boot /\ w.session = FALSE
  <2>1. << >> \in Seq(Asked)
    OBVIOUS
  <2> QED BY <1>2, <2>1 DEF Link
<1> HIDE DEF w
<1>4. Edits(wires, n, wires') /\ wires'[n] = w
  BY <1>2, <1>3, EditLink DEF LinkType
<1>5. SideType' /\ LockInv' /\ LinkType' /\ RestType'
  BY <1>2, <1>4, ServedRest DEF Edits, LinkType, RestType
<1>6. SocketInv'
  <2>1. wires[n].state = "lost" => wires[n].down = << >>
    BY DEF SocketInv
  <2> QED BY <1>2, <1>3, <1>4, <2>1, ServedSockets
<1>7. /\ DOMAIN wires' = DOMAIN wires
      /\ \A k \in DOMAIN wires : /\ wires'[k].boot = wires[k].boot
                                 /\ wires'[k].session => wires[k].session /\ k # n
                                 /\ k # n => wires'[k] = wires[k]
  BY <1>3, <1>4 DEF Edits
<1>8. /\ DOMAIN fenced' = DOMAIN fenced \cup ({b} \ {None})
      /\ \A f \in DOMAIN fenced : fenced'[f] = fenced[f]
  BY <1>2
<1>9. SessionInv'
  <2>1. \A d, e \in live' : d = e
    BY <1>2 DEF SessionInv
  <2>2. live' \cap DOMAIN fenced' = {}
    BY <1>2, <1>8 DEF SessionInv
  <2>3. (live \ {None}) \cup DOMAIN fenced \subseteq live' \cup DOMAIN fenced'
    BY <1>2, <1>8
  <2> QED BY <1>2, <1>7, <1>8, <2>1, <2>2, <2>3 DEF SessionInv
<1>10. ASSUME NEW d \in Client, Orderly(d) PROVE Orderly(d)'
  <2>1. Open(Wire(d))' => Wire(d) # n /\ Open(Wire(d)) /\ wires'[Wire(d)] = wires[Wire(d)]
                          /\ Wire(d) \in DOMAIN wires
    BY <1>2, <1>3, <1>4, <1>7 DEF Open, Wire, SocketInv
  <2>2. ASSUME Open(Wire(d))', Stands(d) PROVE Attached(d)'
    <3>1. /\ wires[Wire(d)].boot = d /\ Attached(d) /\ d # None
          /\ wires[Wire(d)].session
      BY <2>1, <2>2, ClientAssumption DEF Stands, SocketInv, Open
    <3>2. CASE b # d
      BY <1>2, <1>8, <3>1, <3>2 DEF Attached
    <3>3. CASE b = d
      <4>1. d \in reattached \cup DOMAIN fenced
        BY <1>1, <1>2, <2>1, <2>2, <3>1, <3>3 DEF SessionInv
      <4> QED BY <1>2, <1>8, <3>1, <4>1 DEF Attached, SessionInv
    <3> QED BY <3>2, <3>3
  <2> QED BY <1>2, <1>10, <2>1, <2>2, ServedOthers
<1>11. PipeInv'
  BY <1>2, <1>10 DEF PipeInv
<1> QED BY <1>5, <1>6, <1>9, <1>11

LEMMA RestartStep ==
  ASSUME ClientInv, Restart
  PROVE  ClientInv'
<1> USE DEF ClientInv
<1>1. /\ wires' = [n \in DOMAIN wires |->
                     [wires[n] EXCEPT !.state = IF @ = "open" THEN "lost" ELSE @, !.up = << >>,
                                      !.down = << >>, !.session = FALSE]]
      /\ live' = {} /\ epoch' \in Nat
      /\ UNCHANGED <<client, call, calls, sharing, strayed, reattached>>
  <2>1. epoch \in Nat /\ epoch' = epoch + 1
    BY DEF Restart, RestType
  <2>2. epoch' \in Nat
    BY <2>1
  <2> QED BY <2>2 DEF Restart, history
<1>2. ASSUME NEW n \in DOMAIN wires
      PROVE  /\ wires'[n] \in Link /\ wires'[n].down = << >> /\ ~wires'[n].session
             /\ wires'[n].state # "open"
             /\ wires[n].state # "closed" => wires'[n].state # "closed"
  <2>1. << >> \in Seq(Asked) /\ << >> \in Seq(Told)
    OBVIOUS
  <2>2. wires[n] \in Link
    BY LinkAt DEF LinkType
  <2>3. wires'[n] = [wires[n] EXCEPT !.state = IF @ = "open" THEN "lost" ELSE @, !.up = << >>,
                                     !.down = << >>, !.session = FALSE]
    BY <1>1
  <2> QED BY <2>1, <2>2, <2>3 DEF Link
<1>3. DOMAIN wires' = DOMAIN wires
  BY <1>1
<1>4. SideType' /\ LockInv' /\ RestType'
  BY <1>1, ServedRest DEF RestType
<1>5. LinkType'
  <2>1. DOMAIN wires = 1..Len(wires) /\ Len(wires) \in Nat
    BY DEF LinkType
  <2>2. wires' = [n \in 1..Len(wires) |-> wires'[n]] /\ \A n \in 1..Len(wires) : wires'[n] \in Link
    BY <1>1, <1>2, <2>1
  <2> HIDE DEF Link
  <2> QED BY <2>1, <2>2 DEF LinkType
<1>6. SocketInv'
  BY <1>1, <1>2, <1>3 DEF SocketInv, Wire
<1>7. SessionInv'
  BY <1>1, <1>2, <1>3 DEF SessionInv
<1>8. ASSUME NEW d \in Client, Orderly(d) PROVE Orderly(d)'
  <2>1. ~Open(Wire(d))'
    BY <1>1, <1>2, <1>3 DEF Open, Wire, SocketInv
  <2> QED BY <1>1, <1>8, <2>1, ServedOthers
<1>9. PipeInv'
  BY <1>1, <1>8 DEF PipeInv
<1> QED BY <1>4, <1>5, <1>6, <1>7, <1>9

(***************************************************************************)
(* The invariant holds.                                                    *)
(***************************************************************************)
LEMMA ClientInit == Init => ClientInv
<1> SUFFICES ASSUME Init PROVE ClientInv
  OBVIOUS
<1>1. /\ client = [c \in Client |-> [wire |-> 0, connected |-> FALSE, lock |-> None, epoch |-> 0]]
      /\ call = [t \in Thread |-> Idle] /\ wires = << >>
      /\ epoch = 1 /\ live = {} /\ fenced = << >> /\ calls = 0
      /\ sharing = [c \in Client |-> "no"] /\ strayed = {} /\ reattached = {}
  BY DEF Init
<1>2. SideType
  BY <1>1 DEF SideType, Side
<1>3. LinkType /\ RestType
  BY <1>1 DEF LinkType, RestType
<1>4. \A c \in Client : Users(c) = {} /\ Wire(c) = 0 /\ client[c].lock = None
  BY <1>1 DEF Users, In, Idle, Wire
<1>5. LockInv /\ SocketInv /\ SessionInv
  BY <1>1, <1>4 DEF LockInv, SocketInv, SessionInv
<1>6. PipeInv
  BY <1>1, <1>4 DEF PipeInv, Orderly, Open
<1> QED BY <1>2, <1>3, <1>5, <1>6 DEF ClientInv

LEMMA ClientStep == ClientInv /\ [Next]_vars => ClientInv'
<1> SUFFICES ASSUME ClientInv, [Next]_vars PROVE ClientInv'
  OBVIOUS
<1>1. CASE UNCHANGED vars
  <2>1. UNCHANGED <<client, call, wires, epoch, live, fenced, calls, sharing, strayed, reattached>>
    BY <1>1 DEF vars, sides, served, history
  <2>2. SideType' /\ LinkType' /\ RestType' /\ LockInv' /\ SocketInv' /\ SessionInv'
    BY <2>1 DEF ClientInv, SideType, LinkType, RestType, LockInv, SocketInv, SessionInv, Users, In,
                Wire, TakesLock
  <2>3. ASSUME NEW d \in Client, Orderly(d) PROVE Orderly(d)'
    BY <2>1, <2>3, ServedOthers DEF ClientInv, Open, Wire, Stands, Attached
  <2>4. PipeInv'
    BY <2>1, <2>3 DEF ClientInv, PipeInv
  <2> QED BY <2>2, <2>4 DEF ClientInv
<1> QED BY <1>1, ConnectStep, CallStep, HeaderStep, BodyStep, ReadFailsStep, ServeStep,
           SessionEndsStep, LoseStep, RestartStep DEF Next

LEMMA ClientInvHolds == Spec => []ClientInv
BY ClientInit, ClientStep, PTL DEF Spec

StrayedInv == strayed \subseteq Client

\* Only clients go astray.
LEMMA StrayedAreClients == Spec => []StrayedInv
<1>1. Init => StrayedInv
  BY DEF Init, StrayedInv
<1>2. ClientInv /\ StrayedInv /\ [Next]_vars => StrayedInv'
  <2> SUFFICES ASSUME ClientInv, strayed \subseteq Client, [Next]_vars
               PROVE  strayed' \subseteq Client
    BY DEF StrayedInv
  <2>1. ASSUME NEW t \in Thread, NEW c \in Client, Connect(t, c)
        PROVE  strayed' \subseteq Client
    BY <2>1 DEF Connect
  <2>2. ASSUME NEW t \in Thread, NEW c \in Client, NEW what, Call(t, c, what)
        PROVE  strayed' \subseteq Client
    BY <2>2 DEF Call
  <2>3. ASSUME NEW t, NEW torn, Fail(t, torn)
        PROVE  strayed' = strayed
    BY <2>3 DEF Fail, history
  <2>4. ASSUME NEW t \in Thread, ReadHeader(t)
        PROVE  strayed' \subseteq Client
    BY <2>3, <2>4 DEF ReadHeader, history
  <2>5. ASSUME NEW t \in Thread, ReadBody(t)
        PROVE  strayed' \subseteq Client
    <3>1. call[t].client \in Client
      <4>1. ~In(t, "idle")
        BY <2>5 DEF ReadBody, In
      <4>2. call[t] \in Running
        BY <4>1, InCalls DEF ClientInv
      <4> QED BY <4>2 DEF Running
    <3> QED BY <2>3, <2>5, <3>1 DEF ReadBody, Take
  <2>6. ASSUME NEW t \in Thread, ReadFails(t)
        PROVE  strayed' \subseteq Client
    BY <2>3, <2>6 DEF ReadFails
  <2>7. ASSUME NEW n \in DOMAIN wires, Serve(n) \/ SessionEnds(n) \/ Lose(n)
        PROVE  strayed' = strayed
    BY <2>7 DEF Serve, SessionEnds, Lose, history
  <2>8. CASE Restart
    BY <2>8 DEF Restart, history
  <2>9. CASE UNCHANGED vars
    BY <2>9 DEF vars, history
  <2> QED BY <2>1, <2>2, <2>4, <2>5, <2>6, <2>7, <2>8, <2>9 DEF Next
<1> QED BY <1>1, <1>2, ClientInvHolds, PTL DEF Spec

\* A call takes the answer to its own request, whatever is lost, restarted or
\* connected again, unless a call without the mutex used the socket at the same
\* time: nothing else keeps requests and answers of one connection in step.
THEOREM AnswersStayOwn == Spec => []AnswersAreOwn
<1>1. ClientInv /\ StrayedInv => AnswersAreOwn
  BY DEF StrayedInv, ClientInv, PipeInv, AnswersAreOwn
<1> QED BY <1>1, ClientInvHolds, StrayedAreClients, PTL

\* A client that is connected over a connection that stands is attached until
\* another incarnation takes over: the answer that told it so was to its own
\* Hello, and its session is there to fence it.
THEOREM ConnectedStaysAttached == Spec => []ConnectedIsAttached
<1>1. ClientInv => ConnectedIsAttached
  <2> SUFFICES ASSUME ClientInv, NEW c \in Client, client[c].connected, Open(Wire(c)),
                      sharing[c] = "no"
               PROVE  Attached(c)
    BY DEF ConnectedIsAttached, Attached
  <2>1. Orderly(c)
    BY DEF ClientInv, PipeInv
  <2> QED BY <2>1 DEF Orderly, Stands
<1> QED BY <1>1, ClientInvHolds, PTL

(***************************************************************************)
(* The table of remembered mutations.                                      *)
(***************************************************************************)
\* A commit of r is among the effects.
Recorded(r) ==
  \E i \in DOMAIN effects : effects[i] = [request |-> r, code |-> "Committed"]

TableInv ==
  /\ effects \in Seq(EffectType)
  /\ DOMAIN table \subseteq Attempt /\ IsFiniteSet(DOMAIN table)
  /\ Cardinality(DOMAIN table) <= MaxEntries
  /\ \A a \in DOMAIN table :
       table[a] \in Request /\ AttemptOf[table[a]] = a /\ Recorded(table[a])

\* The least number of a set is in it.
LEMMA MinIsIn ==
  ASSUME NEW S, S \subseteq Nat, S # {}
  PROVE  Min(S) \in S
<1>1. PICK m \in S : \A n \in S : ~ (<<n, m>> \in OpToRel(<, Nat))
  BY NatLessThanWellFounded, WFMin
<1>2. ASSUME NEW n \in S PROVE m <= n
  <2>1. n \in Nat /\ m \in Nat
    OBVIOUS
  <2>2. CASE n < m
    <3>1. <<n, m>> \in OpToRel(<, Nat)
      BY <2>1, <2>2 DEF OpToRel
    <3> QED BY <1>1, <3>1
  <2> QED BY <2>1, <2>2
<1>3. \A n \in S : m =< n
  BY <1>2
<1> QED BY <1>3 DEF Min

\* One more attempt than the table may hold makes room for itself.
LEMMA KeptFits ==
  ASSUME NEW S, S \subseteq Nat, IsFiniteSet(S), NEW a \in Nat,
         Cardinality(S) <= MaxEntries
  PROVE  LET all == S \cup {a}
         IN  /\ Kept(all) \subseteq all /\ IsFiniteSet(Kept(all))
             /\ Cardinality(Kept(all)) <= MaxEntries
<1> DEFINE all == S \cup {a}
<1>1. /\ IsFiniteSet(all) /\ Cardinality(all) \in Nat /\ Cardinality(S) \in Nat
      /\ Cardinality(all) <= Cardinality(S) + 1
  BY FS_AddElement, FS_CardinalityType
<1>2. Min(all) \in all
  BY MinIsIn
<1> HIDE DEF all
<1>3. CASE Cardinality(all) <= MaxEntries
  BY <1>1, <1>3 DEF Kept, all
<1>4. CASE ~(Cardinality(all) <= MaxEntries)
  <2>1. IsFiniteSet(all \ {Min(all)}) /\ Cardinality(all \ {Min(all)}) = Cardinality(all) - 1
    BY <1>1, <1>2, FS_RemoveElement
  <2>2. Kept(all) = all \ {Min(all)}
    BY <1>4 DEF Kept
  <2>3. Cardinality(all) - 1 <= MaxEntries
    BY <1>1, AttemptAssumption
  <2> QED BY <2>1, <2>2, <2>3 DEF all
<1> QED BY <1>3, <1>4

LEMMA EffectsStayRecorded ==
  ASSUME effects \in Seq(EffectType), NEW r \in Request,
         NEW code \in {"Committed", "Refused"}, Effect(r, code)
  PROVE  /\ effects' \in Seq(EffectType)
         /\ code = "Committed" => Recorded(r)'
         /\ \A q : Recorded(q) => \E i \in DOMAIN effects' :
                                    effects'[i] = [request |-> q, code |-> "Committed"]
<1>1. Len(effects) + 1 \in DOMAIN effects'
  BY OneMoreEffect
<1> QED BY <1>1, OneMoreEffect DEF Recorded

LEMMA ExecuteKeepsTable ==
  ASSUME TableInv, NEW r \in Request, NEW authorised, NEW code, Execute(r, authorised, code)
  PROVE  TableInv'
<1>1. CASE UNCHANGED attempts
  BY <1>1 DEF TableInv, Recorded, attempts
<1>2. CASE code = "Refused" /\ Effect(r, code) /\ UNCHANGED <<table, forgotten>>
  <2>1. effects' \in Seq(EffectType)
    BY <1>2, EffectsStayRecorded DEF TableInv
  <2>2. ASSUME NEW a \in DOMAIN table
        PROVE  \E i \in DOMAIN effects' :
                 effects'[i] = [request |-> table[a], code |-> "Committed"]
    BY <1>2, EffectsStayRecorded DEF TableInv
  <2> QED BY <1>2, <2>1, <2>2 DEF TableInv, Recorded
<1>3. CASE code = "Committed" /\ Effect(r, code) /\ Remember(r)
  <2> DEFINE all == DOMAIN table \cup {AttemptOf[r]}
             Now(q) == \E i \in DOMAIN effects' :
                         effects'[i] = [request |-> q, code |-> "Committed"]
  <2>1. table' = [a \in Kept(all) |-> IF a = AttemptOf[r] THEN r ELSE table[a]]
    BY <1>3 DEF Remember
  <2>2. DOMAIN table \subseteq Nat /\ AttemptOf[r] \in Nat
    BY AttemptAssumption DEF TableInv, Attempt
  <2>3. /\ Kept(all) \subseteq all /\ IsFiniteSet(Kept(all))
        /\ Cardinality(Kept(all)) <= MaxEntries
    BY <2>2, KeptFits DEF TableInv
  <2>4. effects' \in Seq(EffectType) /\ Now(r) /\ \A q : Recorded(q) => Now(q)
    BY <1>3, EffectsStayRecorded DEF TableInv, Recorded
  <2>5. all \subseteq Attempt
    BY DEF TableInv, Attempt
  <2> HIDE DEF Now
  <2>6. ASSUME NEW a \in Kept(all)
        PROVE  table'[a] \in Request /\ AttemptOf[table'[a]] = a /\ Now(table'[a])
    <3>1. table'[a] = IF a = AttemptOf[r] THEN r ELSE table[a]
      BY <2>1
    <3>2. CASE a = AttemptOf[r]
      BY <2>4, <3>1, <3>2
    <3>3. CASE a # AttemptOf[r]
      <4>1. a \in DOMAIN table
        BY <2>3, <3>3
      <4>2. table[a] \in Request /\ AttemptOf[table[a]] = a /\ Recorded(table[a])
        BY <4>1 DEF TableInv
      <4> QED BY <2>4, <3>1, <3>3, <4>2
    <3> QED BY <3>2, <3>3
  <2> HIDE DEF all
  <2>7. DOMAIN table' = Kept(all)
    BY <2>1
  <2> QED BY <2>3, <2>4, <2>5, <2>6, <2>7 DEF TableInv, Recorded, Now
<1> QED BY <1>1, <1>2, <1>3 DEF Execute

LEMMA TableInvHolds == Spec => []TableInv
<1>1. Init => TableInv
  BY AttemptAssumption, FS_EmptySet DEF Init, AttemptsInit, TableInv
<1>2. TableInv /\ [Next]_vars => TableInv'
  <2> SUFFICES ASSUME TableInv, [Next]_vars PROVE TableInv'
    OBVIOUS
  <2>1. CASE UNCHANGED attempts
    BY <2>1 DEF TableInv, Recorded, attempts
  <2>2. ASSUME NEW n \in DOMAIN wires, Serve(n) PROVE TableInv'
    BY <2>1, <2>2, ExecuteKeepsTable DEF Serve
  <2>3. CASE Restart
    <3>1. table' = << >> /\ UNCHANGED effects
      BY <2>3 DEF Restart, Forget
    <3>2. DOMAIN table' = {}
      BY <3>1
    <3>3. IsFiniteSet({}) /\ Cardinality({}) = 0
      BY FS_EmptySet
    <3>4. IsFiniteSet(DOMAIN table') /\ Cardinality(DOMAIN table') <= MaxEntries
      BY <3>2, <3>3, AttemptAssumption
    <3> QED BY <3>1, <3>2, <3>4 DEF TableInv
  <2>4. CASE UNCHANGED vars
    BY <2>1, <2>4 DEF vars
  <2> QED BY <2>1, <2>2, <2>3, <2>4, ClientsKeepAttempts DEF Next
<1> QED BY <1>1, <1>2, PTL DEF Spec

\* The table keeps to its limit and holds what took effect under the attempt it
\* is asked for; the mutex is held by a thread that is in a call on that client,
\* so that no thread leaves it locked; no incarnation is live and fenced.
THEOREM ClientTyped == Spec => []TypeOK
<1>1. ClientInv /\ TableInv => TypeOK
  <2> SUFFICES ASSUME ClientInv, TableInv PROVE TypeOK
    OBVIOUS
  <2>1. Cardinality(live) <= 1
    <3>1. CASE live = {}
      BY <3>1, FS_EmptySet
    <3>2. CASE live # {}
      <4>1. PICK b \in live : live = {b}
        BY <3>2 DEF ClientInv, SessionInv
      <4> QED BY <4>1, FS_Singleton
    <3> QED BY <3>1, <3>2
  <2>2. \A n \in DOMAIN wires : wires[n].boot \in {None} \cup Client
    BY LinkAt DEF ClientInv, LinkType
  <2>3. live \cap DOMAIN fenced = {} /\ \A c \in Client : client[c].lock \in {None} \cup Users(c)
    BY DEF ClientInv, SessionInv, LockInv
  <2> QED BY <2>1, <2>2, <2>3 DEF TypeOK, TableInv, Recorded
<1> QED BY <1>1, ClientInvHolds, TableInvHolds, PTL
=============================================================================
