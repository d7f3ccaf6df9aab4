--------------------------- MODULE PublisherClient ---------------------------
(***************************************************************************)
(* Publisher clients (src/src/publisher.cpp) and the sessions that serve   *)
(* them.  A client has a socket, a mutex that some of its calls take, and  *)
(* the epoch it has learned; threads share a client.  All clients are of   *)
(* one publisher, each with a boot of its own.  The transport keeps order  *)
(* and loses nothing but what a lost connection held.  A client's receive  *)
(* has no timeout.                                                         *)
(***************************************************************************)
EXTENDS Attempts

CONSTANTS
  Client, Thread, None,
  Locked,       \* the requests whose calls take the mutex
  MaxCalls, MaxWires, MaxEpoch   \* bounds

\* The handshake is told apart from the requests, and nobody from no one.
ASSUME ClientAssumption ==
  /\ Locked \subseteq Request /\ Request \cap {"Hello", "HelloAgain", "Bye"} = {}
  /\ None \notin Client \cup Thread

VARIABLES
  client,       \* client -> its socket (0 if none), connected, mutex holder, epoch
  call,         \* thread -> the call it is in
  wires,        \* the connections opened so far, with the session of each
  epoch, live, fenced,    \* the coordinator: live incarnation, fenced ones with reason
  calls,        \* how many calls were made
  sharing,      \* client -> whether two calls have used its socket at once:
                \* no, shared, or crossed a reconnection (history)
  strayed,      \* clients with a call that took another call's answer (history)
  reattached    \* clients that attached while they were attached (history)

sides   == <<client, call, wires>>
served  == <<epoch, live, fenced>>
history == <<sharing, strayed, reattached>>
vars    == <<sides, served, calls, history, attempts>>

Idle == [step |-> "idle"]

Init ==
  /\ client = [c \in Client |-> [wire |-> 0, connected |-> FALSE, lock |-> None, epoch |-> 0]]
  /\ call = [t \in Thread |-> Idle] /\ wires = << >>
  /\ epoch = 1 /\ live = {} /\ fenced = << >> /\ calls = 0
  /\ sharing = [c \in Client |-> "no"] /\ strayed = {} /\ reattached = {}
  /\ AttemptsInit

In(t, step)  == call[t].step = step
Users(c)     == {t \in Thread : ~In(t, "idle") /\ call[t].client = c}
Wire(c)      == client[c].wire
Open(n)      == n # 0 /\ wires[n].state = "open"

-----------------------------------------------------------------------------
(***************************************************************************)
(* Calls.                                                                  *)
(***************************************************************************)
\* Mutant of TakesLock: no call takes the mutex.
TakesLockNever(what) == FALSE

TakesLock(what) == what \notin Request \ Locked

\* A call of c that is without the mutex, or meets one that is.
Overlaps(c, what) ==
  \E u \in Users(c) : {what, call[u].what} \cap (Request \ Locked) # {}

Message(c, what, id) ==
  [id |-> id, what |-> what, boot |-> c, epoch |-> client[c].epoch]

\* send_all; what is written to a lost connection is lost.
Sent(ws, n, m) ==
  IF n # 0 /\ ws[n].state = "open" THEN [ws EXCEPT ![n].up = Append(@, m)] ELSE ws

\* Calls of a thread on c that is free to call: with or without the mutex.
Begin(t, c, what) ==
  /\ In(t, "idle") /\ calls < MaxCalls
  /\ calls' = calls + 1
  /\ TakesLock(what) => client[c].lock = None
  /\ call' = [call EXCEPT ![t] = [step |-> "header", client |-> c, what |-> what, id |-> calls]]

Holder(t, c, what) == IF TakesLock(what) THEN t ELSE client[c].lock

\* A request without a socket fails at once and leaves nothing behind.
Call(t, c, what) ==
  /\ what \in Request \cup {"Bye"} /\ Wire(c) # 0
  /\ what = "Bye" => client[c].connected
  /\ Begin(t, c, what)
  /\ wires' = Sent(wires, Wire(c), Message(c, what, calls))
  /\ client' = [client EXCEPT ![c].lock = Holder(t, c, what)]
  /\ sharing' = [sharing EXCEPT ![c] = IF Overlaps(c, what) /\ @ = "no" THEN "shared" ELSE @]
  /\ UNCHANGED <<served, strayed, reattached, attempts>>

NewWire == [state |-> "open", up |-> << >>, down |-> << >>, torn |-> FALSE, boot |-> None,
            session |-> TRUE]

Closed(ws, n) == IF n # 0 /\ ws[n].state = "open" THEN [ws EXCEPT ![n].state = "closed"] ELSE ws

\* connect: a new socket replaces what there was, and Hello is the first frame.
Connect(t, c) ==
  /\ ~client[c].connected /\ Len(wires) < MaxWires
  /\ Begin(t, c, "Hello")
  /\ LET n == Len(wires) + 1
     IN  /\ wires' = Sent(Append(Closed(wires, Wire(c)), NewWire), n, Message(c, "Hello", calls))
         /\ client' = [client EXCEPT ![c].lock = t, ![c].wire = n]
  /\ sharing' = [sharing EXCEPT ![c] = IF Overlaps(c, "Hello") THEN "crossed" ELSE "no"]
  /\ strayed' = IF Overlaps(c, "Hello") THEN strayed ELSE strayed \ {c}
  /\ UNCHANGED <<served, reattached, attempts>>

\* A call ends: it gives the mutex back, and its client is left as given.
End(t, c, connected, keep, learned) ==
  /\ call' = [call EXCEPT ![t] = Idle]
  /\ client' = [client EXCEPT ![c] =
       [wire |-> IF keep THEN @.wire ELSE 0, connected |-> connected, epoch |-> learned,
        lock |-> IF @.lock = t THEN None ELSE @.lock]]

\* Any failure disconnects the client; only connect and close close its socket.
Fail(t, torn) ==
  LET c    == call[t].client
      n    == Wire(c)
      keep == call[t].what \in Request
      ws   == IF torn /\ n # 0 THEN [wires EXCEPT ![n].torn = TRUE] ELSE wires
  IN  /\ End(t, c, FALSE, keep, client[c].epoch)
      /\ wires' = IF keep THEN ws ELSE Closed(ws, n)
      /\ UNCHANGED <<served, calls, history, attempts>>

\* Mutant of Welcome: only another epoch is a refusal.
WelcomeAny(code) == TRUE

Welcome(code) == code \in {"Committed", "Idempotent"}

Taken(n) == [wires EXCEPT ![n].down = Tail(@)]

\* The answer is taken, whosever it is.  A Hello that was told another epoch is
\* sent once more.
Take(t, m) ==
  LET c == call[t].client
      n == Wire(c)
      what == call[t].what
      again == what = "Hello" /\ m.code = "StaleEpoch"
  IN  /\ strayed' = IF m.id # call[t].id THEN strayed \cup {c} ELSE strayed
      /\ \/ /\ what \in Request
            /\ End(t, c, client[c].connected, TRUE, client[c].epoch) /\ wires' = Taken(n)
         \/ /\ what = "Bye"
            /\ End(t, c, FALSE, FALSE, client[c].epoch) /\ wires' = Closed(Taken(n), n)
         \/ /\ again
            /\ client' = [client EXCEPT ![c].epoch = m.epoch]
            /\ call' = [call EXCEPT ![t].step = "header", ![t].what = "HelloAgain"]
            /\ wires' = Sent(Taken(n), n, [id |-> call[t].id, what |-> "HelloAgain", boot |-> c,
                                           epoch |-> m.epoch])
         \/ /\ what \in {"Hello", "HelloAgain"} /\ ~again
            /\ End(t, c, Welcome(m.code), Welcome(m.code), m.epoch)
            /\ wires' = IF Welcome(m.code) THEN Taken(n) ELSE Closed(Taken(n), n)
      /\ UNCHANGED <<served, calls, sharing, reattached, attempts>>

\* A frame is read in two receives.  What a second thread reads between them is
\* no header, and nothing after it is a frame.
ReadHeader(t) ==
  LET c == call[t].client
      n == Wire(c)
  IN  /\ In(t, "header") /\ n # 0 /\ wires[n].down # << >>
      /\ IF wires[n].torn \/ \E u \in Users(c) \ {t} : In(u, "body") THEN Fail(t, TRUE)
         ELSE /\ call' = [call EXCEPT ![t].step = "body"]
              /\ UNCHANGED <<client, wires, served, calls, history, attempts>>

ReadBody(t) ==
  LET n == Wire(call[t].client)
  IN  /\ In(t, "body") /\ n # 0 /\ wires[n].down # << >>
      /\ IF wires[n].torn THEN Fail(t, TRUE) ELSE Take(t, Head(wires[n].down))

\* Mutant of ReadFails: an end of the stream is nothing received yet.
ReadFailsNever(t) == FALSE

\* The connection is gone, or the socket was closed by another thread.
ReadFails(t) == ~In(t, "idle") /\ ~Open(Wire(call[t].client)) /\ Fail(t, FALSE)

-----------------------------------------------------------------------------
(***************************************************************************)
(* The coordinator.                                                        *)
(***************************************************************************)
\* attach_worker.
Attach(n, m, code) ==
  LET b == m.boot
  IN  \/ m.epoch # epoch /\ code = "StaleEpoch" /\ UNCHANGED <<live, fenced, reattached>>
      \/ /\ m.epoch = epoch /\ b \in DOMAIN fenced /\ code = "StaleWorkerBoot"
         /\ UNCHANGED <<live, fenced, reattached>>
      \/ /\ m.epoch = epoch /\ b \notin DOMAIN fenced
         /\ code = IF b \in live THEN "Idempotent" ELSE "Committed"
         /\ live' = {b}
         /\ fenced' = [f \in DOMAIN fenced \cup (live \ {b}) |->
                         IF f \in DOMAIN fenced THEN fenced[f] ELSE "Reincarnated"]
         /\ reattached' = IF b \in live THEN reattached \cup {b} ELSE reattached

\* A session thread answers one request, in the order of their arrival.
Serve(n) ==
  /\ wires[n].session /\ wires[n].state # "lost" /\ wires[n].up # << >>
  /\ LET m == Head(wires[n].up)
     IN  \E code \in {"Committed", "Idempotent", "StaleEpoch", "StaleWorkerBoot",
                       "Refused", "ConflictingReplay"} :
           /\ \/ /\ m.what \in {"Hello", "HelloAgain"}
                 /\ Attach(n, m, code) /\ UNCHANGED attempts
              \/ /\ m.what = "Bye" /\ code = "Committed"
                 /\ UNCHANGED <<live, fenced, reattached, attempts>>
              \/ /\ m.what \in Request
                 /\ Execute(m.what, m.boot \in live /\ m.epoch = epoch, code)
                 /\ UNCHANGED <<live, fenced, reattached>>
           /\ wires' = [wires EXCEPT
                ![n].up = Tail(@),
                ![n].down = IF Open(n) THEN Append(@, [id |-> m.id, code |-> code, epoch |-> epoch])
                            ELSE @,
                ![n].boot = IF m.what \in {"Hello", "HelloAgain"}
                               /\ code \in {"Committed", "Idempotent"} THEN m.boot ELSE @]
  /\ UNCHANGED <<client, call, epoch, calls, sharing, strayed>>

\* The session sees the end of its connection, and fences what was attached.
SessionEnds(n) ==
  /\ wires[n].session /\ wires[n].state # "open"
  /\ LET b == wires[n].boot
     IN  /\ live' = live \ {b}
         /\ fenced' = IF b = None \/ b \in DOMAIN fenced THEN fenced
                      ELSE [f \in DOMAIN fenced \cup {b} |-> IF f = b THEN "SessionLost" ELSE fenced[f]]
  /\ wires' = [wires EXCEPT ![n].session = FALSE, ![n].up = << >>]
  /\ UNCHANGED <<client, call, epoch, calls, history, attempts>>

\* A connection is lost; each side sees it when it next uses it.
Lose(n) ==
  /\ Open(n) /\ wires' = [wires EXCEPT ![n].state = "lost", ![n].down = << >>]
  /\ UNCHANGED <<client, call, served, calls, history, attempts>>

\* A crash and a start: what was live is fenced if it had left evidence.
Restart ==
  /\ epoch < MaxEpoch /\ epoch' = epoch + 1 /\ live' = {}
  /\ \E S \in SUBSET live :
       fenced' = [f \in DOMAIN fenced \cup S |-> IF f \in S THEN "Recovered" ELSE fenced[f]]
  /\ wires' = [n \in DOMAIN wires |->
                 [wires[n] EXCEPT !.state = IF @ = "open" THEN "lost" ELSE @, !.up = << >>,
                                  !.down = << >>, !.session = FALSE]]
  /\ Forget
  /\ UNCHANGED <<client, call, calls, history>>

-----------------------------------------------------------------------------
Reads(t) == ReadHeader(t) \/ ReadBody(t) \/ ReadFails(t)

Next ==
  \/ \E t \in Thread, c \in Client :
       Connect(t, c) \/ \E what \in Request \cup {"Bye"} : Call(t, c, what)
  \/ \E t \in Thread : ReadHeader(t) \/ ReadBody(t) \/ ReadFails(t)
  \/ \E n \in DOMAIN wires : Serve(n) \/ SessionEnds(n) \/ Lose(n)
  \/ Restart

\* Threads run, and the coordinator answers.
Fairness == /\ \A t \in Thread : WF_vars(Reads(t))
            /\ \A n \in 1..MaxWires : WF_vars(n \in DOMAIN wires /\ (Serve(n) \/ SessionEnds(n)))

Spec == Init /\ [][Next]_vars /\ Fairness

-----------------------------------------------------------------------------
\* The table keeps to its limit and remembers only what committed, and
\* the mutex is held by a thread that is in a call.
TypeOK ==
  /\ DOMAIN table \subseteq Attempt /\ Cardinality(DOMAIN table) <= MaxEntries
  /\ \A a \in DOMAIN table :
       /\ AttemptOf[table[a]] = a
       /\ \E i \in DOMAIN effects : effects[i] = [request |-> table[a], code |-> "Committed"]
  /\ \A c \in Client : client[c].lock \in {None} \cup Users(c)
  /\ \A n \in DOMAIN wires : wires[n].boot \in {None} \cup Client
  /\ Cardinality(live) <= 1 /\ live \cap DOMAIN fenced = {}

\* A call takes the answer to its own request, unless a call that takes no
\* mutex used the socket at the same time.
AnswersAreOwn == \A c \in strayed : sharing[c] # "no"

\* A client that is connected, over a connection that stands, is attached until
\* another incarnation of its publisher is.  The exceptions: it connected again
\* before the session of its lost connection had ended, which fences the
\* incarnation then, or calls without the mutex ran into its Hello.
ConnectedIsAttached ==
  \A c \in Client :
    client[c].connected /\ Open(Wire(c)) =>
      \/ c \in live
      \/ c \in DOMAIN fenced /\ fenced[c] = "Reincarnated"
      \/ c \in reattached \/ sharing[c] # "no"

\* Every call ends.  The exception: a call without the mutex that began before
\* its client connected again may take the answer to the new Hello, or to a call
\* made after it, and leave the other waiting, with the mutex.
CallsEnd ==
  \A t \in Thread :
    ~In(t, "idle") ~> In(t, "idle") \/ sharing[call[t].client] = "crossed"
=============================================================================
