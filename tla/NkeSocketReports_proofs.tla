----------------------- MODULE NkeSocketReports_proofs -----------------------
(***************************************************************************)
(* More theorems about NkeSocketObject: no report is forgotten, a sender   *)
(* asleep has its packet in the queue, and the receive window is restored, *)
(* for any number of sockets, of threads of the client and of packets.     *)
(***************************************************************************)
EXTENDS NkeSocketObject_proofs

EventStates == {"idle", "unlist", "unreport", "purge", "reinject", "inject", "drainOut",
                "drainIn", "done"}

(* The event of a thread in FltNotify or FltDetach allows what it does.     *)
EventLocals ==
  \A s \in Socket :
    LET at == pc[<<s, "event">>] IN
    /\ at \in EventStates
    /\ at = "idle" => event[s] = None
    /\ at \in {"unlist", "unreport"} => event[s] = "detach"
    /\ at = "purge" => event[s] \in {"closing", "shutdownRD", "shutdownRDWR", "detach"}
    /\ at \in {"reinject", "inject"} =>
         event[s] \in {"disconnecting", "cantrecvmore", "shutdownRDWR", "shutdownWR"}

(* A thread that waits for its wait entry, or delivers before it waits.     *)
Awake == {"deliver", "scan", "reinsert", "wait"}

SenderWaits ==
  \A s \in Socket : waitEntry[s] # "none" => pc[<<s, "out">>] \in Awake

(* SleeperHasItsPacket in terms of single entries. *)
LastOutbound(s, p) == \A q \in pendingQueue[s] : q.dir = "out" => q.place <= p.place

SleeperAt(s) ==
  /\ \A p \in pendingQueue[s] :
       p.waiter => /\ p.dir = "out" /\ p.needToBeReported
                   /\ waitEntry[s] = "unsatisfied"
                   /\ LastOutbound(s, p)
  /\ waitEntry[s] = "unsatisfied" => \E p \in pendingQueue[s] : p.waiter

SleeperInv == \A s \in Socket : SleeperAt(s)

ReportAt(s) ==
  Attached(s) /\ Unreported(s) # {} => InsertedInSocketsListToReport(s) \/ InDelivery(s)

WindowAt(s) ==
  receiveBuffer[s] = "reserve" /\ ~InboundPurged(s) => \E p \in Unreported(s) : p.dir = "in"

(* The inductive invariant, with that of NkeSocketObject_proofs.            *)
RInv ==
  /\ EventLocals
  /\ SenderWaits
  /\ SleeperInv
  /\ ReportNeverForgotten
  /\ WindowRestored

USE DEF queueVars, reportVars, allocVars, injectVars, listVars, eventVars, deliverVars,
        localVars, clientVars, ThreadState

-----------------------------------------------------------------------------
(* What a step does to the threads.                                        *)

LEMMA DifferentThreads ==
  /\ \A s, x \in Socket, d \in Direction : <<s, d>> # <<x, "event">>
  /\ \A s, x \in Socket : <<s, "in">> # <<x, "out">>
  /\ \A s, x \in Socket, d, e \in Direction : <<s, d>> = <<x, e>> => s = x /\ d = e
  /\ \A s, x \in Socket : <<s, "event">> = <<x, "event">> => s = x
  /\ \A c \in ClientThread \cup {InjectionThread}, s \in Socket, d \in Direction :
       c # <<s, d>> /\ c # <<s, "event">>
BY ThreadAssumption DEF DataThread, EventThread, Direction

(* Only thread t moves. *)
Moves(t) ==
  \A u \in Thread : u # t => /\ pc'[u] = pc[u] /\ hand'[u] = hand[u]
                             /\ reinsertInList'[u] = reinsertInList[u]

DataMove(t) ==
  \E s \in Socket, d \in Direction :
    t = <<s, d>> /\ (FltData(s, d) \/ Enqueue(s, d) \/ Notify(s, d))

WakeMove(t) == \E s \in Socket : t = <<s, "out">> /\ WakeUp(s)

EventMove(t) ==
  \E s \in Socket : /\ t = <<s, "event">>
                    /\ \/ SocketEvent(s) \/ Purge(s) \/ Unlist(s) \/ Unreport(s)
                       \/ Drain(s) \/ EventDone(s)

DeliverMove(t) == DeliverPop(t) \/ DeliverScan(t) \/ DeliverReinsert(t)

InjectMove(t) == Reinject(t) \/ Inject(t)

ClientMove(t) == t \in ClientThread /\ (Respond(t) \/ Lookup(t) \/ SetDeferredDataProperties(t))

RoundMove(t) == t = InjectionThread /\ (CollectSockets \/ NextSocket)

NoMove ==
  \/ \E s \in Socket : Expire(s)
  \/ ClientStart \/ ClientStop
  \/ UNCHANGED vars

(* Every step is of one of these kinds. *)
LEMMA StepKinds ==
  ASSUME [Next]_vars
  PROVE  \/ NoMove
         \/ \E t \in Thread : \/ DataMove(t) \/ WakeMove(t) \/ EventMove(t) \/ DeliverMove(t)
                              \/ InjectMove(t) \/ ClientMove(t) \/ RoundMove(t)
<1> DEFINE Kinds == \/ NoMove
                    \/ \E t \in Thread :
                         \/ DataMove(t) \/ WakeMove(t) \/ EventMove(t) \/ DeliverMove(t)
                         \/ InjectMove(t) \/ ClientMove(t) \/ RoundMove(t)
<1>1. ASSUME NEW s \in Socket, NEW d \in Direction, DataStep(s, d)
      PROVE  Kinds
  <2>1. <<s, d>> \in Thread
    BY ThreadFacts
  <2>2. DataMove(<<s, d>>)
    BY <1>1 DEF DataMove, DataStep
  <2>3. QED
    BY <2>1, <2>2
<1>2. ASSUME NEW s \in Socket, WakeUp(s) \/ Expire(s) \/ SocketEvent(s) \/ EventStep(s)
      PROVE  Kinds
  <2>1. <<s, "out">> \in Thread /\ <<s, "event">> \in Thread
    BY ThreadFacts DEF Direction
  <2>2. CASE WakeUp(s)
    BY <2>1, <2>2 DEF WakeMove
  <2>3. CASE Expire(s)
    BY <2>3 DEF NoMove
  <2>4. CASE SocketEvent(s) \/ EventStep(s)
    <3>1. EventMove(<<s, "event">>)
      BY <2>4 DEF EventMove, EventStep
    <3>2. QED
      BY <2>1, <3>1
  <2>5. QED
    BY <1>2, <2>2, <2>3, <2>4
<1>3. ASSUME NEW t \in Thread, Deliver(t) \/ Reinject(t) \/ Inject(t)
      PROVE  Kinds
  BY <1>3 DEF Deliver, DeliverMove, InjectMove
<1>4. ASSUME NEW c \in ClientThread, Respond(c) \/ ClientStep(c)
      PROVE  Kinds
  BY <1>4, ThreadFacts DEF ClientStep, ClientMove
<1>5. CASE InjectionStep
  BY <1>5, ThreadFacts DEF InjectionStep, RoundMove
<1>6. CASE ClientStart \/ ClientStop \/ UNCHANGED vars
  BY <1>6 DEF NoMove
<1>7. QED
  BY <1>1, <1>2, <1>3, <1>4, <1>5, <1>6 DEF Next

LEMMA OneMoves ==
  ASSUME TypeOK, NEW t \in Thread,
         \/ DataMove(t) \/ WakeMove(t) \/ EventMove(t) \/ DeliverMove(t)
         \/ InjectMove(t) \/ ClientMove(t) \/ RoundMove(t)
  PROVE  Moves(t)
<1>0. /\ pc \in [Thread -> ThreadState] /\ hand \in [Thread -> Socket \cup {None}]
      /\ reinsertInList \in [Thread -> BOOLEAN]
  BY DEF TypeOK, ThreadTypes
<1>1. CASE DataMove(t)
  <2>1. PICK s \in Socket, d \in Direction :
          t = <<s, d>> /\ (FltData(s, d) \/ Enqueue(s, d) \/ Notify(s, d))
    BY <1>1 DEF DataMove
  <2>2. CASE FltData(s, d)
    BY <1>0, <2>1, <2>2 DEF FltData, Moves
  <2>3. CASE Enqueue(s, d)
    BY <1>0, <2>1, <2>3 DEF Enqueue, Moves
  <2>4. CASE Notify(s, d)
    BY <1>0, <2>1, <2>4 DEF Notify, Moves
  <2>5. QED
    BY <2>1, <2>2, <2>3, <2>4
<1>2. CASE WakeMove(t)
  BY <1>0, <1>2 DEF WakeMove, WakeUp, Moves
<1>3. CASE EventMove(t)
  <2>1. PICK s \in Socket :
          /\ t = <<s, "event">>
          /\ \/ SocketEvent(s) \/ Purge(s) \/ Unlist(s) \/ Unreport(s)
             \/ Drain(s) \/ EventDone(s)
    BY <1>3 DEF EventMove
  <2>2. CASE SocketEvent(s)
    BY <1>0, <2>1, <2>2 DEF SocketEvent, Moves
  <2>3. CASE Purge(s) \/ Unlist(s) \/ Unreport(s)
    BY <1>0, <2>1, <2>3 DEF Purge, Unlist, Unreport, Moves
  <2>4. CASE Drain(s) \/ EventDone(s)
    BY <1>0, <2>1, <2>4 DEF Drain, EventDone, Moves
  <2>5. QED
    BY <2>1, <2>2, <2>3, <2>4
<1>4. CASE DeliverMove(t)
  <2>1. CASE DeliverPop(t)
    BY <1>0, <2>1 DEF DeliverPop, Moves
  <2>2. CASE DeliverScan(t)
    BY <1>0, <2>2 DEF DeliverScan, Scan, Moves
  <2>3. CASE DeliverReinsert(t)
    BY <1>0, <2>3 DEF DeliverReinsert, Moves
  <2>4. QED
    BY <1>4, <2>1, <2>2, <2>3 DEF DeliverMove
<1>5. CASE InjectMove(t)
  BY <1>0, <1>5 DEF InjectMove, Reinject, Inject, Moves
<1>6. CASE ClientMove(t)
  BY <1>0, <1>6 DEF ClientMove, Respond, Lookup, SetDeferredDataProperties, Moves
<1>7. CASE RoundMove(t)
  BY <1>0, <1>7 DEF RoundMove, CollectSockets, NextSocket, Moves
<1>8. QED
  BY <1>1, <1>2, <1>3, <1>4, <1>5, <1>6, <1>7

LEMMA EventLocalsOfEvent ==
  ASSUME TypeOK, EventLocals, NEW s \in Socket,
         \/ SocketEvent(s) \/ Purge(s) \/ Unlist(s) \/ Unreport(s) \/ Drain(s) \/ EventDone(s)
  PROVE  EventLocals'
<1> DEFINE t == <<s, "event">>
<1>0. /\ pc \in [Thread -> ThreadState] /\ event \in [Socket -> SocketEvents \cup {None}]
      /\ t \in Thread
  BY ThreadFacts DEF TypeOK, ThreadTypes, SocketTypes
<1>1. EventMove(t) /\ Moves(t)
  <2>1. EventMove(t)
    BY DEF EventMove
  <2>2. QED
    BY <1>0, <2>1, OneMoves
<1>2. \A x \in Socket : x # s => event'[x] = event[x]
  BY <1>0 DEF SocketEvent, Purge, Unlist, Unreport, Drain, EventDone
<1>3. \A x \in Socket : x # s => pc'[<<x, "event">>] = pc[<<x, "event">>]
  BY <1>1, ThreadFacts DEF Moves
<1> DEFINE Right(at, e) ==
      /\ at \in EventStates
      /\ at = "idle" => e = None
      /\ at \in {"unlist", "unreport"} => e = "detach"
      /\ at = "purge" => e \in {"closing", "shutdownRD", "shutdownRDWR", "detach"}
      /\ at \in {"reinject", "inject"} =>
           e \in {"disconnecting", "cantrecvmore", "shutdownRDWR", "shutdownWR"}
<1>4. Right(pc[t], event[s])
  BY DEF EventLocals
<1>5. Right(pc'[t], event'[s])
  <2>1. CASE SocketEvent(s)
    <3>1. PICK e \in SocketEvents : event'[s] = e /\ pc'[t] = FirstStep(e)
      BY <1>0, <2>1 DEF SocketEvent
    <3>2. e \in AllEvents
      BY EventAssumption
    <3>3. QED
      BY <3>1, <3>2 DEF FirstStep, AllEvents, EventStates
  <2>2. CASE Purge(s)
    BY <1>0, <1>4, <2>2 DEF Purge, EventStates
  <2>3. CASE Unlist(s) \/ Unreport(s)
    BY <1>0, <1>4, <2>3 DEF Unlist, Unreport, EventStates
  <2>4. CASE Drain(s)
    BY <1>0, <1>4, <2>4 DEF Drain, EventStates
  <2>5. CASE EventDone(s)
    BY <1>0, <1>4, <2>5 DEF EventDone, EventStates
  <2>6. QED
    BY <2>1, <2>2, <2>3, <2>4, <2>5
<1>6. QED
  BY <1>2, <1>3, <1>5 DEF EventLocals

LEMMA EventLocalsStep ==
  ASSUME IInv, EventLocals, [Next]_vars
  PROVE  EventLocals'
<1>0. TypeOK /\ pc \in [Thread -> ThreadState]
  BY DEF IInv, TypeOK, ThreadTypes
<1>1. CASE NoMove
  BY <1>1 DEF NoMove, Expire, ClientStart, ClientStop, vars, EventLocals
<1>2. ASSUME NEW t \in Thread, EventMove(t)
      PROVE  EventLocals'
  BY <1>0, <1>2, EventLocalsOfEvent DEF EventMove
<1>3. ASSUME NEW t \in Thread,
             DataMove(t) \/ WakeMove(t) \/ DeliverMove(t) \/ ClientMove(t) \/ RoundMove(t)
      PROVE  EventLocals'
  <2>1. event' = event
    BY <1>3 DEF DataMove, FltData, Enqueue, Notify, WakeMove, WakeUp, DeliverMove, DeliverPop,
      DeliverScan, DeliverReinsert, ClientMove, Respond, Lookup, SetDeferredDataProperties,
      RoundMove, CollectSockets, NextSocket
  <2>2. Moves(t)
    BY <1>0, <1>3, OneMoves
  <2>3. \A x \in Socket : t # <<x, "event">>
    <3>1. CASE DataMove(t) \/ WakeMove(t) \/ ClientMove(t) \/ RoundMove(t)
      BY <3>1, DifferentThreads DEF DataMove, WakeMove, ClientMove, RoundMove, Direction
    <3>2. CASE DeliverMove(t)
      BY <3>2 DEF DeliverMove, DeliverPop, DeliverScan, DeliverReinsert, EventLocals,
                  EventStates
    <3>3. QED
      BY <1>3, <3>1, <3>2
  <2>4. \A x \in Socket : pc'[<<x, "event">>] = pc[<<x, "event">>]
    BY <2>2, <2>3, ThreadFacts DEF Moves
  <2>5. QED
    BY <2>1, <2>4 DEF EventLocals
<1>4. ASSUME NEW t \in Thread, InjectMove(t)
      PROVE  EventLocals'
  <2>1. event' = event
    BY <1>4 DEF InjectMove, Reinject, Inject
  <2>2. Moves(t)
    BY <1>0, <1>4, OneMoves
  <2>3. /\ pc[t] \in {"reinject", "inject"}
        /\ pc'[t] = "inject" \/ pc'[t] = pc[t] \/ pc'[t] = AfterInjection(t)
    BY <1>0, <1>4 DEF InjectMove, Reinject, Inject
  <2>4. ASSUME NEW x \in Socket, t = <<x, "event">>
        PROVE  AfterInjection(t) =
                 CASE event[x] = "disconnecting" -> "drainOut"
                   [] event[x] = "shutdownRDWR" -> "purge"
                   [] OTHER -> "done"
    BY <2>4, DifferentThreads, ThreadFacts DEF AfterInjection
  <2>5. ASSUME NEW x \in Socket
        PROVE  LET at == pc'[<<x, "event">>] IN
               /\ at \in EventStates
               /\ at = "idle" => event[x] = None
               /\ at \in {"unlist", "unreport"} => event[x] = "detach"
               /\ at = "purge" => event[x] \in {"closing", "shutdownRD", "shutdownRDWR", "detach"}
               /\ at \in {"reinject", "inject"} =>
                    event[x] \in {"disconnecting", "cantrecvmore", "shutdownRDWR", "shutdownWR"}
    <3>1. CASE t = <<x, "event">>
      BY <2>3, <2>4, <3>1 DEF EventLocals, EventStates
    <3>2. CASE t # <<x, "event">>
      BY <2>2, <3>2, ThreadFacts DEF EventLocals, Moves
    <3>3. QED
      BY <3>1, <3>2
  <2>6. QED
    BY <2>1, <2>5 DEF EventLocals
<1>5. QED
  BY <1>1, <1>2, <1>3, <1>4, StepKinds

-----------------------------------------------------------------------------
(* What a step does to the entries that wait to be reported.               *)

(* The fields of an entry the reports depend on. *)
Same(p, q) ==
  /\ q.place = p.place /\ q.dir = p.dir
  /\ q.needToBeReported = p.needToBeReported /\ q.waiter = p.waiter

Undisturbed(x) ==
  /\ waitEntry'[x] = waitEntry[x] /\ receiveBuffer'[x] = receiveBuffer[x]
  /\ \A q \in pendingQueue'[x] : \E p \in pendingQueue[x] : Same(p, q)
  /\ \A p \in Unreported(x) : \E q \in pendingQueue'[x] : Same(p, q)

IdleStep ==
  \/ \E s \in Socket, d \in Direction : FltData(s, d) \/ Notify(s, d)
  \/ \E s \in Socket : SocketEvent(s) \/ Unlist(s) \/ Unreport(s) \/ Drain(s) \/ EventDone(s)
  \/ \E t \in Thread : DeliverPop(t) \/ DeliverReinsert(t) \/ Inject(t)
  \/ \E c \in ClientThread : Respond(c) \/ Lookup(c)
  \/ InjectionStep \/ ClientStart \/ ClientStop \/ UNCHANGED vars

QuietStep ==
  \/ IdleStep
  \/ \E s \in Socket : Expire(s)
  \/ \E t \in Thread : Reinject(t)
  \/ \E c \in ClientThread : SetDeferredDataProperties(c)

LEMMA QuietOrNot ==
  ASSUME [Next]_vars
  PROVE  \/ QuietStep
         \/ \E s \in Socket, d \in Direction : Enqueue(s, d)
         \/ \E s \in Socket : WakeUp(s) \/ Purge(s)
         \/ \E t \in Thread : DeliverScan(t)
BY DEF Next, DataStep, EventStep, Deliver, ClientStep, QuietStep, IdleStep

(* A step on one socket only. *)
LEMMA UndisturbedElsewhere ==
  ASSUME TypeOK, NEW s \in Socket, NEW new, NEW wait, NEW window,
         pendingQueue' = [pendingQueue EXCEPT ![s] = new],
         waitEntry' = [waitEntry EXCEPT ![s] = wait],
         receiveBuffer' = [receiveBuffer EXCEPT ![s] = window]
  PROVE  /\ \A x \in Socket : x # s => Undisturbed(x)
         /\ pendingQueue'[s] = new /\ waitEntry'[s] = wait /\ receiveBuffer'[s] = window
<1>1. /\ pendingQueue \in [Socket -> SUBSET PendingPktQueueItem]
      /\ receiveBuffer \in [Socket -> {"original", "reserve"}]
      /\ waitEntry \in [Socket -> {"none", "unsatisfied", "satisfied"}]
  BY DEF TypeOK, QueueTypes, SocketTypes
<1>2. ASSUME NEW x \in Socket, x # s
      PROVE  Undisturbed(x)
  <2>1. pendingQueue'[x] = pendingQueue[x] /\ waitEntry'[x] = waitEntry[x]
        /\ receiveBuffer'[x] = receiveBuffer[x]
    BY <1>1, <1>2
  <2>2. \A p : Same(p, p)
    BY DEF Same
  <2>3. QED
    BY <2>1, <2>2 DEF Undisturbed, Unreported
<1>3. QED
  BY <1>1, <1>2

LEMMA IdleUndisturbed ==
  ASSUME IdleStep
  PROVE  \A x \in Socket : Undisturbed(x)
<1>1. UNCHANGED <<pendingQueue, waitEntry, receiveBuffer>>
  BY DEF IdleStep, FltData, Notify, SocketEvent, Unlist, Unreport, Drain, EventDone, DeliverPop,
         DeliverReinsert, Inject, Respond, Lookup, InjectionStep, CollectSockets, NextSocket,
         ClientStart, ClientStop, vars
<1>2. \A p : Same(p, p)
  BY DEF Same
<1>3. QED
  BY <1>1, <1>2 DEF Undisturbed, Unreported

LEMMA QuietUndisturbed ==
  ASSUME IInv, QuietStep
  PROVE  \A x \in Socket : Undisturbed(x)
<1>0. /\ TypeOK /\ LocalsSet
      /\ pendingQueue \in [Socket -> SUBSET PendingPktQueueItem]
      /\ receiveBuffer \in [Socket -> {"original", "reserve"}]
      /\ waitEntry \in [Socket -> {"none", "unsatisfied", "satisfied"}]
  BY DEF IInv, TypeOK, QueueTypes, SocketTypes
<1>s. \A p : Same(p, p)
  BY DEF Same
<1>1. CASE IdleStep
  BY <1>1, IdleUndisturbed
<1>2. ASSUME NEW s \in Socket, Expire(s)
      PROVE  \A x \in Socket : Undisturbed(x)
  <2>1. PICK p \in pendingQueue[s] :
          pendingQueue' = [pendingQueue EXCEPT ![s] =
            (@ \ {p}) \cup {[p EXCEPT !.expired = TRUE]}]
    BY <1>2 DEF Expire
  <2>2. waitEntry' = waitEntry /\ receiveBuffer' = receiveBuffer
    BY <1>2 DEF Expire
  <2>3. Same(p, [p EXCEPT !.expired = TRUE])
    BY <1>0 DEF Same, PendingPktQueueItem
  <2>4. /\ waitEntry' = [waitEntry EXCEPT ![s] = waitEntry[s]]
        /\ receiveBuffer' = [receiveBuffer EXCEPT ![s] = receiveBuffer[s]]
    BY <1>0, <2>2
  <2>5. /\ \A x \in Socket : x # s => Undisturbed(x)
        /\ pendingQueue'[s] = (pendingQueue[s] \ {p}) \cup {[p EXCEPT !.expired = TRUE]}
    BY <1>0, <2>1, <2>4, UndisturbedElsewhere
  <2>6. Undisturbed(s)
    BY <1>s, <2>2, <2>3, <2>5 DEF Undisturbed, Unreported
  <2>7. QED
    BY <2>5, <2>6
<1>3. ASSUME NEW t \in Thread, Reinject(t)
      PROVE  \A x \in Socket : Undisturbed(x)
  <2> DEFINE s == hand[t]
             moved == Injectable(s, InjectType(t))
  <2>1. s \in Socket
    BY <1>0, <1>3 DEF LocalsSet, Reinject
  <2>2. /\ pendingQueue' = [pendingQueue EXCEPT ![s] = @ \ moved]
        /\ waitEntry' = waitEntry /\ receiveBuffer' = receiveBuffer
    BY <1>3 DEF Reinject
  <2>3. \A p \in moved : ~p.needToBeReported
    <3>1. ASSUME NEW p \in moved
          PROVE  ~p.needToBeReported
      <4>1. p \in pendingQueue[s] /\ p.dir \in InjectType(t) /\ p.place \in Nat
        BY <1>0, <2>1 DEF Injectable, PendingPktQueueItem
      <4>2. p \in UpTo(s, p)
        BY <4>1 DEF UpTo
      <4>3. QED
        BY <4>1, <4>2 DEF Injectable, Decided
    <3>2. QED
      BY <3>1
  <2> HIDE DEF moved, s
  <2>4. /\ waitEntry' = [waitEntry EXCEPT ![s] = waitEntry[s]]
        /\ receiveBuffer' = [receiveBuffer EXCEPT ![s] = receiveBuffer[s]]
    BY <1>0, <2>2
  <2>5. /\ \A x \in Socket : x # s => Undisturbed(x)
        /\ pendingQueue'[s] = pendingQueue[s] \ moved
    BY <1>0, <2>1, <2>2, <2>4, UndisturbedElsewhere
  <2>6. Undisturbed(s)
    BY <1>s, <2>2, <2>3, <2>5 DEF Undisturbed, Unreported
  <2>7. QED
    BY <2>5, <2>6
<1>4. ASSUME NEW c \in ClientThread, SetDeferredDataProperties(c)
      PROVE  \A x \in Socket : Undisturbed(x)
  <2> DEFINE s == hand[c]
             answered == Answered(s, response[c].dataIndex)
             Set(p) == [p EXCEPT !.allowData = response[c].allow, !.responseReceived = TRUE]
             come == {Set(p) : p \in answered}
             new == (pendingQueue[s] \ answered) \cup come
  <2>1. s \in Socket
    BY <1>0, <1>4, ThreadFacts DEF LocalsSet, SetDeferredDataProperties
  <2>2. /\ pendingQueue' = [pendingQueue EXCEPT ![s] = new]
        /\ waitEntry' = waitEntry /\ receiveBuffer' = receiveBuffer
    BY <1>4 DEF SetDeferredDataProperties
  <2>3. answered \subseteq pendingQueue[s]
    BY DEF Answered
  <2>4. \A p \in answered : Same(p, Set(p))
    BY <1>0, <2>1, <2>3 DEF Same, PendingPktQueueItem
  <2>5. /\ \A p \in answered : \E q \in come : Same(p, q)
        /\ \A q \in come : \E p \in answered : Same(p, q)
    BY <2>4
  <2> HIDE DEF answered, s, come
  <2>6. /\ waitEntry' = [waitEntry EXCEPT ![s] = waitEntry[s]]
        /\ receiveBuffer' = [receiveBuffer EXCEPT ![s] = receiveBuffer[s]]
    BY <1>0, <2>2
  <2>7. /\ \A x \in Socket : x # s => Undisturbed(x)
        /\ pendingQueue'[s] = new
    <3> HIDE DEF new
    <3> QED
      BY <1>0, <2>1, <2>2, <2>6, UndisturbedElsewhere
  <2>8. Undisturbed(s)
    <3>1. \A q \in pendingQueue'[s] : \E p \in pendingQueue[s] : Same(p, q)
      BY <1>s, <2>3, <2>5, <2>7
    <3>2. \A p \in pendingQueue[s] : \E q \in pendingQueue'[s] : Same(p, q)
      BY <1>s, <2>5, <2>7
    <3>3. QED
      BY <2>2, <3>1, <3>2 DEF Undisturbed, Unreported
  <2>9. QED
    BY <2>7, <2>8
<1>5. QED
  BY <1>1, <1>2, <1>3, <1>4 DEF QuietStep

-----------------------------------------------------------------------------
(* The sender asleep, and the receive window.                              *)

(* Both of one socket. *)
SleeperWindow(x) == SleeperAt(x) /\ WindowAt(x)

(* Only two actions change the event of a socket. *)
LEMMA EventChanges ==
  ASSUME [Next]_vars
  PROVE  \/ UNCHANGED <<event, eventsDone>>
         \/ \E s \in Socket : SocketEvent(s) \/ EventDone(s)
<1>1. ASSUME NEW t \in Thread,
             \/ DataMove(t) \/ WakeMove(t) \/ EventMove(t) \/ DeliverMove(t)
             \/ InjectMove(t) \/ ClientMove(t) \/ RoundMove(t)
      PROVE  \/ UNCHANGED <<event, eventsDone>>
             \/ \E s \in Socket : SocketEvent(s) \/ EventDone(s)
  BY <1>1 DEF DataMove, FltData, Enqueue, Notify, WakeMove, WakeUp, EventMove, Purge, Unlist,
    Unreport, Drain, DeliverMove, DeliverPop, DeliverScan, DeliverReinsert, InjectMove,
    Reinject, Inject, ClientMove, Respond, Lookup, SetDeferredDataProperties, RoundMove,
    CollectSockets, NextSocket
<1>2. CASE NoMove
  BY <1>2 DEF NoMove, Expire, ClientStart, ClientStop, vars
<1>3. QED
  BY <1>1, <1>2, StepKinds

(* An event that purges inbound data is not forgotten. *)
LEMMA PurgeRemembered ==
  ASSUME IInv, EventLocals, [Next]_vars, NEW x \in Socket
  PROVE  /\ InboundPurged(x) => InboundPurged(x)'
         /\ Attached(x)' => Attached(x)
<1>0. /\ event \in [Socket -> SocketEvents \cup {None}]
      /\ eventsDone \in [Socket -> SUBSET SocketEvents]
  BY DEF IInv, TypeOK, SocketTypes
<1>1. ASSUME NEW s \in Socket, SocketEvent(s)
      PROVE  /\ InboundPurged(x) => InboundPurged(x)'
             /\ Attached(x)' => Attached(x)
  <2>1. event[s] = None /\ eventsDone' = eventsDone /\ Attached(s)
    BY <1>1 DEF EventLocals, SocketEvent
  <2>2. \A y \in Socket : y # s => event'[y] = event[y]
    BY <1>0, <1>1 DEF SocketEvent
  <2>3. None \notin {"closing", "shutdownRDWR", "shutdownRD", "detach"}
    BY EventAssumption DEF AllEvents
  <2>4. QED
    BY <2>1, <2>2, <2>3 DEF InboundPurged, Attached
<1>2. ASSUME NEW s \in Socket, EventDone(s)
      PROVE  /\ InboundPurged(x) => InboundPurged(x)'
             /\ Attached(x)' => Attached(x)
  <2>1. /\ \A y \in Socket : y # s => event'[y] = event[y] /\ eventsDone'[y] = eventsDone[y]
        /\ eventsDone'[s] = eventsDone[s] \cup {event[s]}
        /\ event'[s] = None
    BY <1>0, <1>2 DEF EventDone
  <2>2. QED
    BY <2>1 DEF InboundPurged, Attached
<1>3. CASE UNCHANGED <<event, eventsDone>>
  BY <1>3 DEF InboundPurged, Attached
<1>4. \/ UNCHANGED <<event, eventsDone>>
      \/ \E s \in Socket : SocketEvent(s) \/ EventDone(s)
  BY EventChanges
<1>5. QED
  BY <1>1, <1>2, <1>3, <1>4

LEMMA UndisturbedKeeps ==
  ASSUME IInv, NEW x \in Socket, Undisturbed(x), InboundPurged(x) => InboundPurged(x)',
         SleeperWindow(x)
  PROVE  SleeperWindow(x)'
<1>1. SleeperAt(x)'
  <2>1. ASSUME NEW q \in pendingQueue'[x], q.waiter
        PROVE  /\ q.dir = "out" /\ q.needToBeReported /\ waitEntry'[x] = "unsatisfied"
               /\ \A r \in pendingQueue'[x] : r.dir = "out" => r.place <= q.place
    BY <2>1 DEF Undisturbed, Same, SleeperWindow, SleeperAt, LastOutbound
  <2>2. ASSUME waitEntry'[x] = "unsatisfied"
        PROVE  \E q \in pendingQueue'[x] : q.waiter
    <3>1. PICK p \in pendingQueue[x] : p.waiter /\ p.needToBeReported
      BY <2>2 DEF Undisturbed, SleeperWindow, SleeperAt
    <3>2. p \in Unreported(x)
      BY <3>1 DEF Unreported
    <3>3. QED
      BY <3>1, <3>2 DEF Undisturbed, Same
  <2>3. QED
    BY <2>1, <2>2 DEF SleeperAt, LastOutbound
<1>2. WindowAt(x)'
  <2>1. ASSUME receiveBuffer'[x] = "reserve", ~InboundPurged(x)'
        PROVE  \E q \in pendingQueue'[x] : q.needToBeReported /\ q.dir = "in"
    <3>1. PICK p \in Unreported(x) : p.dir = "in"
      BY <2>1 DEF Undisturbed, SleeperWindow, WindowAt
    <3>2. p.needToBeReported
      BY DEF Unreported
    <3>3. QED
      BY <3>1, <3>2 DEF Undisturbed, Same
  <2>2. QED
    BY <2>1 DEF WindowAt, Unreported
<1>3. QED
  BY <1>1, <1>2 DEF SleeperWindow

LEMMA EnqueueSleeper ==
  ASSUME IInv, SenderWaits, NEW s \in Socket, NEW d \in Direction, SleeperWindow(s),
         Enqueue(s, d)
  PROVE  /\ SleeperWindow(s)'
         /\ \A x \in Socket : x # s => Undisturbed(x)
         /\ waitEntry'[s] # "none" => waitEntry[s] # "none" \/ pc'[<<s, "out">>] = "deliver"
<1>0. /\ TypeOK /\ QueueWellFormed
      /\ pendingQueue \in [Socket -> SUBSET PendingPktQueueItem]
      /\ receiveBuffer \in [Socket -> {"original", "reserve"}]
      /\ waitEntry \in [Socket -> {"none", "unsatisfied", "satisfied"}]
      /\ nextPlace \in [Socket -> Nat] /\ pc \in [Thread -> ThreadState]
      /\ <<s, d>> \in Thread
  BY ThreadFacts DEF IInv, TypeOK, QueueTypes, SocketTypes, ThreadTypes
<1>1. PICK copied \in BOOLEAN :
        LET postponed == MustPostpone(s, copied) IN
        /\ pendingQueue' = [pendingQueue EXCEPT ![s] = @ \cup {NewEntry(s, d, postponed)}]
        /\ waitEntry' = [waitEntry EXCEPT ![s] =
             IF postponed /\ d = "out" THEN "unsatisfied" ELSE @]
        /\ receiveBuffer' = [receiveBuffer EXCEPT ![s] =
             IF postponed /\ d = "in" THEN "reserve" ELSE @]
        /\ pc' = [pc EXCEPT ![<<s, d>>] = IF postponed THEN "deliver" ELSE "notify"]
  BY DEF Enqueue
<1> DEFINE postponed == MustPostpone(s, copied)
           e == NewEntry(s, d, postponed)
<1>2. postponed \in BOOLEAN
  BY DEF MustPostpone
<1>3. /\ e.place = nextPlace[s] /\ e.dir = d /\ e.needToBeReported = postponed
      /\ e.waiter = (postponed /\ d = "out")
  BY DEF NewEntry
<1> HIDE DEF e, postponed
<1>4. /\ \A x \in Socket : x # s => Undisturbed(x)
      /\ pendingQueue'[s] = pendingQueue[s] \cup {e}
      /\ waitEntry'[s] = IF postponed /\ d = "out" THEN "unsatisfied" ELSE waitEntry[s]
      /\ receiveBuffer'[s] = IF postponed /\ d = "in" THEN "reserve" ELSE receiveBuffer[s]
  BY <1>0, <1>1, UndisturbedElsewhere DEF e, postponed
<1>5. \A p \in pendingQueue[s] : p.place \in Nat /\ p.place < e.place
  BY <1>0, <1>3 DEF QueueWellFormed, Entries, PendingPktQueueItem
<1>6. d = "out" => /\ waitEntry[s] = "none"
                   /\ \A p \in pendingQueue[s] : ~p.waiter
  <2>1. pc[<<s, d>>] = "enqueue"
    BY DEF Enqueue
  <2>2. d = "out" => waitEntry[s] = "none"
    BY <2>1 DEF SenderWaits, Awake
  <2>3. QED
    BY <2>2 DEF SleeperWindow, SleeperAt
<1>7. SleeperAt(s)'
  <2>1. CASE d = "out"
    BY <1>0, <1>2, <1>3, <1>4, <1>5, <1>6, <2>1 DEF SleeperAt, LastOutbound
  <2>2. CASE d = "in"
    <3>1. waitEntry'[s] = waitEntry[s] /\ ~e.waiter /\ e.dir # "out"
      BY <1>2, <1>3, <1>4, <2>2
    <3>2. QED
      BY <1>4, <3>1 DEF SleeperWindow, SleeperAt, LastOutbound
  <2>3. QED
    BY <2>1, <2>2 DEF Direction
<1>8. WindowAt(s)'
  <2>1. CASE postponed /\ d = "in"
    BY <1>3, <1>4, <2>1 DEF WindowAt, Unreported
  <2>2. CASE ~(postponed /\ d = "in")
    <3>1. InboundPurged(s)' <=> InboundPurged(s)
      BY DEF Enqueue, InboundPurged
    <3>2. receiveBuffer'[s] = receiveBuffer[s]
      BY <1>4, <2>2
    <3>3. Unreported(s) \subseteq Unreported(s)'
      BY <1>4 DEF Unreported
    <3>4. QED
      BY <3>1, <3>2, <3>3 DEF SleeperWindow, WindowAt
  <2>3. QED
    BY <2>1, <2>2
<1>9. waitEntry'[s] # "none" => waitEntry[s] # "none" \/ pc'[<<s, "out">>] = "deliver"
  BY <1>0, <1>1, <1>4 DEF postponed
<1>10. QED
  BY <1>4, <1>7, <1>8, <1>9 DEF SleeperWindow

LEMMA WakeUpSleeper ==
  ASSUME IInv, NEW s \in Socket, SleeperWindow(s), WakeUp(s)
  PROVE  /\ SleeperWindow(s)'
         /\ \A x \in Socket : x # s => Undisturbed(x)
         /\ waitEntry'[s] = "none"
<1>0. /\ TypeOK
      /\ pendingQueue \in [Socket -> SUBSET PendingPktQueueItem]
      /\ receiveBuffer \in [Socket -> {"original", "reserve"}]
      /\ waitEntry \in [Socket -> {"none", "unsatisfied", "satisfied"}]
  BY DEF IInv, TypeOK, QueueTypes, SocketTypes
<1>1. /\ pendingQueue' = [pendingQueue EXCEPT ![s] = pendingQueue[s]]
      /\ receiveBuffer' = [receiveBuffer EXCEPT ![s] = receiveBuffer[s]]
      /\ waitEntry' = [waitEntry EXCEPT ![s] = "none"]
  BY <1>0 DEF WakeUp
<1>2. /\ \A x \in Socket : x # s => Undisturbed(x)
      /\ pendingQueue'[s] = pendingQueue[s] /\ waitEntry'[s] = "none"
      /\ receiveBuffer'[s] = receiveBuffer[s]
  BY <1>0, <1>1, UndisturbedElsewhere
<1>3. \A p \in pendingQueue[s] : ~p.waiter
  BY DEF WakeUp, SleeperWindow, SleeperAt
<1>4. SleeperAt(s)'
  BY <1>2, <1>3 DEF SleeperAt
<1>5. WindowAt(s)'
  <2>1. InboundPurged(s)' <=> InboundPurged(s)
    BY DEF WakeUp, InboundPurged
  <2>2. QED
    BY <1>2, <2>1 DEF SleeperWindow, WindowAt, Unreported
<1>6. QED
  BY <1>2, <1>4, <1>5 DEF SleeperWindow

(* Entries are taken out, or marked as reported: a sender among them is     *)
(* woken up, and the last outbound entry has no other waiter before it.     *)
LEMMA WaiterGone ==
  ASSUME IInv, NEW s \in Socket, SleeperAt(s),
         NEW gone \in SUBSET pendingQueue[s], NEW come,
         \A q \in come : ~q.waiter /\ \E p \in gone : q.place = p.place /\ q.dir = p.dir,
         pendingQueue'[s] = (pendingQueue[s] \ gone) \cup come,
         waitEntry'[s] = IF \E p \in gone : p.waiter THEN "satisfied" ELSE waitEntry[s]
  PROVE  /\ SleeperAt(s)'
         /\ waitEntry'[s] # "none" => waitEntry[s] # "none"
<1>0. \A p \in pendingQueue[s] : p.place \in Nat
  BY DEF IInv, TypeOK, QueueTypes, PendingPktQueueItem
<1>1. CASE \E p \in gone : p.waiter
  <2>1. PICK p \in gone : p.waiter
    BY <1>1
  <2>2. ASSUME NEW q \in pendingQueue[s], q.waiter
        PROVE  q = p
    <3>1. q.dir = "out" /\ p.dir = "out" /\ LastOutbound(s, p) /\ LastOutbound(s, q)
      BY <2>1, <2>2 DEF SleeperAt
    <3>2. q.place = p.place
      BY <1>0, <3>1 DEF LastOutbound
    <3>3. QED
      BY <3>2 DEF IInv, QueueWellFormed, Entries
  <2>3. \A q \in pendingQueue'[s] : ~q.waiter
    BY <2>1, <2>2
  <2>4. waitEntry'[s] = "satisfied" /\ waitEntry[s] = "unsatisfied"
    BY <2>1 DEF SleeperAt
  <2>5. QED
    BY <2>3, <2>4 DEF SleeperAt
<1>2. CASE ~ \E p \in gone : p.waiter
  <2>1. waitEntry'[s] = waitEntry[s]
    BY <1>2
  <2>2. \A q \in pendingQueue'[s] : \E p \in pendingQueue[s] : q.place = p.place /\ q.dir = p.dir
    OBVIOUS
  <2>3. ASSUME NEW q \in pendingQueue'[s], q.waiter
        PROVE  /\ q.dir = "out" /\ q.needToBeReported /\ waitEntry'[s] = "unsatisfied"
               /\ \A r \in pendingQueue'[s] : r.dir = "out" => r.place <= q.place
    <3>1. q \in pendingQueue[s]
      BY <2>3
    <3>2. QED
      BY <2>1, <2>2, <2>3, <3>1 DEF SleeperAt, LastOutbound
  <2>4. ASSUME waitEntry'[s] = "unsatisfied"
        PROVE  \E q \in pendingQueue'[s] : q.waiter
    BY <1>2, <2>1, <2>4 DEF SleeperAt
  <2>5. QED
    BY <2>1, <2>3, <2>4 DEF SleeperAt, LastOutbound
<1>3. QED
  BY <1>1, <1>2

LEMMA PurgeSleeper ==
  ASSUME IInv, EventLocals, NEW s \in Socket, SleeperWindow(s), Purge(s)
  PROVE  /\ SleeperWindow(s)'
         /\ \A x \in Socket : x # s => Undisturbed(x)
         /\ waitEntry'[s] # "none" => waitEntry[s] # "none"
<1> DEFINE gone == Purged(s, PurgeType(event[s]))
           wait == IF \E p \in gone : p.waiter THEN "satisfied" ELSE waitEntry[s]
<1>0. /\ TypeOK
      /\ receiveBuffer \in [Socket -> {"original", "reserve"}]
  BY DEF IInv, TypeOK, SocketTypes
<1>1. /\ pendingQueue' = [pendingQueue EXCEPT ![s] = pendingQueue[s] \ gone]
      /\ receiveBuffer' = [receiveBuffer EXCEPT ![s] = receiveBuffer[s]]
      /\ waitEntry' = [waitEntry EXCEPT ![s] = wait]
  BY <1>0 DEF Purge
<1>2. gone \in SUBSET pendingQueue[s]
  BY DEF Purged
<1>3. /\ \A x \in Socket : x # s => Undisturbed(x)
      /\ pendingQueue'[s] = pendingQueue[s] \ gone /\ waitEntry'[s] = wait
  <2> HIDE DEF gone, wait
  <2> QED
    BY <1>0, <1>1, UndisturbedElsewhere
<1> HIDE DEF gone
<1>4. /\ SleeperAt(s)'
      /\ waitEntry'[s] # "none" => waitEntry[s] # "none"
  <2> DEFINE come == {}
  <2>1. /\ \A q \in come : ~q.waiter /\ \E p \in gone : q.place = p.place /\ q.dir = p.dir
        /\ pendingQueue'[s] = (pendingQueue[s] \ gone) \cup come
        /\ SleeperAt(s)
    BY <1>3 DEF SleeperWindow
  <2> HIDE DEF come
  <2>2. QED
    BY <1>2, <1>3, <2>1, WaiterGone
<1>5. WindowAt(s)'
  <2>1. event'[s] \in {"closing", "shutdownRD", "shutdownRDWR", "detach"}
    BY DEF Purge, EventLocals
  <2>2. InboundPurged(s)'
    BY <2>1 DEF InboundPurged
  <2>3. QED
    BY <2>2 DEF WindowAt
<1>6. QED
  BY <1>3, <1>4, <1>5 DEF SleeperWindow

LEMMA ScanSleeper ==
  ASSUME IInv, NEW t \in Thread, NEW s \in Socket, s = hand[t], SleeperWindow(s), DeliverScan(t)
  PROVE  /\ SleeperWindow(s)'
         /\ \A x \in Socket : x # s => Undisturbed(x)
         /\ waitEntry'[s] # "none" => waitEntry[s] # "none"
         /\ Unreported(s)' # {} => reinsertInList'[t]
<1>0. /\ TypeOK
      /\ pendingQueue \in [Socket -> SUBSET PendingPktQueueItem]
      /\ reinsertInList \in [Thread -> BOOLEAN]
  BY DEF IInv, TypeOK, QueueTypes, ThreadTypes
<1>p. PICK gone \in SUBSET Unreported(s) :
        \E sent \in SUBSET gone : ScanOutcome(s, gone, sent) /\ Scan(t, gone, sent)
  BY DEF DeliverScan
<1>1. PICK sent \in SUBSET gone : Scan(t, gone, sent)
  BY <1>p
<1> DEFINE come == {AsReported(p, sent) : p \in gone}
           wait == IF \E p \in gone : p.waiter THEN "satisfied" ELSE waitEntry[s]
           window == IF RestoresWindow(gone, sent) THEN "original" ELSE receiveBuffer[s]
           new == (pendingQueue[s] \ gone) \cup come
<1>2. /\ pendingQueue' = [pendingQueue EXCEPT ![s] = new]
      /\ receiveBuffer' = [receiveBuffer EXCEPT ![s] = window]
      /\ waitEntry' = [waitEntry EXCEPT ![s] = wait]
      /\ reinsertInList' = [reinsertInList EXCEPT ![t] = gone # Unreported(s)]
  BY <1>1 DEF Scan
<1>3. gone \in SUBSET pendingQueue[s] /\ gone \subseteq PendingPktQueueItem
  BY <1>0 DEF Unreported
<1>4. \A p \in gone : /\ ~AsReported(p, sent).waiter /\ ~AsReported(p, sent).needToBeReported
                      /\ AsReported(p, sent).place = p.place
                      /\ AsReported(p, sent).dir = p.dir
  BY <1>3 DEF AsReported, PendingPktQueueItem
<1>5. \A q \in come : /\ ~q.waiter /\ ~q.needToBeReported
                      /\ \E p \in gone : q.place = p.place /\ q.dir = p.dir
  BY <1>4
<1>6. /\ \A x \in Socket : x # s => Undisturbed(x)
      /\ pendingQueue'[s] = new /\ waitEntry'[s] = wait /\ receiveBuffer'[s] = window
  <2> HIDE DEF new, wait, window
  <2> QED
    BY <1>0, <1>2, UndisturbedElsewhere
<1> HIDE DEF come
<1>7. /\ SleeperAt(s)'
      /\ waitEntry'[s] # "none" => waitEntry[s] # "none"
  <2>1. /\ \A q \in come : ~q.waiter /\ \E p \in gone : q.place = p.place /\ q.dir = p.dir
        /\ pendingQueue'[s] = (pendingQueue[s] \ gone) \cup come
        /\ waitEntry'[s] = IF \E p \in gone : p.waiter THEN "satisfied" ELSE waitEntry[s]
        /\ SleeperAt(s)
    BY <1>5, <1>6 DEF SleeperWindow
  <2> HIDE DEF new, wait, window
  <2>2. QED
    BY <1>3, <2>1, WaiterGone
<1>8. Unreported(s)' = Unreported(s) \ gone
  BY <1>5, <1>6 DEF Unreported
<1>9. WindowAt(s)'
  <2>1. ASSUME receiveBuffer'[s] = "reserve", ~InboundPurged(s)'
        PROVE  \E p \in Unreported(s)' : p.dir = "in"
    <3>1. ~InboundPurged(s)
      BY <2>1 DEF DeliverScan, InboundPurged
    <3>2. receiveBuffer[s] = "reserve" /\ \A p \in gone : p.dir # "in"
      BY <1>6, <2>1 DEF RestoresWindow
    <3>3. PICK p \in Unreported(s) : p.dir = "in"
      BY <3>1, <3>2 DEF SleeperWindow, WindowAt
    <3>4. QED
      BY <1>8, <3>2, <3>3
  <2>2. QED
    BY <2>1 DEF WindowAt
<1>10. Unreported(s)' # {} => reinsertInList'[t]
  BY <1>0, <1>2, <1>8
<1>11. QED
  BY <1>6, <1>7, <1>9, <1>10 DEF SleeperWindow

LEMMA SleeperStep ==
  ASSUME IInv, EventLocals, SenderWaits, \A x \in Socket : SleeperWindow(x), [Next]_vars
  PROVE  /\ \A x \in Socket : SleeperWindow(x)'
         /\ \A x \in Socket :
              waitEntry'[x] # "none" => waitEntry[x] # "none" \/ pc'[<<x, "out">>] = "deliver"
<1> DEFINE Goal(x) ==
      /\ SleeperWindow(x)'
      /\ waitEntry'[x] # "none" => waitEntry[x] # "none" \/ pc'[<<x, "out">>] = "deliver"
<1>1. ASSUME NEW x \in Socket, Undisturbed(x)
      PROVE  Goal(x)
  <2>1. SleeperWindow(x)'
    BY <1>1, UndisturbedKeeps, PurgeRemembered
  <2>2. waitEntry'[x] = waitEntry[x]
    BY <1>1 DEF Undisturbed
  <2>3. QED
    BY <2>1, <2>2
<1>2. ASSUME QuietStep
      PROVE  \A x \in Socket : Goal(x)
  <2>1. \A x \in Socket : Undisturbed(x)
    BY <1>2, QuietUndisturbed
  <2>2. QED
    BY <1>1, <2>1
<1>3. ASSUME NEW s \in Socket, NEW d \in Direction, Enqueue(s, d)
      PROVE  \A x \in Socket : Goal(x)
  <2>1. Goal(s) /\ \A x \in Socket : x # s => Undisturbed(x)
    BY <1>3, EnqueueSleeper
  <2> HIDE DEF Goal
  <2>2. QED
    BY <1>1, <2>1
<1>4. ASSUME NEW s \in Socket, WakeUp(s)
      PROVE  \A x \in Socket : Goal(x)
  <2>1. Goal(s) /\ \A x \in Socket : x # s => Undisturbed(x)
    BY <1>4, WakeUpSleeper
  <2> HIDE DEF Goal
  <2>2. QED
    BY <1>1, <2>1
<1>5. ASSUME NEW s \in Socket, Purge(s)
      PROVE  \A x \in Socket : Goal(x)
  <2>1. Goal(s) /\ \A x \in Socket : x # s => Undisturbed(x)
    BY <1>5, PurgeSleeper
  <2> HIDE DEF Goal
  <2>2. QED
    BY <1>1, <2>1
<1>6. ASSUME NEW t \in Thread, DeliverScan(t)
      PROVE  \A x \in Socket : Goal(x)
  <2>1. PICK s \in Socket : s = hand[t]
    BY <1>6 DEF IInv, LocalsSet, DeliverScan
  <2>2. Goal(s) /\ \A x \in Socket : x # s => Undisturbed(x)
    BY <1>6, <2>1, ScanSleeper
  <2> HIDE DEF Goal
  <2>3. QED
    BY <1>1, <2>2
<1> HIDE DEF Goal
<1>7. \A x \in Socket : Goal(x)
  <2>1. \/ QuietStep
        \/ \E s \in Socket, d \in Direction : Enqueue(s, d)
        \/ \E s \in Socket : WakeUp(s) \/ Purge(s)
        \/ \E t \in Thread : DeliverScan(t)
    BY QuietOrNot
  <2>2. QED
    BY <1>2, <1>3, <1>4, <1>5, <1>6, <2>1
<1>8. QED
  BY <1>7 DEF Goal

(* A thread that waits, or will wait, stays awake until its entry is reset. *)
LEMMA StaysAwake ==
  ASSUME IInv, [Next]_vars, NEW x \in Socket,
         pc[<<x, "out">>] \in Awake, waitEntry[x] # "none", waitEntry'[x] # "none"
  PROVE  pc'[<<x, "out">>] \in Awake
<1> DEFINE o == <<x, "out">>
<1>0. /\ TypeOK /\ pc \in [Thread -> ThreadState] /\ o \in Thread
      /\ waitEntry \in [Socket -> {"none", "unsatisfied", "satisfied"}]
  BY ThreadFacts DEF IInv, TypeOK, ThreadTypes, SocketTypes, Direction
<1>1. CASE NoMove
  BY <1>1 DEF NoMove, Expire, ClientStart, ClientStop, vars
<1>2. ASSUME NEW t \in Thread, t # o,
             \/ DataMove(t) \/ WakeMove(t) \/ EventMove(t) \/ DeliverMove(t)
             \/ InjectMove(t) \/ ClientMove(t) \/ RoundMove(t)
      PROVE  pc'[o] \in Awake
  <2>1. Moves(t)
    BY <1>0, <1>2, OneMoves
  <2>2. QED
    BY <1>0, <1>2, <2>1 DEF Moves
<1>3. CASE DataMove(o) \/ InjectMove(o) \/ ClientMove(o) \/ RoundMove(o) \/ EventMove(o)
  <2>1. pc[o] \notin {"idle", "enqueue", "notify", "reinject", "inject"}
    BY DEF Awake
  <2>2. ~DataMove(o) /\ ~InjectMove(o)
    BY <2>1 DEF DataMove, FltData, Enqueue, Notify, InjectMove, Reinject, Inject
  <2>3. ~ClientMove(o) /\ ~RoundMove(o) /\ ~EventMove(o)
    BY DifferentThreads DEF ClientMove, RoundMove, EventMove, Direction
  <2>4. QED
    BY <1>3, <2>2, <2>3
<1>4. CASE WakeMove(o)
  <2>1. PICK s \in Socket : o = <<s, "out">> /\ WakeUp(s)
    BY <1>4 DEF WakeMove
  <2>2. waitEntry'[x] = "none"
    BY <1>0, <2>1 DEF WakeUp
  <2>3. QED
    BY <2>2
<1>5. CASE DeliverMove(o)
  <2>1. AfterDelivery(o) = "wait"
    <3>1. o \notin ClientThread /\ o # InjectionThread
      BY DifferentThreads DEF Direction
    <3>2. QED
      BY <3>1 DEF AfterDelivery
  <2>2. CASE DeliverPop(o)
    BY <1>0, <2>1, <2>2 DEF DeliverPop, Awake
  <2>3. CASE DeliverScan(o)
    BY <1>0, <2>3 DEF DeliverScan, Awake
  <2>4. CASE DeliverReinsert(o)
    BY <1>0, <2>1, <2>4 DEF DeliverReinsert, Awake
  <2>5. QED
    BY <1>5, <2>2, <2>3, <2>4 DEF DeliverMove
<1>6. QED
  BY <1>1, <1>2, <1>3, <1>4, <1>5, StepKinds

LEMMA SenderWaitsStep ==
  ASSUME IInv, EventLocals, SenderWaits, \A x \in Socket : SleeperWindow(x), [Next]_vars
  PROVE  SenderWaits'
<1>1. ASSUME NEW x \in Socket, waitEntry'[x] # "none"
      PROVE  pc'[<<x, "out">>] \in Awake
  <2>1. waitEntry[x] # "none" \/ pc'[<<x, "out">>] = "deliver"
    BY <1>1, SleeperStep
  <2>2. CASE waitEntry[x] # "none"
    BY <1>1, <2>2, StaysAwake DEF SenderWaits
  <2>3. QED
    BY <2>1, <2>2 DEF Awake
<1>2. QED
  BY <1>1 DEF SenderWaits

-----------------------------------------------------------------------------
(* The list of sockets to report.                                          *)

DeliversTo(t, x) ==
  hand[t] = x /\ (pc[t] = "scan" \/ (pc[t] = "reinsert" /\ reinsertInList[t]))

(* A thread other than t keeps what it has in hand. *)
LEMMA StillInDelivery ==
  ASSUME NEW t \in Thread, Moves(t), NEW x \in Socket, InDelivery(x)
  PROVE  DeliversTo(t, x) \/ InDelivery(x)'
BY DEF Moves, InDelivery, DeliversTo

(* Nothing new waits on a socket that no step but Enqueue works on. *)
LEMMA NothingNewToReport ==
  ASSUME IInv, [Next]_vars, NEW x \in Socket, Unreported(x)' # {}
  PROVE  Unreported(x) # {} \/ \E d \in Direction : Enqueue(x, d)
<1>1. CASE Undisturbed(x)
  BY <1>1 DEF Undisturbed, Unreported, Same
<1>2. ASSUME NEW s \in Socket, NEW d \in Direction, Enqueue(s, d), s # x
      PROVE  Unreported(x)' = Unreported(x)
  BY <1>2 DEF Enqueue, Unreported, IInv, TypeOK, QueueTypes
<1>3. ASSUME NEW s \in Socket, WakeUp(s) \/ Purge(s)
      PROVE  Unreported(x)' \subseteq Unreported(x)
  <2>1. CASE WakeUp(s)
    BY <2>1 DEF WakeUp, Unreported
  <2>2. CASE Purge(s)
    BY <2>2 DEF Purge, Unreported, IInv, TypeOK, QueueTypes
  <2>3. QED
    BY <1>3, <2>1, <2>2
<1>4. ASSUME NEW t \in Thread, DeliverScan(t)
      PROVE  Unreported(x)' \subseteq Unreported(x)
  <2>0. pendingQueue \in [Socket -> SUBSET PendingPktQueueItem] /\ hand[t] \in Socket
    BY <1>4 DEF IInv, TypeOK, QueueTypes, LocalsSet, DeliverScan
  <2>p. PICK gone \in SUBSET Unreported(hand[t]) :
          \E sent \in SUBSET gone : ScanOutcome(hand[t], gone, sent) /\ Scan(t, gone, sent)
    BY <1>4 DEF DeliverScan
  <2>1. PICK sent \in SUBSET gone : Scan(t, gone, sent)
    BY <2>p
  <2> DEFINE come == {AsReported(p, sent) : p \in gone}
             new == (pendingQueue[hand[t]] \ gone) \cup come
  <2>2. \A p \in gone : AsReported(p, sent).needToBeReported = FALSE
    BY <2>0, AsReportedType DEF Unreported
  <2>3. \A q \in come : q.needToBeReported = FALSE
    BY <2>2
  <2>4. pendingQueue' = [pendingQueue EXCEPT ![hand[t]] = new]
    BY <2>1 DEF Scan
  <2> HIDE DEF come
  <2>5. pendingQueue'[x] = pendingQueue[x] \/ pendingQueue'[x] = (pendingQueue[x] \ gone) \cup come
    BY <2>0, <2>4
  <2>6. QED
    BY <2>3, <2>5 DEF Unreported
<1>5. QED
  <2>1. \/ QuietStep
        \/ \E s \in Socket, d \in Direction : Enqueue(s, d)
        \/ \E s \in Socket : WakeUp(s) \/ Purge(s)
        \/ \E t \in Thread : DeliverScan(t)
    BY QuietOrNot
  <2>2. CASE QuietStep
    BY <1>1, <2>2, QuietUndisturbed
  <2>3. CASE \E s \in Socket, d \in Direction : Enqueue(s, d)
    BY <1>2, <2>3
  <2>4. CASE \E s \in Socket : WakeUp(s) \/ Purge(s)
    BY <1>3, <2>4
  <2>5. CASE \E t \in Thread : DeliverScan(t)
    BY <1>4, <2>5
  <2>6. QED
    BY <2>1, <2>2, <2>3, <2>4, <2>5

(* What stays in the list. *)
LEMMA InsertedKept ==
  ASSUME TypeOK, NEW x \in Socket, NEW s \in Socket,
         \/ SocketsListToReport' = SocketsListToReport
         \/ SocketsListToReport' = Append(SocketsListToReport, s)
  PROVE  /\ InsertedInSocketsListToReport(x) => InsertedInSocketsListToReport(x)'
         /\ SocketsListToReport' = Append(SocketsListToReport, s)
              => InsertedInSocketsListToReport(s)'
<1>1. SocketsListToReport \in Seq(Socket)
  BY DEF TypeOK, SocketTypes
<1>2. CASE SocketsListToReport' = SocketsListToReport
  <2>1. SocketsListToReport # Append(SocketsListToReport, s)
    BY <1>1
  <2>2. QED
    BY <1>2, <2>1 DEF InsertedInSocketsListToReport
<1>3. CASE SocketsListToReport' = Append(SocketsListToReport, s)
  BY <1>1, <1>3 DEF InsertedInSocketsListToReport
<1>4. QED
  BY <1>2, <1>3

LEMMA InsertedAfterPop ==
  ASSUME TypeOK, NEW x \in Socket, SocketsListToReport # <<>>, x # Head(SocketsListToReport),
         SocketsListToReport' = Tail(SocketsListToReport), InsertedInSocketsListToReport(x)
  PROVE  InsertedInSocketsListToReport(x)'
<1>1. SocketsListToReport \in Seq(Socket)
  BY DEF TypeOK, SocketTypes
<1>2. PICK i \in 1 .. Len(SocketsListToReport) : SocketsListToReport[i] = x
  BY <1>1 DEF InsertedInSocketsListToReport
<1>3. i # 1
  BY <1>1, <1>2
<1>4. /\ i - 1 \in 1 .. Len(Tail(SocketsListToReport))
      /\ Tail(SocketsListToReport)[i - 1] = x
      /\ DOMAIN Tail(SocketsListToReport) = 1 .. Len(Tail(SocketsListToReport))
  BY <1>1, <1>2, <1>3
<1>5. QED
  BY <1>1, <1>4 DEF InsertedInSocketsListToReport

LEMMA InsertedWithout ==
  ASSUME TypeOK, NEW x \in Socket, NEW s \in Socket, x # s, InsertedInSocketsListToReport(x),
         SocketsListToReport' = Without(SocketsListToReport, s)
  PROVE  InsertedInSocketsListToReport(x)'
<1> DEFINE list == SocketsListToReport
<1>1. list \in Seq(Socket)
  BY DEF TypeOK, SocketTypes
<1>2. PICK i \in 1 .. Len(list) : list[i] = x
  BY <1>1 DEF InsertedInSocketsListToReport
<1>3. CASE \E j \in DOMAIN list : list[j] = s
  <2> DEFINE k == CHOOSE j \in DOMAIN list : list[j] = s
             shorter == [j \in 1 .. Len(list) - 1 |-> IF j < k THEN list[j] ELSE list[j + 1]]
  <2>1. k \in 1 .. Len(list) /\ list[k] = s
    BY <1>1, <1>3
  <2>2. SocketsListToReport' = shorter
    BY <1>3 DEF Without
  <2> HIDE DEF k
  <2>3. i # k
    BY <1>2, <2>1
  <2>4. CASE i < k
    <3>1. i \in 1 .. Len(list) - 1 /\ shorter[i] = x
      BY <1>1, <1>2, <2>1, <2>4
    <3>2. QED
      BY <2>2, <3>1 DEF InsertedInSocketsListToReport
  <2>5. CASE i > k
    <3>1. i - 1 \in 1 .. Len(list) - 1 /\ shorter[i - 1] = x
      BY <1>1, <1>2, <2>1, <2>5
    <3>2. QED
      BY <2>2, <3>1 DEF InsertedInSocketsListToReport
  <2>6. QED
    BY <1>1, <1>2, <2>1, <2>3, <2>4, <2>5
<1>4. CASE ~ \E j \in DOMAIN list : list[j] = s
  BY <1>4 DEF Without, InsertedInSocketsListToReport
<1>5. QED
  BY <1>3, <1>4

InListOrHands(x) == InsertedInSocketsListToReport(x) \/ InDelivery(x)

(* The socket does not get lost between the list and the thread that       *)
(* delivers, as long as there is something to report.                      *)
LEMMA DeliveryKeepsIt ==
  ASSUME IInv, NEW t \in Thread, DeliverMove(t), NEW x \in Socket, SleeperWindow(x),
         Unreported(x)' # {}, InListOrHands(x)
  PROVE  InListOrHands(x)'
<1>0. /\ TypeOK /\ LocalsSet
      /\ pc \in [Thread -> ThreadState] /\ hand \in [Thread -> Socket \cup {None}]
      /\ reinsertInList \in [Thread -> BOOLEAN]
      /\ SocketsListToReport \in Seq(Socket)
  BY DEF IInv, TypeOK, ThreadTypes, SocketTypes
<1>1. Moves(t)
  BY <1>0, OneMoves
<1>2. InDelivery(x) => DeliversTo(t, x) \/ InDelivery(x)'
  BY <1>1, StillInDelivery
<1>3. CASE DeliverPop(t)
  <2>1. ~DeliversTo(t, x)
    BY <1>3 DEF DeliverPop, DeliversTo
  <2>2. CASE SocketsListToReport = <<>>
    <3>1. SocketsListToReport' = SocketsListToReport
      BY <1>3, <2>2 DEF DeliverPop
    <3>2. QED
      BY <1>0, <1>2, <2>1, <3>1, InsertedKept DEF InListOrHands
  <2>3. CASE SocketsListToReport # <<>>
    <3>1. /\ SocketsListToReport' = Tail(SocketsListToReport)
          /\ hand'[t] = Head(SocketsListToReport) /\ pc'[t] = "scan"
      BY <1>0, <1>3, <2>3 DEF DeliverPop
    <3>2. CASE x = Head(SocketsListToReport)
      BY <3>1, <3>2 DEF InListOrHands, InDelivery
    <3>3. CASE x # Head(SocketsListToReport)
      BY <1>0, <1>2, <2>1, <2>3, <3>1, <3>3, InsertedAfterPop DEF InListOrHands
    <3>4. QED
      BY <3>2, <3>3
  <2>4. QED
    BY <2>2, <2>3
<1>4. CASE DeliverScan(t)
  <2>1. SocketsListToReport' = SocketsListToReport /\ hand' = hand /\ pc'[t] = "reinsert"
    BY <1>0, <1>4 DEF DeliverScan
  <2>2. CASE hand[t] = x
    <3>1. reinsertInList'[t]
      BY <1>4, <2>2, ScanSleeper
    <3>2. QED
      BY <2>1, <2>2, <3>1 DEF InListOrHands, InDelivery
  <2>3. CASE hand[t] # x
    <3>1. ~DeliversTo(t, x)
      BY <2>3 DEF DeliversTo
    <3>2. QED
      BY <1>0, <1>2, <2>1, <3>1, InsertedKept DEF InListOrHands
  <2>4. QED
    BY <2>2, <2>3
<1>5. CASE DeliverReinsert(t)
  <2>1. hand[t] \in Socket
    BY <1>0, <1>5 DEF DeliverReinsert, LocalsSet
  <2>2. \/ SocketsListToReport' = SocketsListToReport
        \/ SocketsListToReport' = Append(SocketsListToReport, hand[t])
    BY <1>5 DEF DeliverReinsert
  <2>3. InsertedInSocketsListToReport(x) => InsertedInSocketsListToReport(x)'
    BY <1>0, <2>1, <2>2, InsertedKept
  <2>4. ASSUME DeliversTo(t, x)
        PROVE  InsertedInSocketsListToReport(x)'
    <3>1. hand[t] = x /\ reinsertInList[t]
      BY <1>5, <2>4 DEF DeliversTo, DeliverReinsert
    <3>2. CASE InsertedInSocketsListToReport(x)
      BY <2>3, <3>2
    <3>3. CASE ~InsertedInSocketsListToReport(x)
      <4>1. SocketsListToReport' = Append(SocketsListToReport, x)
        BY <1>5, <3>1, <3>3 DEF DeliverReinsert
      <4>2. QED
        BY <1>0, <4>1, InsertedKept
    <3>4. QED
      BY <3>2, <3>3
  <2>5. QED
    BY <1>2, <2>3, <2>4 DEF InListOrHands
<1>6. QED
  BY <1>3, <1>4, <1>5 DEF DeliverMove

LEMMA StaysInListOrHands ==
  ASSUME IInv, EventLocals, [Next]_vars, NEW x \in Socket, SleeperWindow(x),
         Attached(x)', Unreported(x)' # {}, InListOrHands(x)
  PROVE  InListOrHands(x)'
<1>0. TypeOK
  BY DEF IInv
<1>1. CASE NoMove
  <2>1. UNCHANGED <<SocketsListToReport, pc, hand, reinsertInList>>
    BY <1>1 DEF NoMove, Expire, ClientStart, ClientStop, vars
  <2>2. QED
    BY <2>1 DEF InListOrHands, InsertedInSocketsListToReport, InDelivery
<1>2. ASSUME NEW t \in Thread,
             \/ DataMove(t) \/ WakeMove(t) \/ EventMove(t)
             \/ InjectMove(t) \/ ClientMove(t) \/ RoundMove(t)
      PROVE  InListOrHands(x)'
  <2>1. Moves(t)
    BY <1>0, <1>2, OneMoves
  <2>2. pc[t] \notin {"scan", "reinsert"}
    <3>0. ASSUME NEW s \in Socket, NEW d \in Direction, t = <<s, d>>,
                 FltData(s, d) \/ Enqueue(s, d) \/ Notify(s, d)
          PROVE  pc[t] \in {"idle", "enqueue", "notify"}
      BY <3>0 DEF FltData, Enqueue, Notify
    <3>1. CASE DataMove(t) \/ WakeMove(t)
      BY <3>0, <3>1 DEF DataMove, WakeMove, WakeUp
    <3>2. CASE EventMove(t)
      BY <3>2 DEF EventMove, SocketEvent, Purge, Unlist, Unreport, Drain, EventDone
    <3>3. CASE InjectMove(t) \/ ClientMove(t) \/ RoundMove(t)
      BY <3>3 DEF InjectMove, Reinject, Inject, ClientMove, Respond, Lookup,
        SetDeferredDataProperties, RoundMove, CollectSockets, NextSocket
    <3>4. QED
      BY <1>2, <3>1, <3>2, <3>3
  <2>3. InDelivery(x) => InDelivery(x)'
    BY <2>1, <2>2, StillInDelivery DEF DeliversTo
  <2>4. ASSUME InsertedInSocketsListToReport(x)
        PROVE  InsertedInSocketsListToReport(x)'
    <3>1. CASE \/ SocketsListToReport' = SocketsListToReport
               \/ \E s \in Socket : SocketsListToReport' = Append(SocketsListToReport, s)
      BY <1>0, <2>4, <3>1, InsertedKept
    <3>2. ASSUME NEW s \in Socket, Unreport(s)
          PROVE  InsertedInSocketsListToReport(x)'
      <4>1. event[s] = "detach"
        BY <3>2 DEF Unreport, EventLocals
      <4>2. Attached(x)
        BY PurgeRemembered
      <4>3. x # s
        BY <4>1, <4>2 DEF Attached
      <4>4. SocketsListToReport' = Without(SocketsListToReport, s)
        BY <3>2 DEF Unreport
      <4>5. QED
        BY <1>0, <2>4, <4>3, <4>4, InsertedWithout
    <3>3. \/ SocketsListToReport' = SocketsListToReport
          \/ \E s \in Socket : SocketsListToReport' = Append(SocketsListToReport, s)
          \/ \E s \in Socket : Unreport(s)
      <4>0. ASSUME NEW s \in Socket, NEW d \in Direction, Enqueue(s, d)
            PROVE  \/ SocketsListToReport' = SocketsListToReport
                   \/ SocketsListToReport' = Append(SocketsListToReport, s)
        BY <4>0 DEF Enqueue
      <4>1. CASE DataMove(t) \/ WakeMove(t)
        BY <4>0, <4>1 DEF DataMove, FltData, Notify, WakeMove, WakeUp
      <4>2. CASE EventMove(t)
        BY <4>2 DEF EventMove, SocketEvent, Purge, Unlist, Drain, EventDone
      <4>3. CASE InjectMove(t) \/ ClientMove(t) \/ RoundMove(t)
        BY <4>3 DEF InjectMove, Reinject, Inject, ClientMove, Respond, Lookup,
          SetDeferredDataProperties, RoundMove, CollectSockets, NextSocket
      <4>4. QED
        BY <1>2, <4>1, <4>2, <4>3
    <3>4. QED
      BY <3>1, <3>2, <3>3
  <2>5. QED
    BY <2>3, <2>4 DEF InListOrHands
<1>3. ASSUME NEW t \in Thread, DeliverMove(t)
      PROVE  InListOrHands(x)'
  BY <1>3, DeliveryKeepsIt
<1>4. QED
  BY <1>1, <1>2, <1>3, StepKinds

LEMMA ReportStep ==
  ASSUME IInv, EventLocals, \A x \in Socket : SleeperWindow(x), ReportNeverForgotten,
         [Next]_vars
  PROVE  ReportNeverForgotten'
<1> SUFFICES ASSUME NEW x \in Socket, Attached(x)', Unreported(x)' # {}
             PROVE  InListOrHands(x)'
  BY DEF ReportNeverForgotten, InListOrHands
<1>0. Attached(x)
  BY PurgeRemembered
<1>1. CASE Unreported(x) # {}
  <2>1. InListOrHands(x)
    BY <1>0, <1>1 DEF ReportNeverForgotten, InListOrHands
  <2>2. QED
    BY <2>1, StaysInListOrHands
<1>2. CASE Unreported(x) = {}
  <2>1. PICK d \in Direction : Enqueue(x, d)
    BY <1>2, NothingNewToReport
  <2>2. PICK copied \in BOOLEAN :
          LET postponed == MustPostpone(x, copied) IN
          /\ pendingQueue' = [pendingQueue EXCEPT ![x] = @ \cup {NewEntry(x, d, postponed)}]
          /\ SocketsListToReport' =
               IF postponed /\ FirstToReport(x) /\ ~InsertedInSocketsListToReport(x)
               THEN Append(SocketsListToReport, x) ELSE SocketsListToReport
    BY <2>1 DEF Enqueue
  <2>3. FirstToReport(x)
    BY <1>2, FS_EmptySet DEF IInv, ReportingCountExact, FirstToReport
  <2>4. MustPostpone(x, copied)
    <3>1. NewEntry(x, d, MustPostpone(x, copied)).needToBeReported = MustPostpone(x, copied)
      BY DEF NewEntry
    <3>2. pendingQueue'[x] = pendingQueue[x] \cup {NewEntry(x, d, MustPostpone(x, copied))}
      BY <2>2 DEF IInv, TypeOK, QueueTypes
    <3>3. QED
      BY <1>2, <3>1, <3>2 DEF Unreported
  <2>5. \/ SocketsListToReport' = Append(SocketsListToReport, x)
        \/ InsertedInSocketsListToReport(x) /\ SocketsListToReport' = SocketsListToReport
    BY <2>2, <2>3, <2>4
  <2>6. InsertedInSocketsListToReport(x)'
    BY <2>5, InsertedKept DEF IInv
  <2>7. QED
    BY <2>6 DEF InListOrHands
<1>3. QED
  BY <1>1, <1>2

-----------------------------------------------------------------------------
(* The theorems.                                                           *)

LEMMA InitReports ==
  ASSUME Init
  PROVE  RInv
<1>1. \A s \in Socket : /\ <<s, "event">> \in Thread /\ <<s, "event">> # InjectionThread
                        /\ <<s, "out">> \in Thread
  BY ThreadFacts DEF Direction
<1>2. EventLocals
  BY <1>1 DEF Init, EventLocals, EventStates
<1>3. SenderWaits
  BY DEF Init, SenderWaits
<1>4. SleeperInv
  BY DEF Init, SleeperInv, SleeperAt
<1>5. ReportNeverForgotten
  BY DEF Init, ReportNeverForgotten, Unreported
<1>6. WindowRestored
  BY DEF Init, WindowRestored
<1>7. QED
  BY <1>2, <1>3, <1>4, <1>5, <1>6 DEF RInv

LEMMA StepReports ==
  ASSUME IInv, RInv, [Next]_vars
  PROVE  RInv'
<1>1. \A x \in Socket : SleeperWindow(x)
  BY DEF RInv, SleeperInv, SleeperWindow, WindowRestored, WindowAt
<1>2. EventLocals'
  BY EventLocalsStep DEF RInv
<1>3. SenderWaits'
  BY <1>1, SenderWaitsStep DEF RInv
<1>4. \A x \in Socket : SleeperWindow(x)'
  BY <1>1, SleeperStep DEF RInv
<1>5. SleeperInv' /\ WindowRestored'
  BY <1>4 DEF SleeperInv, SleeperWindow, WindowRestored, WindowAt
<1>6. ReportNeverForgotten'
  BY <1>1, ReportStep DEF RInv
<1>7. QED
  BY <1>2, <1>3, <1>5, <1>6 DEF RInv

(* The two inductive invariants together hold in every reachable state.     *)
THEOREM ReportsInvariance == Spec => [](IInv /\ RInv)
<1>1. Init => IInv /\ RInv
  BY InitInvariant, InitReports
<1>2. IInv /\ RInv /\ [Next]_vars => IInv' /\ RInv'
  BY StepInvariant, StepReports
<1>3. QED
  BY <1>1, <1>2, PTL DEF Spec

(* A packet FltData or DeliverWaitingNotifications could not report is      *)
(* never forgotten, for any number of sockets and delivering threads.       *)
THEOREM ReportsNeverForgotten == Spec => []ReportNeverForgotten
<1>1. IInv /\ RInv => ReportNeverForgotten
  BY DEF RInv
<1>2. QED
  BY <1>1, ReportsInvariance, PTL

(* The receive window FltData reduces is restored with the last inbound     *)
(* packet that is reported, whoever reports it.                             *)
THEOREM WindowAlwaysRestored == Spec => []WindowRestored
<1>1. IInv /\ RInv => WindowRestored
  BY DEF RInv
<1>2. QED
  BY <1>1, ReportsInvariance, PTL

(* A sender FltData put to sleep is never abandoned: its packet is in the   *)
(* queue, the last outbound one, and will be reported or purged.            *)
THEOREM SleepersHaveTheirPacket == Spec => []SleeperHasItsPacket
<1>1. ASSUME IInv, RInv
      PROVE  SleeperHasItsPacket
  <2> SUFFICES ASSUME NEW s \in Socket
               PROVE  LET waiting == {p \in pendingQueue[s] : p.waiter} IN
                      /\ \A p \in waiting : p.dir = "out" /\ p.needToBeReported
                      /\ IF waitEntry[s] = "unsatisfied"
                         THEN /\ Cardinality(waiting) = 1
                              /\ \A p \in waiting : \A q \in pendingQueue[s] :
                                   q.dir = "out" => q.place <= p.place
                         ELSE waiting = {}
    BY DEF SleeperHasItsPacket
  <2> DEFINE waiting == {p \in pendingQueue[s] : p.waiter}
  <2>0. SleeperAt(s) /\ \A p \in pendingQueue[s] : p.place \in Nat
    BY <1>1 DEF RInv, SleeperInv, IInv, TypeOK, QueueTypes, PendingPktQueueItem
  <2>1. \A p \in waiting : /\ p.dir = "out" /\ p.needToBeReported
                           /\ waitEntry[s] = "unsatisfied"
                           /\ \A q \in pendingQueue[s] : q.dir = "out" => q.place <= p.place
    BY <2>0 DEF SleeperAt, LastOutbound
  <2>2. \A p, q \in waiting : p = q
    <3>1. ASSUME NEW p \in waiting, NEW q \in waiting
          PROVE  p = q
      <4>1. p.place = q.place
        BY <2>0, <2>1
      <4>2. QED
        BY <1>1, <4>1 DEF IInv, QueueWellFormed, Entries
    <3>2. QED
      BY <3>1
  <2>3. ASSUME waitEntry[s] = "unsatisfied"
        PROVE  Cardinality(waiting) = 1
    <3>1. PICK p \in pendingQueue[s] : p.waiter
      BY <2>0, <2>3 DEF SleeperAt
    <3>2. waiting = {p}
      BY <2>2, <3>1
    <3>3. QED
      BY <3>2, FS_Singleton
  <2>4. QED
    BY <2>1, <2>3
<1>2. IInv /\ RInv => SleeperHasItsPacket
  BY <1>1
<1>3. QED
  BY <1>2, ReportsInvariance, PTL

=============================================================================
