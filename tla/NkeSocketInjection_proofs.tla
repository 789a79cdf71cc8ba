---------------------- MODULE NkeSocketInjection_proofs ----------------------
(***************************************************************************)
(* Theorems about what NkeSocketObject gives back to the socket: nothing   *)
(* is queued or injected once FltDetach has purged the queue, the data of  *)
(* one direction is injected in its order, and only with permission; and,  *)
(* in the last part, the client is told of them in their order.            *)
(***************************************************************************)
EXTENDS NkeSocketReports_proofs

(* The injection mutex guards packetsToInject, from the moment packets are  *)
(* moved there to the injection of the last one.                            *)
MutexInv ==
  /\ \A t \in Thread :
       pc[t] = "inject" => injectionMutex[hand[t]] = t /\ packetsToInject[hand[t]] # {}
  /\ \A s \in Socket :
       packetsToInject[s] # {} => \E t \in Thread : pc[t] = "inject" /\ hand[t] = s

(* The kernel calls the filter no more for a socket it detaches.            *)
DataQuiet ==
  \A s \in Socket : ~Attached(s) => \A d \in Direction : pc[<<s, d>>] = "idle"

USE DEF queueVars, reportVars, allocVars, injectVars, listVars, eventVars, deliverVars,
        localVars, clientVars, ThreadState

-----------------------------------------------------------------------------
(* The mutex.                                                              *)

LEMMA MutexFreeMeansNothing ==
  ASSUME MutexInv, NEW s \in Socket, InjectionMutexFree(s)
  PROVE  /\ packetsToInject[s] = {}
         /\ \A t \in Thread : pc[t] = "inject" => hand[t] # s
BY ThreadAssumption DEF MutexInv, InjectionMutexFree

LEMMA MutexUntouched ==
  ASSUME TypeOK, MutexInv, NEW t \in Thread,
         \/ DataMove(t) \/ WakeMove(t) \/ EventMove(t) \/ DeliverMove(t)
         \/ ClientMove(t) \/ RoundMove(t)
  PROVE  MutexInv'
<1>0. pc \in [Thread -> ThreadState] /\ Moves(t)
  BY OneMoves DEF TypeOK, ThreadTypes
<1>1. UNCHANGED <<injectionMutex, packetsToInject>> /\ pc[t] # "inject" /\ pc'[t] # "inject"
  <2>1. CASE DataMove(t)
    <3>1. PICK s \in Socket, d \in Direction :
            t = <<s, d>> /\ (FltData(s, d) \/ Enqueue(s, d) \/ Notify(s, d))
      BY <2>1 DEF DataMove
    <3>2. QED
      BY <1>0, <3>1 DEF FltData, Enqueue, Notify
  <2>2. CASE WakeMove(t)
    BY <1>0, <2>2 DEF WakeMove, WakeUp
  <2>3. CASE EventMove(t)
    <3>1. PICK s \in Socket :
            /\ t = <<s, "event">>
            /\ \/ SocketEvent(s) \/ Purge(s) \/ Unlist(s) \/ Unreport(s)
               \/ Drain(s) \/ EventDone(s)
      BY <2>3 DEF EventMove
    <3>2. \A e : FirstStep(e) # "inject"
      BY DEF FirstStep
    <3>3. CASE SocketEvent(s)
      BY <1>0, <3>1, <3>2, <3>3 DEF SocketEvent
    <3>4. CASE Purge(s) \/ Unlist(s) \/ Unreport(s)
      BY <1>0, <3>1, <3>4 DEF Purge, Unlist, Unreport
    <3>5. CASE Drain(s) \/ EventDone(s)
      BY <1>0, <3>1, <3>5 DEF Drain, EventDone
    <3>6. QED
      BY <3>1, <3>3, <3>4, <3>5
  <2>4. CASE DeliverMove(t)
    <3>1. AfterDelivery(t) # "inject"
      BY DEF AfterDelivery
    <3>2. CASE DeliverPop(t)
      BY <1>0, <3>1, <3>2 DEF DeliverPop
    <3>3. CASE DeliverScan(t)
      BY <1>0, <3>3 DEF DeliverScan
    <3>4. CASE DeliverReinsert(t)
      BY <1>0, <3>1, <3>4 DEF DeliverReinsert
    <3>5. QED
      BY <2>4, <3>2, <3>3, <3>4 DEF DeliverMove
  <2>5. CASE ClientMove(t)
    BY <1>0, <2>5 DEF ClientMove, Respond, Lookup, SetDeferredDataProperties
  <2>6. CASE RoundMove(t)
    BY <1>0, <2>6 DEF RoundMove, CollectSockets, NextSocket
  <2>7. QED
    BY <2>1, <2>2, <2>3, <2>4, <2>5, <2>6
<1>2. \A u \in Thread : pc'[u] = "inject" => pc[u] = "inject" /\ hand'[u] = hand[u]
  BY <1>0, <1>1 DEF Moves
<1>3. \A u \in Thread : pc[u] = "inject" => pc'[u] = "inject" /\ hand'[u] = hand[u]
  BY <1>0, <1>1 DEF Moves
<1>4. QED
  BY <1>1, <1>2, <1>3 DEF MutexInv

LEMMA MutexTaken ==
  ASSUME IInv, MutexInv, NEW t \in Thread, Reinject(t)
  PROVE  MutexInv'
<1> DEFINE s == hand[t]
           moved == Injectable(s, InjectType(t))
<1>0. /\ TypeOK /\ s \in Socket
      /\ pc \in [Thread -> ThreadState] /\ hand \in [Thread -> Socket \cup {None}]
      /\ packetsToInject \in [Socket -> SUBSET PendingPktQueueItem]
      /\ injectionMutex \in [Socket -> Thread \cup {None}]
  BY DEF IInv, LocalsSet, TypeOK, ThreadTypes, QueueTypes, SocketTypes, Reinject
<1>1. Moves(t)
  BY <1>0, OneMoves DEF InjectMove
<1>2. packetsToInject[s] = {} /\ \A u \in Thread : pc[u] = "inject" => hand[u] # s
  BY <1>0, MutexFreeMeansNothing DEF Reinject
<1>3. /\ pc[t] = "reinject"
      /\ packetsToInject' = [packetsToInject EXCEPT ![s] = @ \cup moved]
      /\ IF moved = {}
         THEN pc'[t] = AfterInjection(t) /\ injectionMutex' = injectionMutex
         ELSE /\ pc'[t] = "inject" /\ hand' = hand
              /\ injectionMutex' = [injectionMutex EXCEPT ![s] = t]
  BY <1>0 DEF Reinject
<1>4. AfterInjection(t) # "inject"
  BY DEF AfterInjection
<1> HIDE DEF moved, s
<1>5. /\ packetsToInject'[s] = moved
      /\ \A x \in Socket : x # s => packetsToInject'[x] = packetsToInject[x]
  BY <1>0, <1>2, <1>3
<1>6. ASSUME NEW u \in Thread, u # t, pc'[u] = "inject"
      PROVE  injectionMutex'[hand'[u]] = u /\ packetsToInject'[hand'[u]] # {}
  <2>1. pc[u] = "inject" /\ hand'[u] = hand[u] /\ hand[u] # s /\ hand[u] \in Socket
    BY <1>1, <1>2, <1>6 DEF Moves, IInv, LocalsSet
  <2>2. injectionMutex'[hand[u]] = injectionMutex[hand[u]]
    BY <1>0, <1>3, <2>1
  <2>3. QED
    BY <1>5, <2>1, <2>2 DEF MutexInv
<1>7. CASE moved = {}
  <2>1. pc'[t] # "inject"
    BY <1>3, <1>4, <1>7
  <2>2. ASSUME NEW x \in Socket, packetsToInject'[x] # {}
        PROVE  \E u \in Thread : pc'[u] = "inject" /\ hand'[u] = x
    BY <1>1, <1>3, <1>5, <1>7, <2>2 DEF MutexInv, Moves
  <2>3. QED
    BY <1>6, <2>1, <2>2 DEF MutexInv
<1>8. CASE moved # {}
  <2>1. pc'[t] = "inject" /\ hand'[t] = s /\ injectionMutex'[s] = t
    BY <1>0, <1>3, <1>8 DEF s
  <2>2. ASSUME NEW x \in Socket, packetsToInject'[x] # {}
        PROVE  \E u \in Thread : pc'[u] = "inject" /\ hand'[u] = x
    BY <1>1, <1>3, <1>5, <2>1, <2>2 DEF MutexInv, Moves
  <2>3. QED
    BY <1>5, <1>6, <1>8, <2>1, <2>2 DEF MutexInv
<1>9. QED
  BY <1>7, <1>8

LEMMA MutexReleased ==
  ASSUME IInv, MutexInv, NEW t \in Thread, Inject(t)
  PROVE  MutexInv'
<1> DEFINE s == hand[t]
<1>0. /\ TypeOK /\ s \in Socket
      /\ pc \in [Thread -> ThreadState] /\ hand \in [Thread -> Socket \cup {None}]
      /\ packetsToInject \in [Socket -> SUBSET PendingPktQueueItem]
      /\ injectionMutex \in [Socket -> Thread \cup {None}]
  BY DEF IInv, LocalsSet, TypeOK, ThreadTypes, QueueTypes, SocketTypes, Inject
<1>1. Moves(t)
  BY <1>0, OneMoves DEF InjectMove
<1>2. PICK p \in packetsToInject[s] :
        /\ packetsToInject' = [packetsToInject EXCEPT ![s] = @ \ {p}]
        /\ IF packetsToInject[s] = {p}
           THEN /\ injectionMutex' = [injectionMutex EXCEPT ![s] = None]
                /\ pc'[t] = AfterInjection(t)
           ELSE UNCHANGED <<injectionMutex, pc, hand>>
  BY <1>0 DEF Inject
<1>3. pc[t] = "inject" /\ AfterInjection(t) # "inject"
  BY DEF Inject, AfterInjection
<1>4. \A u \in Thread : u # t /\ pc[u] = "inject" => hand[u] # s /\ hand[u] \in Socket
  BY <1>3 DEF MutexInv, IInv, LocalsSet
<1> HIDE DEF s
<1>5. /\ packetsToInject'[s] = packetsToInject[s] \ {p}
      /\ \A x \in Socket : x # s => packetsToInject'[x] = packetsToInject[x]
      /\ \A x \in Socket : x # s => injectionMutex'[x] = injectionMutex[x]
  BY <1>0, <1>2
<1>6. ASSUME NEW u \in Thread, u # t, pc'[u] = "inject"
      PROVE  injectionMutex'[hand'[u]] = u /\ packetsToInject'[hand'[u]] # {}
  <2>1. pc[u] = "inject" /\ hand'[u] = hand[u]
    BY <1>1, <1>6 DEF Moves
  <2>2. QED
    BY <1>4, <1>5, <1>6, <2>1 DEF MutexInv
<1>7. CASE packetsToInject[s] = {p}
  <2>1. pc'[t] # "inject" /\ packetsToInject'[s] = {}
    BY <1>2, <1>3, <1>5, <1>7
  <2>2. ASSUME NEW x \in Socket, packetsToInject'[x] # {}
        PROVE  \E u \in Thread : pc'[u] = "inject" /\ hand'[u] = x
    <3>1. x # s /\ packetsToInject[x] # {}
      BY <1>5, <2>1, <2>2
    <3>2. PICK u \in Thread : pc[u] = "inject" /\ hand[u] = x
      BY <3>1 DEF MutexInv
    <3>3. u # t
      BY <3>1, <3>2 DEF s
    <3>4. QED
      BY <1>1, <3>2, <3>3 DEF Moves
  <2>3. QED
    BY <1>6, <2>1, <2>2 DEF MutexInv
<1>8. CASE packetsToInject[s] # {p}
  <2>1. UNCHANGED <<injectionMutex, pc, hand>> /\ packetsToInject'[s] # {}
    BY <1>2, <1>5, <1>8
  <2>2. ASSUME NEW x \in Socket, packetsToInject'[x] # {}
        PROVE  \E u \in Thread : pc'[u] = "inject" /\ hand'[u] = x
    BY <1>5, <2>1, <2>2 DEF MutexInv
  <2>3. injectionMutex'[hand'[t]] = t /\ packetsToInject'[hand'[t]] # {}
    BY <1>3, <2>1 DEF MutexInv, s
  <2>4. QED
    BY <1>6, <2>2, <2>3 DEF MutexInv
<1>9. QED
  BY <1>7, <1>8

LEMMA MutexStep ==
  ASSUME IInv, MutexInv, [Next]_vars
  PROVE  MutexInv'
<1>1. CASE NoMove
  BY <1>1 DEF NoMove, Expire, ClientStart, ClientStop, vars, MutexInv
<1>2. ASSUME NEW t \in Thread,
             \/ DataMove(t) \/ WakeMove(t) \/ EventMove(t) \/ DeliverMove(t)
             \/ ClientMove(t) \/ RoundMove(t)
      PROVE  MutexInv'
  BY <1>2, MutexUntouched DEF IInv
<1>3. ASSUME NEW t \in Thread, InjectMove(t)
      PROVE  MutexInv'
  BY <1>3, MutexTaken, MutexReleased DEF InjectMove
<1>4. QED
  BY <1>1, <1>2, <1>3, StepKinds

-----------------------------------------------------------------------------
(* Where the entries come from.                                            *)

SameData(p, q) == q.place = p.place /\ q.dir = p.dir /\ q.dataIndex = p.dataIndex

(* An answer of the client allows the packet of this index. *)
Allowing(x, i) ==
  \E c \in ClientThread :
    /\ SetDeferredDataProperties(c)
    /\ hand[c] = x /\ response[c].dataIndex = i /\ response[c].allow

(* What may become of an entry of socket x that stays in the queue. *)
Became(x, p, q) ==
  /\ SameData(p, q)
  /\ q.allowData => p.allowData \/ Allowing(x, p.dataIndex)
  /\ q.needToBeReported => p.needToBeReported
  /\ p.needToBeReported => (q.responseReceived <=> p.responseReceived)

(* Fields are changed and entries leave, on socket s only. *)
LEMMA FromOld ==
  ASSUME TypeOK, NEW s \in Socket, NEW new, NEW x \in Socket,
         \A q \in new : \E p \in pendingQueue[s] : Became(s, p, q),
         pendingQueue' = [pendingQueue EXCEPT ![s] = new]
  PROVE  \A q \in pendingQueue'[x] : \E p \in pendingQueue[x] : Became(x, p, q)
<1>1. \A p : Became(x, p, p)
  BY DEF SameData, Became
<1>2. pendingQueue \in [Socket -> SUBSET PendingPktQueueItem]
  BY DEF TypeOK, QueueTypes
<1>3. CASE x = s
  BY <1>2, <1>3
<1>4. CASE x # s
  <2>1. pendingQueue'[x] = pendingQueue[x]
    BY <1>2, <1>4
  <2>2. QED
    BY <1>1, <2>1
<1>5. QED
  BY <1>3, <1>4

LEMMA QueueFromOld ==
  ASSUME IInv, [Next]_vars, NEW x \in Socket, ~ \E d \in Direction : Enqueue(x, d)
  PROVE  \A q \in pendingQueue'[x] : \E p \in pendingQueue[x] : Became(x, p, q)
<1> DEFINE Goal == \A q \in pendingQueue'[x] : \E p \in pendingQueue[x] : Became(x, p, q)
<1>0. /\ TypeOK /\ LocalsSet
      /\ pendingQueue \in [Socket -> SUBSET PendingPktQueueItem]
  BY DEF IInv, TypeOK, QueueTypes
<1>s. \A p, y : Became(y, p, p)
  BY DEF SameData, Became
<1>1. ASSUME pendingQueue' = pendingQueue
      PROVE  Goal
  BY <1>1, <1>s
<1>2. ASSUME NEW s \in Socket, Expire(s)
      PROVE  Goal
  <2>1. PICK p \in pendingQueue[s] :
          pendingQueue' = [pendingQueue EXCEPT ![s] =
            (@ \ {p}) \cup {[p EXCEPT !.expired = TRUE]}]
    BY <1>2 DEF Expire
  <2> DEFINE new == (pendingQueue[s] \ {p}) \cup {[p EXCEPT !.expired = TRUE]}
  <2>2. Became(s, p, [p EXCEPT !.expired = TRUE])
    BY <1>0 DEF SameData, Became, PendingPktQueueItem
  <2>3. /\ \A q \in new : \E r \in pendingQueue[s] : Became(s, r, q)
        /\ pendingQueue' = [pendingQueue EXCEPT ![s] = new]
    BY <1>s, <2>1, <2>2
  <2> HIDE DEF new
  <2>4. QED
    BY <1>0, <2>3, FromOld
<1>3. ASSUME NEW t \in Thread, Reinject(t)
      PROVE  Goal
  <2> DEFINE s == hand[t]
             gone == Injectable(s, InjectType(t))
             new == pendingQueue[s] \ gone
  <2>1. s \in Socket
    BY <1>0, <1>3 DEF LocalsSet, Reinject
  <2>2. pendingQueue' = [pendingQueue EXCEPT ![s] = new]
    BY <1>3 DEF Reinject
  <2>3. \A q \in new : \E r \in pendingQueue[s] : Became(s, r, q)
    BY <1>s
  <2> HIDE DEF new, s
  <2>4. QED
    BY <1>0, <2>1, <2>2, <2>3, FromOld
<1>4. ASSUME NEW c \in ClientThread, SetDeferredDataProperties(c)
      PROVE  Goal
  <2> DEFINE s == hand[c]
             gone == Answered(s, response[c].dataIndex)
             Set(p) == [p EXCEPT !.allowData = response[c].allow, !.responseReceived = TRUE]
             come == {Set(p) : p \in gone}
             new == (pendingQueue[s] \ gone) \cup come
  <2>1. s \in Socket
    BY <1>0, <1>4, ThreadFacts DEF LocalsSet, SetDeferredDataProperties
  <2>2. gone \in SUBSET pendingQueue[s]
    BY DEF Answered
  <2>3. \A p \in gone : Became(s, p, Set(p))
    <3>1. ASSUME NEW p \in gone
          PROVE  Became(s, p, Set(p))
      <4>0. p \in PendingPktQueueItem /\ p \in pendingQueue[s]
        BY <1>0, <2>1, <2>2
      <4>1. /\ SameData(p, Set(p)) /\ Set(p).allowData = response[c].allow
            /\ Set(p).needToBeReported = p.needToBeReported
        BY <4>0 DEF SameData, PendingPktQueueItem
      <4>2. p.dataIndex = response[c].dataIndex /\ ~p.needToBeReported
        <5>1. p \in UpTo(s, p)
          BY <4>0 DEF UpTo, PendingPktQueueItem
        <5>2. QED
          BY <5>1 DEF Answered
      <4>3. response[c].allow => Allowing(s, p.dataIndex)
        BY <1>4, <4>2 DEF Allowing
      <4>4. QED
        BY <4>1, <4>2, <4>3 DEF Became
    <3>2. QED
      BY <3>1
  <2>4. pendingQueue' = [pendingQueue EXCEPT ![s] = new]
    BY <1>4 DEF SetDeferredDataProperties
  <2>5. \A q \in come : \E p \in gone : Became(s, p, q)
    BY <2>3
  <2> HIDE DEF come
  <2>6. \A q \in new : \E p \in pendingQueue[s] : Became(s, p, q)
    BY <1>s, <2>2, <2>5
  <2> HIDE DEF new, gone, s
  <2>7. QED
    BY <1>0, <2>1, <2>4, <2>6, FromOld
<1>5. ASSUME NEW s \in Socket, Purge(s)
      PROVE  Goal
  <2> DEFINE gone == Purged(s, PurgeType(event[s]))
             new == pendingQueue[s] \ gone
  <2>1. pendingQueue' = [pendingQueue EXCEPT ![s] = new]
    BY <1>5 DEF Purge
  <2>2. \A q \in new : \E p \in pendingQueue[s] : Became(s, p, q)
    BY <1>s
  <2> HIDE DEF new
  <2>3. QED
    BY <1>0, <2>1, <2>2, FromOld
<1>6. ASSUME NEW t \in Thread, DeliverScan(t)
      PROVE  Goal
  <2>0. hand[t] \in Socket
    BY <1>0, <1>6 DEF LocalsSet, DeliverScan
  <2>p. PICK gone \in SUBSET Unreported(hand[t]) :
          \E sent \in SUBSET gone : ScanOutcome(hand[t], gone, sent) /\ Scan(t, gone, sent)
    BY <1>6 DEF DeliverScan
  <2>1. PICK sent \in SUBSET gone : Scan(t, gone, sent)
    BY <2>p
  <2> DEFINE s == hand[t]
             come == {AsReported(p, sent) : p \in gone}
             new == (pendingQueue[s] \ gone) \cup come
  <2>2. gone \in SUBSET pendingQueue[hand[t]]
    BY DEF Unreported
  <2>3. \A p \in gone : Became(s, p, AsReported(p, sent))
    BY <1>0, <2>0, <2>2 DEF SameData, Became, AsReported, PendingPktQueueItem
  <2>4. pendingQueue' = [pendingQueue EXCEPT ![s] = new] /\ s \in Socket
    BY <2>0, <2>1 DEF Scan
  <2>5. \A q \in come : \E p \in gone : Became(s, p, q)
    BY <2>3
  <2> HIDE DEF come
  <2>6. \A q \in new : \E p \in pendingQueue[s] : Became(s, p, q)
    BY <1>s, <2>2, <2>5
  <2> HIDE DEF new, s
  <2>7. QED
    BY <1>0, <2>4, <2>6, FromOld
<1>7. ASSUME NEW s \in Socket, NEW d \in Direction, Enqueue(s, d), s # x
      PROVE  Goal
  <2>1. pendingQueue'[x] = pendingQueue[x]
    BY <1>0, <1>7 DEF Enqueue
  <2>2. QED
    BY <1>s, <2>1
<1>8. ASSUME IdleStep \/ \E s \in Socket : WakeUp(s)
      PROVE  Goal
  <2>1. pendingQueue' = pendingQueue
    BY <1>8 DEF IdleStep, FltData, Notify, SocketEvent, Unlist, Unreport, Drain, EventDone,
      DeliverPop, DeliverReinsert, Inject, Respond, Lookup, InjectionStep, CollectSockets,
      NextSocket, ClientStart, ClientStop, vars, WakeUp
  <2>2. QED
    BY <1>1, <2>1
<1>9. \/ IdleStep
      \/ \E s \in Socket : Expire(s) \/ WakeUp(s) \/ Purge(s)
      \/ \E t \in Thread : Reinject(t) \/ DeliverScan(t)
      \/ \E c \in ClientThread : SetDeferredDataProperties(c)
      \/ \E s \in Socket, d \in Direction : Enqueue(s, d)
  BY QuietOrNot DEF QuietStep
<1> HIDE DEF Goal
<1>10. Goal
  BY <1>2, <1>3, <1>4, <1>5, <1>6, <1>7, <1>8, <1>9
<1>11. QED
  BY <1>10 DEF Goal

(* Only reinjectDeferredData changes the list of packets to inject. *)
LEMMA InjectListChanges ==
  ASSUME [Next]_vars
  PROVE  \/ UNCHANGED packetsToInject
         \/ \E t \in Thread : Reinject(t) \/ Inject(t)
<1>1. ASSUME NEW t \in Thread,
             \/ DataMove(t) \/ WakeMove(t) \/ EventMove(t) \/ DeliverMove(t)
             \/ ClientMove(t) \/ RoundMove(t)
      PROVE  UNCHANGED packetsToInject
  BY <1>1 DEF DataMove, FltData, Enqueue, Notify, WakeMove, WakeUp, EventMove, SocketEvent,
    Purge, Unlist, Unreport, Drain, EventDone, DeliverMove, DeliverPop, DeliverScan,
    DeliverReinsert, ClientMove, Respond, Lookup, SetDeferredDataProperties, RoundMove,
    CollectSockets, NextSocket
<1>2. CASE NoMove
  BY <1>2 DEF NoMove, Expire, ClientStart, ClientStop, vars
<1>3. QED
  BY <1>1, <1>2, StepKinds DEF InjectMove

(* Packets are moved to the list of the injection only by Reinject. *)
LEMMA InjectedFromQueue ==
  ASSUME IInv, [Next]_vars, NEW x \in Socket
  PROVE  \/ packetsToInject'[x] \subseteq packetsToInject[x]
         \/ \E t \in Thread : Reinject(t) /\ hand[t] = x
<1>0. /\ TypeOK /\ LocalsSet
      /\ packetsToInject \in [Socket -> SUBSET PendingPktQueueItem]
  BY DEF IInv, TypeOK, QueueTypes
<1>1. CASE UNCHANGED packetsToInject
  BY <1>1
<1>2. ASSUME NEW t \in Thread, Reinject(t), hand[t] # x
      PROVE  packetsToInject'[x] \subseteq packetsToInject[x]
  BY <1>0, <1>2 DEF Reinject, LocalsSet
<1>3. ASSUME NEW t \in Thread, Inject(t)
      PROVE  packetsToInject'[x] \subseteq packetsToInject[x]
  <2>1. PICK p \in packetsToInject[hand[t]] :
          packetsToInject' = [packetsToInject EXCEPT ![hand[t]] = @ \ {p}]
    BY <1>3 DEF Inject
  <2>2. QED
    BY <1>0, <2>1
<1>4. \/ UNCHANGED packetsToInject
      \/ \E t \in Thread : Reinject(t) \/ Inject(t)
  BY InjectListChanges
<1>5. QED
  BY <1>1, <1>2, <1>3, <1>4

-----------------------------------------------------------------------------
(* After FltDetach has purged the queue.                                   *)

LEMMA DataQuietStep ==
  ASSUME IInv, EventLocals, DataQuiet, [Next]_vars
  PROVE  DataQuiet'
<1>0. /\ TypeOK /\ pc \in [Thread -> ThreadState]
      /\ event \in [Socket -> SocketEvents \cup {None}]
  BY DEF IInv, TypeOK, ThreadTypes, SocketTypes
<1> SUFFICES ASSUME NEW x \in Socket, ~Attached(x)', NEW d \in Direction
             PROVE  pc'[<<x, d>>] = "idle"
  BY DEF DataQuiet
<1> DEFINE u == <<x, d>>
<1>1. u \in Thread
  BY ThreadFacts
<1>2. CASE NoMove
  BY <1>2 DEF NoMove, Expire, ClientStart, ClientStop, vars, DataQuiet, Attached
<1>3. CASE Attached(x)
  <2>1. ASSUME NEW s \in Socket, SocketEvent(s)
        PROVE  pc'[u] = "idle"
    <3>1. event'[x] = "detach" /\ s = x
      BY <1>0, <1>3, <2>1 DEF SocketEvent, Attached
    <3>2. pc[u] = "idle"
      BY <1>0, <2>1, <3>1 DEF SocketEvent
    <3>3. pc'[u] = pc[u]
      BY <1>0, <1>1, <2>1, DifferentThreads DEF SocketEvent
    <3>4. QED
      BY <3>2, <3>3
  <2>2. ASSUME NEW s \in Socket, EventDone(s)
        PROVE  Attached(x)'
    <3>1. /\ event'[x] = IF x = s THEN None ELSE event[x]
          /\ eventsDone'[x] = eventsDone[x] \/ (x = s /\ eventsDone'[x] = eventsDone[x] \cup {event[x]})
      BY <1>0, <2>2 DEF EventDone, IInv, TypeOK, SocketTypes
    <3>2. None # "detach"
      BY EventAssumption DEF AllEvents
    <3>3. QED
      BY <1>3, <3>1, <3>2 DEF Attached
  <2>3. ASSUME UNCHANGED <<event, eventsDone>>
        PROVE  Attached(x)'
    BY <1>3, <2>3 DEF Attached
  <2>4. \/ UNCHANGED <<event, eventsDone>>
        \/ \E s \in Socket : SocketEvent(s) \/ EventDone(s)
    BY EventChanges
  <2>5. QED
    BY <2>1, <2>2, <2>3, <2>4
<1>4. CASE ~Attached(x)
  <2>0. pc[u] = "idle"
    BY <1>4 DEF DataQuiet
  <2>1. ASSUME NEW t \in Thread, t # u,
               \/ DataMove(t) \/ WakeMove(t) \/ EventMove(t) \/ DeliverMove(t)
               \/ InjectMove(t) \/ ClientMove(t) \/ RoundMove(t)
        PROVE  pc'[u] = "idle"
    <3>1. Moves(t)
      BY <1>0, <2>1, OneMoves
    <3>2. QED
      BY <1>1, <2>0, <2>1, <3>1 DEF Moves
  <2>2. ~DataMove(u)
    <3>1. ASSUME NEW s \in Socket, NEW e \in Direction, u = <<s, e>>,
                 FltData(s, e) \/ Enqueue(s, e) \/ Notify(s, e)
          PROVE  FALSE
      <4>1. s = x
        BY <3>1
      <4>2. QED
        BY <1>4, <2>0, <3>1, <4>1 DEF FltData, Enqueue, Notify
    <3>2. QED
      BY <3>1 DEF DataMove
  <2>3. ~WakeMove(u) /\ ~DeliverMove(u) /\ ~InjectMove(u)
    BY <2>0 DEF WakeMove, WakeUp, DeliverMove, DeliverPop, DeliverScan, DeliverReinsert,
                InjectMove, Reinject, Inject
  <2>4. ~ClientMove(u) /\ ~RoundMove(u) /\ ~EventMove(u)
    BY DifferentThreads DEF ClientMove, RoundMove, EventMove
  <2>5. QED
    BY <1>2, <2>1, <2>2, <2>3, <2>4, StepKinds
<1>5. QED
  BY <1>3, <1>4

QuietAt(s) == DetachPurged(s) => pendingQueue[s] = {} /\ packetsToInject[s] = {}

(* The purge is the step from which on the socket is quiet. *)
LEMMA PurgedByDetach ==
  ASSUME IInv, EventLocals, [Next]_vars, NEW x \in Socket, DetachPurged(x)', ~DetachPurged(x)
  PROVE  Purge(x) /\ event[x] = "detach"
<1> DEFINE t == <<x, "event">>
<1>0. /\ TypeOK /\ pc \in [Thread -> ThreadState] /\ t \in Thread
      /\ event \in [Socket -> SocketEvents \cup {None}]
      /\ eventsDone \in [Socket -> SUBSET SocketEvents]
  BY ThreadFacts DEF IInv, TypeOK, ThreadTypes, SocketTypes
<1>1. \/ UNCHANGED <<event, eventsDone>>
      \/ \E s \in Socket : SocketEvent(s) \/ EventDone(s)
  BY EventChanges
<1>2. ASSUME NEW s \in Socket, s # x, SocketEvent(s) \/ EventDone(s)
      PROVE  FALSE
  <2>1. event'[x] = event[x] /\ eventsDone'[x] = eventsDone[x]
    BY <1>0, <1>2 DEF SocketEvent, EventDone
  <2>2. pc'[t] = pc[t]
    <3>1. <<s, "event">> # t
      BY <1>2
    <3>2. QED
      BY <1>0, <1>2, <3>1 DEF SocketEvent, EventDone
  <2>3. QED
    BY <2>1, <2>2 DEF DetachPurged
<1>3. ~SocketEvent(x)
  <2>1. ASSUME SocketEvent(x)
        PROVE  FALSE
    <3>1. PICK e \in SocketEvents : pc'[t] = FirstStep(e) /\ eventsDone' = eventsDone
      BY <1>0, <2>1 DEF SocketEvent
    <3>2. FirstStep(e) \notin {"drainOut", "drainIn", "done"}
      BY DEF FirstStep
    <3>3. QED
      BY <3>1, <3>2 DEF DetachPurged
  <2>2. QED
    BY <2>1
<1>4. ~EventDone(x)
  <2>1. ASSUME EventDone(x)
        PROVE  FALSE
    <3>1. pc[t] = "done" /\ event'[x] = None /\ eventsDone'[x] = eventsDone[x] \cup {event[x]}
      BY <1>0, <2>1 DEF EventDone
    <3>2. None # "detach"
      BY EventAssumption DEF AllEvents
    <3>3. QED
      BY <3>1, <3>2 DEF DetachPurged
  <2>2. QED
    BY <2>1
<1>5. UNCHANGED <<event, eventsDone>>
  BY <1>1, <1>2, <1>3, <1>4
<1>6. /\ event[x] = "detach" /\ pc[t] \notin {"drainOut", "drainIn", "done"}
      /\ pc'[t] \in {"drainOut", "drainIn", "done"}
  BY <1>5 DEF DetachPurged
<1>7. ~NoMove
  BY <1>6 DEF NoMove, Expire, ClientStart, ClientStop, vars
<1>8. \A u \in Thread : u # t => ~ (\/ DataMove(u) \/ WakeMove(u) \/ EventMove(u) \/ DeliverMove(u)
                                     \/ InjectMove(u) \/ ClientMove(u) \/ RoundMove(u))
  BY <1>0, <1>6, OneMoves DEF Moves
<1>9. ~DataMove(t) /\ ~WakeMove(t) /\ ~ClientMove(t) /\ ~RoundMove(t)
  BY DifferentThreads DEF DataMove, WakeMove, ClientMove, RoundMove, Direction
<1>10. ~DeliverMove(t) /\ ~InjectMove(t)
  BY <1>6 DEF DeliverMove, DeliverPop, DeliverScan, DeliverReinsert, InjectMove, Reinject, Inject,
              EventLocals, EventStates
<1>11. EventMove(t)
  BY <1>0, <1>7, <1>8, <1>9, <1>10, StepKinds
<1>12. SocketEvent(x) \/ Purge(x) \/ Unlist(x) \/ Unreport(x) \/ Drain(x) \/ EventDone(x)
  BY <1>11, DifferentThreads DEF EventMove
<1>13. ~Unlist(x) /\ ~Unreport(x) /\ ~Drain(x)
  BY <1>0, <1>6 DEF Unlist, Unreport, Drain
<1>14. QED
  BY <1>3, <1>4, <1>6, <1>12, <1>13

LEMMA QuietStays ==
  ASSUME IInv, EventLocals, MutexInv, DataQuiet, [Next]_vars, NEW x \in Socket, QuietAt(x)
  PROVE  QuietAt(x)'
<1>1. CASE DetachPurged(x)
  <2>1. pendingQueue[x] = {} /\ packetsToInject[x] = {} /\ ~Attached(x)
    BY <1>1 DEF QuietAt, DetachPurged, Attached
  <2>2. ~ \E d \in Direction : Enqueue(x, d)
    BY <2>1 DEF DataQuiet, Enqueue
  <2>3. pendingQueue'[x] = {}
    BY <2>1, <2>2, QueueFromOld
  <2>4. CASE packetsToInject'[x] \subseteq packetsToInject[x]
    BY <2>1, <2>3, <2>4 DEF QuietAt
  <2>5. ASSUME NEW t \in Thread, Reinject(t), hand[t] = x
        PROVE  packetsToInject'[x] = {}
    <3>1. Injectable(x, InjectType(t)) = {}
      BY <2>1 DEF Injectable
    <3>2. packetsToInject' = [packetsToInject EXCEPT ![x] = @ \cup {}]
      BY <2>5, <3>1 DEF Reinject
    <3>3. QED
      BY <2>1, <3>2 DEF IInv, TypeOK, QueueTypes
  <2>6. QED
    BY <2>3, <2>4, <2>5, InjectedFromQueue DEF QuietAt
<1>2. ASSUME ~DetachPurged(x), DetachPurged(x)'
      PROVE  pendingQueue'[x] = {} /\ packetsToInject'[x] = {}
  <2>1. Purge(x) /\ event[x] = "detach"
    BY <1>2, PurgedByDetach
  <2>2. packetsToInject'[x] = {}
    BY <2>1, MutexFreeMeansNothing DEF Purge
  <2>3. Purged(x, PurgeType(event[x])) = pendingQueue[x]
    BY <2>1 DEF Purged, PurgeType, IInv, TypeOK, QueueTypes, PendingPktQueueItem
  <2>4. pendingQueue' = [pendingQueue EXCEPT ![x] = {}]
    BY <2>1, <2>3 DEF Purge
  <2>5. QED
    BY <2>2, <2>4 DEF IInv, TypeOK, QueueTypes
<1>3. QED
  BY <1>1, <1>2 DEF QuietAt

-----------------------------------------------------------------------------
(* Indices and order.                                                      *)

LEMMA EntriesFromOld ==
  ASSUME IInv, [Next]_vars, NEW x \in Socket, ~ \E d \in Direction : Enqueue(x, d)
  PROVE  \A q \in Entries(x)' : \E p \in Entries(x) : Became(x, p, q)
<1>1. \A p : Became(x, p, p)
  BY DEF SameData, Became
<1>2. \A q \in pendingQueue'[x] : \E p \in pendingQueue[x] : Became(x, p, q)
  BY QueueFromOld
<1>3. packetsToInject'[x] \subseteq Entries(x)
  <2>1. ASSUME NEW t \in Thread, Reinject(t), hand[t] = x
        PROVE  packetsToInject'[x] \subseteq Entries(x)
    <3> DEFINE moved == Injectable(x, InjectType(t))
    <3>1. moved \subseteq pendingQueue[x]
      BY DEF Injectable
    <3>2. packetsToInject' = [packetsToInject EXCEPT ![x] = @ \cup moved]
      BY <2>1 DEF Reinject
    <3> HIDE DEF moved
    <3>3. QED
      BY <3>1, <3>2 DEF Entries, IInv, TypeOK, QueueTypes
  <2>2. QED
    BY <2>1, InjectedFromQueue DEF Entries
<1>4. QED
  BY <1>1, <1>2, <1>3 DEF Entries

(* The index of a packet that FltData has queued, or will never queue. *)
Used(x, i) ==
  /\ i < pendingDataNextIndex[x]
  /\ \A d \in Direction : pc[<<x, d>>] = "enqueue" => i # call[<<x, d>>]

Told(x, i) ==
  \/ i \in notified[x]
  \/ \E c \in ClientThread :
       response[c] # None /\ response[c].socket = x /\ response[c].dataIndex = i

FreshAt(x) ==
  /\ \A p \in Entries(x) : Used(x, p.dataIndex)
  /\ \A i \in Nat : Told(x, i) => Used(x, i)
  /\ \A d \in Direction :
       /\ pc[<<x, d>>] = "notify" => Used(x, call[<<x, d>>])
       /\ pc[<<x, d>>] = "enqueue" =>
            /\ call[<<x, d>>] < pendingDataNextIndex[x]
            /\ \A p \in Entries(x) : p.dir = d => p.dataIndex < call[<<x, d>>]
            /\ \A e \in Direction : e # d /\ pc[<<x, e>>] = "enqueue" =>
                 call[<<x, d>>] # call[<<x, e>>]

OrderAt(x) ==
  /\ \A p, q \in Entries(x) : p.dir = q.dir /\ p.place < q.place => p.dataIndex < q.dataIndex
  /\ \A p \in packetsToInject[x], q \in pendingQueue[x] : p.dir = q.dir => p.place < q.place
  /\ \A p, q \in Entries(x) : p.dataIndex = q.dataIndex => p.place = q.place

(* A thread in FltData of x gets there by FltData and leaves by Enqueue. *)
LEMMA DataThreadMoves ==
  ASSUME IInv, [Next]_vars, NEW x \in Socket, NEW d \in Direction, ~FltData(x, d)
  PROVE  /\ pc'[<<x, d>>] = "enqueue" => pc[<<x, d>>] = "enqueue"
         /\ pc'[<<x, d>>] = "notify" => pc[<<x, d>>] = "notify" \/ Enqueue(x, d)
         /\ call'[<<x, d>>] = call[<<x, d>>]
<1> DEFINE u == <<x, d>>
<1>0. /\ TypeOK /\ pc \in [Thread -> ThreadState] /\ call \in [DataThread -> Nat]
      /\ u \in Thread /\ u \in DataThread
  BY ThreadFacts DEF IInv, TypeOK, ThreadTypes
<1>1. call'[u] = call[u]
  <2>1. ASSUME NEW s \in Socket, NEW e \in Direction, FltData(s, e)
        PROVE  call'[u] = call[u]
    <3>1. <<s, e>> # u
      BY <2>1
    <3>2. call' = [call EXCEPT ![<<s, e>>] = pendingDataNextIndex[s]]
      BY <2>1 DEF FltData
    <3>3. QED
      BY <1>0, <3>1, <3>2
  <2>2. ASSUME NEW t \in Thread,
               \/ DataMove(t) \/ WakeMove(t) \/ EventMove(t) \/ DeliverMove(t)
               \/ InjectMove(t) \/ ClientMove(t) \/ RoundMove(t)
        PROVE  call' = call \/ \E s \in Socket, e \in Direction : FltData(s, e)
    BY <2>2 DEF DataMove, Enqueue, Notify, WakeMove, WakeUp, EventMove, SocketEvent,
      Purge, Unlist, Unreport, Drain, EventDone, DeliverMove, DeliverPop, DeliverScan,
      DeliverReinsert, InjectMove, Reinject, Inject, ClientMove, Respond, Lookup,
      SetDeferredDataProperties, RoundMove, CollectSockets, NextSocket
  <2>3. CASE NoMove
    BY <2>3 DEF NoMove, Expire, ClientStart, ClientStop, vars
  <2>4. QED
    BY <2>1, <2>2, <2>3, StepKinds
<1>2. CASE NoMove
  BY <1>1, <1>2 DEF NoMove, Expire, ClientStart, ClientStop, vars
<1>3. ASSUME NEW t \in Thread, t # u,
             \/ DataMove(t) \/ WakeMove(t) \/ EventMove(t) \/ DeliverMove(t)
             \/ InjectMove(t) \/ ClientMove(t) \/ RoundMove(t)
      PROVE  pc'[u] = pc[u]
  <2>1. Moves(t)
    BY <1>0, <1>3, OneMoves
  <2>2. QED
    BY <1>0, <1>3, <2>1 DEF Moves
<1>4. ASSUME DataMove(u)
      PROVE  pc'[u] \notin {"enqueue", "notify"} \/ Enqueue(x, d)
  <2>1. PICK s \in Socket, e \in Direction :
          u = <<s, e>> /\ (FltData(s, e) \/ Enqueue(s, e) \/ Notify(s, e))
    BY <1>4 DEF DataMove
  <2>2. s = x /\ e = d
    BY <2>1
  <2>3. Enqueue(x, d) \/ Notify(x, d)
    BY <2>1, <2>2
  <2>4. QED
    BY <1>0, <2>3 DEF Notify
<1>5. ASSUME DeliverMove(u)
      PROVE  pc'[u] \notin {"enqueue", "notify"}
  <2>1. AfterDelivery(u) \notin {"enqueue", "notify"}
    BY DEF AfterDelivery
  <2>2. CASE DeliverPop(u)
    BY <1>0, <2>1, <2>2 DEF DeliverPop
  <2>3. CASE DeliverScan(u)
    BY <1>0, <2>3 DEF DeliverScan
  <2>4. CASE DeliverReinsert(u)
    BY <1>0, <2>1, <2>4 DEF DeliverReinsert
  <2>5. QED
    BY <1>5, <2>2, <2>3, <2>4 DEF DeliverMove
<1>6. ASSUME WakeMove(u) \/ InjectMove(u)
      PROVE  pc'[u] \notin {"enqueue", "notify"}
  <2>1. AfterInjection(u) \notin {"enqueue", "notify"}
    BY DEF AfterInjection
  <2>2. CASE WakeMove(u)
    BY <1>0, <2>2 DEF WakeMove, WakeUp
  <2>3. CASE Reinject(u)
    BY <1>0, <2>1, <2>3 DEF Reinject
  <2>4. CASE Inject(u)
    BY <1>0, <2>1, <2>4 DEF Inject
  <2>5. QED
    BY <1>6, <2>2, <2>3, <2>4 DEF InjectMove
<1>7. ~EventMove(u) /\ ~ClientMove(u) /\ ~RoundMove(u)
  BY DifferentThreads DEF EventMove, ClientMove, RoundMove
<1>8. Enqueue(x, d) => pc[u] = "enqueue" /\ pc'[u] # "enqueue"
  BY <1>0 DEF Enqueue
<1>9. QED
  BY <1>1, <1>2, <1>3, <1>4, <1>5, <1>6, <1>7, <1>8, StepKinds

LEMMA NextIndex ==
  ASSUME IInv, [Next]_vars, NEW x \in Socket
  PROVE  \/ pendingDataNextIndex'[x] = pendingDataNextIndex[x]
         \/ \E d \in Direction : /\ FltData(x, d)
                                 /\ pendingDataNextIndex'[x] = pendingDataNextIndex[x] + 1
                                 /\ call'[<<x, d>>] = pendingDataNextIndex[x]
<1>0. /\ pendingDataNextIndex \in [Socket -> Nat] /\ call \in [DataThread -> Nat]
  BY DEF IInv, TypeOK, QueueTypes, ThreadTypes
<1>1. ASSUME NEW s \in Socket, NEW d \in Direction, FltData(s, d), s # x
      PROVE  pendingDataNextIndex'[x] = pendingDataNextIndex[x]
  BY <1>0, <1>1 DEF FltData
<1>2. ASSUME NEW d \in Direction, FltData(x, d)
      PROVE  /\ pendingDataNextIndex'[x] = pendingDataNextIndex[x] + 1
             /\ call'[<<x, d>>] = pendingDataNextIndex[x]
  BY <1>0, <1>2, ThreadFacts DEF FltData
<1>3. \/ pendingDataNextIndex' = pendingDataNextIndex
      \/ \E s \in Socket, d \in Direction : FltData(s, d)
  <2>1. ASSUME NEW t \in Thread,
               \/ DataMove(t) \/ WakeMove(t) \/ EventMove(t) \/ DeliverMove(t)
               \/ InjectMove(t) \/ ClientMove(t) \/ RoundMove(t)
        PROVE  \/ pendingDataNextIndex' = pendingDataNextIndex
               \/ \E s \in Socket, d \in Direction : FltData(s, d)
    BY <2>1 DEF DataMove, Enqueue, Notify, WakeMove, WakeUp, EventMove, SocketEvent,
      Purge, Unlist, Unreport, Drain, EventDone, DeliverMove, DeliverPop, DeliverScan,
      DeliverReinsert, InjectMove, Reinject, Inject, ClientMove, Respond, Lookup,
      SetDeferredDataProperties, RoundMove, CollectSockets, NextSocket
  <2>2. CASE NoMove
    BY <2>2 DEF NoMove, Expire, ClientStart, ClientStop, vars
  <2>3. QED
    BY <2>1, <2>2, StepKinds
<1>4. QED
  BY <1>1, <1>2, <1>3

LEMMA UsedStays ==
  ASSUME IInv, [Next]_vars, NEW x \in Socket, NEW i \in Nat, Used(x, i)
  PROVE  Used(x, i)'
<1>0. /\ pendingDataNextIndex \in [Socket -> Nat]
  BY DEF IInv, TypeOK, QueueTypes
<1>1. i < pendingDataNextIndex'[x]
  <2>1. \/ pendingDataNextIndex'[x] = pendingDataNextIndex[x]
        \/ pendingDataNextIndex'[x] = pendingDataNextIndex[x] + 1
    BY NextIndex
  <2>2. QED
    BY <1>0, <2>1 DEF Used
<1>2. ASSUME NEW d \in Direction, pc'[<<x, d>>] = "enqueue"
      PROVE  i # call'[<<x, d>>]
  <2>1. CASE FltData(x, d)
    <3>1. call'[<<x, d>>] = pendingDataNextIndex[x]
      BY <2>1, ThreadFacts DEF FltData, IInv, TypeOK, ThreadTypes
    <3>2. QED
      BY <1>0, <3>1 DEF Used
  <2>2. CASE ~FltData(x, d)
    BY <1>2, <2>2, DataThreadMoves DEF Used
  <2>3. QED
    BY <2>1, <2>2
<1>3. QED
  BY <1>1, <1>2 DEF Used

LEMMA EnqueuedEntry ==
  ASSUME IInv, NEW x \in Socket, NEW d \in Direction, Enqueue(x, d)
  PROVE  /\ \E e \in PendingPktQueueItem :
              /\ pendingQueue'[x] = pendingQueue[x] \cup {e}
              /\ e.dir = d /\ e.dataIndex = call[<<x, d>>] /\ e.place = nextPlace[x]
              /\ ~e.allowData /\ ~e.responseReceived
         /\ packetsToInject' = packetsToInject
         /\ pendingDataNextIndex' = pendingDataNextIndex /\ call' = call
         /\ pc[<<x, d>>] = "enqueue" /\ pc'[<<x, d>>] # "enqueue"
         /\ \A e \in Direction : e # d => pc'[<<x, e>>] = pc[<<x, e>>]
         /\ notified' = notified /\ response' = response /\ granted' = granted
<1>0. /\ pendingQueue \in [Socket -> SUBSET PendingPktQueueItem]
      /\ pc \in [Thread -> ThreadState] /\ call \in [DataThread -> Nat]
      /\ nextPlace \in [Socket -> Nat]
  BY DEF IInv, TypeOK, QueueTypes, ThreadTypes
<1>1. PICK copied \in BOOLEAN :
        /\ pendingQueue' = [pendingQueue EXCEPT ![x] =
             @ \cup {NewEntry(x, d, MustPostpone(x, copied))}]
        /\ pc' = [pc EXCEPT ![<<x, d>>] =
             IF MustPostpone(x, copied) THEN "deliver" ELSE "notify"]
  BY DEF Enqueue
<1> DEFINE e == NewEntry(x, d, MustPostpone(x, copied))
<1>2. MustPostpone(x, copied) \in BOOLEAN
  BY DEF MustPostpone
<1>3. /\ e \in PendingPktQueueItem
      /\ e.dir = d /\ e.dataIndex = call[<<x, d>>] /\ e.place = nextPlace[x]
      /\ ~e.allowData /\ ~e.responseReceived
  BY <1>0, <1>2, ThreadFacts DEF NewEntry, PendingPktQueueItem
<1> HIDE DEF e
<1>4. pendingQueue'[x] = pendingQueue[x] \cup {e}
  BY <1>0, <1>1 DEF e
<1>5. /\ pc[<<x, d>>] = "enqueue" /\ pc'[<<x, d>>] # "enqueue"
      /\ \A f \in Direction : f # d => pc'[<<x, f>>] = pc[<<x, f>>]
  BY <1>0, <1>1, ThreadFacts DEF Enqueue
<1>6. /\ packetsToInject' = packetsToInject
      /\ pendingDataNextIndex' = pendingDataNextIndex /\ call' = call
      /\ notified' = notified /\ response' = response /\ granted' = granted
  BY DEF Enqueue
<1>7. QED
  BY <1>3, <1>4, <1>5, <1>6

(* The client is told of indices of packets that FltData has queued. *)
LEMMA ToldFrom ==
  ASSUME IInv, [Next]_vars, NEW x \in Socket, NEW i \in Nat, Told(x, i)'
  PROVE  \/ Told(x, i)
         \/ \E p \in Entries(x) : p.dataIndex = i
         \/ \E d \in Direction : pc[<<x, d>>] = "notify" /\ i = call[<<x, d>>]
<1> DEFINE Known == \/ Told(x, i)
                    \/ \E p \in Entries(x) : p.dataIndex = i
                    \/ \E d \in Direction : pc[<<x, d>>] = "notify" /\ i = call[<<x, d>>]
<1>0. /\ TypeOK /\ LocalsSet
      /\ notified \in [Socket -> SUBSET Nat] /\ hand \in [Thread -> Socket \cup {None}]
      /\ response \in [ClientThread ->
           [socket: Socket, dataIndex: Nat, allow: BOOLEAN] \cup {None}]
  BY DEF IInv, TypeOK, ThreadTypes, ClientTypes
<1>1. CASE UNCHANGED <<notified, response>>
  BY <1>1 DEF Told
<1>2. ASSUME NEW s \in Socket, NEW d \in Direction, Notify(s, d)
      PROVE  Known
  <2>1. /\ notified' = [notified EXCEPT ![s] = @ \cup {call[<<s, d>>]}] \/ notified' = notified
        /\ response' = response /\ pc[<<s, d>>] = "notify"
    BY <1>2 DEF Notify
  <2>2. notified'[x] = notified[x] \/ (x = s /\ notified'[x] = notified[x] \cup {call[<<s, d>>]})
    BY <1>0, <2>1
  <2>3. QED
    BY <2>1, <2>2 DEF Told
<1>3. ASSUME NEW t \in Thread, DeliverScan(t)
      PROVE  Known
  <2>0. hand[t] \in Socket
    BY <1>0, <1>3 DEF LocalsSet, DeliverScan
  <2>p. PICK gone \in SUBSET Unreported(hand[t]) :
          \E sent \in SUBSET gone : ScanOutcome(hand[t], gone, sent) /\ Scan(t, gone, sent)
    BY <1>3 DEF DeliverScan
  <2>1. PICK sent \in SUBSET gone : Scan(t, gone, sent)
    BY <2>p
  <2>2. /\ notified' = [notified EXCEPT ![hand[t]] = @ \cup {p.dataIndex : p \in sent}]
        /\ response' = response
    BY <1>3, <2>1 DEF DeliverScan, Scan
  <2>3. \/ notified'[x] = notified[x]
        \/ x = hand[t] /\ notified'[x] = notified[x] \cup {p.dataIndex : p \in sent}
    BY <1>0, <2>0, <2>2
  <2>4. \A p \in sent : p \in Entries(hand[t])
    BY DEF Entries, Unreported
  <2>5. QED
    BY <2>2, <2>3, <2>4 DEF Told
<1>4. ASSUME NEW c \in ClientThread, Respond(c)
      PROVE  Known
  <2>s. PICK s \in Socket :
          \E j \in notified[s] : \E allow \in BOOLEAN :
            /\ notified' = [notified EXCEPT ![s] = @ \ {j}]
            /\ response' = [response EXCEPT ![c] =
                 [socket |-> s, dataIndex |-> j, allow |-> allow]]
    BY <1>4 DEF Respond
  <2>1. PICK j \in notified[s] : \E allow \in BOOLEAN :
          /\ notified' = [notified EXCEPT ![s] = @ \ {j}]
          /\ response' = [response EXCEPT ![c] =
               [socket |-> s, dataIndex |-> j, allow |-> allow]]
    BY <2>s
  <2>2. notified'[x] \subseteq notified[x]
    BY <1>0, <2>1
  <2>3. /\ \A b \in ClientThread : b # c => response'[b] = response[b]
        /\ response'[c].socket = s /\ response'[c].dataIndex = j
    BY <1>0, <2>1
  <2>4. QED
    BY <2>2, <2>3 DEF Told
<1>5. ASSUME NEW c \in ClientThread, Lookup(c) \/ SetDeferredDataProperties(c)
      PROVE  Known
  <2>1. notified' = notified /\ (response' = response \/ response' = [response EXCEPT ![c] = None])
    BY <1>5 DEF Lookup, SetDeferredDataProperties
  <2>2. \A b \in ClientThread : response'[b] = response[b] \/ response'[b] = None
    BY <1>0, <2>1
  <2>3. QED
    BY <2>1, <2>2 DEF Told
<1>6. ASSUME ClientStop
      PROVE  Known
  BY <1>6 DEF ClientStop, Told
<1>7. \/ UNCHANGED <<notified, response>>
      \/ \E s \in Socket, d \in Direction : Notify(s, d)
      \/ \E t \in Thread : DeliverScan(t)
      \/ \E c \in ClientThread : Respond(c) \/ Lookup(c) \/ SetDeferredDataProperties(c)
      \/ ClientStop
  <2>1. ASSUME NEW t \in Thread,
               \/ DataMove(t) \/ WakeMove(t) \/ EventMove(t) \/ DeliverMove(t)
               \/ InjectMove(t) \/ ClientMove(t) \/ RoundMove(t)
        PROVE  \/ UNCHANGED <<notified, response>>
               \/ \E s \in Socket, d \in Direction : Notify(s, d)
               \/ DeliverScan(t)
               \/ \E c \in ClientThread : Respond(c) \/ Lookup(c) \/ SetDeferredDataProperties(c)
    BY <2>1 DEF DataMove, FltData, Enqueue, WakeMove, WakeUp, EventMove, SocketEvent,
      Purge, Unlist, Unreport, Drain, EventDone, DeliverMove, DeliverPop,
      DeliverReinsert, InjectMove, Reinject, Inject, ClientMove, RoundMove,
      CollectSockets, NextSocket
  <2>2. CASE NoMove
    BY <2>2 DEF NoMove, Expire, ClientStart, vars
  <2>3. QED
    BY <2>1, <2>2, StepKinds
<1>8. QED
  BY <1>1, <1>2, <1>3, <1>4, <1>5, <1>6, <1>7

LEMMA FreshStep ==
  ASSUME IInv, [Next]_vars, NEW x \in Socket, FreshAt(x)
  PROVE  FreshAt(x)'
<1>0. /\ TypeOK /\ pc \in [Thread -> ThreadState] /\ call \in [DataThread -> Nat]
      /\ pendingDataNextIndex \in [Socket -> Nat]
      /\ \A d \in Direction : call[<<x, d>>] \in Nat
      /\ \A p \in Entries(x) : p.dataIndex \in Nat
  BY ThreadFacts DEF IInv, TypeOK, ThreadTypes, QueueTypes, Entries, PendingPktQueueItem
<1>1. \A i \in Nat : Used(x, i) => Used(x, i)'
  BY UsedStays
<1>2. ASSUME NEW d \in Direction, Enqueue(x, d)
      PROVE  Used(x, call[<<x, d>>])'
  <2>1. call[<<x, d>>] < pendingDataNextIndex'[x]
    BY <1>2, EnqueuedEntry DEF FreshAt
  <2>2. \A e \in Direction : pc'[<<x, e>>] = "enqueue" => call[<<x, d>>] # call'[<<x, e>>]
    BY <1>2, EnqueuedEntry DEF FreshAt
  <2>3. QED
    BY <1>2, <2>1, <2>2, EnqueuedEntry DEF Used
<1>3. \A q \in Entries(x)' : Used(x, q.dataIndex)'
  <2>1. CASE ~ \E d \in Direction : Enqueue(x, d)
    <3>1. \A q \in Entries(x)' : \E p \in Entries(x) : q.dataIndex = p.dataIndex
      BY <2>1, EntriesFromOld DEF Became, SameData
    <3>2. QED
      BY <1>0, <1>1, <3>1 DEF FreshAt
  <2>2. ASSUME NEW d \in Direction, Enqueue(x, d)
        PROVE  \A q \in Entries(x)' : Used(x, q.dataIndex)'
    <3>1. \A q \in Entries(x)' : q \in Entries(x) \/ q.dataIndex = call[<<x, d>>]
      BY <2>2, EnqueuedEntry DEF Entries
    <3>2. call' = call /\ Used(x, call[<<x, d>>])'
      BY <1>2, <2>2, EnqueuedEntry
    <3>3. ASSUME NEW q \in Entries(x)'
          PROVE  Used(x, q.dataIndex)'
      <4>1. CASE q \in Entries(x)
        BY <1>0, <1>1, <4>1 DEF FreshAt
      <4>2. CASE q.dataIndex = call[<<x, d>>]
        BY <3>2, <4>2 DEF Used
      <4>3. QED
        BY <3>1, <4>1, <4>2
    <3>4. QED
      BY <3>3
  <2>3. QED
    BY <2>1, <2>2
<1>4. ASSUME NEW i \in Nat, Told(x, i)'
      PROVE  Used(x, i)'
  <2>1. Used(x, i)
    BY <1>4, ToldFrom DEF FreshAt
  <2>2. QED
    BY <1>1, <2>1
<1>5. ASSUME NEW d \in Direction, pc'[<<x, d>>] = "notify"
      PROVE  Used(x, call[<<x, d>>])' /\ call'[<<x, d>>] = call[<<x, d>>]
  <2>1. ~FltData(x, d)
    BY <1>0, <1>5, ThreadFacts DEF FltData
  <2>2. /\ pc[<<x, d>>] = "notify" \/ Enqueue(x, d)
        /\ call'[<<x, d>>] = call[<<x, d>>]
    BY <1>5, <2>1, DataThreadMoves
  <2>3. QED
    BY <1>0, <1>1, <1>2, <2>2 DEF FreshAt
<1>6. ASSUME NEW d \in Direction, pc'[<<x, d>>] = "enqueue"
      PROVE  /\ call'[<<x, d>>] < pendingDataNextIndex'[x]
             /\ \A q \in Entries(x)' : q.dir = d => q.dataIndex < call'[<<x, d>>]
             /\ \A e \in Direction : e # d /\ pc'[<<x, e>>] = "enqueue" =>
                  call'[<<x, d>>] # call'[<<x, e>>]
  <2>1. CASE FltData(x, d)
    <3>1. /\ call'[<<x, d>>] = pendingDataNextIndex[x]
          /\ pendingDataNextIndex'[x] = pendingDataNextIndex[x] + 1
          /\ \A e \in Direction : e # d => call'[<<x, e>>] = call[<<x, e>>]
                                         /\ pc'[<<x, e>>] = pc[<<x, e>>]
          /\ pendingQueue' = pendingQueue /\ packetsToInject' = packetsToInject
      BY <1>0, <2>1, ThreadFacts DEF FltData
    <3>2. \A q \in Entries(x)' : q.dataIndex < pendingDataNextIndex[x]
      BY <3>1 DEF Entries, FreshAt, Used
    <3>3. \A e \in Direction : e # d /\ pc'[<<x, e>>] = "enqueue" =>
            call'[<<x, e>>] < pendingDataNextIndex[x]
      BY <3>1 DEF FreshAt
    <3>4. QED
      BY <1>0, <3>1, <3>2, <3>3
  <2>2. CASE ~FltData(x, d)
    <3>1. pc[<<x, d>>] = "enqueue" /\ call'[<<x, d>>] = call[<<x, d>>]
      BY <1>6, <2>2, DataThreadMoves
    <3>2. call[<<x, d>>] < pendingDataNextIndex[x]
      BY <3>1 DEF FreshAt
    <3>3. \/ pendingDataNextIndex'[x] = pendingDataNextIndex[x]
          \/ pendingDataNextIndex'[x] = pendingDataNextIndex[x] + 1
      BY NextIndex
    <3>4. \A q \in Entries(x)' : q.dir = d => q.dataIndex < call[<<x, d>>]
      <4>1. CASE ~ \E e \in Direction : Enqueue(x, e)
        <5>1. \A q \in Entries(x)' :
                \E p \in Entries(x) : q.dataIndex = p.dataIndex /\ q.dir = p.dir
          BY <4>1, EntriesFromOld DEF Became, SameData
        <5>2. QED
          BY <3>1, <5>1 DEF FreshAt
      <4>2. ASSUME NEW e \in Direction, Enqueue(x, e)
            PROVE  \A q \in Entries(x)' : q.dir = d => q.dataIndex < call[<<x, d>>]
        <5>1. e # d
          BY <1>6, <4>2, EnqueuedEntry
        <5>2. \A q \in Entries(x)' : q \in Entries(x) \/ q.dir = e
          <6>1. PICK n \in PendingPktQueueItem :
                  pendingQueue'[x] = pendingQueue[x] \cup {n} /\ n.dir = e
            BY <4>2, EnqueuedEntry
          <6>2. packetsToInject' = packetsToInject
            BY <4>2, EnqueuedEntry
          <6>3. QED
            BY <6>1, <6>2 DEF Entries
        <5>3. QED
          BY <3>1, <5>1, <5>2 DEF FreshAt
      <4>3. QED
        BY <4>1, <4>2
    <3>5. ASSUME NEW e \in Direction, e # d, pc'[<<x, e>>] = "enqueue"
          PROVE  call[<<x, d>>] # call'[<<x, e>>]
      <4>1. CASE FltData(x, e)
        <5>1. call'[<<x, e>>] = pendingDataNextIndex[x]
          BY <1>0, <4>1, ThreadFacts DEF FltData
        <5>2. QED
          BY <1>0, <3>2, <5>1
      <4>2. CASE ~FltData(x, e)
        <5>1. pc[<<x, e>>] = "enqueue" /\ call'[<<x, e>>] = call[<<x, e>>]
          BY <3>5, <4>2, DataThreadMoves
        <5>2. QED
          BY <3>1, <3>5, <5>1 DEF FreshAt
      <4>3. QED
        BY <4>1, <4>2
    <3>6. call[<<x, d>>] < pendingDataNextIndex'[x]
      BY <1>0, <3>2, <3>3
    <3>7. QED
      BY <3>1, <3>4, <3>5, <3>6
  <2>3. QED
    BY <2>1, <2>2
<1>7. QED
  BY <1>3, <1>4, <1>5, <1>6 DEF FreshAt

(* The order of the packets of one direction. *)

LEMMA OrderOfEnqueue ==
  ASSUME IInv, NEW x \in Socket, FreshAt(x), OrderAt(x), NEW d \in Direction, Enqueue(x, d)
  PROVE  OrderAt(x)'
<1>1. PICK n \in PendingPktQueueItem :
        /\ pendingQueue'[x] = pendingQueue[x] \cup {n}
        /\ n.dir = d /\ n.dataIndex = call[<<x, d>>] /\ n.place = nextPlace[x]
  BY EnqueuedEntry
<1>2. packetsToInject' = packetsToInject /\ pc[<<x, d>>] = "enqueue"
  BY EnqueuedEntry
<1>3. \A p \in Entries(x) :
        /\ p.place < n.place /\ p.place \in Nat /\ p.dataIndex \in Nat
        /\ p.dataIndex # n.dataIndex
        /\ p.dir = d => p.dataIndex < n.dataIndex
  BY <1>1, <1>2 DEF FreshAt, Used, IInv, QueueWellFormed, TypeOK, QueueTypes, Entries,
                    PendingPktQueueItem
<1>4. n.place \in Nat /\ n.dataIndex \in Nat
  BY DEF PendingPktQueueItem
<1>5. Entries(x)' = Entries(x) \cup {n}
  BY <1>1, <1>2 DEF Entries
<1>6. \A p, q \in Entries(x)' : p.dir = q.dir /\ p.place < q.place => p.dataIndex < q.dataIndex
  BY <1>1, <1>3, <1>4, <1>5 DEF OrderAt
<1>7. \A p \in packetsToInject'[x], q \in pendingQueue'[x] : p.dir = q.dir => p.place < q.place
  BY <1>1, <1>2, <1>3 DEF OrderAt, Entries
<1>8. \A p, q \in Entries(x)' : p.dataIndex = q.dataIndex => p.place = q.place
  BY <1>3, <1>4, <1>5 DEF OrderAt
<1>9. QED
  BY <1>6, <1>7, <1>8 DEF OrderAt

LEMMA OrderOfReinject ==
  ASSUME IInv, MutexInv, NEW x \in Socket, OrderAt(x), NEW t \in Thread, Reinject(t), hand[t] = x
  PROVE  OrderAt(x)'
<1> DEFINE moved == Injectable(x, InjectType(t))
<1>0. /\ pendingQueue \in [Socket -> SUBSET PendingPktQueueItem]
      /\ packetsToInject \in [Socket -> SUBSET PendingPktQueueItem]
      /\ \A p \in pendingQueue[x] : p.place \in Nat
  BY DEF IInv, TypeOK, QueueTypes, PendingPktQueueItem
<1>1. /\ pendingQueue' = [pendingQueue EXCEPT ![x] = pendingQueue[x] \ moved]
      /\ packetsToInject' = [packetsToInject EXCEPT ![x] = packetsToInject[x] \cup moved]
  BY DEF Reinject
<1>2. packetsToInject[x] = {}
  BY MutexFreeMeansNothing DEF Reinject
<1>3. moved \subseteq pendingQueue[x]
  BY DEF Injectable
<1>4. ASSUME NEW p \in moved, NEW q \in pendingQueue[x] \ moved, p.dir = q.dir
      PROVE  p.place < q.place
  <2>1. p.dir \in InjectType(t) /\ \A r \in UpTo(x, p) : r.dir \in InjectType(t) => Decided(r)
    BY DEF Injectable
  <2>2. PICK r \in UpTo(x, q) : r.dir \in InjectType(t) /\ ~Decided(r)
    BY <1>4, <2>1 DEF Injectable
  <2>3. r \notin UpTo(x, p)
    BY <2>1, <2>2
  <2>4. r \in pendingQueue[x] /\ r.place <= q.place /\ ~(r.place <= p.place)
    BY <2>2, <2>3 DEF UpTo
  <2>5. QED
    BY <1>0, <1>3, <2>4
<1> HIDE DEF moved
<1>5. pendingQueue'[x] = pendingQueue[x] \ moved /\ packetsToInject'[x] = moved
  BY <1>0, <1>1, <1>2
<1>6. Entries(x)' \subseteq Entries(x)
  BY <1>3, <1>5 DEF Entries
<1>7. QED
  BY <1>4, <1>5, <1>6 DEF OrderAt

LEMMA OrderStep ==
  ASSUME IInv, MutexInv, [Next]_vars, NEW x \in Socket, FreshAt(x), OrderAt(x)
  PROVE  OrderAt(x)'
<1>1. CASE \E d \in Direction : Enqueue(x, d)
  BY <1>1, OrderOfEnqueue
<1>2. CASE \E t \in Thread : Reinject(t) /\ hand[t] = x
  BY <1>2, OrderOfReinject
<1>3. CASE /\ ~ \E d \in Direction : Enqueue(x, d)
           /\ ~ \E t \in Thread : Reinject(t) /\ hand[t] = x
  <2>1. packetsToInject'[x] \subseteq packetsToInject[x]
    BY <1>3, InjectedFromQueue
  <2>2. \A q \in pendingQueue'[x] : \E p \in pendingQueue[x] : SameData(p, q)
    BY <1>3, QueueFromOld DEF Became
  <2>3. \A q \in Entries(x)' : \E p \in Entries(x) : SameData(p, q)
    BY <1>3, EntriesFromOld DEF Became
  <2>4. QED
    BY <2>1, <2>2, <2>3 DEF OrderAt, SameData
<1>4. QED
  BY <1>1, <1>2, <1>3

(* Only Inject takes a packet from the list, and it takes the first one. *)
LEMMA GivenIsFirst ==
  ASSUME IInv, [Next]_vars, NEW x \in Socket, NEW p \in Given(x)
  PROVE  /\ p \in packetsToInject[x] /\ p.allowData
         /\ \A q \in packetsToInject[x] : p.place <= q.place
<1>0. /\ packetsToInject \in [Socket -> SUBSET PendingPktQueueItem] /\ LocalsSet
  BY DEF IInv, TypeOK, QueueTypes
<1>1. p \in packetsToInject[x] /\ p \notin packetsToInject'[x] /\ p.allowData
  BY DEF Given, MayInject
<1>2. ASSUME NEW t \in Thread, Inject(t)
      PROVE  \A q \in packetsToInject[x] : p.place <= q.place
  <2>1. hand[t] \in Socket
    BY <1>0, <1>2 DEF LocalsSet, Inject
  <2>2. PICK r \in packetsToInject[hand[t]] :
          /\ \A q \in packetsToInject[hand[t]] : r.place <= q.place
          /\ packetsToInject' = [packetsToInject EXCEPT ![hand[t]] = @ \ {r}]
    BY <1>2 DEF Inject
  <2>3. x = hand[t] /\ p = r
    BY <1>0, <1>1, <2>1, <2>2
  <2>4. QED
    BY <2>2, <2>3
<1>3. ASSUME NEW t \in Thread, Reinject(t)
      PROVE  FALSE
  <2>1. packetsToInject' = [packetsToInject EXCEPT ![hand[t]] =
          @ \cup Injectable(hand[t], InjectType(t))]
    BY <1>3 DEF Reinject
  <2>2. QED
    BY <1>0, <1>1, <2>1
<1>4. \/ UNCHANGED packetsToInject
      \/ \E t \in Thread : Reinject(t) \/ Inject(t)
  BY InjectListChanges
<1>5. QED
  BY <1>1, <1>2, <1>3, <1>4

-----------------------------------------------------------------------------
(* Permission of the client.                                               *)

(* The client is answered for the socket it looked up. *)
ClientLocals ==
  \A c \in ClientThread : pc[c] = "setProperty" => hand[c] = response[c].socket

PermitAt(x) ==
  /\ \A p \in Entries(x) : p.allowData => p.dataIndex \in granted[x]
  /\ \A c \in ClientThread : \A p \in Entries(x) :
       /\ response[c] # None /\ response[c].socket = x /\ response[c].allow
       /\ response[c].dataIndex = p.dataIndex
       => p.dataIndex \in granted[x]

LEMMA ClientLocalsStep ==
  ASSUME IInv, ClientLocals, [Next]_vars
  PROVE  ClientLocals'
<1> SUFFICES ASSUME NEW c \in ClientThread, pc'[c] = "setProperty"
             PROVE  hand'[c] = response'[c].socket
  BY DEF ClientLocals
<1>0. /\ TypeOK /\ c \in Thread /\ pc \in [Thread -> ThreadState]
      /\ hand \in [Thread -> Socket \cup {None}]
      /\ response \in [ClientThread ->
           [socket: Socket, dataIndex: Nat, allow: BOOLEAN] \cup {None}]
  BY ThreadFacts DEF IInv, TypeOK, ThreadTypes
<1>1. CASE NoMove
  BY <1>1 DEF NoMove, Expire, ClientStart, ClientStop, vars, ClientLocals
<1>2. ASSUME NEW t \in Thread, t # c,
             \/ DataMove(t) \/ WakeMove(t) \/ EventMove(t) \/ DeliverMove(t)
             \/ InjectMove(t) \/ ClientMove(t) \/ RoundMove(t)
      PROVE  hand'[c] = response'[c].socket
  <2>1. pc'[c] = pc[c] /\ hand'[c] = hand[c]
    <3>1. Moves(t)
      BY <1>0, <1>2, OneMoves
    <3>2. QED
      BY <1>0, <1>2, <3>1 DEF Moves
  <2>2. response'[c] = response[c]
    <3>1. CASE ClientMove(t)
      <4>1. CASE Respond(t)
        BY <1>0, <1>2, <4>1 DEF Respond
      <4>2. CASE Lookup(t)
        <5>1. response' = response \/ response' = [response EXCEPT ![t] = None]
          BY <4>2 DEF Lookup
        <5>2. QED
          BY <1>0, <1>2, <5>1
      <4>3. CASE SetDeferredDataProperties(t)
        <5>1. response' = [response EXCEPT ![t] = None]
          BY <4>3 DEF SetDeferredDataProperties
        <5>2. QED
          BY <1>0, <1>2, <5>1
      <4>4. QED
        BY <3>1, <4>1, <4>2, <4>3 DEF ClientMove
    <3>2. CASE \/ DataMove(t) \/ WakeMove(t) \/ EventMove(t) \/ DeliverMove(t)
               \/ InjectMove(t) \/ RoundMove(t)
      BY <3>2 DEF DataMove, FltData, Enqueue, Notify, WakeMove, WakeUp, EventMove, SocketEvent,
        Purge, Unlist, Unreport, Drain, EventDone, DeliverMove, DeliverPop, DeliverScan,
        DeliverReinsert, InjectMove, Reinject, Inject, RoundMove, CollectSockets, NextSocket
    <3>3. QED
      BY <1>2, <3>1, <3>2
  <2>3. QED
    BY <2>1, <2>2 DEF ClientLocals
<1>3. CASE ClientMove(c)
  <2>1. Lookup(c) /\ listed[response[c].socket]
    <3>1. ~Respond(c)
      BY <1>0 DEF Respond
    <3>2. ~SetDeferredDataProperties(c)
      BY <1>0 DEF SetDeferredDataProperties
    <3>3. Lookup(c)
      BY <1>3, <3>1, <3>2 DEF ClientMove
    <3>4. listed[response[c].socket]
      BY <1>0, <3>3 DEF Lookup
    <3>5. QED
      BY <3>3, <3>4
  <2>2. QED
    BY <1>0, <2>1 DEF Lookup
<1>4. ~DeliverMove(c)
  <2>1. ASSUME DeliverMove(c)
        PROVE  pc'[c] \in {"lookup", "scan", "reinsert", "deliver"}
    <3>0. c # InjectionThread
      BY ThreadAssumption
    <3>1. AfterDelivery(c) = "lookup"
      BY <3>0 DEF AfterDelivery
    <3>2. CASE DeliverPop(c)
      BY <1>0, <3>1, <3>2 DEF DeliverPop
    <3>3. CASE DeliverScan(c)
      BY <1>0, <3>3 DEF DeliverScan
    <3>4. CASE DeliverReinsert(c)
      BY <1>0, <3>1, <3>4 DEF DeliverReinsert
    <3>5. QED
      BY <2>1, <3>2, <3>3, <3>4 DEF DeliverMove
  <2>2. QED
    BY <2>1
<1>5. ~InjectMove(c)
  <2>0. c # InjectionThread
    BY ThreadAssumption
  <2>1. AfterInjection(c) = "idle"
    BY <2>0 DEF AfterInjection
  <2>2. QED
    BY <1>0, <2>1 DEF InjectMove, Reinject, Inject
<1>6. ~DataMove(c) /\ ~WakeMove(c) /\ ~EventMove(c) /\ ~RoundMove(c)
  BY DifferentThreads, ThreadFacts DEF DataMove, WakeMove, EventMove, RoundMove, Direction
<1>7. QED
  BY <1>1, <1>2, <1>3, <1>4, <1>5, <1>6, StepKinds

(* Two entries of a socket have different indices. *)
LEMMA OneIndex ==
  ASSUME IInv, NEW x \in Socket, OrderAt(x), NEW p \in Entries(x), NEW q \in Entries(x),
         p.dataIndex = q.dataIndex
  PROVE  p = q
BY DEF OrderAt, IInv, QueueWellFormed

(* The permission for a packet that is still there is not forgotten. *)
LEMMA GrantKept ==
  ASSUME IInv, [Next]_vars, NEW x \in Socket, OrderAt(x), NEW p \in Entries(x),
         p.dataIndex \in granted[x], NEW q \in Entries(x)', q.dataIndex = p.dataIndex,
         ~ \E d \in Direction : Enqueue(x, d)
  PROVE  p.dataIndex \in granted'[x]
<1>0. /\ TypeOK /\ LocalsSet /\ granted \in [Socket -> SUBSET Nat]
      /\ pendingQueue \in [Socket -> SUBSET PendingPktQueueItem]
      /\ packetsToInject \in [Socket -> SUBSET PendingPktQueueItem]
  BY DEF IInv, TypeOK, QueueTypes, ClientTypes
<1>1. CASE granted' = granted
  BY <1>1
<1>2. ASSUME NEW c \in ClientThread, Respond(c)
      PROVE  p.dataIndex \in granted'[x]
  <2>1. PICK s \in Socket :
          \E i \in notified[s] : \E allow \in BOOLEAN :
            granted' = [granted EXCEPT ![s] = IF allow THEN @ \cup {i} ELSE @]
    BY <1>2 DEF Respond
  <2>2. granted[x] \subseteq granted'[x]
    BY <1>0, <2>1
  <2>3. QED
    BY <2>2
<1>3. ASSUME NEW t \in Thread, Inject(t)
      PROVE  p.dataIndex \in granted'[x]
  <2>0. hand[t] \in Socket
    BY <1>0, <1>3 DEF LocalsSet, Inject
  <2>1. PICK r \in packetsToInject[hand[t]] :
          /\ packetsToInject' = [packetsToInject EXCEPT ![hand[t]] = @ \ {r}]
          /\ granted' = [granted EXCEPT ![hand[t]] = @ \ {r.dataIndex}]
    BY <1>3 DEF Inject
  <2>2. pendingQueue' = pendingQueue
    BY <1>3 DEF Inject
  <2>3. CASE hand[t] # x
    BY <1>0, <2>0, <2>1, <2>3
  <2>4. CASE hand[t] = x
    <3>1. q \in Entries(x) /\ q # r
      <4>1. r \notin pendingQueue[x]
        BY <2>4 DEF IInv, QueueWellFormed
      <4>2. packetsToInject'[x] = packetsToInject[x] \ {r}
        BY <1>0, <2>1, <2>4
      <4>3. QED
        BY <2>2, <4>1, <4>2 DEF Entries
    <3>2. r \in Entries(x)
      BY <2>4 DEF Entries
    <3>3. q.dataIndex # r.dataIndex
      BY <3>1, <3>2, OneIndex
    <3>4. QED
      BY <1>0, <2>1, <2>4, <3>3
  <2>5. QED
    BY <2>3, <2>4
<1>4. ASSUME NEW s \in Socket, Purge(s)
      PROVE  p.dataIndex \in granted'[x]
  <2> DEFINE gone == Purged(s, PurgeType(event[s]))
  <2>1. /\ pendingQueue' = [pendingQueue EXCEPT ![s] = @ \ gone]
        /\ granted' = [granted EXCEPT ![s] = @ \ {r.dataIndex : r \in gone}]
        /\ packetsToInject' = packetsToInject
    BY <1>4 DEF Purge
  <2>2. gone \subseteq pendingQueue[s]
    BY DEF Purged
  <2> HIDE DEF gone
  <2>3. CASE s # x
    BY <1>0, <2>1, <2>3
  <2>4. CASE s = x
    <3>1. q \in Entries(x) /\ q \notin gone
      <4>1. \A r \in gone : r \notin packetsToInject[x]
        BY <2>2, <2>4 DEF IInv, QueueWellFormed
      <4>2. pendingQueue'[x] = pendingQueue[x] \ gone
        BY <1>0, <2>1, <2>4
      <4>3. QED
        BY <2>1, <4>1, <4>2 DEF Entries
    <3>2. \A r \in gone : r.dataIndex # q.dataIndex
      <4>1. \A r \in gone : r \in Entries(x) /\ r # q
        BY <2>2, <2>4, <3>1 DEF Entries
      <4>2. QED
        BY <3>1, <4>1, OneIndex
    <3>3. granted'[x] = granted[x] \ {r.dataIndex : r \in gone}
      BY <1>0, <2>1, <2>4
    <3>4. QED
      BY <3>2, <3>3
  <2>5. QED
    BY <2>3, <2>4
<1>5. \/ granted' = granted
      \/ \E c \in ClientThread : Respond(c)
      \/ \E t \in Thread : Inject(t)
      \/ \E s \in Socket : Purge(s)
  <2>1. ASSUME NEW t \in Thread,
               \/ DataMove(t) \/ WakeMove(t) \/ EventMove(t) \/ DeliverMove(t)
               \/ InjectMove(t) \/ ClientMove(t) \/ RoundMove(t)
        PROVE  \/ granted' = granted
               \/ \E c \in ClientThread : Respond(c)
               \/ Inject(t)
               \/ \E s \in Socket : Purge(s)
    BY <2>1 DEF DataMove, FltData, Enqueue, Notify, WakeMove, WakeUp, EventMove, SocketEvent,
      Unlist, Unreport, Drain, EventDone, DeliverMove, DeliverPop, DeliverScan,
      DeliverReinsert, InjectMove, Reinject, ClientMove, Lookup, SetDeferredDataProperties,
      RoundMove, CollectSockets, NextSocket
  <2>2. CASE NoMove
    BY <2>2 DEF NoMove, Expire, ClientStart, ClientStop, vars
  <2>3. QED
    BY <2>1, <2>2, StepKinds
<1>6. QED
  BY <1>1, <1>2, <1>3, <1>4, <1>5

(* Where the answers of the client come from. *)
LEMMA ResponseFrom ==
  ASSUME IInv, [Next]_vars, NEW c \in ClientThread, response'[c] # None
  PROVE  \/ response'[c] = response[c]
         \/ response'[c].allow => response'[c].dataIndex \in granted'[response'[c].socket]
<1>0. /\ granted \in [Socket -> SUBSET Nat]
      /\ response \in [ClientThread ->
           [socket: Socket, dataIndex: Nat, allow: BOOLEAN] \cup {None}]
  BY DEF IInv, TypeOK, ThreadTypes, ClientTypes
<1>1. ASSUME NEW b \in ClientThread, Respond(b)
      PROVE  \/ response'[c] = response[c]
             \/ response'[c].allow => response'[c].dataIndex \in granted'[response'[c].socket]
  <2>s. PICK s \in Socket :
          \E i \in notified[s] : \E allow \in BOOLEAN :
            /\ granted' = [granted EXCEPT ![s] = IF allow THEN @ \cup {i} ELSE @]
            /\ response' = [response EXCEPT ![b] =
                 [socket |-> s, dataIndex |-> i, allow |-> allow]]
    BY <1>1 DEF Respond
  <2>1. PICK i \in notified[s] : \E allow \in BOOLEAN :
            /\ granted' = [granted EXCEPT ![s] = IF allow THEN @ \cup {i} ELSE @]
            /\ response' = [response EXCEPT ![b] =
                 [socket |-> s, dataIndex |-> i, allow |-> allow]]
    BY <2>s
  <2>2. PICK allow \in BOOLEAN :
            /\ granted' = [granted EXCEPT ![s] = IF allow THEN @ \cup {i} ELSE @]
            /\ response' = [response EXCEPT ![b] =
                 [socket |-> s, dataIndex |-> i, allow |-> allow]]
    BY <2>1
  <2>3. CASE b = c
    BY <1>0, <2>2, <2>3
  <2>4. CASE b # c
    BY <1>0, <2>2, <2>4
  <2>5. QED
    BY <2>3, <2>4
<1>2. ASSUME NEW b \in ClientThread, Lookup(b) \/ SetDeferredDataProperties(b)
      PROVE  response'[c] = response[c]
  <2>1. response' = response \/ response' = [response EXCEPT ![b] = None]
    BY <1>2 DEF Lookup, SetDeferredDataProperties
  <2>2. QED
    BY <1>0, <2>1
<1>3. \/ response' = response
      \/ \E b \in ClientThread : Respond(b) \/ Lookup(b) \/ SetDeferredDataProperties(b)
  <2>1. ASSUME NEW t \in Thread,
               \/ DataMove(t) \/ WakeMove(t) \/ EventMove(t) \/ DeliverMove(t)
               \/ InjectMove(t) \/ ClientMove(t) \/ RoundMove(t)
        PROVE  \/ response' = response
               \/ \E b \in ClientThread : Respond(b) \/ Lookup(b) \/ SetDeferredDataProperties(b)
    BY <2>1 DEF DataMove, FltData, Enqueue, Notify, WakeMove, WakeUp, EventMove, SocketEvent,
      Purge, Unlist, Unreport, Drain, EventDone, DeliverMove, DeliverPop, DeliverScan,
      DeliverReinsert, InjectMove, Reinject, Inject, ClientMove, RoundMove, CollectSockets,
      NextSocket
  <2>2. CASE NoMove
    BY <2>2 DEF NoMove, Expire, ClientStart, ClientStop, vars
  <2>3. QED
    BY <2>1, <2>2, StepKinds
<1>4. QED
  BY <1>1, <1>2, <1>3

LEMMA PermitStep ==
  ASSUME IInv, ClientLocals, [Next]_vars, NEW x \in Socket,
         FreshAt(x), OrderAt(x), PermitAt(x)
  PROVE  PermitAt(x)'
<1>0. /\ TypeOK /\ LocalsSet
      /\ response \in [ClientThread ->
           [socket: Socket, dataIndex: Nat, allow: BOOLEAN] \cup {None}]
  BY DEF IInv, TypeOK, ThreadTypes
<1>1. ASSUME NEW d \in Direction, Enqueue(x, d)
      PROVE  PermitAt(x)'
  <2>1. PICK n \in PendingPktQueueItem :
          /\ pendingQueue'[x] = pendingQueue[x] \cup {n}
          /\ n.dataIndex = call[<<x, d>>] /\ ~n.allowData
    BY <1>1, EnqueuedEntry
  <2>2. /\ packetsToInject' = packetsToInject /\ pc[<<x, d>>] = "enqueue"
        /\ granted' = granted /\ response' = response
    BY <1>1, EnqueuedEntry
  <2>3. Entries(x)' = Entries(x) \cup {n}
    BY <2>1, <2>2 DEF Entries
  <2>4. \A c \in ClientThread :
          response[c] # None /\ response[c].socket = x => response[c].dataIndex # n.dataIndex
    <3>1. ASSUME NEW c \in ClientThread, response[c] # None, response[c].socket = x
          PROVE  Used(x, response[c].dataIndex)
      BY <1>0, <3>1 DEF FreshAt, Told
    <3>2. QED
      BY <2>1, <2>2, <3>1 DEF Used
  <2>5. QED
    BY <2>1, <2>2, <2>3, <2>4 DEF PermitAt
<1>2. ASSUME ~ \E d \in Direction : Enqueue(x, d)
      PROVE  PermitAt(x)'
  <2>1. ASSUME NEW q \in Entries(x)', q.allowData
        PROVE  q.dataIndex \in granted'[x]
    <3>1. PICK p \in Entries(x) : Became(x, p, q)
      BY <1>2, EntriesFromOld
    <3>2. p.dataIndex \in granted[x]
      <4>1. CASE p.allowData
        BY <4>1 DEF PermitAt
      <4>2. ASSUME Allowing(x, p.dataIndex)
            PROVE  p.dataIndex \in granted[x]
        <5>1. PICK c \in ClientThread :
                /\ SetDeferredDataProperties(c)
                /\ hand[c] = x /\ response[c].dataIndex = p.dataIndex /\ response[c].allow
          BY <4>2 DEF Allowing
        <5>2. pc[c] = "setProperty"
          BY <5>1 DEF SetDeferredDataProperties
        <5>3. response[c] # None /\ response[c].socket = x
          <6>1. response[c].socket = x
            BY <5>1, <5>2 DEF ClientLocals
          <6>2. response[c] \in [socket: Socket, dataIndex: Nat, allow: BOOLEAN]
            BY <1>0, <5>2 DEF LocalsSet
          <6>3. QED
            BY <6>1, <6>2, ResponseAssumption
        <5>4. QED
          BY <5>1, <5>3 DEF PermitAt
      <4>3. QED
        BY <2>1, <3>1, <4>1, <4>2 DEF Became
    <3>3. q.dataIndex = p.dataIndex
      BY <3>1 DEF Became, SameData
    <3>4. QED
      BY <1>2, <3>2, <3>3, GrantKept
  <2>2. ASSUME NEW c \in ClientThread, NEW q \in Entries(x)',
               response'[c] # None, response'[c].socket = x, response'[c].allow,
               response'[c].dataIndex = q.dataIndex
        PROVE  q.dataIndex \in granted'[x]
    <3>1. CASE response'[c] = response[c]
      <4>1. PICK p \in Entries(x) : Became(x, p, q)
        BY <1>2, EntriesFromOld
      <4>2. q.dataIndex = p.dataIndex
        BY <4>1 DEF Became, SameData
      <4>3. p.dataIndex \in granted[x]
        BY <2>2, <3>1, <4>2 DEF PermitAt
      <4>4. QED
        BY <1>2, <4>2, <4>3, GrantKept
    <3>2. CASE response'[c] # response[c]
      BY <2>2, <3>2, ResponseFrom
    <3>3. QED
      BY <3>1, <3>2
  <2>3. QED
    BY <2>1, <2>2 DEF PermitAt
<1>3. QED
  BY <1>1, <1>2

-----------------------------------------------------------------------------
(* The theorems.                                                           *)

JInv ==
  /\ IInv /\ RInv
  /\ MutexInv /\ DataQuiet /\ ClientLocals
  /\ \A x \in Socket : QuietAt(x) /\ FreshAt(x) /\ OrderAt(x) /\ PermitAt(x)

LEMMA InitInjection ==
  ASSUME Init
  PROVE  JInv
<1>0. /\ \A x \in Socket, d \in Direction : <<x, d>> \in Thread /\ <<x, d>> # InjectionThread
      /\ ClientThread \subseteq Thread /\ InjectionThread \notin ClientThread
  BY ThreadFacts DEF Direction, DataThread
<1>1. \A x \in Socket : /\ Entries(x) = {} /\ packetsToInject[x] = {} /\ pendingQueue[x] = {}
                        /\ notified[x] = {}
  BY DEF Init, Entries
<1>2. \A x \in Socket, d \in Direction : pc[<<x, d>>] = "idle"
  BY <1>0 DEF Init
<1>3. \A t \in Thread : pc[t] # "inject" /\ pc[t] # "setProperty"
  BY DEF Init
<1>4. \A c \in ClientThread : response[c] = None
  BY DEF Init
<1>5. MutexInv
  BY <1>1, <1>3 DEF MutexInv
<1>6. DataQuiet
  BY <1>2 DEF DataQuiet
<1>7. ClientLocals
  BY <1>0, <1>3 DEF ClientLocals
<1>8. ASSUME NEW x \in Socket
      PROVE  QuietAt(x) /\ FreshAt(x) /\ OrderAt(x) /\ PermitAt(x)
  <2>1. QuietAt(x)
    BY <1>1 DEF QuietAt
  <2>2. FreshAt(x)
    BY <1>1, <1>2, <1>4 DEF FreshAt, Told
  <2>3. OrderAt(x)
    BY <1>1 DEF OrderAt
  <2>4. PermitAt(x)
    BY <1>1 DEF PermitAt
  <2>5. QED
    BY <2>1, <2>2, <2>3, <2>4
<1>9. IInv /\ RInv
  BY InitInvariant, InitReports
<1>10. QED
  BY <1>5, <1>6, <1>7, <1>8, <1>9 DEF JInv

LEMMA StepInjection ==
  ASSUME JInv, [Next]_vars
  PROVE  JInv'
<1>0. /\ IInv /\ RInv /\ MutexInv /\ DataQuiet /\ ClientLocals /\ EventLocals
      /\ \A x \in Socket : QuietAt(x) /\ FreshAt(x) /\ OrderAt(x) /\ PermitAt(x)
  BY DEF JInv, RInv
<1>1. IInv' /\ RInv'
  BY <1>0, StepInvariant, StepReports
<1>2. MutexInv' /\ DataQuiet' /\ ClientLocals'
  BY <1>0, MutexStep, DataQuietStep, ClientLocalsStep
<1>3. ASSUME NEW x \in Socket
      PROVE  QuietAt(x)' /\ FreshAt(x)' /\ OrderAt(x)' /\ PermitAt(x)'
  BY <1>0, QuietStays, FreshStep, OrderStep, PermitStep
<1>4. QED
  BY <1>1, <1>2, <1>3 DEF JInv

(* The invariant behind the three theorems below.                           *)
THEOREM InjectionInvariance == Spec => []JInv
<1>1. Init => JInv
  BY InitInjection
<1>2. JInv /\ [Next]_vars => JInv'
  BY StepInjection
<1>3. QED
  BY <1>1, <1>2, PTL DEF Spec

(* Once FltDetach has purged the queue nothing of the socket is queued or   *)
(* injected, whichever thread had looked the socket up before.              *)
THEOREM DetachIsQuiet == Spec => []QuietAfterDetach
<1>1. JInv => QuietAfterDetach
  BY DEF JInv, QuietAfterDetach, QuietAt, MutexInv
<1>2. QED
  BY <1>1, InjectionInvariance, PTL

(* The data of one direction is given back in the order FltData was called, *)
(* by whichever of the threads in reinjectDeferredData.                     *)
THEOREM InjectedInOrder == Spec => InjectionInOrder
<1>1. ASSUME JInv, [Next]_vars, NEW s \in Socket, NEW p \in Given(s),
             NEW q \in pendingQueue[s] \cup packetsToInject[s], q.dir = p.dir
      PROVE  p.dataIndex <= q.dataIndex
  <2>0. /\ IInv /\ OrderAt(s) /\ q \in Entries(s)
        /\ \A e \in Entries(s) : e.dataIndex \in Nat /\ e.place \in Nat
    BY <1>1 DEF JInv, IInv, TypeOK, QueueTypes, PendingPktQueueItem, Entries
  <2>1. p \in packetsToInject[s] /\ \A e \in packetsToInject[s] : p.place <= e.place
    BY <1>1, <2>0, GivenIsFirst
  <2>2. p \in Entries(s)
    BY <2>1 DEF Entries
  <2>3. p.place <= q.place
    BY <1>1, <2>0, <2>1, <2>2 DEF OrderAt
  <2>4. CASE p.place = q.place
    BY <2>0, <2>2, <2>4 DEF IInv, QueueWellFormed
  <2>5. CASE p.place < q.place
    BY <1>1, <2>0, <2>2, <2>5 DEF OrderAt
  <2>6. QED
    BY <2>0, <2>2, <2>3, <2>4, <2>5
<1>2. JInv /\ [Next]_vars =>
        [\A s \in Socket : \A p \in Given(s) : \A q \in pendingQueue[s] \cup packetsToInject[s] :
           q.dir = p.dir => p.dataIndex <= q.dataIndex]_packetsToInject
  BY <1>1
<1>3. QED
  BY <1>2, InjectionInvariance, PTL DEF Spec, InjectionInOrder

(* Only data the client has allowed is given back to the socket.            *)
THEOREM InjectedWhenAllowed == Spec => InjectedWithPermission
<1>1. ASSUME JInv, [Next]_vars, NEW s \in Socket, NEW p \in Given(s)
      PROVE  p.dataIndex \in granted[s]
  <2>1. p \in packetsToInject[s] /\ p.allowData
    BY <1>1, GivenIsFirst DEF JInv
  <2>2. QED
    BY <1>1, <2>1 DEF JInv, PermitAt, Entries
<1>2. JInv /\ [Next]_vars =>
        [\A s \in Socket : \A p \in Given(s) : p.dataIndex \in granted[s]]_packetsToInject
  BY <1>1
<1>3. QED
  BY <1>2, InjectionInvariance, PTL DEF Spec, InjectedWithPermission


-----------------------------------------------------------------------------
(***************************************************************************)
(* The theorem about the order in which the client is told of the packets  *)
(* of a socket: reports come from FltData, right after it has queued a     *)
(* packet, and from every thread in DeliverWaitingNotifications.           *)
(***************************************************************************)

(* The client knows nothing of a packet that waits to be reported; and the  *)
(* packet FltData is about to report was the last of its direction to be    *)
(* queued.                                                                  *)
UntoldAt(x) ==
  /\ \A p \in pendingQueue[x] :
       p.needToBeReported => p.dataIndex \notin notified[x] /\ ~p.responseReceived
  /\ \A d \in Direction : \A q \in pendingQueue[x] : pc[<<x, d>>] = "notify" =>
       /\ q.dir = d => q.dataIndex <= call[<<x, d>>]
       /\ q.dataIndex = call[<<x, d>>] => q.dir = d /\ ~q.needToBeReported

USE DEF queueVars, reportVars, allocVars, injectVars, listVars, eventVars, deliverVars,
        localVars, clientVars, ThreadState

-----------------------------------------------------------------------------
(* FltData has either postponed the report or goes on to make it. *)
LEMMA EnqueuedUnreported ==
  ASSUME IInv, NEW x \in Socket, NEW d \in Direction, Enqueue(x, d),
         NEW e \in pendingQueue'[x], e \notin pendingQueue[x]
  PROVE  /\ e.dir = d /\ e.dataIndex = call[<<x, d>>] /\ ~e.responseReceived
         /\ e.needToBeReported => pc'[<<x, d>>] # "notify"
<1>0. /\ pendingQueue \in [Socket -> SUBSET PendingPktQueueItem]
      /\ pc \in [Thread -> ThreadState]
  BY DEF IInv, TypeOK, QueueTypes, ThreadTypes
<1>1. PICK copied \in BOOLEAN :
        /\ pendingQueue' = [pendingQueue EXCEPT ![x] =
             @ \cup {NewEntry(x, d, MustPostpone(x, copied))}]
        /\ pc' = [pc EXCEPT ![<<x, d>>] =
             IF MustPostpone(x, copied) THEN "deliver" ELSE "notify"]
  BY DEF Enqueue
<1>2. e = NewEntry(x, d, MustPostpone(x, copied))
  BY <1>0, <1>1
<1>3. e.needToBeReported = MustPostpone(x, copied)
  BY <1>2 DEF NewEntry
<1>4. MustPostpone(x, copied) => pc'[<<x, d>>] = "deliver"
  BY <1>0, <1>1, ThreadFacts
<1>5. QED
  BY <1>2, <1>3, <1>4 DEF NewEntry

(* Who tells the client of a packet: FltData, or a run of the loop of       *)
(* DeliverWaitingNotifications, which marks the packet as reported.         *)
Reported(x, i) ==
  \/ i \in notified[x]
  \/ \E d \in Direction :
       pc[<<x, d>>] = "notify" /\ i = call[<<x, d>>] /\ pendingQueue' = pendingQueue
  \/ \E r \in Unreported(x) :
       /\ r.dataIndex = i
       /\ \A q \in pendingQueue'[x] : q.place = r.place => ~q.needToBeReported

LEMMA NotifiedFrom ==
  ASSUME IInv, [Next]_vars, NEW x \in Socket, NEW i \in notified'[x]
  PROVE  Reported(x, i)
<1>0. /\ TypeOK /\ LocalsSet
      /\ pendingQueue \in [Socket -> SUBSET PendingPktQueueItem]
      /\ notified \in [Socket -> SUBSET Nat] /\ hand \in [Thread -> Socket \cup {None}]
  BY DEF IInv, TypeOK, ThreadTypes, ClientTypes, QueueTypes
<1>1. CASE notified' = notified
  BY <1>1 DEF Reported
<1>2. ASSUME NEW s \in Socket, NEW d \in Direction, Notify(s, d)
      PROVE  Reported(x, i)
  <2>1. /\ notified' = [notified EXCEPT ![s] = @ \cup {call[<<s, d>>]}] \/ notified' = notified
        /\ pendingQueue' = pendingQueue /\ pc[<<s, d>>] = "notify"
    BY <1>2 DEF Notify
  <2>2. notified'[x] = notified[x] \/ (x = s /\ notified'[x] = notified[x] \cup {call[<<s, d>>]})
    BY <1>0, <2>1
  <2>3. QED
    BY <2>1, <2>2 DEF Reported
<1>3. ASSUME NEW t \in Thread, DeliverScan(t)
      PROVE  Reported(x, i)
  <2>0. hand[t] \in Socket
    BY <1>0, <1>3 DEF LocalsSet, DeliverScan
  <2>p. PICK gone \in SUBSET Unreported(hand[t]) :
          \E sent \in SUBSET gone : ScanOutcome(hand[t], gone, sent) /\ Scan(t, gone, sent)
    BY <1>3 DEF DeliverScan
  <2>1. PICK sent \in SUBSET gone : Scan(t, gone, sent)
    BY <2>p
  <2>2. /\ notified' = [notified EXCEPT ![hand[t]] = @ \cup {p.dataIndex : p \in sent}]
        /\ pendingQueue' = [pendingQueue EXCEPT ![hand[t]] =
             (@ \ gone) \cup {AsReported(p, sent) : p \in gone}]
    BY <2>1 DEF Scan
  <2>3. \/ notified'[x] = notified[x]
        \/ x = hand[t] /\ notified'[x] = notified[x] \cup {p.dataIndex : p \in sent}
    BY <1>0, <2>0, <2>2
  <2>4. ASSUME x = hand[t], NEW r \in sent, r.dataIndex = i
        PROVE  Reported(x, i)
    <3>1. r \in Unreported(x) /\ r \in gone
      BY <2>4
    <3>2. ASSUME NEW q \in pendingQueue'[x], q.place = r.place
          PROVE  ~q.needToBeReported
      <4>1. q \in (pendingQueue[x] \ gone) \cup {AsReported(p, sent) : p \in gone}
        BY <1>0, <2>2, <2>4, <3>2
      <4>2. CASE q \in pendingQueue[x] \ gone
        BY <3>1, <3>2, <4>2 DEF IInv, QueueWellFormed, Entries, Unreported
      <4>3. ASSUME NEW p \in gone, q = AsReported(p, sent)
            PROVE  ~q.needToBeReported
        <5>1. p \in PendingPktQueueItem
          BY <1>0, <2>0 DEF Unreported
        <5>2. QED
          BY <4>3, <5>1 DEF AsReported, PendingPktQueueItem
      <4>4. QED
        BY <4>1, <4>2, <4>3
    <3>3. QED
      BY <2>4, <3>1, <3>2 DEF Reported
  <2>5. CASE i \in notified[x]
    BY <2>5 DEF Reported
  <2>6. QED
    BY <2>3, <2>4, <2>5
<1>4. ASSUME NEW c \in ClientThread, Respond(c)
      PROVE  Reported(x, i)
  <2>1. PICK s \in Socket : \E j \in notified[s] : notified' = [notified EXCEPT ![s] = @ \ {j}]
    BY <1>4 DEF Respond
  <2>2. notified'[x] \subseteq notified[x]
    BY <1>0, <2>1
  <2>3. QED
    BY <2>2 DEF Reported
<1>5. CASE ClientStop
  BY <1>5 DEF ClientStop
<1>6. \/ notified' = notified
      \/ \E s \in Socket, d \in Direction : Notify(s, d)
      \/ \E t \in Thread : DeliverScan(t)
      \/ \E c \in ClientThread : Respond(c)
      \/ ClientStop
  <2>1. ASSUME NEW t \in Thread,
               \/ DataMove(t) \/ WakeMove(t) \/ EventMove(t) \/ DeliverMove(t)
               \/ InjectMove(t) \/ ClientMove(t) \/ RoundMove(t)
        PROVE  \/ notified' = notified
               \/ \E s \in Socket, d \in Direction : Notify(s, d)
               \/ DeliverScan(t)
               \/ \E c \in ClientThread : Respond(c)
    BY <2>1 DEF DataMove, FltData, Enqueue, WakeMove, WakeUp, EventMove, SocketEvent,
      Purge, Unlist, Unreport, Drain, EventDone, DeliverMove, DeliverPop,
      DeliverReinsert, InjectMove, Reinject, Inject, ClientMove, Lookup,
      SetDeferredDataProperties, RoundMove, CollectSockets, NextSocket
  <2>2. CASE NoMove
    BY <2>2 DEF NoMove, Expire, ClientStart, vars
  <2>3. QED
    BY <2>1, <2>2, StepKinds
<1>7. QED
  BY <1>1, <1>2, <1>3, <1>4, <1>5, <1>6

-----------------------------------------------------------------------------
LEMMA UntoldAfterEnqueue ==
  ASSUME IInv, NEW x \in Socket, FreshAt(x), UntoldAt(x), NEW d \in Direction, Enqueue(x, d)
  PROVE  UntoldAt(x)'
<1>0. /\ pendingQueue \in [Socket -> SUBSET PendingPktQueueItem]
      /\ notified \in [Socket -> SUBSET Nat]
      /\ call \in [DataThread -> Nat]
      /\ \A e \in Direction : <<x, e>> \in DataThread
  BY DEF IInv, TypeOK, QueueTypes, ClientTypes, ThreadTypes, DataThread
<1>1. /\ notified' = notified /\ call' = call /\ pc[<<x, d>>] = "enqueue"
      /\ \A e \in Direction : e # d => pc'[<<x, e>>] = pc[<<x, e>>]
  BY EnqueuedEntry
<1>2. \A q \in pendingQueue[x] : q.dataIndex \in Nat /\ q \in Entries(x)
  BY <1>0 DEF PendingPktQueueItem, Entries
<1>3. ASSUME NEW q \in pendingQueue'[x], q.needToBeReported
      PROVE  q.dataIndex \notin notified'[x] /\ ~q.responseReceived
  <2>1. CASE q \in pendingQueue[x]
    BY <1>1, <1>3, <2>1 DEF UntoldAt
  <2>2. CASE q \notin pendingQueue[x]
    <3>1. q.dataIndex = call[<<x, d>>] /\ ~q.responseReceived
      BY <2>2, EnqueuedUnreported
    <3>2. call[<<x, d>>] \notin notified[x]
      <4>1. ASSUME call[<<x, d>>] \in notified[x]
            PROVE  FALSE
        <5>1. Used(x, call[<<x, d>>])
          BY <1>0, <4>1 DEF FreshAt, Told
        <5>2. QED
          BY <1>1, <5>1 DEF Used
      <4>2. QED
        BY <4>1
    <3>3. QED
      BY <1>1, <3>1, <3>2
  <2>3. QED
    BY <2>1, <2>2
<1>4. ASSUME NEW e \in Direction, NEW q \in pendingQueue'[x], pc'[<<x, e>>] = "notify"
      PROVE  /\ q.dir = e => q.dataIndex <= call'[<<x, e>>]
             /\ q.dataIndex = call'[<<x, e>>] => q.dir = e /\ ~q.needToBeReported
  <2>1. CASE e = d
    <3>1. CASE q \in pendingQueue[x]
      <4>1. q.dir = d => q.dataIndex < call[<<x, d>>]
        BY <1>1, <1>2, <3>1 DEF FreshAt
      <4>2. q.dataIndex # call[<<x, d>>]
        BY <1>1, <1>2, <3>1 DEF FreshAt, Used
      <4>3. QED
        BY <1>0, <1>1, <1>2, <2>1, <3>1, <4>1, <4>2
    <3>2. CASE q \notin pendingQueue[x]
      <4>1. q.dir = d /\ q.dataIndex = call[<<x, d>>] /\ ~q.needToBeReported
        BY <1>4, <2>1, <3>2, EnqueuedUnreported
      <4>2. QED
        BY <1>0, <1>1, <2>1, <4>1
    <3>3. QED
      BY <3>1, <3>2
  <2>2. CASE e # d
    <3>0. pc[<<x, e>>] = "notify"
      BY <1>1, <1>4, <2>2
    <3>1. CASE q \in pendingQueue[x]
      BY <1>1, <3>0, <3>1 DEF UntoldAt
    <3>2. CASE q \notin pendingQueue[x]
      <4>1. q.dir = d /\ q.dataIndex = call[<<x, d>>]
        BY <3>2, EnqueuedUnreported
      <4>2. call[<<x, e>>] # call[<<x, d>>]
        BY <1>1, <3>0 DEF FreshAt, Used
      <4>3. QED
        BY <1>1, <2>2, <4>1, <4>2
    <3>3. QED
      BY <3>1, <3>2
  <2>3. QED
    BY <2>1, <2>2
<1>5. QED
  BY <1>3, <1>4 DEF UntoldAt

LEMMA UntoldStep ==
  ASSUME IInv, [Next]_vars, NEW x \in Socket, FreshAt(x), OrderAt(x), UntoldAt(x)
  PROVE  UntoldAt(x)'
<1>1. CASE \E d \in Direction : Enqueue(x, d)
  BY <1>1, UntoldAfterEnqueue
<1>2. ASSUME ~ \E d \in Direction : Enqueue(x, d)
      PROVE  UntoldAt(x)'
  <2>1. \A q \in pendingQueue'[x] : \E p \in pendingQueue[x] : Became(x, p, q)
    BY <1>2, QueueFromOld
  <2>2. ASSUME NEW q \in pendingQueue'[x], q.needToBeReported
        PROVE  q.dataIndex \notin notified'[x] /\ ~q.responseReceived
    <3>1. PICK p \in pendingQueue[x] : Became(x, p, q)
      BY <2>1
    <3>2. /\ q.dataIndex = p.dataIndex /\ q.place = p.place
          /\ p.needToBeReported /\ (q.responseReceived <=> p.responseReceived)
      BY <2>2, <3>1 DEF Became, SameData
    <3>3. p.dataIndex \notin notified[x] /\ ~p.responseReceived
      BY <3>2 DEF UntoldAt
    <3>4. ASSUME p.dataIndex \in notified'[x]
          PROVE  FALSE
      <4>1. Reported(x, p.dataIndex)
        BY <3>4, NotifiedFrom
      <4>2. ASSUME NEW d \in Direction, pc[<<x, d>>] = "notify", p.dataIndex = call[<<x, d>>]
            PROVE  FALSE
        BY <3>2, <4>2 DEF UntoldAt
      <4>3. ASSUME NEW r \in Unreported(x), r.dataIndex = p.dataIndex,
                   \A e \in pendingQueue'[x] : e.place = r.place => ~e.needToBeReported
            PROVE  FALSE
        <5>1. r = p
          BY <4>3, OneIndex DEF Entries, Unreported
        <5>2. QED
          BY <2>2, <3>2, <4>3, <5>1
      <4>4. QED
        BY <3>3, <4>1, <4>2, <4>3 DEF Reported
    <3>5. QED
      BY <3>2, <3>3, <3>4
  <2>3. ASSUME NEW d \in Direction, NEW q \in pendingQueue'[x], pc'[<<x, d>>] = "notify"
        PROVE  /\ q.dir = d => q.dataIndex <= call'[<<x, d>>]
               /\ q.dataIndex = call'[<<x, d>>] => q.dir = d /\ ~q.needToBeReported
    <3>0. ~FltData(x, d)
      <4>1. pc \in [Thread -> ThreadState] /\ <<x, d>> \in Thread
        BY ThreadFacts DEF IInv, TypeOK, ThreadTypes
      <4>2. QED
        BY <2>3, <4>1 DEF FltData
    <3>1. pc[<<x, d>>] = "notify" /\ call'[<<x, d>>] = call[<<x, d>>]
      BY <1>2, <2>3, <3>0, DataThreadMoves
    <3>2. PICK p \in pendingQueue[x] : Became(x, p, q)
      BY <2>1
    <3>3. /\ q.dataIndex = p.dataIndex /\ q.dir = p.dir
          /\ q.needToBeReported => p.needToBeReported
      BY <3>2 DEF Became, SameData
    <3>4. QED
      BY <3>1, <3>3 DEF UntoldAt
  <2>4. QED
    BY <2>2, <2>3 DEF UntoldAt
<1>3. QED
  BY <1>1, <1>2

-----------------------------------------------------------------------------
(* The theorem.                                                            *)

NInv == JInv /\ \A x \in Socket : UntoldAt(x)

(* The fourth layer: what the client has not heard of, and in which order.  *)
THEOREM NotifiedInvariance == Spec => []NInv
<1>1. Init => NInv
  <2>1. ASSUME Init
        PROVE  NInv
    <3>1. \A x \in Socket : UntoldAt(x)
      BY <2>1 DEF Init, UntoldAt
    <3>2. QED
      BY <2>1, <3>1, InitInjection DEF NInv
  <2>2. QED
    BY <2>1
<1>2. NInv /\ [Next]_vars => NInv'
  <2>1. ASSUME NInv, [Next]_vars
        PROVE  NInv'
    <3>1. JInv /\ JInv'
      BY <2>1, StepInjection DEF NInv
    <3>2. ASSUME NEW x \in Socket
          PROVE  UntoldAt(x)'
      BY <2>1, <3>1, UntoldStep DEF NInv, JInv
    <3>3. QED
      BY <3>1, <3>2 DEF NInv
  <2>2. QED
    BY <2>1
<1>3. QED
  BY <1>1, <1>2, PTL DEF Spec

(* The client is told of the packets of one direction in their order,       *)
(* whichever thread tells it.                                               *)
THEOREM NotifiedInOrder == Spec => ReportedInOrder
<1>1. ASSUME NInv, [Next]_vars, NEW s \in Socket,
             NEW p \in pendingQueue'[s], NEW q \in pendingQueue'[s],
             p.dataIndex \in notified'[s] \ notified[s],
             q.dir = p.dir, q.dataIndex > p.dataIndex
      PROVE  q.dataIndex \notin notified[s] /\ ~q.responseReceived
  <2>0. /\ IInv /\ OrderAt(s) /\ FreshAt(s) /\ UntoldAt(s) /\ TypeOK
        /\ pendingQueue \in [Socket -> SUBSET PendingPktQueueItem]
        /\ \A e \in pendingQueue[s] : e.dataIndex \in Nat /\ e.place \in Nat /\ e \in Entries(s)
    BY <1>1 DEF NInv, JInv, IInv, TypeOK, QueueTypes, PendingPktQueueItem, Entries
  <2>1. Reported(s, p.dataIndex)
    BY <1>1, <2>0, NotifiedFrom
  <2>2. ASSUME NEW d \in Direction, pc[<<s, d>>] = "notify", p.dataIndex = call[<<s, d>>],
               pendingQueue' = pendingQueue
        PROVE  FALSE
    <3>1. p \in pendingQueue[s] /\ q \in pendingQueue[s]
      BY <2>2
    <3>2. p.dir = d
      BY <2>0, <2>2, <3>1 DEF UntoldAt
    <3>3. q.dataIndex <= p.dataIndex
      BY <1>1, <2>0, <2>2, <3>1, <3>2 DEF UntoldAt
    <3>4. QED
      BY <1>1, <2>0, <3>1, <3>3
  <2>3. ASSUME NEW r \in Unreported(s), r.dataIndex = p.dataIndex,
               ~ \E d \in Direction : Enqueue(s, d)
        PROVE  q.dataIndex \notin notified[s] /\ ~q.responseReceived
    <3>1. PICK a \in pendingQueue[s] : Became(s, a, p)
      BY <1>1, <2>0, <2>3, QueueFromOld
    <3>2. PICK b \in pendingQueue[s] : Became(s, b, q)
      BY <1>1, <2>0, <2>3, QueueFromOld
    <3>3. /\ a.dataIndex = p.dataIndex /\ b.dataIndex = q.dataIndex /\ a.dir = b.dir
          /\ b.needToBeReported => (q.responseReceived <=> b.responseReceived)
      BY <1>1, <3>1, <3>2 DEF Became, SameData
    <3>4. r = a /\ r \in pendingQueue[s] /\ r.needToBeReported
      BY <2>0, <2>3, <3>1, <3>3, OneIndex DEF Unreported
    <3>5. a.place < b.place
      <4>1. ~(b.place < a.place)
        BY <1>1, <2>0, <3>1, <3>2, <3>3 DEF OrderAt
      <4>2. a.place # b.place
        BY <1>1, <2>0, <3>1, <3>2, <3>3 DEF IInv, QueueWellFormed
      <4>3. QED
        BY <2>0, <3>1, <3>2, <4>1, <4>2
    <3>6. b.needToBeReported
      BY <2>0, <3>2, <3>4, <3>5 DEF IInv, UnreportedAtTail
    <3>7. QED
      BY <2>0, <3>2, <3>3, <3>6 DEF UntoldAt
  <2>4. ASSUME NEW d \in Direction, Enqueue(s, d)
        PROVE  notified' = notified
    BY <2>0, <2>4, EnqueuedEntry
  <2>5. QED
    BY <1>1, <2>1, <2>2, <2>3, <2>4 DEF Reported
<1>2. NInv /\ [Next]_vars =>
        [\A s \in Socket : \A p, q \in pendingQueue'[s] :
           /\ p.dataIndex \in notified'[s] \ notified[s]
           /\ q.dir = p.dir /\ q.dataIndex > p.dataIndex
           => q.dataIndex \notin notified[s] /\ ~q.responseReceived]_notified
  BY <1>1
<1>3. QED
  BY <1>2, NotifiedInvariance, PTL DEF Spec, ReportedInOrder

=============================================================================
