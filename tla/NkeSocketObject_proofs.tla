----------------------- MODULE NkeSocketObject_proofs -----------------------
(***************************************************************************)
(* Theorems about NkeSocketObject, for any sockets, clients and events:    *)
(* the counters are the numbers of packets they stand for and never become *)
(* negative, and the unreported packets are at the tail of the queue.      *)
(***************************************************************************)
EXTENDS NkeSocketObject, FiniteSetTheorems, SequenceTheorems, TLAPS

(* The local variables a thread uses in its present section are set. *)
LocalsSet ==
  /\ \A t \in Thread :
       pc[t] \in {"scan", "reinsert", "setProperty", "reinject", "inject"} => hand[t] \in Socket
  /\ \A c \in ClientThread :
       pc[c] \in {"deliver", "scan", "reinsert", "lookup", "setProperty"} =>
         response[c] \in [socket: Socket, dataIndex: Nat, allow: BOOLEAN]
  /\ \A s \in Socket : pc[<<s, "event">>] # "idle" => event[s] \in SocketEvents

Entries(s) == pendingQueue[s] \cup packetsToInject[s]

(* No two entries share a place, those being injected included.            *)
QueueWellFormed ==
  \A s \in Socket :
    /\ IsFiniteSet(pendingQueue[s]) /\ IsFiniteSet(packetsToInject[s])
    /\ \A p \in Entries(s) : p.place < nextPlace[s]
    /\ \A p, q \in Entries(s) : p.place = q.place => p = q
    /\ \A p \in pendingQueue[s] : p \notin packetsToInject[s]

(* The inductive invariant. *)
IInv ==
  /\ TypeOK
  /\ LocalsSet
  /\ QueueWellFormed
  /\ ReportingCountExact
  /\ PendingCountersExact
  /\ UnreportedAtTail

-----------------------------------------------------------------------------
(* Sets and sequences.                                                     *)

(* The list without a socket is a list of sockets. *)
LEMMA WithoutType ==
  ASSUME NEW S, NEW list \in Seq(S), NEW s
  PROVE  Without(list, s) \in Seq(S)
<1>1. CASE \E i \in DOMAIN list : list[i] = s
  <2> DEFINE k == CHOOSE i \in DOMAIN list : list[i] = s
             shorter == [i \in 1 .. Len(list) - 1 |-> IF i < k THEN list[i] ELSE list[i + 1]]
  <2>1. Len(list) - 1 \in Nat
    BY <1>1
  <2>2. k \in 1 .. Len(list)
    BY <1>1
  <2>3. \A i \in 1 .. Len(list) - 1 : shorter[i] \in S
    BY <2>2
  <2>4. shorter \in Seq(S)
    BY <2>1, <2>3
  <2>5. QED
    BY <1>1, <2>4 DEF Without
<1>2. CASE ~ \E i \in DOMAIN list : list[i] = s
  BY <1>2 DEF Without
<1>3. QED
  BY <1>1, <1>2

(* Two sets of entries with the same places have the same number of them. *)
LEMMA SamePlaces ==
  ASSUME NEW S, NEW T, IsFiniteSet(S),
         \A p, q \in S : p.place = q.place => p = q,
         \A p, q \in T : p.place = q.place => p = q,
         \A p \in S : \E q \in T : q.place = p.place,
         \A q \in T : \E p \in S : p.place = q.place
  PROVE  IsFiniteSet(T) /\ Cardinality(T) = Cardinality(S)
<1> DEFINE f == [p \in S |-> CHOOSE q \in T : q.place = p.place]
<1>1. \A p \in S : f[p] \in T /\ f[p].place = p.place
  OBVIOUS
<1>2. f \in Injection(S, T)
  BY <1>1 DEF Injection, IsInjective
<1>3. f \in Surjection(S, T)
  BY <1>1 DEF Surjection
<1>4. ExistsBijection(S, T)
  BY <1>2, <1>3 DEF ExistsBijection, Bijection
<1>5. QED
  BY <1>4, FS_Bijection

-----------------------------------------------------------------------------
(* Types.                                                                  *)

LEMMA ThreadFacts ==
  /\ \A s \in Socket, d \in Direction : <<s, d>> \in Thread /\ <<s, d>> \in DataThread
  /\ \A s \in Socket : <<s, "event">> \in Thread
  /\ ClientThread \subseteq Thread
  /\ InjectionThread \in Thread
  /\ \A s \in Socket : <<s, "event">> \notin DataThread /\ <<s, "event">> \notin ClientThread
  /\ \A t \in DataThread : t \notin ClientThread /\ t # InjectionThread
  /\ InjectionThread \notin ClientThread
  /\ \A s \in Socket : <<s, "event">> # InjectionThread
BY ThreadAssumption DEF Thread, DataThread, EventThread, Direction

USE DEF queueVars, reportVars, allocVars, injectVars, listVars, eventVars, deliverVars,
        localVars, clientVars, ThreadState

LEMMA FltDataType ==
  ASSUME TypeOK, NEW s \in Socket, NEW d \in Direction, FltData(s, d)
  PROVE  TypeOK'
<1> USE ThreadFacts DEF TypeOK, FltData
<1>1. QueueTypes'
  BY DEF QueueTypes
<1>2. SocketTypes'
  BY DEF SocketTypes
<1>3. ThreadTypes'
  BY DEF ThreadTypes, QueueTypes
<1>4. ClientTypes'
  BY DEF ClientTypes
<1>5. QED
  BY <1>1, <1>2, <1>3, <1>4

LEMMA EnqueueType ==
  ASSUME TypeOK, NEW s \in Socket, NEW d \in Direction, Enqueue(s, d)
  PROVE  TypeOK'
<1> USE ThreadFacts DEF TypeOK, Enqueue
<1>1. QueueTypes'
  <2>1. PICK copied \in BOOLEAN :
          /\ pendingQueue' = [pendingQueue EXCEPT ![s] =
               @ \cup {NewEntry(s, d, MustPostpone(s, copied))}]
          /\ packetsWaitingForReporting' = [packetsWaitingForReporting EXCEPT ![s] =
               IF MustPostpone(s, copied) THEN @ + 1 ELSE @]
    OBVIOUS
  <2>2. MustPostpone(s, copied) \in BOOLEAN
    BY DEF MustPostpone
  <2>3. NewEntry(s, d, MustPostpone(s, copied)) \in PendingPktQueueItem
    BY <2>2 DEF NewEntry, PendingPktQueueItem, QueueTypes, ThreadTypes
  <2>4. QED
    BY <2>1, <2>3 DEF QueueTypes
<1>2. SocketTypes'
  <2>1. SocketsListToReport' \in Seq(Socket)
    BY AppendProperties DEF SocketTypes
  <2>2. QED
    BY <2>1 DEF SocketTypes
<1>3. ThreadTypes'
  BY DEF ThreadTypes
<1>4. ClientTypes'
  BY DEF ClientTypes
<1>5. QED
  BY <1>1, <1>2, <1>3, <1>4

LEMMA NotifyType ==
  ASSUME TypeOK, NEW s \in Socket, NEW d \in Direction, Notify(s, d)
  PROVE  TypeOK'
<1> USE ThreadFacts DEF TypeOK, Notify
<1>1. QueueTypes' /\ SocketTypes'
  BY DEF QueueTypes, SocketTypes
<1>2. ThreadTypes'
  BY DEF ThreadTypes
<1>3. ClientTypes'
  BY DEF ClientTypes, ThreadTypes
<1>4. QED
  BY <1>1, <1>2, <1>3

LEMMA WakeUpType ==
  ASSUME TypeOK, NEW s \in Socket, WakeUp(s)
  PROVE  TypeOK'
<1> USE ThreadFacts DEF TypeOK, WakeUp
<1>1. QueueTypes' /\ SocketTypes'
  BY DEF QueueTypes, SocketTypes
<1>2. ThreadTypes' /\ ClientTypes'
  BY DEF ThreadTypes, ClientTypes, Direction
<1>3. QED
  BY <1>1, <1>2

LEMMA ExpireType ==
  ASSUME TypeOK, NEW s \in Socket, Expire(s)
  PROVE  TypeOK'
<1> USE ThreadFacts DEF TypeOK, Expire
<1>1. QueueTypes'
  <2>1. PICK p \in pendingQueue[s] : pendingQueue' =
          [pendingQueue EXCEPT ![s] = (@ \ {p}) \cup {[p EXCEPT !.expired = TRUE]}]
    OBVIOUS
  <2>2. p \in PendingPktQueueItem
    BY DEF QueueTypes
  <2>3. [p EXCEPT !.expired = TRUE] \in PendingPktQueueItem
    BY <2>2 DEF PendingPktQueueItem
  <2>4. QED
    BY <2>1, <2>3 DEF QueueTypes
<1>2. SocketTypes' /\ ThreadTypes' /\ ClientTypes'
  BY DEF SocketTypes, ThreadTypes, ClientTypes
<1>3. QED
  BY <1>1, <1>2

LEMMA AfterDeliveryType ==
  ASSUME NEW t \in Thread
  PROVE  AfterDelivery(t) \in ThreadState
BY DEF AfterDelivery

LEMMA DeliverPopType ==
  ASSUME TypeOK, NEW t \in Thread, DeliverPop(t)
  PROVE  TypeOK'
<1>1. QueueTypes' /\ ClientTypes'
  BY DEF TypeOK, DeliverPop, QueueTypes, ClientTypes
<1>2. CASE SocketsListToReport = <<>>
  <2>1. SocketTypes'
    BY <1>2 DEF TypeOK, DeliverPop, SocketTypes
  <2>2. ThreadTypes'
    BY <1>2, AfterDeliveryType DEF TypeOK, DeliverPop, ThreadTypes
  <2>3. QED
    BY <1>1, <2>1, <2>2 DEF TypeOK
<1>3. CASE SocketsListToReport # <<>>
  <2>1. Head(SocketsListToReport) \in Socket /\ Tail(SocketsListToReport) \in Seq(Socket)
    BY <1>3, HeadTailProperties DEF TypeOK, SocketTypes
  <2>2. SocketTypes'
    BY <1>3, <2>1 DEF TypeOK, DeliverPop, SocketTypes
  <2>3. ThreadTypes'
    BY <1>3, <2>1 DEF TypeOK, DeliverPop, ThreadTypes
  <2>4. QED
    BY <1>1, <2>2, <2>3 DEF TypeOK
<1>4. QED
  BY <1>2, <1>3

(* The entries a run of the loop leaves behind are entries of the queue,    *)
(* with some of their fields changed.                                       *)
LEMMA AsReportedType ==
  ASSUME NEW p \in PendingPktQueueItem, NEW sent
  PROVE  /\ AsReported(p, sent) \in PendingPktQueueItem
         /\ AsReported(p, sent).place = p.place
         /\ AsReported(p, sent).dir = p.dir
         /\ AsReported(p, sent).needToBeReported = FALSE
<1>1. (p.allowData /\ p \in sent) \in BOOLEAN
  OBVIOUS
<1>2. QED
  BY <1>1 DEF AsReported, PendingPktQueueItem

LEMMA DeliverScanType ==
  ASSUME IInv, NEW t \in Thread, DeliverScan(t)
  PROVE  TypeOK'
<1> DEFINE s == hand[t]
<1>0. s \in Socket /\ TypeOK
  BY DEF IInv, LocalsSet, DeliverScan
<1>p. PICK processed \in SUBSET Unreported(s) :
        \E sent \in SUBSET processed : Scan(t, processed, sent)
  BY DEF DeliverScan
<1>1. PICK sent \in SUBSET processed : Scan(t, processed, sent)
  BY <1>p
<1>2. processed \subseteq PendingPktQueueItem
  BY <1>0 DEF Unreported, TypeOK, QueueTypes
<1>3. packetsWaitingForReporting[s] - Cardinality(processed) \in Nat
  <2>1. IsFiniteSet(Unreported(s))
    BY <1>0, FS_Subset DEF IInv, QueueWellFormed, Unreported
  <2>2. IsFiniteSet(processed) /\ Cardinality(processed) <= Cardinality(Unreported(s))
    BY <2>1, FS_Subset
  <2>3. QED
    BY <1>0, <2>1, <2>2, FS_CardinalityType DEF IInv, ReportingCountExact
<1>4. pendingQueue' \in [Socket -> SUBSET PendingPktQueueItem]
  <2>1. {AsReported(p, sent) : p \in processed} \subseteq PendingPktQueueItem
    BY <1>2, AsReportedType
  <2>2. QED
    BY <1>0, <1>1, <2>1 DEF TypeOK, QueueTypes, Scan
<1>5. QueueTypes'
  BY <1>0, <1>1, <1>3, <1>4 DEF TypeOK, QueueTypes, DeliverScan, Scan
<1>6. SocketTypes'
  BY <1>0, <1>1 DEF TypeOK, SocketTypes, DeliverScan, Scan
<1>7. ThreadTypes'
  <2>1. LastFailed(s, processed, sent) \in BOOLEAN
    BY DEF LastFailed
  <2>2. (processed # Unreported(s)) \in BOOLEAN
    OBVIOUS
  <2>3. reinsertInList' \in [Thread -> BOOLEAN] /\ failed' \in [Thread -> BOOLEAN]
    BY <1>0, <1>1, <2>1, <2>2 DEF TypeOK, ThreadTypes, Scan
  <2>4. pc' \in [Thread -> ThreadState]
    BY <1>0 DEF TypeOK, ThreadTypes, DeliverScan
  <2>5. QED
    BY <1>0, <2>3, <2>4 DEF TypeOK, ThreadTypes, DeliverScan
<1>8. ClientTypes'
  <2>1. {p.dataIndex : p \in sent} \subseteq Nat
    BY <1>2 DEF PendingPktQueueItem
  <2>2. QED
    BY <1>0, <1>1, <2>1 DEF TypeOK, ClientTypes, DeliverScan, Scan
<1>9. QED
  BY <1>5, <1>6, <1>7, <1>8 DEF TypeOK

LEMMA DeliverReinsertType ==
  ASSUME IInv, NEW t \in Thread, DeliverReinsert(t)
  PROVE  TypeOK'
<1> USE AfterDeliveryType DEF IInv, TypeOK, DeliverReinsert
<1>0. hand[t] \in Socket
  BY DEF LocalsSet
<1>1. QueueTypes' /\ ClientTypes'
  BY DEF QueueTypes, ClientTypes
<1>2. SocketsListToReport' \in Seq(Socket)
  BY <1>0, AppendProperties DEF SocketTypes
<1>3. SocketTypes'
  BY <1>2 DEF SocketTypes
<1>4. ThreadTypes'
  BY DEF ThreadTypes
<1>5. QED
  BY <1>1, <1>3, <1>4

(* The entries of one direction are finitely many. *)
LEMMA OutstandingFinite ==
  ASSUME QueueWellFormed, NEW s \in Socket, NEW d \in Direction
  PROVE  /\ IsFiniteSet({p \in Entries(s) : p.dir = d})
         /\ Outstanding(s, d) = Cardinality({p \in Entries(s) : p.dir = d})
         /\ Outstanding(s, d) \in Nat
<1>1. IsFiniteSet(Entries(s))
  BY FS_Union DEF QueueWellFormed, Entries
<1>2. IsFiniteSet({p \in Entries(s) : p.dir = d})
  BY <1>1, FS_Subset
<1>3. Outstanding(s, d) = Cardinality({p \in Entries(s) : p.dir = d})
  BY DEF Outstanding, Entries
<1>4. QED
  BY <1>2, <1>3, FS_CardinalityType

(* A counter is at least the number of the entries it counts.              *)
LEMMA OutstandingCounted ==
  ASSUME IInv, NEW s \in Socket, NEW d \in Direction
  PROVE  /\ Outstanding(s, d) \in Nat
         /\ numberOfPending[s][d] \in Nat
         /\ Outstanding(s, d) <= numberOfPending[s][d]
<1>1. Outstanding(s, d) \in Nat
  BY OutstandingFinite DEF IInv
<1>2. Allocated(s, d) \in Nat
  BY DEF Allocated
<1>3. numberOfPending[s][d] = Outstanding(s, d) + Allocated(s, d)
  BY DEF IInv, PendingCountersExact
<1>4. QED
  BY <1>1, <1>2, <1>3, SMT

LEMMA ReinjectType ==
  ASSUME IInv, NEW t \in Thread, Reinject(t)
  PROVE  TypeOK'
<1> DEFINE s == hand[t]
           moved == Injectable(s, InjectType(t))
<1>0. s \in Socket /\ TypeOK
  BY DEF IInv, LocalsSet, Reinject
<1>1. moved \subseteq pendingQueue[s]
  BY DEF Injectable
<1>2. QueueTypes'
  BY <1>0, <1>1 DEF TypeOK, QueueTypes, Reinject
<1>3. SocketTypes'
  <2>1. Deadlined(s, moved) \in BOOLEAN
    BY DEF Deadlined
  <2>2. deadlinedPackets' \in [Socket -> BOOLEAN]
    BY <1>0, <2>1 DEF TypeOK, SocketTypes, Reinject
  <2>3. injectionMutex' \in [Socket -> Thread \cup {None}]
    BY <1>0 DEF TypeOK, SocketTypes, Reinject
  <2>4. QED
    BY <1>0, <2>2, <2>3 DEF TypeOK, SocketTypes, Reinject
<1>4. ThreadTypes'
  <2>1. AfterInjection(t) \in ThreadState
    BY DEF AfterInjection
  <2>2. pc' \in [Thread -> ThreadState] /\ hand' \in [Thread -> Socket \cup {None}]
    BY <1>0, <2>1 DEF TypeOK, ThreadTypes, Reinject
  <2>3. QED
    BY <1>0, <2>2 DEF TypeOK, ThreadTypes, Reinject
<1>5. ClientTypes'
  BY <1>0 DEF TypeOK, ClientTypes, Reinject
<1>6. QED
  BY <1>2, <1>3, <1>4, <1>5 DEF TypeOK

LEMMA InjectKeepsType ==
  ASSUME IInv, NEW t \in Thread, Inject(t)
  PROVE  TypeOK'
<1> DEFINE s == hand[t]
<1>0. s \in Socket /\ TypeOK
  BY DEF IInv, LocalsSet, Inject
<1>1. PICK p \in packetsToInject[s] :
        /\ packetsToInject' = [packetsToInject EXCEPT ![s] = @ \ {p}]
        /\ granted' = [granted EXCEPT ![s] = @ \ {p.dataIndex}]
        /\ numberOfPending' = [numberOfPending EXCEPT ![s][p.dir] = @ - 1]
  BY DEF Inject
<1>2. p.dir \in Direction
  BY <1>0 DEF TypeOK, QueueTypes, PendingPktQueueItem
<1>3. numberOfPending[s][p.dir] - 1 \in Nat
  <2>1. Outstanding(s, p.dir) # 0
    <3>1. p \in {q \in Entries(s) : q.dir = p.dir}
      BY DEF Entries
    <3>2. QED
      BY <1>0, <1>2, <3>1, OutstandingFinite, FS_EmptySet DEF IInv
  <2>2. numberOfPending[s][p.dir] # 0
    BY <1>0, <1>2, <2>1, OutstandingCounted
  <2>3. QED
    BY <1>0, <1>2, <2>2, OutstandingCounted
<1>4. QueueTypes'
  BY <1>0, <1>1, <1>2, <1>3 DEF TypeOK, QueueTypes, Inject
<1>5. SocketTypes'
  BY <1>0 DEF TypeOK, SocketTypes, Inject
<1>6. ThreadTypes'
  <2>1. AfterInjection(t) \in ThreadState
    BY DEF AfterInjection
  <2>3. pc' \in [Thread -> ThreadState]
    BY <1>0, <2>1 DEF TypeOK, ThreadTypes, Inject
  <2>4. hand' \in [Thread -> Socket \cup {None}]
    BY <1>0 DEF TypeOK, ThreadTypes, Inject
  <2>5. QED
    BY <1>0, <2>3, <2>4 DEF TypeOK, ThreadTypes, Inject
<1>7. ClientTypes'
  BY <1>0, <1>1 DEF TypeOK, ClientTypes, Inject
<1>8. QED
  BY <1>4, <1>5, <1>6, <1>7 DEF TypeOK

(* What a purge takes out of the queue was counted. *)
LEMMA PurgedWereCounted ==
  ASSUME IInv, NEW s \in Socket, NEW gone \in SUBSET pendingQueue[s]
  PROVE  /\ IsFiniteSet(gone)
         /\ packetsWaitingForReporting[s] - Cardinality(NeverReported(gone)) \in Nat
         /\ \A d \in Direction :
              numberOfPending[s][d] - Cardinality(OfDirection(gone, d)) \in Nat
<1>1. IsFiniteSet(pendingQueue[s]) /\ IsFiniteSet(gone)
  BY FS_Subset DEF IInv, QueueWellFormed
<1>2. packetsWaitingForReporting[s] - Cardinality(NeverReported(gone)) \in Nat
  <2>1. IsFiniteSet(Unreported(s)) /\ NeverReported(gone) \in SUBSET Unreported(s)
    BY <1>1, FS_Subset DEF Unreported, NeverReported
  <2>2. /\ Cardinality(NeverReported(gone)) <= Cardinality(Unreported(s))
        /\ Cardinality(NeverReported(gone)) \in Nat
        /\ Cardinality(Unreported(s)) \in Nat
    BY <2>1, FS_Subset, FS_CardinalityType
  <2>3. QED
    BY <2>2 DEF IInv, ReportingCountExact
<1>3. ASSUME NEW d \in Direction
      PROVE  numberOfPending[s][d] - Cardinality(OfDirection(gone, d)) \in Nat
  <2>1. OfDirection(gone, d) \in SUBSET {p \in Entries(s) : p.dir = d}
    BY DEF OfDirection, Entries
  <2>2. /\ Cardinality(OfDirection(gone, d)) <= Outstanding(s, d)
        /\ Cardinality(OfDirection(gone, d)) \in Nat
        /\ Outstanding(s, d) \in Nat
    <3>1. /\ IsFiniteSet({p \in Entries(s) : p.dir = d})
          /\ Outstanding(s, d) = Cardinality({p \in Entries(s) : p.dir = d})
      BY OutstandingFinite DEF IInv
    <3>2. QED
      BY <2>1, <3>1, FS_Subset, FS_CardinalityType
  <2>3. QED
    BY <2>2, OutstandingCounted
<1>4. QED
  BY <1>1, <1>2, <1>3

LEMMA PurgeKeepsType ==
  ASSUME IInv, NEW s \in Socket, Purge(s)
  PROVE  TypeOK'
<1>0. TypeOK /\ <<s, "event">> \in Thread
  BY ThreadFacts DEF IInv
<1>p. PICK gone \in SUBSET pendingQueue[s] : gone = Purged(s, PurgeType(event[s]))
  BY DEF Purged
<1>1. QueueTypes'
  <2>1. pendingQueue' \in [Socket -> SUBSET PendingPktQueueItem]
    BY <1>0 DEF TypeOK, QueueTypes, Purge
  <2>2. packetsWaitingForReporting' \in [Socket -> Nat]
    <3>1. packetsWaitingForReporting' = [packetsWaitingForReporting EXCEPT ![s] =
            @ - Cardinality(NeverReported(gone))]
      BY <1>p DEF Purge
    <3>2. packetsWaitingForReporting[s] - Cardinality(NeverReported(gone)) \in Nat
      BY <1>0, PurgedWereCounted
    <3>3. QED
      BY <1>0, <3>1, <3>2 DEF TypeOK, QueueTypes
  <2>3. numberOfPending' \in [Socket -> [Direction -> Nat]]
    <3>1. numberOfPending' = [numberOfPending EXCEPT ![s] =
            [d \in Direction |-> @[d] - Cardinality(OfDirection(gone, d))]]
      BY <1>p DEF Purge
    <3>2. \A d \in Direction :
            numberOfPending[s][d] - Cardinality(OfDirection(gone, d)) \in Nat
      BY <1>0, PurgedWereCounted
    <3>3. QED
      BY <1>0, <3>1, <3>2 DEF TypeOK, QueueTypes
  <2>4. QED
    BY <1>0, <2>1, <2>2, <2>3 DEF TypeOK, QueueTypes, Purge
<1>2. SocketTypes'
  BY <1>0 DEF TypeOK, SocketTypes, Purge
<1>3. ThreadTypes'
  BY <1>0 DEF TypeOK, ThreadTypes, Purge
<1>4. ClientTypes'
  BY <1>0 DEF TypeOK, ClientTypes, Purge
<1>5. QED
  BY <1>1, <1>2, <1>3, <1>4 DEF TypeOK

LEMMA SocketEventType ==
  ASSUME TypeOK, NEW s \in Socket, SocketEvent(s)
  PROVE  TypeOK'
<1> USE ThreadFacts DEF TypeOK, SocketEvent
<1>1. QueueTypes' /\ ClientTypes'
  BY DEF QueueTypes, ClientTypes
<1>2. SocketTypes'
  BY DEF SocketTypes
<1>3. \A e : FirstStep(e) \in ThreadState
  BY DEF FirstStep
<1>4. ThreadTypes'
  BY <1>3 DEF ThreadTypes
<1>5. QED
  BY <1>1, <1>2, <1>4

LEMMA EventStepType ==
  ASSUME IInv, NEW s \in Socket, Unlist(s) \/ Unreport(s) \/ Drain(s) \/ EventDone(s)
  PROVE  TypeOK'
<1>0. TypeOK /\ <<s, "event">> \in Thread
  BY ThreadFacts DEF IInv
<1>1. CASE Unlist(s)
  <2>1. QueueTypes' /\ ClientTypes'
    BY <1>0, <1>1 DEF TypeOK, QueueTypes, ClientTypes, Unlist
  <2>2. SocketTypes' /\ ThreadTypes'
    BY <1>0, <1>1 DEF TypeOK, SocketTypes, ThreadTypes, Unlist
  <2>3. QED
    BY <2>1, <2>2 DEF TypeOK
<1>2. CASE Unreport(s)
  <2>1. QueueTypes' /\ ClientTypes' /\ ThreadTypes'
    BY <1>0, <1>2 DEF TypeOK, QueueTypes, ClientTypes, ThreadTypes, Unreport
  <2>2. SocketsListToReport' \in Seq(Socket)
    BY <1>0, <1>2, WithoutType DEF TypeOK, SocketTypes, Unreport
  <2>3. SocketTypes'
    BY <1>0, <1>2, <2>2 DEF TypeOK, SocketTypes, Unreport
  <2>4. QED
    BY <2>1, <2>3 DEF TypeOK
<1>3. CASE Drain(s)
  <2>1. QueueTypes' /\ ClientTypes'
    BY <1>0, <1>3 DEF TypeOK, QueueTypes, ClientTypes, Drain
  <2>2. SocketTypes' /\ ThreadTypes'
    BY <1>0, <1>3 DEF TypeOK, SocketTypes, ThreadTypes, Drain
  <2>3. QED
    BY <2>1, <2>2 DEF TypeOK
<1>4. CASE EventDone(s)
  <2>1. QueueTypes' /\ ClientTypes'
    BY <1>0, <1>4 DEF TypeOK, QueueTypes, ClientTypes, EventDone
  <2>2. event[s] \in SocketEvents
    BY <1>4 DEF IInv, LocalsSet, EventDone
  <2>3. SocketTypes'
    BY <1>0, <1>4, <2>2 DEF TypeOK, SocketTypes, EventDone
  <2>4. ThreadTypes'
    BY <1>0, <1>4 DEF TypeOK, ThreadTypes, EventDone
  <2>5. QED
    BY <2>1, <2>3, <2>4 DEF TypeOK
<1>5. QED
  BY <1>1, <1>2, <1>3, <1>4

LEMMA ClientPresenceType ==
  ASSUME TypeOK, ClientStart \/ ClientStop
  PROVE  TypeOK'
<1>1. QueueTypes' /\ SocketTypes'
  BY DEF TypeOK, QueueTypes, SocketTypes, ClientStart, ClientStop
<1>2. ThreadTypes' /\ ClientTypes'
  BY DEF TypeOK, ThreadTypes, ClientTypes, ClientStart, ClientStop
<1>3. QED
  BY <1>1, <1>2 DEF TypeOK

LEMMA RespondType ==
  ASSUME TypeOK, NEW c \in ClientThread, Respond(c)
  PROVE  TypeOK'
<1> USE ThreadFacts DEF TypeOK, Respond
<1>1. QueueTypes' /\ SocketTypes'
  BY DEF QueueTypes, SocketTypes
<1>2. PICK s \in Socket : \E i \in notified[s] : \E allow \in BOOLEAN :
        /\ notified' = [notified EXCEPT ![s] = @ \ {i}]
        /\ granted' = [granted EXCEPT ![s] = IF allow THEN @ \cup {i} ELSE @]
        /\ response' = [response EXCEPT ![c] = [socket |-> s, dataIndex |-> i, allow |-> allow]]
  OBVIOUS
<1>3. PICK i \in notified[s] : \E allow \in BOOLEAN :
        /\ notified' = [notified EXCEPT ![s] = @ \ {i}]
        /\ granted' = [granted EXCEPT ![s] = IF allow THEN @ \cup {i} ELSE @]
        /\ response' = [response EXCEPT ![c] = [socket |-> s, dataIndex |-> i, allow |-> allow]]
  BY <1>2
<1>4. PICK allow \in BOOLEAN :
        /\ notified' = [notified EXCEPT ![s] = @ \ {i}]
        /\ granted' = [granted EXCEPT ![s] = IF allow THEN @ \cup {i} ELSE @]
        /\ response' = [response EXCEPT ![c] = [socket |-> s, dataIndex |-> i, allow |-> allow]]
  BY <1>3
<1>5. i \in Nat
  BY DEF ClientTypes
<1>6. [socket |-> s, dataIndex |-> i, allow |-> allow]
        \in [socket: Socket, dataIndex: Nat, allow: BOOLEAN]
  BY <1>5
<1>7. ThreadTypes'
  BY <1>4, <1>6 DEF ThreadTypes
<1>8. ClientTypes'
  BY <1>4, <1>5 DEF ClientTypes
<1>9. QED
  BY <1>1, <1>7, <1>8

LEMMA LookupType ==
  ASSUME IInv, NEW c \in ClientThread, Lookup(c)
  PROVE  TypeOK'
<1>0. TypeOK /\ c \in Thread
  BY ThreadFacts DEF IInv
<1>1. response[c].socket \in Socket
  BY <1>0 DEF IInv, LocalsSet, Lookup, TypeOK, ThreadTypes
<1>2. QueueTypes' /\ SocketTypes' /\ ClientTypes'
  BY <1>0 DEF TypeOK, QueueTypes, SocketTypes, ClientTypes, Lookup
<1>3. ThreadTypes'
  BY <1>0, <1>1 DEF TypeOK, ThreadTypes, Lookup
<1>4. QED
  BY <1>2, <1>3 DEF TypeOK

(* What setDeferredDataProperties changes of an entry. *)
LEMMA WithResponseType ==
  ASSUME NEW p \in PendingPktQueueItem, NEW allow \in BOOLEAN
  PROVE  LET q == [p EXCEPT !.allowData = allow, !.responseReceived = TRUE]
         IN  /\ q \in PendingPktQueueItem
             /\ q.place = p.place
             /\ q.dir = p.dir
             /\ q.needToBeReported = p.needToBeReported
BY DEF PendingPktQueueItem

LEMMA ResponseOfClient ==
  ASSUME IInv, NEW c \in ClientThread, SetDeferredDataProperties(c)
  PROVE  /\ hand[c] \in Socket
         /\ response[c].allow \in BOOLEAN
         /\ Answered(hand[c], response[c].dataIndex) \subseteq pendingQueue[hand[c]]
         /\ Answered(hand[c], response[c].dataIndex) \subseteq PendingPktQueueItem
         /\ pendingQueue[hand[c]] \subseteq PendingPktQueueItem
<1>1. TypeOK /\ c \in Thread /\ pc[c] = "setProperty"
  BY ThreadFacts DEF IInv, SetDeferredDataProperties
<1>2. hand[c] \in Socket /\ response[c] \in [socket: Socket, dataIndex: Nat, allow: BOOLEAN]
  BY <1>1 DEF IInv, LocalsSet
<1>3. response[c].allow \in BOOLEAN
  BY <1>1, <1>2 DEF TypeOK, ThreadTypes
<1>4. Answered(hand[c], response[c].dataIndex) \subseteq pendingQueue[hand[c]]
  BY DEF Answered
<1>5. pendingQueue[hand[c]] \subseteq PendingPktQueueItem
  BY <1>1, <1>2 DEF TypeOK, QueueTypes
<1>6. QED
  BY <1>2, <1>3, <1>4, <1>5

LEMMA SetDeferredDataPropertiesType ==
  ASSUME IInv, NEW c \in ClientThread, SetDeferredDataProperties(c)
  PROVE  TypeOK'
<1> DEFINE s == hand[c]
           answered == Answered(s, response[c].dataIndex)
           changed == {[p EXCEPT !.allowData = response[c].allow, !.responseReceived = TRUE]
                         : p \in answered}
<1>0. TypeOK /\ c \in Thread /\ s \in Socket
  BY ThreadFacts, ResponseOfClient DEF IInv
<1>1. changed \subseteq PendingPktQueueItem
  BY ResponseOfClient, WithResponseType
<1>2. pendingQueue' = [pendingQueue EXCEPT ![s] = (@ \ answered) \cup changed]
  BY DEF SetDeferredDataProperties
<1> HIDE DEF changed, answered
<1>3. pendingQueue' \in [Socket -> SUBSET PendingPktQueueItem]
  BY <1>0, <1>1, <1>2 DEF TypeOK, QueueTypes
<1>4. QueueTypes'
  BY <1>0, <1>3 DEF TypeOK, QueueTypes, SetDeferredDataProperties
<1>5. SocketTypes' /\ ClientTypes'
  BY <1>0 DEF TypeOK, SocketTypes, ClientTypes, SetDeferredDataProperties
<1>6. ThreadTypes'
  BY <1>0 DEF TypeOK, ThreadTypes, SetDeferredDataProperties
<1>7. QED
  BY <1>4, <1>5, <1>6 DEF TypeOK

LEMMA InjectionStepType ==
  ASSUME TypeOK, InjectionStep
  PROVE  TypeOK'
<1>1. QueueTypes' /\ SocketTypes' /\ ClientTypes'
  BY DEF TypeOK, QueueTypes, SocketTypes, ClientTypes, InjectionStep, CollectSockets, NextSocket
<1>2. ThreadTypes'
  BY ThreadFacts DEF TypeOK, ThreadTypes, InjectionStep, CollectSockets, NextSocket
<1>3. QED
  BY <1>1, <1>2 DEF TypeOK

LEMMA StutterType ==
  ASSUME TypeOK, UNCHANGED vars
  PROVE  TypeOK'
BY DEF TypeOK, QueueTypes, SocketTypes, ThreadTypes, ClientTypes, PendingPktQueueItem, vars

-----------------------------------------------------------------------------
(* The local variables.                                                    *)

(* Kernel threads in FltData and the time use none of them. *)
LEMMA LocalsOfData ==
  ASSUME IInv, NEW s \in Socket, NEW d \in Direction,
         FltData(s, d) \/ Enqueue(s, d) \/ Notify(s, d) \/ WakeUp(s) \/ Expire(s)
  PROVE  LocalsSet'
<1>1. LocalsSet /\ pc \in [Thread -> ThreadState]
  BY DEF IInv, TypeOK, ThreadTypes
<1>2. CASE FltData(s, d)
  BY <1>1, <1>2, ThreadFacts DEF LocalsSet, FltData
<1>3. CASE Enqueue(s, d)
  BY <1>1, <1>3, ThreadFacts DEF LocalsSet, Enqueue
<1>4. CASE Notify(s, d)
  BY <1>1, <1>4, ThreadFacts DEF LocalsSet, Notify
<1>5. CASE WakeUp(s)
  BY <1>1, <1>5, ThreadFacts DEF LocalsSet, WakeUp, Direction
<1>6. CASE Expire(s)
  BY <1>1, <1>6 DEF LocalsSet, Expire
<1>7. QED
  BY <1>2, <1>3, <1>4, <1>5, <1>6

LEMMA LocalsOfDelivery ==
  ASSUME IInv, NEW t \in Thread, Deliver(t)
  PROVE  LocalsSet'
<1>1. LocalsSet /\ pc \in [Thread -> ThreadState] /\ hand \in [Thread -> Socket \cup {None}]
  BY DEF IInv, TypeOK, ThreadTypes
<1>2. /\ AfterDelivery(t) \notin {"deliver", "scan", "reinsert", "setProperty", "reinject", "inject"}
      /\ t \notin ClientThread => AfterDelivery(t) # "lookup"
  BY DEF AfterDelivery
<1>3. CASE DeliverPop(t)
  <2>1. SocketsListToReport # <<>> => Head(SocketsListToReport) \in Socket
    BY HeadTailProperties DEF IInv, TypeOK, SocketTypes
  <2>2. QED
    BY <1>1, <1>2, <1>3, <2>1, ThreadFacts DEF LocalsSet, DeliverPop
<1>4. CASE DeliverScan(t)
  BY <1>1, <1>4, ThreadFacts DEF LocalsSet, DeliverScan
<1>5. CASE DeliverReinsert(t)
  BY <1>1, <1>2, <1>5, ThreadFacts DEF LocalsSet, DeliverReinsert
<1>6. QED
  BY <1>3, <1>4, <1>5 DEF Deliver

LEMMA LocalsOfInjection ==
  ASSUME IInv, NEW t \in Thread, Reinject(t) \/ Inject(t)
  PROVE  LocalsSet'
<1>1. LocalsSet /\ pc \in [Thread -> ThreadState] /\ hand \in [Thread -> Socket \cup {None}]
  BY DEF IInv, TypeOK, ThreadTypes
<1>2. AfterInjection(t) \in {"idle", "walk", "drainOut", "purge", "done"}
  BY DEF AfterInjection
<1>3. CASE Reinject(t)
  <2>1. \/ hand' = hand /\ pc' = [pc EXCEPT ![t] = "inject"]
        \/ /\ hand' = [hand EXCEPT ![t] = None]
           /\ pc' = [pc EXCEPT ![t] = AfterInjection(t)]
    BY <1>3 DEF Reinject
  <2>2. pc[t] = "reinject" /\ UNCHANGED <<response, event>>
    BY <1>3 DEF Reinject
  <2>3. QED
    BY <1>1, <1>2, <2>1, <2>2, ThreadFacts DEF LocalsSet
<1>4. CASE Inject(t)
  <2>1. \/ hand' = hand /\ pc' = pc
        \/ /\ hand' = [hand EXCEPT ![t] = None]
           /\ pc' = [pc EXCEPT ![t] = AfterInjection(t)]
    BY <1>4 DEF Inject
  <2>2. pc[t] = "inject" /\ UNCHANGED <<response, event>>
    BY <1>4 DEF Inject
  <2>3. QED
    BY <1>1, <1>2, <2>1, <2>2, ThreadFacts DEF LocalsSet
<1>5. QED
  BY <1>3, <1>4

LEMMA LocalsOfEvent ==
  ASSUME IInv, NEW s \in Socket, SocketEvent(s) \/ EventStep(s)
  PROVE  LocalsSet'
<1>1. /\ LocalsSet
      /\ pc \in [Thread -> ThreadState]
      /\ hand \in [Thread -> Socket \cup {None}]
      /\ event \in [Socket -> SocketEvents \cup {None}]
  BY DEF IInv, TypeOK, SocketTypes, ThreadTypes
<1>2. CASE SocketEvent(s)
  <2>1. PICK e \in SocketEvents :
          /\ event' = [event EXCEPT ![s] = e]
          /\ pc' = [pc EXCEPT ![<<s, "event">>] = FirstStep(e)]
          /\ hand' = [hand EXCEPT ![<<s, "event">>] = s]
    BY <1>2 DEF SocketEvent
  <2>2. response' = response
    BY <1>2 DEF SocketEvent
  <2>3. QED
    BY <1>1, <2>1, <2>2, ThreadFacts DEF LocalsSet
<1>3. CASE Purge(s)
  BY <1>1, <1>3, ThreadFacts DEF LocalsSet, Purge
<1>4. CASE Unlist(s)
  BY <1>1, <1>4, ThreadFacts DEF LocalsSet, Unlist
<1>5. CASE Unreport(s)
  BY <1>1, <1>5, ThreadFacts DEF LocalsSet, Unreport
<1>6. CASE Drain(s)
  BY <1>1, <1>6, ThreadFacts DEF LocalsSet, Drain
<1>7. CASE EventDone(s)
  BY <1>1, <1>7, ThreadFacts DEF LocalsSet, EventDone
<1>8. QED
  BY <1>2, <1>3, <1>4, <1>5, <1>6, <1>7 DEF EventStep

LEMMA LocalsOfClient ==
  ASSUME IInv, NEW c \in ClientThread, Respond(c) \/ ClientStep(c)
  PROVE  LocalsSet'
<1>1. /\ LocalsSet /\ c \in Thread
      /\ pc \in [Thread -> ThreadState]
      /\ hand \in [Thread -> Socket \cup {None}]
      /\ response \in [ClientThread ->
           [socket: Socket, dataIndex: Nat, allow: BOOLEAN] \cup {None}]
  BY ThreadFacts DEF IInv, TypeOK, ThreadTypes
<1>2. CASE Respond(c)
  <2>1. response'[c] \in [socket: Socket, dataIndex: Nat, allow: BOOLEAN]
    BY <1>1, <1>2 DEF IInv, TypeOK, ClientTypes, Respond
  <2>2. QED
    BY <1>1, <1>2, <2>1, ThreadFacts DEF LocalsSet, Respond
<1>3. CASE Lookup(c)
  <2>1. response[c].socket \in Socket
    BY <1>1, <1>3 DEF LocalsSet, Lookup
  <2>2. QED
    BY <1>1, <1>3, <2>1, ThreadFacts DEF LocalsSet, Lookup
<1>4. CASE SetDeferredDataProperties(c)
  BY <1>1, <1>4, ThreadFacts DEF LocalsSet, SetDeferredDataProperties
<1>5. QED
  BY <1>2, <1>3, <1>4 DEF ClientStep

LEMMA LocalsOfInjectionThread ==
  ASSUME IInv, InjectionStep
  PROVE  LocalsSet'
<1>1. /\ LocalsSet
      /\ pc \in [Thread -> ThreadState]
      /\ hand \in [Thread -> Socket \cup {None}]
      /\ localSocketsList \in SUBSET Socket
  BY DEF IInv, TypeOK, ThreadTypes
<1>2. CASE CollectSockets
  BY <1>1, <1>2, ThreadFacts DEF LocalsSet, CollectSockets
<1>3. CASE NextSocket
  BY <1>1, <1>3, ThreadFacts DEF LocalsSet, NextSocket
<1>4. QED
  BY <1>2, <1>3 DEF InjectionStep

LEMMA LocalsUnused ==
  ASSUME IInv, ClientStart \/ ClientStop \/ UNCHANGED vars
  PROVE  LocalsSet'
BY DEF IInv, LocalsSet, ClientStart, ClientStop, vars

-----------------------------------------------------------------------------
(* The queue and its counters.                                             *)

QueueInv ==
  /\ QueueWellFormed
  /\ ReportingCountExact
  /\ PendingCountersExact
  /\ UnreportedAtTail

(* A thread that is not about to queue a packet, before the step or after. *)
LEMMA AllocatedKept ==
  ASSUME pc \in [Thread -> ThreadState], NEW t \in Thread, NEW next,
         pc[t] # "enqueue", next # "enqueue", pc' = [pc EXCEPT ![t] = next]
  PROVE  \A x \in Socket, d \in Direction : Allocated(x, d)' = Allocated(x, d)
BY ThreadFacts DEF Allocated

(* Steps that leave the queue and the counters alone. *)
LEMMA QueueUntouched ==
  ASSUME IInv,
         UNCHANGED <<pendingQueue, packetsToInject, nextPlace, numberOfPending,
                     packetsWaitingForReporting>>,
         \A x \in Socket, d \in Direction : Allocated(x, d)' = Allocated(x, d)
  PROVE  QueueInv'
<1>1. QueueWellFormed'
  BY DEF IInv, QueueWellFormed, Entries
<1>2. ReportingCountExact'
  BY DEF IInv, ReportingCountExact, Unreported
<1>3. PendingCountersExact'
  BY DEF IInv, PendingCountersExact, Outstanding
<1>4. UnreportedAtTail'
  BY DEF IInv, UnreportedAtTail
<1>5. QED
  BY <1>1, <1>2, <1>3, <1>4 DEF QueueInv

(* Fields of the entries gone are changed, but not their places and          *)
(* directions: in the queue they become the entries come.                   *)
Replaced(s, gone, come) ==
  /\ gone \subseteq pendingQueue[s] /\ come \subseteq PendingPktQueueItem
  /\ \A p \in gone : \E q \in come : q.place = p.place /\ q.dir = p.dir
  /\ \A q \in come : \E p \in gone : q.place = p.place /\ q.dir = p.dir
  /\ \A p, q \in come : p.place = q.place => p = q
  /\ pendingQueue' = [pendingQueue EXCEPT ![s] = (@ \ gone) \cup come]
  /\ UNCHANGED <<packetsToInject, nextPlace, numberOfPending>>

LEMMA EntriesReplaced ==
  ASSUME IInv, NEW s \in Socket, NEW gone, NEW come, Replaced(s, gone, come),
         \A x \in Socket, d \in Direction : Allocated(x, d)' = Allocated(x, d)
  PROVE  QueueWellFormed' /\ PendingCountersExact'
<1> USE DEF Replaced
<1>0. QueueWellFormed /\ pendingQueue \in [Socket -> SUBSET PendingPktQueueItem]
  BY DEF IInv, TypeOK, QueueTypes
<1>1. /\ pendingQueue'[s] = (pendingQueue[s] \ gone) \cup come
      /\ \A x \in Socket : x # s => pendingQueue'[x] = pendingQueue[x]
  BY <1>0
<1>2. /\ \A p, q \in gone : p.place = q.place => p = q
      /\ IsFiniteSet(gone)
      /\ IsFiniteSet(pendingQueue[s] \ gone)
  BY <1>0, FS_Subset DEF QueueWellFormed, Entries
<1>3. IsFiniteSet(come)
  BY <1>2, SamePlaces
<1>4. IsFiniteSet(pendingQueue'[s])
  <2>1. IsFiniteSet((pendingQueue[s] \ gone) \cup come)
    BY <1>2, <1>3, FS_Union, Zenon
  <2>2. QED
    BY <1>1, <2>1
<1>5. QueueWellFormed'
  <2>1. ASSUME NEW x \in Socket, x # s
        PROVE  /\ IsFiniteSet(pendingQueue'[x]) /\ IsFiniteSet(packetsToInject'[x])
               /\ \A p \in Entries(x)' : p.place < nextPlace'[x]
               /\ \A p, q \in Entries(x)' : p.place = q.place => p = q
               /\ \A p \in pendingQueue'[x] : p \notin packetsToInject'[x]
    BY <1>0, <1>1, <2>1 DEF QueueWellFormed, Entries
  <2>2. \A q \in Entries(s)' : \E p \in Entries(s) : p.place = q.place
    BY <1>1 DEF Entries
  <2>3. \A p \in Entries(s)' : p.place < nextPlace'[s]
    BY <1>0, <2>2 DEF QueueWellFormed
  <2>4. \A q \in come : \A p \in Entries(s) : p.place = q.place => p \in gone
    BY <1>0 DEF QueueWellFormed, Entries
  <2>5. \A p \in gone : p \notin packetsToInject[s]
    BY <1>0 DEF QueueWellFormed
  <2>6. \A p, q \in Entries(s)' : p.place = q.place => p = q
    <3>1. Entries(s)' = ((pendingQueue[s] \ gone) \cup packetsToInject[s]) \cup come
      BY <1>1 DEF Entries
    <3>2. \A p, q \in (pendingQueue[s] \ gone) \cup packetsToInject[s] :
            p.place = q.place => p = q
      BY <1>0 DEF QueueWellFormed, Entries
    <3>3. \A p \in (pendingQueue[s] \ gone) \cup packetsToInject[s] :
            p \in Entries(s) /\ p \notin gone
      BY <2>5 DEF Entries
    <3>4. \A p \in (pendingQueue[s] \ gone) \cup packetsToInject[s], q \in come :
            p.place # q.place
      BY <2>4, <3>3
    <3>5. QED
      BY <3>1, <3>2, <3>4
  <2>7. \A p \in pendingQueue'[s] : p \notin packetsToInject'[s]
    BY <1>0, <1>1, <2>4, <2>5 DEF QueueWellFormed, Entries
  <2>8. IsFiniteSet(packetsToInject'[s])
    BY <1>0 DEF QueueWellFormed
  <2>9. QED
    BY <1>4, <2>1, <2>3, <2>6, <2>7, <2>8 DEF QueueWellFormed
<1>6. ASSUME NEW x \in Socket, NEW d \in Direction
      PROVE  Outstanding(x, d)' = Outstanding(x, d)
  <2>1. CASE x # s
    BY <1>1, <2>1 DEF Outstanding
  <2>2. CASE x = s
    <3> DEFINE old == {p \in Entries(s) : p.dir = d}
               new == {p \in Entries(s)' : p.dir = d}
    <3>1. Entries(s)' = ((pendingQueue[s] \ gone) \cup packetsToInject[s]) \cup come
      BY <1>1 DEF Entries
    <3>2. IsFiniteSet(old)
      BY <1>0, OutstandingFinite
    <3>3. \A p \in old : \E q \in new : q.place = p.place
      BY <3>1 DEF Entries
    <3>4. \A q \in new : \E p \in old : p.place = q.place
      BY <3>1 DEF Entries
    <3>5. /\ \A p, q \in old : p.place = q.place => p = q
          /\ \A p, q \in new : p.place = q.place => p = q
      BY <1>0, <1>5 DEF QueueWellFormed
    <3>6. Cardinality(new) = Cardinality(old)
      <4> HIDE DEF new, old
      <4> QED
        BY <3>2, <3>3, <3>4, <3>5, SamePlaces
    <3>7. Outstanding(s, d) = Cardinality(old) /\ Outstanding(s, d)' = Cardinality(new)
      BY DEF Outstanding, Entries
    <3>8. QED
      BY <2>2, <3>6, <3>7
  <2>3. QED
    BY <2>1, <2>2
<1>7. PendingCountersExact'
  BY <1>6 DEF IInv, PendingCountersExact
<1>8. QED
  BY <1>5, <1>7

(* Steps that take entries out of the queue. *)
LEMMA EntriesTaken ==
  ASSUME IInv, NEW s \in Socket, NEW gone \in SUBSET pendingQueue[s],
         pendingQueue' = [pendingQueue EXCEPT ![s] = @ \ gone]
  PROVE  /\ UnreportedAtTail'
         /\ IsFiniteSet(Unreported(s))
         /\ Unreported(s)' = Unreported(s) \ NeverReported(gone)
         /\ NeverReported(gone) \subseteq Unreported(s)
         /\ \A x \in Socket : x # s => Unreported(x)' = Unreported(x)
<1>0. /\ QueueWellFormed /\ UnreportedAtTail
      /\ pendingQueue \in [Socket -> SUBSET PendingPktQueueItem]
  BY DEF IInv, TypeOK, QueueTypes
<1>1. /\ pendingQueue'[s] = pendingQueue[s] \ gone
      /\ \A x \in Socket : x # s => pendingQueue'[x] = pendingQueue[x]
  BY <1>0
<1>2. \A x \in Socket : pendingQueue'[x] \subseteq pendingQueue[x]
  BY <1>1
<1>3. UnreportedAtTail'
  BY <1>0, <1>2 DEF UnreportedAtTail
<1>4. Unreported(s) \subseteq pendingQueue[s] /\ IsFiniteSet(pendingQueue[s])
  BY <1>0 DEF Unreported, QueueWellFormed
<1>5. IsFiniteSet(Unreported(s))
  BY <1>4, FS_Subset
<1>6. Unreported(s)' = Unreported(s) \ NeverReported(gone)
  BY <1>1 DEF Unreported, NeverReported
<1>7. NeverReported(gone) \subseteq Unreported(s)
  BY DEF Unreported, NeverReported
<1>8. \A x \in Socket : x # s => Unreported(x)' = Unreported(x)
  BY <1>1 DEF Unreported
<1>9. QED
  BY <1>3, <1>5, <1>6, <1>7, <1>8

(* The number of elements left when a part of a finite set is taken out. *)
LEMMA LessAPart ==
  ASSUME NEW S, IsFiniteSet(S), NEW T \in SUBSET S
  PROVE  /\ IsFiniteSet(S \ T)
         /\ Cardinality(S \ T) = Cardinality(S) - Cardinality(T)
         /\ Cardinality(S) \in Nat /\ Cardinality(T) \in Nat
<1>1. S \cap T = T
  OBVIOUS
<1>2. IsFiniteSet(S \ T) /\ Cardinality(S \ T) = Cardinality(S) - Cardinality(T)
  BY <1>1, FS_Difference
<1>3. QED
  BY <1>2, FS_Subset, FS_CardinalityType

LEMMA FltDataQueue ==
  ASSUME IInv, NEW s \in Socket, NEW d \in Direction, FltData(s, d)
  PROVE  QueueInv'
<1>1. /\ TypeOK /\ pc[<<s, d>>] = "idle"
      /\ UNCHANGED <<pendingQueue, packetsToInject, nextPlace, packetsWaitingForReporting>>
      /\ pc' = [pc EXCEPT ![<<s, d>>] = "enqueue"]
      /\ numberOfPending' = [numberOfPending EXCEPT ![s][d] = @ + 1]
  BY DEF IInv, FltData
<1>2. QueueWellFormed'
  BY <1>1 DEF IInv, QueueWellFormed, Entries
<1>3. ReportingCountExact'
  BY <1>1 DEF IInv, ReportingCountExact, Unreported
<1>4. UnreportedAtTail'
  BY <1>1 DEF IInv, UnreportedAtTail
<1>5. ASSUME NEW x \in Socket, NEW e \in Direction
      PROVE  numberOfPending'[x][e] = Outstanding(x, e)' + Allocated(x, e)'
  <2>1. Outstanding(x, e)' = Outstanding(x, e)
    BY <1>1 DEF Outstanding
  <2>2. Outstanding(x, e) \in Nat
    BY OutstandingCounted
  <2>3. numberOfPending[x][e] = Outstanding(x, e) + Allocated(x, e)
    BY DEF IInv, PendingCountersExact
  <2>4. CASE x = s /\ e = d
    <3>1. Allocated(s, d) = 0 /\ Allocated(s, d)' = 1
      BY <1>1, ThreadFacts DEF TypeOK, ThreadTypes, Allocated
    <3>2. numberOfPending'[s][d] = numberOfPending[s][d] + 1
      BY <1>1 DEF TypeOK, QueueTypes
    <3>3. QED
      BY <2>1, <2>2, <2>3, <2>4, <3>1, <3>2
  <2>5. CASE ~(x = s /\ e = d)
    <3>1. <<x, e>> # <<s, d>>
      BY <2>5
    <3>2. Allocated(x, e)' = Allocated(x, e)
      BY <1>1, <3>1, ThreadFacts DEF TypeOK, ThreadTypes, Allocated
    <3>3. numberOfPending'[x][e] = numberOfPending[x][e]
      BY <1>1, <2>5 DEF TypeOK, QueueTypes
    <3>4. QED
      BY <2>1, <2>3, <3>2, <3>3
  <2>6. QED
    BY <2>4, <2>5
<1>6. PendingCountersExact'
  BY <1>5 DEF PendingCountersExact
<1>7. QED
  BY <1>2, <1>3, <1>4, <1>6 DEF QueueInv

LEMMA EnqueueQueue ==
  ASSUME IInv, NEW s \in Socket, NEW d \in Direction, Enqueue(s, d)
  PROVE  QueueInv'
<1>0. TypeOK /\ QueueWellFormed /\ ReportingCountExact /\ UnreportedAtTail
  BY DEF IInv
<1>p. PICK copied \in BOOLEAN :
        /\ pendingQueue' = [pendingQueue EXCEPT ![s] =
             @ \cup {NewEntry(s, d, MustPostpone(s, copied))}]
        /\ packetsWaitingForReporting' = [packetsWaitingForReporting EXCEPT ![s] =
             IF MustPostpone(s, copied) THEN @ + 1 ELSE @]
        /\ pc' = [pc EXCEPT ![<<s, d>>] =
             IF MustPostpone(s, copied) THEN "deliver" ELSE "notify"]
  BY DEF Enqueue
<1> DEFINE postponed == MustPostpone(s, copied)
           e == NewEntry(s, d, postponed)
<1>1. /\ e.place = nextPlace[s] /\ e.dir = d
      /\ e.needToBeReported = postponed /\ postponed \in BOOLEAN
      /\ ~postponed => packetsWaitingForReporting[s] = 0
  BY DEF NewEntry, MustPostpone
<1>2. /\ pendingQueue' = [pendingQueue EXCEPT ![s] = @ \cup {e}]
      /\ packetsWaitingForReporting' = [packetsWaitingForReporting EXCEPT ![s] =
           IF postponed THEN @ + 1 ELSE @]
      /\ nextPlace' = [nextPlace EXCEPT ![s] = @ + 1]
      /\ UNCHANGED <<packetsToInject, numberOfPending>>
  BY <1>p DEF Enqueue
<1>3. /\ pc[<<s, d>>] = "enqueue" /\ pc'[<<s, d>>] # "enqueue"
      /\ \A x \in Socket, f \in Direction :
           <<x, f>> # <<s, d>> => pc'[<<x, f>>] = pc[<<x, f>>]
  BY <1>0, <1>p, ThreadFacts DEF TypeOK, ThreadTypes, Enqueue
<1> HIDE DEF postponed, e
<1>4. /\ pendingQueue'[s] = pendingQueue[s] \cup {e}
      /\ nextPlace'[s] = nextPlace[s] + 1
      /\ packetsWaitingForReporting'[s] =
           IF postponed THEN packetsWaitingForReporting[s] + 1 ELSE packetsWaitingForReporting[s]
      /\ \A x \in Socket : x # s => /\ pendingQueue'[x] = pendingQueue[x]
                                    /\ nextPlace'[x] = nextPlace[x]
                                    /\ packetsWaitingForReporting'[x] = packetsWaitingForReporting[x]
      /\ \A x \in Socket : packetsToInject'[x] = packetsToInject[x]
  BY <1>0, <1>2 DEF TypeOK, QueueTypes
<1>5. /\ \A p \in Entries(s) : p.place \in Nat /\ p.place < nextPlace[s]
      /\ nextPlace[s] \in Nat
      /\ e \notin Entries(s)
  BY <1>0, <1>1 DEF TypeOK, QueueTypes, PendingPktQueueItem, QueueWellFormed, Entries
<1>6. QueueWellFormed'
  <2>1. ASSUME NEW x \in Socket, x # s
        PROVE  /\ IsFiniteSet(pendingQueue'[x]) /\ IsFiniteSet(packetsToInject'[x])
               /\ \A p \in Entries(x)' : p.place < nextPlace'[x]
               /\ \A p, q \in Entries(x)' : p.place = q.place => p = q
               /\ \A p \in pendingQueue'[x] : p \notin packetsToInject'[x]
    BY <1>0, <1>4, <2>1 DEF QueueWellFormed, Entries
  <2>2. Entries(s)' = Entries(s) \cup {e}
    BY <1>4 DEF Entries
  <2>3. \A p \in Entries(s)' : p.place < nextPlace'[s]
    BY <1>1, <1>4, <1>5, <2>2
  <2>4. \A p, q \in Entries(s)' : p.place = q.place => p = q
    <3>1. \A p, q \in Entries(s) : p.place = q.place => p = q
      BY <1>0 DEF QueueWellFormed
    <3>2. \A p \in Entries(s) : p.place # e.place
      BY <1>1, <1>5
    <3>3. QED
      BY <2>2, <3>1, <3>2
  <2>5. \A p \in pendingQueue'[s] : p \notin packetsToInject'[s]
    BY <1>0, <1>4, <1>5 DEF QueueWellFormed, Entries
  <2>6. IsFiniteSet(pendingQueue[s] \cup {e})
    BY <1>0, FS_AddElement DEF QueueWellFormed
  <2>7. IsFiniteSet(pendingQueue'[s]) /\ IsFiniteSet(packetsToInject'[s])
    BY <1>0, <1>4, <2>6 DEF QueueWellFormed
  <2>8. QED
    BY <2>1, <2>3, <2>4, <2>5, <2>7 DEF QueueWellFormed
<1>7. /\ IsFiniteSet(Unreported(s)) /\ Cardinality(Unreported(s)) \in Nat
      /\ e \notin Unreported(s)
      /\ ~postponed => Unreported(s) = {}
  <2>1. Unreported(s) \subseteq pendingQueue[s] /\ e \notin Unreported(s)
    BY <1>5 DEF Unreported, Entries
  <2>2. IsFiniteSet(Unreported(s))
    BY <1>0, <2>1, FS_Subset DEF QueueWellFormed
  <2>3. Cardinality(Unreported(s)) = packetsWaitingForReporting[s]
    BY <1>0 DEF ReportingCountExact
  <2>4. QED
    BY <1>1, <2>1, <2>2, <2>3, FS_EmptySet, FS_CardinalityType
<1>8. ReportingCountExact'
  <2>1. ASSUME NEW x \in Socket
        PROVE  packetsWaitingForReporting'[x] = Cardinality(Unreported(x)')
    <3>1. CASE x # s
      BY <1>0, <1>4, <3>1 DEF ReportingCountExact, Unreported
    <3>2. CASE x = s /\ postponed
      <4>1. Unreported(s)' = Unreported(s) \cup {e}
        BY <1>1, <1>4, <3>2 DEF Unreported
      <4>2. Cardinality(Unreported(s) \cup {e}) = Cardinality(Unreported(s)) + 1
        BY <1>7, FS_AddElement
      <4>3. QED
        BY <1>0, <1>4, <3>2, <4>1, <4>2 DEF ReportingCountExact
    <3>3. CASE x = s /\ ~postponed
      <4>1. Unreported(s)' = Unreported(s)
        BY <1>1, <1>4, <3>3 DEF Unreported
      <4>2. QED
        BY <1>0, <1>4, <3>3, <4>1 DEF ReportingCountExact
    <3>4. QED
      BY <1>1, <3>1, <3>2, <3>3
  <2>2. QED
    BY <2>1 DEF ReportingCountExact
<1>9. UnreportedAtTail'
  <2>1. ASSUME NEW p \in pendingQueue'[s], NEW q \in pendingQueue'[s],
               p.needToBeReported, p.place < q.place
        PROVE  q.needToBeReported
    <3>1. p # e
      <4>1. q = e \/ q.place < nextPlace[s]
        BY <1>4, <1>5 DEF Entries
      <4>2. QED
        BY <1>1, <1>4, <1>5, <2>1, <4>1 DEF Entries
    <3>2. p \in pendingQueue[s] /\ p \in Unreported(s)
      BY <1>4, <2>1, <3>1 DEF Unreported
    <3>3. CASE q = e
      BY <1>1, <1>7, <3>2, <3>3
    <3>4. CASE q # e
      BY <1>0, <1>4, <2>1, <3>2, <3>4 DEF UnreportedAtTail
    <3>5. QED
      BY <3>3, <3>4
  <2>2. QED
    BY <1>0, <1>4, <2>1 DEF UnreportedAtTail
<1>10. ASSUME NEW x \in Socket, NEW f \in Direction
       PROVE  numberOfPending'[x][f] = Outstanding(x, f)' + Allocated(x, f)'
  <2>1. numberOfPending[x][f] = Outstanding(x, f) + Allocated(x, f)
    BY DEF IInv, PendingCountersExact
  <2>2. Outstanding(x, f) \in Nat
    BY OutstandingCounted
  <2>3. CASE x = s /\ f = d
    <3> DEFINE old == {p \in Entries(s) : p.dir = d}
    <3>1. IsFiniteSet(old) /\ e \notin old /\ Outstanding(s, d) = Cardinality(old)
      BY <1>0, <1>5, OutstandingFinite
    <3>2. {p \in Entries(s)' : p.dir = d} = old \cup {e}
      BY <1>1, <1>4 DEF Entries
    <3>3. Outstanding(s, d)' = Cardinality(old \cup {e})
      BY <3>2 DEF Outstanding, Entries
    <3>4. Outstanding(s, d)' = Outstanding(s, d) + 1
      BY <3>1, <3>3, FS_AddElement
    <3>5. Allocated(s, d) = 1 /\ Allocated(s, d)' = 0
      BY <1>3 DEF Allocated
    <3>6. QED
      BY <1>2, <2>1, <2>2, <2>3, <3>4, <3>5
  <2>4. CASE ~(x = s /\ f = d)
    <3>1. <<x, f>> # <<s, d>>
      BY <2>4
    <3>2. Allocated(x, f)' = Allocated(x, f)
      BY <1>3, <3>1 DEF Allocated
    <3>3. {p \in Entries(x)' : p.dir = f} = {p \in Entries(x) : p.dir = f}
      BY <1>1, <1>4, <2>4 DEF Entries
    <3>4. Outstanding(x, f)' = Outstanding(x, f)
      BY <3>3 DEF Outstanding, Entries
    <3>5. QED
      BY <1>2, <2>1, <3>2, <3>4
  <2>5. QED
    BY <2>3, <2>4
<1>11. PendingCountersExact'
  BY <1>10 DEF PendingCountersExact
<1>12. QED
  BY <1>6, <1>8, <1>9, <1>11 DEF QueueInv

(* The steps that do not work on the queue. *)
LEMMA QueueUntouchedByThread ==
  ASSUME IInv, NEW t \in Thread,
         \/ \E s \in Socket, d \in Direction : Notify(s, d) /\ t = <<s, d>>
         \/ \E s \in Socket : WakeUp(s) /\ t = <<s, "out">>
         \/ DeliverPop(t)
         \/ DeliverReinsert(t)
         \/ \E s \in Socket : /\ SocketEvent(s) \/ Unlist(s) \/ Unreport(s) \/ Drain(s) \/ EventDone(s)
                              /\ t = <<s, "event">>
         \/ t \in ClientThread /\ (Respond(t) \/ Lookup(t))
         \/ InjectionStep /\ t = InjectionThread
  PROVE  QueueInv'
<1> DEFINE unchangedQueue ==
      UNCHANGED <<pendingQueue, packetsToInject, nextPlace, numberOfPending,
                  packetsWaitingForReporting>>
<1>0. pc \in [Thread -> ThreadState]
  BY DEF IInv, TypeOK, ThreadTypes
<1>1. ASSUME NEW s \in Socket, NEW d \in Direction, Notify(s, d), t = <<s, d>>
      PROVE  /\ unchangedQueue /\ pc[t] # "enqueue"
             /\ \E next : next # "enqueue" /\ pc' = [pc EXCEPT ![t] = next]
  BY <1>1 DEF Notify
<1>2. ASSUME NEW s \in Socket, WakeUp(s), t = <<s, "out">>
      PROVE  /\ unchangedQueue /\ pc[t] # "enqueue"
             /\ \E next : next # "enqueue" /\ pc' = [pc EXCEPT ![t] = next]
  BY <1>2 DEF WakeUp
<1>3. ASSUME DeliverPop(t) \/ DeliverReinsert(t)
      PROVE  /\ unchangedQueue /\ pc[t] # "enqueue"
             /\ \E next : next # "enqueue" /\ pc' = [pc EXCEPT ![t] = next]
  <2>1. AfterDelivery(t) # "enqueue"
    BY DEF AfterDelivery
  <2>2. CASE DeliverPop(t)
    BY <2>1, <2>2 DEF DeliverPop
  <2>3. CASE DeliverReinsert(t)
    <3>1. \E next : next # "enqueue" /\ pc' = [pc EXCEPT ![t] = next]
      BY <2>1, <2>3 DEF DeliverReinsert
    <3>2. QED
      BY <2>3, <3>1 DEF DeliverReinsert
  <2>4. QED
    BY <1>3, <2>2, <2>3
<1>4. ASSUME NEW s \in Socket, t = <<s, "event">>,
             SocketEvent(s) \/ Unlist(s) \/ Unreport(s) \/ Drain(s) \/ EventDone(s)
      PROVE  /\ unchangedQueue /\ pc[t] # "enqueue"
             /\ \E next : next # "enqueue" /\ pc' = [pc EXCEPT ![t] = next]
  <2>1. CASE SocketEvent(s)
    <3>1. \A e : FirstStep(e) # "enqueue"
      BY DEF FirstStep
    <3>2. QED
      BY <1>4, <2>1, <3>1 DEF SocketEvent
  <2>2. CASE Unlist(s)
    BY <1>4, <2>2 DEF Unlist
  <2>3. CASE Unreport(s)
    BY <1>4, <2>3 DEF Unreport
  <2>4. CASE Drain(s)
    BY <1>4, <2>4 DEF Drain
  <2>5. CASE EventDone(s)
    BY <1>4, <2>5 DEF EventDone
  <2>6. QED
    BY <1>4, <2>1, <2>2, <2>3, <2>4, <2>5
<1>5. ASSUME Respond(t) \/ Lookup(t)
      PROVE  /\ unchangedQueue /\ pc[t] # "enqueue"
             /\ \E next : next # "enqueue" /\ pc' = [pc EXCEPT ![t] = next]
  <2>1. CASE Respond(t)
    BY <2>1 DEF Respond
  <2>2. CASE Lookup(t)
    BY <2>2 DEF Lookup
  <2>3. QED
    BY <1>5, <2>1, <2>2
<1>6. ASSUME InjectionStep, t = InjectionThread
      PROVE  /\ unchangedQueue /\ pc[t] # "enqueue"
             /\ \E next : next # "enqueue" /\ pc' = [pc EXCEPT ![t] = next]
  <2>1. CASE CollectSockets
    BY <1>6, <2>1 DEF CollectSockets
  <2>2. CASE NextSocket
    BY <1>6, <2>2 DEF NextSocket
  <2>3. QED
    BY <1>6, <2>1, <2>2 DEF InjectionStep
<1>7. /\ unchangedQueue /\ pc[t] # "enqueue"
      /\ \E next : next # "enqueue" /\ pc' = [pc EXCEPT ![t] = next]
  <2> HIDE DEF unchangedQueue
  <2> QED
    BY <1>1, <1>2, <1>3, <1>4, <1>5, <1>6
<1>8. PICK next : next # "enqueue" /\ pc' = [pc EXCEPT ![t] = next]
  BY <1>7
<1>9. \A x \in Socket, d \in Direction : Allocated(x, d)' = Allocated(x, d)
  BY <1>0, <1>7, <1>8, AllocatedKept
<1>10. QED
  BY <1>7, <1>9, QueueUntouched

LEMMA QueueUntouchedByClient ==
  ASSUME IInv, ClientStart \/ ClientStop \/ UNCHANGED vars
  PROVE  QueueInv'
<1>1. UNCHANGED <<pendingQueue, packetsToInject, nextPlace, numberOfPending,
                  packetsWaitingForReporting, pc>>
  BY DEF ClientStart, ClientStop, vars
<1>2. \A x \in Socket, d \in Direction : Allocated(x, d)' = Allocated(x, d)
  BY <1>1 DEF Allocated
<1>3. QED
  BY <1>1, <1>2, QueueUntouched

LEMMA ReinjectQueue ==
  ASSUME IInv, NEW t \in Thread, Reinject(t)
  PROVE  QueueInv'
<1>p. PICK s \in Socket : s = hand[t]
  BY DEF IInv, LocalsSet, Reinject
<1>0. /\ TypeOK /\ QueueWellFormed /\ ReportingCountExact
      /\ pendingQueue \in [Socket -> SUBSET PendingPktQueueItem]
      /\ packetsToInject \in [Socket -> SUBSET PendingPktQueueItem]
  BY DEF IInv, TypeOK, QueueTypes
<1>1. PICK moved \in SUBSET pendingQueue[s] : moved = Injectable(s, InjectType(t))
  BY DEF Injectable
<1>2. /\ pendingQueue' = [pendingQueue EXCEPT ![s] = @ \ moved]
      /\ packetsToInject' = [packetsToInject EXCEPT ![s] = @ \cup moved]
      /\ UNCHANGED <<nextPlace, numberOfPending, packetsWaitingForReporting>>
  BY <1>p, <1>1 DEF Reinject
<1>3. /\ pendingQueue'[s] = pendingQueue[s] \ moved
      /\ packetsToInject'[s] = packetsToInject[s] \cup moved
      /\ \A x \in Socket : x # s => pendingQueue'[x] = pendingQueue[x]
                                    /\ packetsToInject'[x] = packetsToInject[x]
  BY <1>0, <1>2
<1>4. NeverReported(moved) = {}
  <2>1. \A p \in moved : p \in UpTo(s, p) /\ p.dir \in InjectType(t)
    BY <1>0, <1>1 DEF Injectable, UpTo, PendingPktQueueItem
  <2>2. \A p \in moved : Decided(p)
    BY <1>1, <2>1 DEF Injectable
  <2>3. QED
    BY <2>2 DEF Decided, NeverReported
<1>5. UnreportedAtTail' /\ ReportingCountExact'
  <2>1. /\ UnreportedAtTail'
        /\ \A x \in Socket : Unreported(x)' = Unreported(x)
    BY <1>2, <1>4, EntriesTaken
  <2>2. QED
    BY <1>0, <1>2, <2>1 DEF ReportingCountExact
<1>6. \A x \in Socket : Entries(x)' = Entries(x)
  BY <1>3 DEF Entries
<1>7. QueueWellFormed'
  <2>1. ASSUME NEW x \in Socket, x # s
        PROVE  /\ IsFiniteSet(pendingQueue'[x]) /\ IsFiniteSet(packetsToInject'[x])
               /\ \A p \in pendingQueue'[x] : p \notin packetsToInject'[x]
    BY <1>0, <1>3, <2>1 DEF QueueWellFormed
  <2>2. IsFiniteSet(pendingQueue[s] \ moved) /\ IsFiniteSet(moved)
    BY <1>0, FS_Subset DEF QueueWellFormed
  <2>3. IsFiniteSet(packetsToInject[s] \cup moved)
    BY <1>0, <2>2, FS_Union DEF QueueWellFormed
  <2>4. \A p \in pendingQueue'[s] : p \notin packetsToInject'[s]
    BY <1>0, <1>3 DEF QueueWellFormed
  <2>5. \A x \in Socket : /\ \A p \in Entries(x)' : p.place < nextPlace'[x]
                          /\ \A p, q \in Entries(x)' : p.place = q.place => p = q
    BY <1>0, <1>2, <1>6 DEF QueueWellFormed
  <2>6. IsFiniteSet(pendingQueue'[s]) /\ IsFiniteSet(packetsToInject'[s])
    BY <1>3, <2>2, <2>3
  <2>7. QED
    BY <2>1, <2>4, <2>5, <2>6 DEF QueueWellFormed
<1>8. \A x \in Socket, d \in Direction : Allocated(x, d)' = Allocated(x, d)
  <2>1. PICK next : next # "enqueue" /\ pc' = [pc EXCEPT ![t] = next]
    <3>1. AfterInjection(t) # "enqueue"
      BY DEF AfterInjection
    <3>2. QED
      BY <3>1 DEF Reinject
  <2>2. pc[t] # "enqueue" /\ pc \in [Thread -> ThreadState]
    BY <1>0 DEF Reinject, TypeOK, ThreadTypes
  <2>3. QED
    BY <2>1, <2>2, AllocatedKept
<1>9. PendingCountersExact'
  <2>1. \A x \in Socket, d \in Direction : Outstanding(x, d)' = Outstanding(x, d)
    BY <1>6 DEF Outstanding, Entries
  <2>2. QED
    BY <1>2, <1>8, <2>1 DEF IInv, PendingCountersExact
<1>10. QED
  BY <1>5, <1>7, <1>9 DEF QueueInv

LEMMA InjectQueue ==
  ASSUME IInv, NEW t \in Thread, Inject(t)
  PROVE  QueueInv'
<1>s. PICK s \in Socket : s = hand[t]
  BY DEF IInv, LocalsSet, Inject
<1>0. /\ TypeOK /\ QueueWellFormed /\ ReportingCountExact /\ UnreportedAtTail
      /\ packetsToInject \in [Socket -> SUBSET PendingPktQueueItem]
      /\ numberOfPending \in [Socket -> [Direction -> Nat]]
      /\ pc \in [Thread -> ThreadState] /\ pc[t] = "inject"
  BY DEF IInv, TypeOK, QueueTypes, ThreadTypes, Inject
<1>1. PICK p \in packetsToInject[s] :
        /\ packetsToInject' = [packetsToInject EXCEPT ![s] = @ \ {p}]
        /\ numberOfPending' = [numberOfPending EXCEPT ![s][p.dir] = @ - 1]
        /\ \/ pc' = pc
           \/ pc' = [pc EXCEPT ![t] = AfterInjection(t)]
  BY <1>s DEF Inject
<1>2. UNCHANGED <<pendingQueue, nextPlace, packetsWaitingForReporting>>
  BY DEF Inject
<1>3. /\ packetsToInject'[s] = packetsToInject[s] \ {p}
      /\ \A x \in Socket : x # s => packetsToInject'[x] = packetsToInject[x]
      /\ p.dir \in Direction
  BY <1>0, <1>1 DEF PendingPktQueueItem
<1>4. QueueWellFormed'
  <2>1. \A x \in Socket : packetsToInject'[x] \subseteq packetsToInject[x]
    BY <1>3
  <2>2. \A x \in Socket : IsFiniteSet(packetsToInject'[x])
    BY <1>0, <2>1, FS_Subset DEF QueueWellFormed
  <2>3. \A x \in Socket : Entries(x)' \subseteq Entries(x)
    BY <1>2, <2>1 DEF Entries
  <2>4. QED
    BY <1>0, <1>2, <2>1, <2>2, <2>3 DEF QueueWellFormed
<1>5. ReportingCountExact' /\ UnreportedAtTail'
  BY <1>0, <1>2 DEF ReportingCountExact, UnreportedAtTail, Unreported
<1>6. \A x \in Socket, d \in Direction : Allocated(x, d)' = Allocated(x, d)
  <2>1. AfterInjection(t) # "enqueue"
    BY DEF AfterInjection
  <2>2. CASE pc' = pc
    BY <2>2 DEF Allocated
  <2>3. CASE pc' = [pc EXCEPT ![t] = AfterInjection(t)]
    BY <1>0, <2>1, <2>3, AllocatedKept
  <2>4. QED
    BY <1>1, <2>2, <2>3
<1>7. ASSUME NEW x \in Socket, NEW d \in Direction
      PROVE  numberOfPending'[x][d] = Outstanding(x, d)' + Allocated(x, d)'
  <2>1. /\ numberOfPending[x][d] = Outstanding(x, d) + Allocated(x, d)
        /\ Allocated(x, d) \in Nat
    BY DEF IInv, PendingCountersExact, Allocated
  <2>2. Outstanding(x, d) \in Nat
    BY OutstandingCounted
  <2>3. CASE x = s /\ d = p.dir
    <3> DEFINE old == {q \in Entries(s) : q.dir = d}
    <3>1. IsFiniteSet(old) /\ p \in old /\ Outstanding(s, d) = Cardinality(old)
      <4>1. IsFiniteSet(old) /\ Outstanding(s, d) = Cardinality(old)
        BY <1>0, OutstandingFinite
      <4>2. QED
        BY <2>3, <4>1 DEF Entries
    <3>2. {q \in Entries(s)' : q.dir = d} = old \ {p}
      BY <1>0, <1>2, <1>3 DEF Entries, QueueWellFormed
    <3>3. Outstanding(s, d)' = Cardinality(old \ {p})
      BY <3>2 DEF Outstanding, Entries
    <3>4. Cardinality(old \ {p}) = Cardinality(old) - 1
      BY <3>1, FS_RemoveElement
    <3>5. numberOfPending'[s][d] = numberOfPending[s][d] - 1
      BY <1>0, <1>1, <2>3
    <3> HIDE DEF old
    <3>6. QED
      BY <1>6, <2>1, <2>2, <2>3, <3>1, <3>3, <3>4, <3>5
  <2>4. CASE ~(x = s /\ d = p.dir)
    <3>1. {q \in Entries(x)' : q.dir = d} = {q \in Entries(x) : q.dir = d}
      BY <1>2, <1>3, <2>4 DEF Entries
    <3>2. Outstanding(x, d)' = Outstanding(x, d)
      BY <3>1 DEF Outstanding, Entries
    <3>3. numberOfPending'[x][d] = numberOfPending[x][d]
      BY <1>0, <1>1, <2>4
    <3>4. QED
      BY <1>6, <2>1, <3>2, <3>3
  <2>5. QED
    BY <2>3, <2>4
<1>8. PendingCountersExact'
  BY <1>7 DEF PendingCountersExact
<1>9. QED
  BY <1>4, <1>5, <1>8 DEF QueueInv

LEMMA PurgeQueue ==
  ASSUME IInv, NEW s \in Socket, Purge(s)
  PROVE  QueueInv'
<1>0. /\ TypeOK /\ QueueWellFormed /\ ReportingCountExact
      /\ pendingQueue \in [Socket -> SUBSET PendingPktQueueItem]
      /\ packetsWaitingForReporting \in [Socket -> Nat]
      /\ numberOfPending \in [Socket -> [Direction -> Nat]]
  BY DEF IInv, TypeOK, QueueTypes
<1>p. PICK gone \in SUBSET pendingQueue[s] : gone = Purged(s, PurgeType(event[s]))
  BY DEF Purged
<1>1. /\ pendingQueue' = [pendingQueue EXCEPT ![s] = @ \ gone]
      /\ packetsWaitingForReporting' = [packetsWaitingForReporting EXCEPT ![s] =
           @ - Cardinality(NeverReported(gone))]
      /\ numberOfPending' = [numberOfPending EXCEPT ![s] =
           [d \in Direction |-> @[d] - Cardinality(OfDirection(gone, d))]]
      /\ UNCHANGED <<packetsToInject, nextPlace>>
  BY <1>p DEF Purge
<1>2. /\ pendingQueue'[s] = pendingQueue[s] \ gone
      /\ \A x \in Socket : x # s => pendingQueue'[x] = pendingQueue[x]
  BY <1>0, <1>1
<1>3. QueueWellFormed'
  <2>1. \A x \in Socket : pendingQueue'[x] \subseteq pendingQueue[x]
    BY <1>2
  <2>2. \A x \in Socket : IsFiniteSet(pendingQueue'[x])
    BY <1>0, <2>1, FS_Subset DEF QueueWellFormed
  <2>3. \A x \in Socket : Entries(x)' \subseteq Entries(x)
    BY <1>1, <2>1 DEF Entries
  <2>4. QED
    BY <1>0, <1>1, <2>1, <2>2, <2>3 DEF QueueWellFormed
<1>4. /\ UnreportedAtTail'
      /\ IsFiniteSet(Unreported(s))
      /\ Unreported(s)' = Unreported(s) \ NeverReported(gone)
      /\ NeverReported(gone) \subseteq Unreported(s)
      /\ \A x \in Socket : x # s => Unreported(x)' = Unreported(x)
  BY <1>1, EntriesTaken
<1>5. ReportingCountExact'
  <2>1. ASSUME NEW x \in Socket
        PROVE  packetsWaitingForReporting'[x] = Cardinality(Unreported(x)')
    <3>1. CASE x = s
      <4>1. Cardinality(Unreported(s)') =
              Cardinality(Unreported(s)) - Cardinality(NeverReported(gone))
        BY <1>4, LessAPart
      <4>2. packetsWaitingForReporting'[s] =
              packetsWaitingForReporting[s] - Cardinality(NeverReported(gone))
        BY <1>0, <1>1
      <4>3. QED
        BY <1>0, <3>1, <4>1, <4>2 DEF ReportingCountExact
    <3>2. CASE x # s
      BY <1>0, <1>1, <1>4, <3>2 DEF ReportingCountExact
    <3>3. QED
      BY <3>1, <3>2
  <2>2. QED
    BY <2>1 DEF ReportingCountExact
<1>6. \A x \in Socket, d \in Direction : Allocated(x, d)' = Allocated(x, d)
  <2>1. PICK next : next # "enqueue" /\ pc' = [pc EXCEPT ![<<s, "event">>] = next]
    BY DEF Purge
  <2>2. pc[<<s, "event">>] # "enqueue" /\ pc \in [Thread -> ThreadState]
    BY <1>0 DEF Purge, TypeOK, ThreadTypes
  <2>3. QED
    BY <2>1, <2>2, ThreadFacts, AllocatedKept
<1>7. ASSUME NEW x \in Socket, NEW d \in Direction
      PROVE  numberOfPending'[x][d] = Outstanding(x, d)' + Allocated(x, d)'
  <2>1. /\ numberOfPending[x][d] = Outstanding(x, d) + Allocated(x, d)
        /\ Allocated(x, d) \in Nat
    BY DEF IInv, PendingCountersExact, Allocated
  <2>2. CASE x = s
    <3> DEFINE old == {p \in Entries(s) : p.dir = d}
    <3>1. IsFiniteSet(old) /\ Outstanding(s, d) = Cardinality(old)
      BY <1>0, OutstandingFinite
    <3>2. OfDirection(gone, d) \in SUBSET old
      BY DEF OfDirection, Entries
    <3>3. {p \in Entries(s)' : p.dir = d} = old \ OfDirection(gone, d)
      BY <1>0, <1>1, <1>2 DEF Entries, QueueWellFormed, OfDirection
    <3>4. Outstanding(s, d)' = Cardinality(old \ OfDirection(gone, d))
      BY <3>3 DEF Outstanding, Entries
    <3>5. /\ Cardinality(old \ OfDirection(gone, d)) =
               Cardinality(old) - Cardinality(OfDirection(gone, d))
          /\ Cardinality(old) \in Nat /\ Cardinality(OfDirection(gone, d)) \in Nat
      BY <3>1, <3>2, LessAPart
    <3>6. numberOfPending'[s][d] = numberOfPending[s][d] - Cardinality(OfDirection(gone, d))
      BY <1>0, <1>1
    <3> HIDE DEF old
    <3>7. QED
      BY <1>6, <2>1, <2>2, <3>1, <3>4, <3>5, <3>6
  <2>3. CASE x # s
    <3>1. Outstanding(x, d)' = Outstanding(x, d)
      BY <1>1, <1>2, <2>3 DEF Outstanding
    <3>2. numberOfPending'[x][d] = numberOfPending[x][d]
      BY <1>0, <1>1, <2>3
    <3>3. QED
      BY <1>6, <2>1, <3>1, <3>2
  <2>4. QED
    BY <2>2, <2>3
<1>8. PendingCountersExact'
  BY <1>7 DEF PendingCountersExact
<1>9. QED
  BY <1>3, <1>4, <1>5, <1>8 DEF QueueInv

(* Replaced entries that keep needToBeReported keep the unreported ones at  *)
(* the tail, and their number.                                             *)
LEMMA ReportsKept ==
  ASSUME IInv, NEW s \in Socket, NEW gone, NEW come, Replaced(s, gone, come),
         \A p \in gone, q \in come :
           q.place = p.place => q.needToBeReported = p.needToBeReported,
         QueueWellFormed',
         UNCHANGED packetsWaitingForReporting
  PROVE  UnreportedAtTail' /\ ReportingCountExact'
<1> USE DEF Replaced
<1>0. /\ QueueWellFormed /\ UnreportedAtTail /\ ReportingCountExact
      /\ pendingQueue \in [Socket -> SUBSET PendingPktQueueItem]
  BY DEF IInv, TypeOK, QueueTypes
<1>1. /\ pendingQueue'[s] = (pendingQueue[s] \ gone) \cup come
      /\ \A x \in Socket : x # s => pendingQueue'[x] = pendingQueue[x]
  BY <1>0
<1>2. \A q \in pendingQueue'[s] : \E p \in pendingQueue[s] :
        q.place = p.place /\ q.needToBeReported = p.needToBeReported
  BY <1>1
<1>3. \A p \in pendingQueue[s] : \E q \in pendingQueue'[s] :
        q.place = p.place /\ q.needToBeReported = p.needToBeReported
  BY <1>1
<1>4. UnreportedAtTail'
  <2>1. ASSUME NEW p \in pendingQueue'[s], NEW q \in pendingQueue'[s],
               p.needToBeReported, p.place < q.place
        PROVE  q.needToBeReported
    <3>1. PICK p0 \in pendingQueue[s] :
            p.place = p0.place /\ p.needToBeReported = p0.needToBeReported
      BY <1>2
    <3>2. PICK q0 \in pendingQueue[s] :
            q.place = q0.place /\ q.needToBeReported = q0.needToBeReported
      BY <1>2
    <3>3. QED
      BY <1>0, <2>1, <3>1, <3>2 DEF UnreportedAtTail
  <2>2. QED
    BY <1>0, <1>1, <2>1 DEF UnreportedAtTail
<1>5. ASSUME NEW x \in Socket
      PROVE  packetsWaitingForReporting'[x] = Cardinality(Unreported(x)')
  <2>1. CASE x # s
    BY <1>0, <1>1, <2>1 DEF ReportingCountExact, Unreported
  <2>2. CASE x = s
    <3>1. IsFiniteSet(Unreported(s))
      BY <1>0, FS_Subset DEF QueueWellFormed, Unreported
    <3>2. \A p \in Unreported(s) : \E q \in Unreported(s)' : q.place = p.place
      BY <1>3 DEF Unreported
    <3>3. \A q \in Unreported(s)' : \E p \in Unreported(s) : p.place = q.place
      BY <1>2 DEF Unreported
    <3>4. \A p, q \in Unreported(s) : p.place = q.place => p = q
      BY <1>0 DEF QueueWellFormed, Entries, Unreported
    <3>5. \A p, q \in Unreported(s)' : p.place = q.place => p = q
      BY DEF QueueWellFormed, Entries, Unreported
    <3>6. Cardinality(Unreported(s)') = Cardinality(Unreported(s))
      BY <3>1, <3>2, <3>3, <3>4, <3>5, SamePlaces
    <3>7. QED
      BY <1>0, <2>2, <3>6 DEF ReportingCountExact
  <2>3. QED
    BY <2>1, <2>2
<1>6. QED
  BY <1>4, <1>5 DEF ReportingCountExact

LEMMA ExpireQueue ==
  ASSUME IInv, NEW s \in Socket, Expire(s)
  PROVE  QueueInv'
<1>1. PICK p \in pendingQueue[s] : pendingQueue' =
        [pendingQueue EXCEPT ![s] = (@ \ {p}) \cup {[p EXCEPT !.expired = TRUE]}]
  BY DEF Expire
<1>2. p \in PendingPktQueueItem
  BY DEF IInv, TypeOK, QueueTypes
<1> DEFINE q == [p EXCEPT !.expired = TRUE]
           gone == {p}
           come == {q}
<1>3. /\ q \in PendingPktQueueItem
      /\ q.place = p.place /\ q.dir = p.dir /\ q.needToBeReported = p.needToBeReported
  BY <1>2 DEF PendingPktQueueItem
<1>4. pendingQueue' = [pendingQueue EXCEPT ![s] = (@ \ gone) \cup come]
  BY <1>1
<1> HIDE DEF q
<1>5. /\ UNCHANGED <<packetsToInject, nextPlace, numberOfPending, packetsWaitingForReporting>>
      /\ \A x \in Socket, d \in Direction : Allocated(x, d)' = Allocated(x, d)
  BY DEF Expire, Allocated
<1>6. Replaced(s, gone, come)
  BY <1>3, <1>4, <1>5 DEF Replaced
<1>7. QueueWellFormed' /\ PendingCountersExact'
  <2> HIDE DEF gone, come
  <2> QED
    BY <1>5, <1>6, EntriesReplaced
<1>8. \A e \in gone, f \in come : f.place = e.place => f.needToBeReported = e.needToBeReported
  BY <1>3
<1>9. UnreportedAtTail' /\ ReportingCountExact'
  <2> HIDE DEF gone, come
  <2> QED
    BY <1>5, <1>6, <1>7, <1>8, ReportsKept
<1>10. QED
  BY <1>7, <1>9 DEF QueueInv

LEMMA SetDeferredDataPropertiesQueue ==
  ASSUME IInv, NEW c \in ClientThread, SetDeferredDataProperties(c)
  PROVE  QueueInv'
<1>1. PICK s \in Socket : s = hand[c]
  BY ResponseOfClient
<1>2. PICK gone \in SUBSET pendingQueue[s] : gone = Answered(s, response[c].dataIndex)
  BY <1>1, ResponseOfClient
<1>3. PICK allow \in BOOLEAN : allow = response[c].allow
  BY ResponseOfClient
<1> DEFINE with(p) == [p EXCEPT !.allowData = allow, !.responseReceived = TRUE]
           come == {with(p) : p \in gone}
<1>4. gone \subseteq PendingPktQueueItem
  BY DEF IInv, TypeOK, QueueTypes
<1>5. \A p \in gone : /\ with(p) \in PendingPktQueueItem
                      /\ with(p).place = p.place /\ with(p).dir = p.dir
                      /\ with(p).needToBeReported = p.needToBeReported
  BY <1>4, WithResponseType
<1>6. pendingQueue' = [pendingQueue EXCEPT ![s] = (@ \ gone) \cup come]
  BY <1>1, <1>2, <1>3 DEF SetDeferredDataProperties
<1>7. /\ UNCHANGED <<packetsToInject, nextPlace, numberOfPending, packetsWaitingForReporting>>
      /\ pc[c] # "enqueue" /\ pc' = [pc EXCEPT ![c] = "reinject"]
  BY DEF SetDeferredDataProperties
<1>8. \A x \in Socket, d \in Direction : Allocated(x, d)' = Allocated(x, d)
  BY <1>7, ThreadFacts, AllocatedKept DEF IInv, TypeOK, ThreadTypes
<1> HIDE DEF with
<1>9. \A p, q \in gone : p.place = q.place => p = q
  BY <1>2 DEF IInv, QueueWellFormed, Entries
<1>10. Replaced(s, gone, come)
  <2>1. \A p, q \in come : p.place = q.place => p = q
    BY <1>5, <1>9
  <2>2. QED
    BY <1>2, <1>5, <1>6, <1>7, <2>1 DEF Replaced
<1>11. QueueWellFormed' /\ PendingCountersExact'
  <2> HIDE DEF come
  <2> QED
    BY <1>8, <1>10, EntriesReplaced
<1>12. \A p \in gone, q \in come : q.place = p.place => q.needToBeReported = p.needToBeReported
  BY <1>5, <1>9
<1>13. UnreportedAtTail' /\ ReportingCountExact'
  <2> HIDE DEF come
  <2> QED
    BY <1>7, <1>10, <1>11, <1>12, ReportsKept
<1>14. QED
  BY <1>11, <1>13 DEF QueueInv

LEMMA DeliverScanQueue ==
  ASSUME IInv, NEW t \in Thread, DeliverScan(t)
  PROVE  QueueInv'
<1>s. PICK s \in Socket : s = hand[t]
  BY DEF IInv, LocalsSet, DeliverScan
<1>0. /\ TypeOK /\ QueueWellFormed /\ UnreportedAtTail /\ ReportingCountExact
      /\ pendingQueue \in [Socket -> SUBSET PendingPktQueueItem]
      /\ packetsWaitingForReporting \in [Socket -> Nat]
  BY DEF IInv, TypeOK, QueueTypes
<1>p. PICK gone \in SUBSET Unreported(s) :
        \E sent \in SUBSET gone : ScanOutcome(s, gone, sent) /\ Scan(t, gone, sent)
  BY <1>s DEF DeliverScan
<1>1. PICK sent \in SUBSET gone : ScanOutcome(s, gone, sent) /\ Scan(t, gone, sent)
  BY <1>p
<1> DEFINE come == {AsReported(p, sent) : p \in gone}
<1>2. gone \in SUBSET pendingQueue[s] /\ gone \subseteq PendingPktQueueItem
  BY <1>0 DEF Unreported
<1>3. /\ pendingQueue' = [pendingQueue EXCEPT ![s] = (@ \ gone) \cup come]
      /\ packetsWaitingForReporting' =
           [packetsWaitingForReporting EXCEPT ![s] = @ - Cardinality(gone)]
  BY <1>s, <1>1 DEF Scan
<1>4. \A p \in gone : /\ AsReported(p, sent) \in PendingPktQueueItem
                      /\ AsReported(p, sent).place = p.place
                      /\ AsReported(p, sent).dir = p.dir
                      /\ AsReported(p, sent).needToBeReported = FALSE
  BY <1>2, AsReportedType
<1>5. /\ come \in SUBSET PendingPktQueueItem
      /\ \A p \in gone : \E q \in come : q.place = p.place /\ q.dir = p.dir
      /\ \A q \in come : \E p \in gone : q.place = p.place /\ q.dir = p.dir
      /\ \A q \in come : q.needToBeReported = FALSE
  BY <1>4
<1>6. \A p, q \in come : p.place = q.place => p = q
  <2>1. \A p, q \in gone : p.place = q.place => p = q
    BY <1>0, <1>2 DEF QueueWellFormed, Entries
  <2>2. QED
    BY <1>4, <2>1
<1>7. /\ UNCHANGED <<packetsToInject, nextPlace, numberOfPending>>
      /\ pc[t] # "enqueue" /\ pc' = [pc EXCEPT ![t] = "reinsert"]
  BY DEF DeliverScan
<1>8. \A x \in Socket, d \in Direction : Allocated(x, d)' = Allocated(x, d)
  BY <1>0, <1>7, AllocatedKept DEF TypeOK, ThreadTypes
<1> HIDE DEF come
<1>r. Replaced(s, gone, come)
  BY <1>2, <1>3, <1>5, <1>6, <1>7 DEF Replaced
<1>9. QueueWellFormed' /\ PendingCountersExact'
  BY <1>8, <1>r, EntriesReplaced
<1>10. /\ pendingQueue'[s] = (pendingQueue[s] \ gone) \cup come
       /\ \A x \in Socket : x # s => pendingQueue'[x] = pendingQueue[x]
  BY <1>0, <1>3
<1>11. ReportingCountExact'
  <2>1. Unreported(s)' = Unreported(s) \ gone
    BY <1>5, <1>10 DEF Unreported
  <2>2. IsFiniteSet(Unreported(s))
    BY <1>0, FS_Subset DEF QueueWellFormed, Unreported
  <2>3. Cardinality(Unreported(s)') = Cardinality(Unreported(s)) - Cardinality(gone)
    BY <2>1, <2>2, LessAPart
  <2>4. packetsWaitingForReporting'[s] = packetsWaitingForReporting[s] - Cardinality(gone)
    BY <1>0, <1>3
  <2>5. ASSUME NEW x \in Socket, x # s
        PROVE  packetsWaitingForReporting'[x] = Cardinality(Unreported(x)')
    BY <1>0, <1>3, <1>10, <2>5 DEF ReportingCountExact, Unreported
  <2>6. QED
    BY <1>0, <2>3, <2>4, <2>5 DEF ReportingCountExact
<1>12. UnreportedAtTail'
  <2>1. ASSUME NEW p \in pendingQueue'[s], NEW q \in pendingQueue'[s],
               p.needToBeReported, p.place < q.place
        PROVE  q.needToBeReported
    <3>1. p \in Unreported(s) \ gone
      BY <1>5, <1>10, <2>1 DEF Unreported
    <3>2. \A r \in gone : r.place < p.place
      BY <1>1, <3>1 DEF ScanOutcome
    <3>3. q \notin come
      <4>1. \A r \in gone : r.place \in Nat /\ p.place \in Nat
        BY <1>2, <1>0, <3>1 DEF PendingPktQueueItem, Unreported
      <4>2. QED
        BY <1>5, <2>1, <3>2, <4>1
    <3>4. QED
      BY <1>0, <1>10, <2>1, <3>1, <3>3 DEF UnreportedAtTail, Unreported
  <2>2. QED
    BY <1>0, <1>10, <2>1 DEF UnreportedAtTail
<1>13. QED
  BY <1>9, <1>11, <1>12 DEF QueueInv

-----------------------------------------------------------------------------
(* The theorems.                                                           *)

LEMMA InitInvariant ==
  Init => IInv
<1> SUFFICES ASSUME Init
             PROVE  IInv
  OBVIOUS
<1> USE DEF Init
<1>1. QueueTypes
  BY DEF QueueTypes
<1>2. SocketTypes
  BY DEF SocketTypes
<1>3. ThreadTypes
  BY DEF ThreadTypes
<1>4. ClientTypes
  BY DEF ClientTypes
<1>5. LocalsSet
  BY ThreadFacts DEF LocalsSet
<1>6. QueueWellFormed
  BY FS_EmptySet DEF QueueWellFormed, Entries
<1>7. \A s \in Socket : Unreported(s) = {}
  BY DEF Unreported
<1>8. ReportingCountExact
  BY <1>7, FS_EmptySet DEF ReportingCountExact
<1>9. ASSUME NEW s \in Socket, NEW d \in Direction
      PROVE  numberOfPending[s][d] = Outstanding(s, d) + Allocated(s, d)
  <2>1. {p \in pendingQueue[s] \cup packetsToInject[s] : p.dir = d} = {}
    OBVIOUS
  <2>2. Outstanding(s, d) = 0
    BY <2>1, FS_EmptySet DEF Outstanding
  <2>3. Allocated(s, d) = 0
    BY ThreadFacts DEF Allocated
  <2>4. QED
    BY <2>2, <2>3
<1>10. UnreportedAtTail
  BY DEF UnreportedAtTail
<1>11. QED
  BY <1>1, <1>2, <1>3, <1>4, <1>5, <1>6, <1>8, <1>9, <1>10
     DEF IInv, TypeOK, PendingCountersExact

LEMMA StepInvariant ==
  IInv /\ [Next]_vars => IInv'
<1> SUFFICES ASSUME IInv, [Next]_vars
             PROVE  IInv'
  OBVIOUS
<1> USE DEF QueueInv
<1>0. TypeOK
  BY DEF IInv
<1>1. ASSUME NEW s \in Socket, NEW d \in Direction, DataStep(s, d)
      PROVE  IInv'
  <2>1. CASE FltData(s, d)
    BY <1>0, <2>1, FltDataType, LocalsOfData, FltDataQueue DEF IInv
  <2>2. CASE Enqueue(s, d)
    BY <1>0, <2>2, EnqueueType, LocalsOfData, EnqueueQueue DEF IInv
  <2>3. CASE Notify(s, d)
    <3>1. QueueInv'
      BY <2>3, ThreadFacts, QueueUntouchedByThread
    <3>2. QED
      BY <1>0, <2>3, <3>1, NotifyType, LocalsOfData DEF IInv
  <2>4. QED
    BY <1>1, <2>1, <2>2, <2>3 DEF DataStep
<1>2. ASSUME NEW s \in Socket, WakeUp(s) \/ Expire(s) \/ SocketEvent(s) \/ EventStep(s)
      PROVE  IInv'
  <2>0. "in" \in Direction /\ <<s, "out">> \in Thread /\ <<s, "event">> \in Thread
    BY ThreadFacts DEF Direction
  <2>1. CASE WakeUp(s)
    <3>1. QueueInv'
      BY <2>0, <2>1, QueueUntouchedByThread
    <3>2. QED
      BY <1>0, <2>0, <2>1, <3>1, WakeUpType, LocalsOfData DEF IInv
  <2>2. CASE Expire(s)
    BY <1>0, <2>0, <2>2, ExpireType, LocalsOfData, ExpireQueue DEF IInv
  <2>3. CASE SocketEvent(s)
    <3>1. QueueInv'
      BY <2>0, <2>3, QueueUntouchedByThread
    <3>2. QED
      BY <1>0, <2>3, <3>1, SocketEventType, LocalsOfEvent DEF IInv
  <2>4. CASE Purge(s)
    <3>1. EventStep(s)
      BY <2>4 DEF EventStep
    <3>2. QED
      BY <2>4, <3>1, PurgeKeepsType, LocalsOfEvent, PurgeQueue DEF IInv
  <2>5. CASE Unlist(s) \/ Unreport(s) \/ Drain(s) \/ EventDone(s)
    <3>1. EventStep(s)
      BY <2>5 DEF EventStep
    <3>2. QueueInv'
      BY <2>0, <2>5, QueueUntouchedByThread
    <3>3. QED
      BY <2>5, <3>1, <3>2, EventStepType, LocalsOfEvent DEF IInv
  <2>6. QED
    BY <1>2, <2>1, <2>2, <2>3, <2>4, <2>5 DEF EventStep
<1>3. ASSUME NEW t \in Thread, Deliver(t) \/ Reinject(t) \/ Inject(t)
      PROVE  IInv'
  <2>1. CASE DeliverPop(t)
    <3>1. Deliver(t) /\ QueueInv'
      BY <2>1, QueueUntouchedByThread DEF Deliver
    <3>2. QED
      BY <1>0, <2>1, <3>1, DeliverPopType, LocalsOfDelivery DEF IInv
  <2>2. CASE DeliverScan(t)
    <3>1. Deliver(t)
      BY <2>2 DEF Deliver
    <3>2. QED
      BY <2>2, <3>1, DeliverScanType, LocalsOfDelivery, DeliverScanQueue DEF IInv
  <2>3. CASE DeliverReinsert(t)
    <3>1. Deliver(t) /\ QueueInv'
      BY <2>3, QueueUntouchedByThread DEF Deliver
    <3>2. QED
      BY <2>3, <3>1, DeliverReinsertType, LocalsOfDelivery DEF IInv
  <2>4. CASE Reinject(t)
    BY <2>4, ReinjectType, LocalsOfInjection, ReinjectQueue DEF IInv
  <2>5. CASE Inject(t)
    BY <2>5, InjectKeepsType, LocalsOfInjection, InjectQueue DEF IInv
  <2>6. QED
    BY <1>3, <2>1, <2>2, <2>3, <2>4, <2>5 DEF Deliver
<1>4. ASSUME NEW c \in ClientThread, Respond(c) \/ ClientStep(c)
      PROVE  IInv'
  <2>0. c \in Thread
    BY ThreadFacts
  <2>1. CASE Respond(c)
    <3>1. QueueInv'
      BY <2>0, <2>1, QueueUntouchedByThread
    <3>2. QED
      BY <1>0, <2>1, <3>1, RespondType, LocalsOfClient DEF IInv
  <2>2. CASE Lookup(c)
    <3>1. ClientStep(c)
      BY <2>2 DEF ClientStep
    <3>2. QueueInv'
      BY <2>0, <2>2, QueueUntouchedByThread
    <3>3. QED
      BY <2>2, <3>1, <3>2, LookupType, LocalsOfClient DEF IInv
  <2>3. CASE SetDeferredDataProperties(c)
    <3>1. ClientStep(c)
      BY <2>3 DEF ClientStep
    <3>2. QED
      BY <2>3, <3>1, SetDeferredDataPropertiesType, LocalsOfClient,
         SetDeferredDataPropertiesQueue DEF IInv
  <2>4. QED
    BY <1>4, <2>1, <2>2, <2>3 DEF ClientStep
<1>5. CASE InjectionStep
  <2>1. QueueInv'
    BY <1>5, ThreadFacts, QueueUntouchedByThread
  <2>2. QED
    BY <1>0, <1>5, <2>1, InjectionStepType, LocalsOfInjectionThread DEF IInv
<1>6. CASE ClientStart \/ ClientStop
  BY <1>0, <1>6, ClientPresenceType, LocalsUnused, QueueUntouchedByClient DEF IInv
<1>7. CASE UNCHANGED vars
  BY <1>0, <1>7, StutterType, LocalsUnused, QueueUntouchedByClient DEF IInv
<1>8. QED
  BY <1>1, <1>2, <1>3, <1>4, <1>5, <1>6, <1>7 DEF Next

(* The inductive invariant holds in every reachable state. *)
THEOREM Invariance == Spec => []IInv
<1>1. Init => IInv
  BY InitInvariant
<1>2. IInv /\ [Next]_vars => IInv'
  BY StepInvariant
<1>3. QED
  BY <1>1, <1>2, PTL DEF Spec

(* Every variable keeps its type; in particular numberOfPendingInPackets,   *)
(* numberOfPendingOutPackets and packetsWaitingForReporting, which the code *)
(* decrements with OSDecrementAtomic and never checks, stay non-negative.   *)
THEOREM TypeCorrect == Spec => []TypeOK
<1>1. IInv => TypeOK
  BY DEF IInv
<1>2. QED
  BY <1>1, Invariance, PTL

(* packetsWaitingForReporting is the number of packets of the queue that    *)
(* wait to be reported: FltData may rely on it to keep the reporting order. *)
THEOREM ReportingCounted == Spec => []ReportingCountExact
<1>1. IInv => ReportingCountExact
  BY DEF IInv
<1>2. QED
  BY <1>1, Invariance, PTL

(* The counters of pending packets count the packets the filter still owes  *)
(* a decision: when checkForInjectionCompletion sees zero there is none.    *)
THEOREM PendingCounted == Spec => []PendingCountersExact
<1>1. IInv => PendingCountersExact
  BY DEF IInv
<1>2. QED
  BY <1>1, Invariance, PTL

(* What verifyPendingPacketsQueue asserts, for any number of threads.       *)
THEOREM TailUnreported == Spec => []UnreportedAtTail
<1>1. IInv => UnreportedAtTail
  BY DEF IInv
<1>2. QED
  BY <1>1, Invariance, PTL

=============================================================================
