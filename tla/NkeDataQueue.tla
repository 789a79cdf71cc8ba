---------------------------- MODULE NkeDataQueue ----------------------------
(***************************************************************************)
(* The queue of notifications in memory shared by the kernel and the       *)
(* client: an IODataQueue, filled by enqueueWithBarrier under the lock of   *)
(* the user client and emptied by IODataQueueDequeue in the client with no  *)
(* lock at all.  A step is one load, one store or one copy; a store of the  *)
(* head or of the tail may stay in the store buffer of its processor while  *)
(* the thread runs on, as x86 allows when no locked instruction follows it. *)
(* Memory is counted in units of DATA_QUEUE_ENTRY_HEADER_SIZE.              *)
(***************************************************************************)
EXTENDS Integers, Sequences

CONSTANTS
  QueueSizes,        (* The capacities start() may end up with.                  *)
  NotificationSize,  (* sizeof(NkeSocketFilterNotification)                      *)
  MaxNotifications,  (* Bound: the number of notifications sent.                 *)
  Notifier,          (* The kernel threads that call socketFilterNotification.   *)
  Terminator,        (* The thread that runs freeAllocatedResources.             *)
  NoThread

HeaderSize == 1    (* DATA_QUEUE_ENTRY_HEADER_SIZE *)
StopSize == 1      (* sizeof(UInt32) *)

(* The smallest capacity start() accepts is far above two notifications. *)
ASSUME SizeAssumption ==
  /\ NotificationSize \in Nat \ {0}
  /\ QueueSizes \subseteq Nat
  /\ \A q \in QueueSizes : q >= 2 * (HeaderSize + NotificationSize)
  /\ MaxNotifications \in Nat
ASSUME ThreadAssumption == Terminator \notin Notifier /\ NoThread \notin Notifier \cup {Terminator}

Thread == Notifier \cup {Terminator}

NoMessage == 0                        (* nothing, or torn *)
Notification == 1 .. MaxNotifications
Stop == MaxNotifications + 1          (* kt_NkeStopListeningToMessages *)
Message == Notification \cup {Stop}

DataSize(m) == IF m = Stop THEN StopSize ELSE NotificationSize
EntrySize(m) == DataSize(m) + HeaderSize

VARIABLES
  storeBuffers,        (* whether the processors delay stores; never changes      *)
  queueSize,           (* dataQueue->queueSize                                    *)
  queue,               (* the cells of dataQueue->queue                           *)
  head, tail,          (* dataQueue->head, dataQueue->tail as memory holds them   *)
  delayedHead, delayedTail,  (* stores on their way to memory                     *)
  queuePort,           (* setNotificationPort was called                          *)
  fNotificationPorts,  (* the port is known to socketFilterNotification           *)
  machMessage,         (* a message waits at the port; its queue limit is one     *)
  fLock,
  sent,                (* notifications begun                                     *)
  sending,             (* the message of a thread                                 *)
  pc,
  localHead, localTail, place,   (* locals of enqueueWithBarrier                  *)
  client,              (* where the client's loop is                              *)
  entry, newHead, copied,        (* locals of IODataQueueDequeue                  *)
  received,            (* the last message the client took                        *)
  unread               (* history: the entries published and not taken            *)

memory == <<queue, head, tail, delayedHead, delayedTail>>
ports == <<queuePort, fNotificationPorts, machMessage>>
writers == <<fLock, sent, sending, pc, localHead, localTail, place>>
reader == <<client, entry, newHead, copied, received>>
machine == <<storeBuffers, queueSize>>
vars == <<machine, memory, ports, writers, reader, unread>>

NoStore == -1

SizeCell(n) == [size |-> n, data |-> NoMessage]
DataCell(m) == [size |-> 0, data |-> m]

Init ==
  /\ storeBuffers \in BOOLEAN
  /\ queueSize \in QueueSizes
  /\ queue = [c \in 0 .. queueSize - 1 |-> SizeCell(0)]
  /\ head = 0 /\ tail = 0
  /\ delayedHead = NoStore /\ delayedTail = NoStore
  /\ queuePort = FALSE /\ fNotificationPorts = FALSE /\ machMessage = FALSE
  /\ fLock = NoThread
  /\ sent = 0
  /\ sending = [t \in Thread |-> NoMessage]
  /\ pc = [t \in Thread |-> "idle"]
  /\ localHead = 0 /\ localTail = 0 /\ place = 0
  /\ client = "start"
  /\ entry = 0 /\ newHead = 0 /\ copied = NoMessage /\ received = NoMessage
  /\ unread = <<>>

Goto(t, label) == pc' = [pc EXCEPT ![t] = label]

-----------------------------------------------------------------------------
(***************************************************************************)
(* Store buffers: a thread sees its own delayed store, the other side does  *)
(* not until the store is performed.                                        *)
(***************************************************************************)
TailSeenByWriter == IF delayedTail = NoStore THEN tail ELSE delayedTail
HeadSeenByReader == IF delayedHead = NoStore THEN head ELSE delayedHead

PerformTail ==
  /\ delayedTail # NoStore
  /\ tail' = delayedTail
  /\ delayedTail' = NoStore
  /\ UNCHANGED <<machine, queue, head, delayedHead, ports, writers, reader, unread>>

PerformHead ==
  /\ delayedHead # NoStore
  /\ head' = delayedHead
  /\ delayedHead' = NoStore
  /\ UNCHANGED <<machine, queue, tail, delayedTail, ports, writers, reader, unread>>

-----------------------------------------------------------------------------
(***************************************************************************)
(* socketFilterNotification: no port, no notification.  A thread gets the   *)
(* client to call it from the reference that NkeIOUserClientRef models.     *)
(***************************************************************************)
SocketFilterNotification(t) ==
  /\ pc[t] = "idle"
  /\ pc[Terminator] \in {"idle", "unregister"}
  /\ fNotificationPorts
  /\ sent < MaxNotifications
  /\ sent' = sent + 1
  /\ sending' = [sending EXCEPT ![t] = sent + 1]
  /\ Goto(t, "lock")
  /\ UNCHANGED <<machine, memory, ports, fLock, localHead, localTail, place, reader, unread>>

Lock(t) ==
  /\ pc[t] = "lock"
  /\ fLock = NoThread
  /\ fLock' = t
  /\ Goto(t, "enqueue")
  /\ UNCHANGED <<machine, memory, ports, sent, sending, localHead, localTail, place,
                 reader, unread>>

(* stopLogging forgets the port, takes the client off the reference and     *)
(* waits until no thread uses it; freeAllocatedResources then sends the     *)
(* last message, without the lock.                                          *)
StopLogging ==
  /\ pc[Terminator] = "idle"
  /\ fNotificationPorts' = FALSE
  /\ Goto(Terminator, "unregister")
  /\ UNCHANGED <<machine, memory, queuePort, machMessage, fLock, sent, sending, localHead,
                 localTail, place, reader, unread>>

UnregisterUserClient ==
  /\ pc[Terminator] = "unregister"
  /\ Goto(Terminator, "drain")
  /\ UNCHANGED <<machine, memory, ports, fLock, sent, sending, localHead, localTail, place,
                 reader, unread>>

NobodyNotifies == \A t \in Notifier : pc[t] = "idle"

FreeAllocatedResources ==
  /\ pc[Terminator] = "drain"
  /\ NobodyNotifies
  /\ sending' = [sending EXCEPT ![Terminator] = Stop]
  /\ Goto(Terminator, "enqueue")
  /\ UNCHANGED <<machine, memory, ports, fLock, sent, localHead, localTail, place, reader,
                 unread>>

-----------------------------------------------------------------------------
(***************************************************************************)
(* enqueueWithBarrier.                                                      *)
(***************************************************************************)
RoomUnchecked(size) == tail >= head

RoomToSpare(size) == tail >= head /\ tail + size < queueSize

RoomAtEnd(size) == tail >= head /\ tail + size <= queueSize

RoomAtBeginning(size) == tail >= head /\ tail + size > queueSize /\ head > size

AnyRoomBeforeHead(size) == tail < head

RoomBeforeHead(size) == tail < head /\ head - tail > size

(* The head and the tail are sampled once, and room is looked for. *)
Sample(t) ==
  LET size == EntrySize(sending[t]) IN
  /\ pc[t] = "enqueue"
  /\ localHead' = head
  /\ localTail' = tail
  /\ \/ /\ RoomAtEnd(size) \/ RoomBeforeHead(size)
        /\ place' = tail
        /\ Goto(t, "writeSize")
     \/ /\ RoomAtBeginning(size)
        /\ place' = 0
        /\ Goto(t, "writeSize")
     \/ /\ ~ (RoomAtEnd(size) \/ RoomBeforeHead(size) \/ RoomAtBeginning(size))
        /\ Goto(t, "full")
        /\ UNCHANGED place
  /\ UNCHANGED <<machine, memory, ports, fLock, sent, sending, reader, unread>>

SizeAtPlaceOnly == {place}

(* After a wrap the size is written at the old tail as well if it fits,     *)
(* where the client looks for it.                                           *)
SizeCells ==
  {place} \cup {c \in {localTail} : place # localTail /\ queueSize - localTail >= HeaderSize}

WriteSize(t) ==
  /\ pc[t] = "writeSize"
  /\ queue' = [c \in DOMAIN queue |->
                 IF c \in SizeCells THEN SizeCell(DataSize(sending[t])) ELSE queue[c]]
  /\ Goto(t, "writeData")
  /\ UNCHANGED <<machine, head, tail, delayedHead, delayedTail, ports, fLock, sent, sending,
                 localHead, localTail, place, reader, unread>>

DataCells(at, size) == at + HeaderSize .. at + HeaderSize + size - 1

WriteData(t) ==
  /\ pc[t] = "writeData"
  /\ queue' = [c \in DOMAIN queue |->
                 IF c \in DataCells(place, DataSize(sending[t]))
                 THEN DataCell(sending[t]) ELSE queue[c]]
  /\ Goto(t, "storeTail")
  /\ UNCHANGED <<machine, head, tail, delayedHead, delayedTail, ports, fLock, sent, sending,
                 localHead, localTail, place, reader, unread>>

(* The barrier orders the entry before the tail; nothing orders the tail    *)
(* before the load of the head that follows.                                *)
StoreTail(t) ==
  LET newTail == place + EntrySize(sending[t]) IN
  /\ pc[t] = "storeTail"
  /\ IF storeBuffers
     THEN delayedTail' = newTail /\ UNCHANGED tail
     ELSE tail' = newTail /\ UNCHANGED delayedTail
  /\ unread' = Append(unread, [at |-> place, message |-> sending[t]])
  /\ Goto(t, "checkEmptied")
  /\ UNCHANGED <<machine, queue, head, delayedHead, ports, fLock, sent, sending, localHead,
                 localTail, place, reader>>

NotifyIfEmptyBefore == localHead = localTail

(* The queue was empty prior to enqueue, or was emptied during enqueue. *)
MustNotify == localHead = localTail \/ head = localTail

CheckEmptied(t) ==
  /\ pc[t] = "checkEmptied"
  /\ Goto(t, IF MustNotify THEN "notify" ELSE "unlock")
  /\ UNCHANGED <<machine, memory, ports, fLock, sent, sending, localHead, localTail, place,
                 reader, unread>>

(* A message to a port that has one is dropped; so is one to no port.  The  *)
(* locked instructions of mach_msg empty the store buffer first.            *)
SendDataAvailableNotification(t) ==
  /\ pc[t] = "notify"
  /\ delayedTail = NoStore
  /\ machMessage' = (machMessage \/ queuePort)
  /\ Goto(t, "unlock")
  /\ UNCHANGED <<machine, memory, queuePort, fNotificationPorts, fLock, sent, sending,
                 localHead, localTail, place, reader, unread>>

(* The lock's own locked instruction empties the store buffer; the locals   *)
(* of enqueueWithBarrier are gone.                                          *)
Unlock(t) ==
  /\ pc[t] \in {"unlock", "full"}
  /\ delayedTail = NoStore
  /\ fLock' = IF fLock = t THEN NoThread ELSE fLock
  /\ sending' = [sending EXCEPT ![t] = NoMessage]
  /\ localHead' = 0 /\ localTail' = 0 /\ place' = 0
  /\ Goto(t, IF t = Terminator THEN "stopped" ELSE "idle")
  /\ UNCHANGED <<machine, memory, ports, sent, reader, unread>>

-----------------------------------------------------------------------------
(***************************************************************************)
(* The client: registerNotificationPort, called for it by IOKit, then the   *)
(* loop of NkeSocketHandler.                                                *)
(***************************************************************************)
QueueReleased == pc[Terminator] = "stopped"

SetNotificationPort ==
  /\ client = "start"
  /\ IF QueueReleased
     THEN client' = "gone" /\ UNCHANGED queuePort
     ELSE client' = "registering" /\ queuePort' = TRUE
  /\ UNCHANGED <<machine, memory, fNotificationPorts, machMessage, writers, entry, newHead,
                 copied, received, unread>>

RegisterNotificationPort ==
  /\ client = "registering"
  /\ fNotificationPorts' = TRUE
  /\ client' = "wait"
  /\ UNCHANGED <<machine, memory, queuePort, machMessage, writers, entry, newHead, copied,
                 received, unread>>

(* IODataQueueWaitForAvailableData receives one message from the port, and  *)
(* does not look at the queue; the system call empties the store buffer.    *)
WaitForAvailableData ==
  /\ client = "wait"
  /\ delayedHead = NoStore
  /\ machMessage
  /\ machMessage' = FALSE
  /\ client' = "check"
  /\ UNCHANGED <<machine, memory, queuePort, fNotificationPorts, writers, entry, newHead,
                 copied, received, unread>>

DataAvailable ==
  /\ client = "check"
  /\ client' = IF HeadSeenByReader # tail THEN "dequeue" ELSE "wait"
  /\ UNCHANGED <<machine, memory, ports, writers, entry, newHead, copied, received, unread>>

WrappedAt(h) ==
  \/ h + HeaderSize > queueSize
  \/ h + queue[h].size + HeaderSize > queueSize

(* The size at the head says where the entry is. *)
LocateEntry ==
  LET h == HeadSeenByReader
      at == IF WrappedAt(h) THEN 0 ELSE h
  IN
  /\ client = "dequeue"
  /\ entry' = at
  /\ newHead' = at + queue[at].size + HeaderSize
  /\ client' = "copy"
  /\ UNCHANGED <<machine, memory, ports, writers, copied, received, unread>>

(* What the client copies is a message only if no cell of it is another's. *)
CopyEntry ==
  LET cells == DataCells(entry, queue[entry].size) \cap DOMAIN queue
      whole == {m \in Message : cells # {} /\ \A c \in cells : queue[c] = DataCell(m)}
  IN
  /\ client = "copy"
  /\ copied' = IF whole = {} THEN NoMessage ELSE CHOOSE m \in whole : TRUE
  /\ client' = "storeHead"
  /\ UNCHANGED <<machine, memory, ports, writers, entry, newHead, received, unread>>

StoreHead ==
  /\ client = "storeHead"
  /\ delayedHead = NoStore
  /\ IF storeBuffers
     THEN delayedHead' = newHead /\ UNCHANGED head
     ELSE head' = newHead /\ UNCHANGED delayedHead
  /\ received' = copied
  /\ unread' = SubSeq(unread, 2, Len(unread))
  /\ entry' = 0 /\ newHead' = 0 /\ copied' = NoMessage
  /\ client' = "check"
  /\ UNCHANGED <<machine, queue, tail, delayedTail, ports, writers>>

-----------------------------------------------------------------------------
WriterStep(t) ==
  \/ Lock(t) \/ Sample(t) \/ WriteSize(t) \/ WriteData(t) \/ StoreTail(t)
  \/ CheckEmptied(t) \/ SendDataAvailableNotification(t) \/ Unlock(t)

ClientStep ==
  \/ SetNotificationPort \/ RegisterNotificationPort
  \/ WaitForAvailableData \/ DataAvailable \/ LocateEntry \/ CopyEntry \/ StoreHead

MemoryStep == PerformTail \/ PerformHead

Next ==
  \/ \E t \in Notifier : SocketFilterNotification(t)
  \/ \E t \in Thread : WriterStep(t)
  \/ StopLogging \/ UnregisterUserClient \/ FreeAllocatedResources
  \/ ClientStep
  \/ MemoryStep

Spec == Init /\ [][Next]_vars

(***************************************************************************)
(* Threads run on, the client's as long as its process lives, and every     *)
(* store reaches memory.  Nobody need send or stop.                         *)
(***************************************************************************)
Fairness ==
  /\ \A t \in Thread : WF_vars(WriterStep(t))
  /\ WF_vars(ClientStep)
  /\ WF_vars(PerformTail)
  /\ WF_vars(PerformHead)

FairSpec == Spec /\ Fairness

-----------------------------------------------------------------------------
Cell == [size : Nat, data : Message \cup {NoMessage}]

PcState == {"idle", "lock", "enqueue", "writeSize", "writeData", "storeTail",
            "checkEmptied", "notify", "unlock", "full", "unregister", "drain", "stopped"}

ClientState == {"start", "gone", "registering", "wait", "check", "dequeue", "copy", "storeHead"}

(* Every variable has its type; the head and the tail stay in the queue, and *)
(* may be one past its last cell.                                            *)
TypeOK ==
  /\ storeBuffers \in BOOLEAN
  /\ queueSize \in QueueSizes
  /\ queue \in [0 .. queueSize - 1 -> Cell]
  /\ {head, tail, localHead, localTail, place, entry, newHead} \subseteq 0 .. queueSize
  /\ delayedHead \in {NoStore} \cup 0 .. queueSize
  /\ delayedTail \in {NoStore} \cup 0 .. queueSize
  /\ {queuePort, fNotificationPorts, machMessage} \subseteq BOOLEAN
  /\ fLock \in Thread \cup {NoThread}
  /\ sent \in 0 .. MaxNotifications
  /\ sending \in [Thread -> Message \cup {NoMessage}]
  /\ pc \in [Thread -> PcState]
  /\ client \in ClientState
  /\ {copied, received} \subseteq Message \cup {NoMessage}
  /\ unread \in Seq([at : 0 .. queueSize, message : Message])

(***************************************************************************)
(* What was published and not taken is in memory as it was written: no      *)
(* later entry, and no size written at an old tail, overwrites it.          *)
(***************************************************************************)
EntriesIntact ==
  \A i \in 1 .. Len(unread) :
    LET e == unread[i] IN
    /\ queue[e.at] = SizeCell(DataSize(e.message))
    /\ \A c \in DataCells(e.at, DataSize(e.message)) : queue[c] = DataCell(e.message)

(***************************************************************************)
(* The ring of cells implements the queue: the client takes every message   *)
(* whole, once and in order, with delayed stores as well.                   *)
(***************************************************************************)
Queued == INSTANCE NotificationQueue
  WITH queue <- [i \in DOMAIN unread |-> unread[i].message], received <- received

ImplementsNotificationQueue == Queued!Spec

(* The client waits for a message that nobody is about to send, and all     *)
(* stores have been performed.                                              *)
Asleep ==
  /\ client = "wait" /\ ~ machMessage
  /\ \A t \in Thread : pc[t] \notin {"checkEmptied", "notify"}
  /\ delayedHead = NoStore /\ delayedTail = NoStore

(***************************************************************************)
(* The client never sleeps on a queue that holds data, which nothing would  *)
(* end: a later enqueue finds the queue not empty and sends no message.     *)
(* enqueueWithBarrier says it covers the queue "emptied during enqueue".    *)
(* (The stop message sent to a client that has no port yet is not heard.)   *)
(***************************************************************************)
NoLostWakeup == Asleep => unread = <<>> \/ sent = 0

(* ... which it does where the processors do not delay stores. *)
WakeupInOrder == ~ storeBuffers => NoLostWakeup

(***************************************************************************)
(* A notification is refused only while others are unread: an empty queue   *)
(* has room wherever the head and the tail have come to rest, or else it    *)
(* would refuse for ever.                                                   *)
(***************************************************************************)
RefusedOnlyIfUnread ==
  [][\A t \in Thread : pc[t] = "enqueue" /\ pc'[t] = "full" => head # tail]_pc

(***************************************************************************)
(* Every notification in the queue is read, and so is the stop message of a *)
(* client that was sent any.                                                *)
(***************************************************************************)
MessageIsRead ==
  \A m \in Message :
    ~ storeBuffers /\ (\E i \in DOMAIN unread : unread[i].message = m) ~> received = m \/ sent = 0
=============================================================================
