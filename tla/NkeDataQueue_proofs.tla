------------------------- MODULE NkeDataQueue_proofs -------------------------
(***************************************************************************)
(* The data queue implements NotificationQueue for rings of any capacity,   *)
(* notifications of any size and number, and any notifying threads: nothing *)
(* unread is overwritten, and the client takes the messages whole, once and *)
(* in order, whether or not the processors delay their stores.  The last    *)
(* part is about waking the client.                                         *)
(***************************************************************************)
EXTENDS NkeDataQueue, SequenceTheorems, TLAPS

(* The threads in enqueueWithBarrier, and those between Sample and StoreTail. *)
Busy == {"enqueue", "writeSize", "writeData", "storeTail", "checkEmptied", "notify", "unlock",
         "full"}

Writing == {"writeSize", "writeData", "storeTail"}

(***************************************************************************)
(* One thread writes at a time: notifying threads by the lock, and the      *)
(* terminating one because no thread notifies any more.                     *)
(***************************************************************************)
OneWriter ==
  /\ \A t \in Notifier : pc[t] \in Busy => fLock = t
  /\ pc[Terminator] \in Busy \cup {"stopped"} => NobodyNotifies
  /\ pc[Terminator] # "lock"
  /\ \A t \in Thread : pc[t] \in Busy \cup {"lock"} => sending[t] \in Message
  /\ delayedTail # NoStore => \E t \in Thread : pc[t] \in {"checkEmptied", "notify", "unlock"}

(* The head memory has, that of the client and the tail go round the ring.  *)
InOrder(h, ch, ct) == (h <= ch /\ ch <= ct) \/ (ct < h /\ h <= ch) \/ (ch <= ct /\ ct < h)

EndOf(e) == e.at + EntrySize(e.message)

(* An unread entry, from a to b, lies between the head and the tail. *)
Between(a, b, ch, ct) ==
  \/ ch <= a /\ b <= ct
  \/ ct < ch /\ ch <= a /\ b <= queueSize
  \/ ct < ch /\ b <= ct

Placed(e, ch, ct) == Between(e.at, EndOf(e), ch, ct)

(* It is before another one, from c to d, in the queue. *)
Before(a, b, c, d, ch, ct) ==
  \/ b <= c /\ (ct < ch /\ b <= ct => d <= ct)
  \/ ct < ch /\ ch <= a /\ d <= ct

Precedes(e, f, ch, ct) == Before(e.at, EndOf(e), f.at, EndOf(f), ch, ct)

(* The client that is at x finds e next. *)
Follows(x, e, ch, ct) ==
  \/ e.at = x /\ EndOf(e) <= queueSize
  \/ /\ e.at = 0 /\ ct < ch /\ ch <= x /\ EntrySize(e.message) + x > queueSize
     /\ x + HeaderSize <= queueSize => queue[x] = SizeCell(DataSize(e.message))

EndBefore(i) == IF i = 1 THEN HeadSeenByReader ELSE EndOf(unread[i - 1])

Ring ==
  LET ch == HeadSeenByReader
      ct == TailSeenByWriter
  IN
  /\ InOrder(head, ch, ct)
  /\ \A i \in 1 .. Len(unread) :
       Placed(unread[i], ch, ct) /\ Follows(EndBefore(i), unread[i], ch, ct)
  /\ \A i, j \in 1 .. Len(unread) : i < j => Precedes(unread[i], unread[j], ch, ct)
  /\ EndBefore(Len(unread) + 1) = ct
  /\ delayedTail # NoStore => Len(unread) > 0 /\ EndBefore(Len(unread)) = tail

(* The room that was found stays free, as the head moves away from it. *)
RoomFor(size) ==
  \/ place = tail /\ head <= tail /\ tail + size <= queueSize
  \/ place = tail /\ tail < head /\ tail + size < head
  \/ place = 0 /\ head <= tail /\ tail + size > queueSize /\ size < head

(* What a thread has written of its entry. *)
InFlightOf(t) ==
  LET size == DataSize(sending[t]) IN
  /\ pc[t] \in Writing => localTail = tail /\ RoomFor(EntrySize(sending[t]))
  /\ pc[t] \in {"writeData", "storeTail"} =>
       /\ queue[place] = SizeCell(size)
       /\ place # localTail /\ localTail + HeaderSize <= queueSize =>
            queue[localTail] = SizeCell(size)
  /\ pc[t] = "storeTail" => \A c \in DataCells(place, size) : queue[c] = DataCell(sending[t])

InFlight == \A t \in Thread : InFlightOf(t)

(* The client has located the first unread entry. *)
Reading ==
  /\ client \in {"dequeue", "copy", "storeHead"} =>
       Len(unread) > 0 /\ (delayedTail # NoStore => Len(unread) > 1)
  /\ client \in {"copy", "storeHead"} =>
       entry = unread[1].at /\ newHead = EndOf(unread[1])
  /\ client = "storeHead" => copied = unread[1].message

QInv == TypeOK /\ OneWriter /\ Ring /\ EntriesIntact /\ InFlight /\ Reading

UnreadEntry == [at : 0 .. queueSize, message : Message]

USE DEF HeaderSize, StopSize, NoStore

-----------------------------------------------------------------------------
(* Sizes and types.                                                        *)

(* An entry is a header and its data, and two of them fit in the ring. *)
LEMMA Sizes ==
  ASSUME NEW q \in QueueSizes
  PROVE  /\ q \in Nat
         /\ \A m \in Message :
              /\ DataSize(m) \in Nat /\ DataSize(m) >= 1
              /\ EntrySize(m) \in Nat /\ EntrySize(m) = DataSize(m) + 1
              /\ 2 * EntrySize(m) <= q
BY SizeAssumption DEF DataSize, EntrySize

(* What the type invariant says of the variables, one by one. *)
LEMMA Types ==
  ASSUME TypeOK
  PROVE  /\ queueSize \in QueueSizes /\ queueSize \in Nat
         /\ queue \in [0 .. queueSize - 1 -> Cell]
         /\ head \in 0 .. queueSize /\ tail \in 0 .. queueSize
         /\ localHead \in 0 .. queueSize /\ localTail \in 0 .. queueSize
         /\ place \in 0 .. queueSize /\ entry \in 0 .. queueSize /\ newHead \in 0 .. queueSize
         /\ HeadSeenByReader \in 0 .. queueSize /\ TailSeenByWriter \in 0 .. queueSize
         /\ unread \in Seq(UnreadEntry) /\ Len(unread) \in Nat
         /\ pc \in [Thread -> PcState] /\ sending \in [Thread -> Message \cup {NoMessage}]
         /\ sent \in 0 .. MaxNotifications
<1>1. queueSize \in QueueSizes /\ queueSize \in Nat
  BY SizeAssumption DEF TypeOK
<1>2. HeadSeenByReader \in 0 .. queueSize /\ TailSeenByWriter \in 0 .. queueSize
  BY DEF TypeOK, HeadSeenByReader, TailSeenByWriter
<1>3. unread \in Seq(UnreadEntry) /\ Len(unread) \in Nat
  BY LenProperties DEF TypeOK, UnreadEntry
<1>4. QED
  BY <1>1, <1>2, <1>3 DEF TypeOK

(* ... and of an unread entry. *)
LEMMA EntryTypes ==
  ASSUME TypeOK, NEW i \in 1 .. Len(unread)
  PROVE  /\ unread[i] \in UnreadEntry
         /\ unread[i].at \in 0 .. queueSize /\ unread[i].message \in Message
         /\ EndOf(unread[i]) \in Nat
         /\ EndOf(unread[i]) = unread[i].at + DataSize(unread[i].message) + 1
         /\ DataSize(unread[i].message) \in Nat /\ DataSize(unread[i].message) >= 1
         /\ EntrySize(unread[i].message) = DataSize(unread[i].message) + 1
<1>1. unread[i] \in UnreadEntry
  BY Types, ElementOfSeq
<1>2. unread[i].at \in 0 .. queueSize /\ unread[i].message \in Message
  BY <1>1 DEF UnreadEntry
<1>3. \A m \in Message :
        /\ DataSize(m) \in Nat /\ DataSize(m) >= 1
        /\ EntrySize(m) \in Nat /\ EntrySize(m) = DataSize(m) + 1
  BY Types, Sizes
<1>4. EntrySize(unread[i].message) = DataSize(unread[i].message) + 1
  BY <1>2, <1>3
<1>5. DataSize(unread[i].message) \in Nat /\ DataSize(unread[i].message) >= 1
  BY <1>2, <1>3
<1>6. EndOf(unread[i]) = unread[i].at + DataSize(unread[i].message) + 1
      /\ EndOf(unread[i]) \in Nat
  <2>1. unread[i].at \in Int
    BY <1>2, Types
  <2>2. unread[i].at \in Nat
    BY <1>2, <2>1, Types
  <2>3. \A a, s, d \in Nat : s = d + 1 => a + s = a + d + 1 /\ a + s \in Nat
    OBVIOUS
  <2>4. EntrySize(unread[i].message) \in Nat
    BY <1>2, <1>3
  <2>5. QED
    BY <2>2, <2>3, <2>4, <1>4, <1>5 DEF EndOf
<1>7. QED
  BY <1>1, <1>2, <1>4, <1>5, <1>6

(* Two threads are not in enqueueWithBarrier. *)
LEMMA Alone ==
  ASSUME OneWriter, NEW t \in Thread, NEW u \in Thread, pc[t] \in Busy, pc[u] \in Busy
  PROVE  t = u
<1>1. ASSUME NEW v \in Thread, NEW w \in Notifier, pc[v] \in Busy, pc[w] \in Busy
      PROVE  v = w
  <2>1. CASE v = Terminator
    BY <1>1, <2>1 DEF OneWriter, NobodyNotifies, Busy
  <2>2. CASE v \in Notifier
    BY <1>1, <2>2 DEF OneWriter
  <2>3. QED
    BY <2>1, <2>2 DEF Thread
<1>2. CASE u \in Notifier
  BY <1>1, <1>2
<1>3. CASE t \in Notifier
  <2>1. u = t
    BY <1>1, <1>3
  <2>2. QED
    BY <2>1
<1>4. QED
  BY <1>2, <1>3 DEF Thread

(* The tail is in memory while a thread fills an entry: its last lock or mach_msg saw to it. *)
LEMMA StoredWhileWriting ==
  ASSUME OneWriter, NEW t \in Thread, pc[t] \in Busy,
         pc[t] \notin {"checkEmptied", "notify", "unlock"}
  PROVE  delayedTail = NoStore /\ TailSeenByWriter = tail
BY Alone DEF OneWriter, Busy, TailSeenByWriter

(* Where the client finds the next entry. *)
LEMMA Located ==
  ASSUME TypeOK, Ring, EntriesIntact, Len(unread) > 0
  PROVE  LET h == HeadSeenByReader
             e == unread[1]
         IN  /\ e.at = IF WrappedAt(h) THEN 0 ELSE h
             /\ e.at \in 0 .. queueSize - 1
             /\ queue[e.at].size = DataSize(e.message)
             /\ EndOf(e) <= queueSize
<1> DEFINE h == HeadSeenByReader
           ct == TailSeenByWriter
           e == unread[1]
           d == DataSize(e.message)
<1>1. /\ 1 \in 1 .. Len(unread) /\ h \in 0 .. queueSize /\ ct \in 0 .. queueSize
      /\ queueSize \in Nat
  BY Types
<1>2. /\ Placed(e, h, ct) /\ Follows(h, e, h, ct)
      /\ queue[e.at] = SizeCell(d)
  BY <1>1 DEF Ring, EndBefore, EntriesIntact
<1>3. /\ e.at \in 0 .. queueSize /\ d \in Nat /\ d >= 1
      /\ EntrySize(e.message) = d + 1 /\ EndOf(e) = e.at + d + 1
  BY <1>1, EntryTypes
<1>4. SizeCell(d).size = d
  BY DEF SizeCell
<1> HIDE DEF h, ct, d
<1>5. EndOf(e) <= queueSize
  BY <1>1, <1>2, <1>3 DEF Placed, Between
<1>6. CASE e.at = h
  <2>1. queue[h].size = d
    BY <1>2, <1>4, <1>6
  <2>2. h + 1 <= queueSize /\ ~ (h + queue[h].size + 1 > queueSize)
    BY <1>1, <1>3, <1>5, <1>6, <2>1
  <2>3. ~ WrappedAt(h)
    BY <1>1, <1>3, <2>1, <2>2 DEF WrappedAt
  <2>4. e.at \in 0 .. queueSize - 1 /\ queue[e.at].size = d
    BY <1>1, <1>6, <2>1, <2>2
  <2>5. QED
    BY <1>5, <1>6, <2>3, <2>4 DEF h, d
<1>7. CASE e.at # h
  <2>1. e.at = 0 /\ d + 1 + h > queueSize /\ (h + 1 <= queueSize => queue[h] = SizeCell(d))
    BY <1>2, <1>3, <1>7 DEF Follows, d
  <2>2. h + 1 <= queueSize => queue[h].size = d
    BY <2>1, <1>4
  <2>3. WrappedAt(h)
    BY <1>1, <1>3, <2>1, <2>2 DEF WrappedAt
  <2>4. e.at \in 0 .. queueSize - 1 /\ queue[e.at].size = d
    BY <1>1, <1>2, <1>3, <1>4, <1>5, <2>1
  <2>5. QED
    BY <1>5, <2>1, <2>3, <2>4 DEF h, d
<1>8. QED
  BY <1>6, <1>7

(* What a thread that is writing its entry knows. *)
LEMMA WriterPlace ==
  ASSUME QInv, NEW t \in Thread, pc[t] \in Writing
  PROVE  /\ sending[t] \in Message
         /\ DataSize(sending[t]) \in Nat /\ DataSize(sending[t]) >= 1
         /\ EntrySize(sending[t]) = DataSize(sending[t]) + 1
         /\ 2 * EntrySize(sending[t]) <= queueSize
         /\ delayedTail = NoStore /\ TailSeenByWriter = tail /\ localTail = tail
         /\ RoomFor(EntrySize(sending[t]))
         /\ place \in Nat /\ place + EntrySize(sending[t]) \in 1 .. queueSize
<1>1. pc[t] \in Busy /\ pc[t] \notin {"checkEmptied", "notify", "unlock"}
  BY DEF Writing, Busy
<1>2. delayedTail = NoStore /\ TailSeenByWriter = tail
  BY <1>1, StoredWhileWriting DEF QInv
<1>3. sending[t] \in Message
  BY <1>1 DEF QInv, OneWriter
<1>4. localTail = tail /\ RoomFor(EntrySize(sending[t]))
  BY DEF QInv, InFlight, InFlightOf
<1>5. queueSize \in QueueSizes /\ TypeOK
  BY Types DEF QInv
<1>6. \A m \in Message :
        /\ DataSize(m) \in Nat /\ DataSize(m) >= 1
        /\ EntrySize(m) \in Nat /\ EntrySize(m) = DataSize(m) + 1 /\ 2 * EntrySize(m) <= queueSize
  BY <1>5, Sizes
<1>7. /\ DataSize(sending[t]) \in Nat /\ DataSize(sending[t]) >= 1
      /\ EntrySize(sending[t]) = DataSize(sending[t]) + 1
      /\ EntrySize(sending[t]) \in Nat /\ 2 * EntrySize(sending[t]) <= queueSize
  BY <1>3, <1>6
<1> DEFINE s == EntrySize(sending[t])
<1>8. s \in Nat /\ s >= 2 /\ 2 * s <= queueSize /\ RoomFor(s)
  BY <1>4, <1>7
<1> HIDE DEF s
<1>9. place \in 0 .. queueSize /\ head \in 0 .. queueSize /\ tail \in 0 .. queueSize /\ queueSize \in Nat
  BY <1>5, Types
<1>10. place \in Nat /\ place + s \in 1 .. queueSize
  BY <1>8, <1>9 DEF RoomFor
<1>11. QED
  BY <1>2, <1>3, <1>4, <1>7, <1>10 DEF s

-----------------------------------------------------------------------------
(* Every step keeps the types: those of a thread that enqueues ... *)

LEMMA WriterStepTypes ==
  ASSUME QInv, NEW t \in Thread, WriterStep(t)
  PROVE  TypeOK'
<1>0. TypeOK /\ queueSize \in Nat /\ place \in 0 .. queueSize /\ head \in 0 .. queueSize
      /\ tail \in 0 .. queueSize /\ newHead \in 0 .. queueSize /\ Len(unread) \in Nat
  BY Types DEF QInv
<1> USE <1>0 DEF TypeOK, machine, memory, ports, writers, reader, Goto
<1> DEFINE m == sending[t]
<1>1. CASE Lock(t)
  BY <1>1 DEF Lock, PcState
<1>2. CASE Sample(t)
  BY <1>2 DEF Sample, PcState
<1>3. CASE WriteSize(t)
  <2>1. DataSize(m) \in Nat
    BY <1>3, WriterPlace DEF WriteSize, Writing
  <2>2. SizeCell(DataSize(m)) \in Cell
    BY <2>1 DEF SizeCell, Cell
  <2>3. queue' \in [0 .. queueSize - 1 -> Cell]
    BY <1>3, <2>2 DEF WriteSize
  <2>4. QED
    BY <1>3, <2>3 DEF WriteSize, PcState
<1>4. CASE WriteData(t)
  <2>1. m \in Message
    BY <1>4, WriterPlace DEF WriteData, Writing
  <2>2. DataCell(m) \in Cell
    BY <2>1 DEF DataCell, Cell
  <2>3. queue' \in [0 .. queueSize - 1 -> Cell]
    BY <1>4, <2>2 DEF WriteData
  <2>4. QED
    BY <1>4, <2>3 DEF WriteData, PcState
<1>5. CASE StoreTail(t)
  <2>1. m \in Message /\ place + EntrySize(m) \in 0 .. queueSize
    <3>1. pc[t] \in Writing
      BY <1>5 DEF StoreTail, Writing
    <3> HIDE DEF TypeOK
    <3>2. m \in Message /\ place + EntrySize(m) \in 1 .. queueSize
      BY <3>1, WriterPlace
    <3>3. QED
      BY <3>2
  <2>2. unread' \in Seq(UnreadEntry)
    <3>1. [at |-> place, message |-> m] \in UnreadEntry
      BY <2>1 DEF UnreadEntry
    <3>2. unread \in Seq(UnreadEntry)
      BY DEF UnreadEntry
    <3>3. QED
      BY <1>5, <3>1, <3>2, AppendProperties DEF StoreTail
  <2>3. QED
    BY <1>5, <2>1, <2>2 DEF StoreTail, PcState, UnreadEntry
<1>6. CASE CheckEmptied(t)
  BY <1>6 DEF CheckEmptied, PcState
<1>7. CASE SendDataAvailableNotification(t)
  BY <1>7 DEF SendDataAvailableNotification, PcState
<1>8. CASE Unlock(t)
  BY <1>8 DEF Unlock, PcState
<1>9. QED
  BY <1>1, <1>2, <1>3, <1>4, <1>5, <1>6, <1>7, <1>8 DEF WriterStep

(* Taking an entry off the history. *)
LEMMA Taken ==
  ASSUME TypeOK, Len(unread) > 0, StoreHead
  PROVE  /\ unread' \in Seq(UnreadEntry)
         /\ Len(unread') = Len(unread) - 1
         /\ \A i \in 1 .. Len(unread') : unread'[i] = unread[i + 1] /\ i + 1 \in 1 .. Len(unread)
<1>1. unread \in Seq(UnreadEntry) /\ Len(unread) \in Nat /\ unread' = SubSeq(unread, 2, Len(unread))
  BY Types DEF StoreHead
<1> DEFINE n == Len(unread)
<1>2. n \in Nat /\ n > 0 /\ \A i \in 2 .. n : unread[i] \in UnreadEntry
  BY <1>1, ElementOfSeq
<1>3. 2 \in 1 .. n + 1 /\ n \in 2 - 1 .. n
  BY <1>2
<1>4. /\ unread' \in Seq(UnreadEntry)
      /\ Len(unread') = IF 2 <= n THEN n - 2 + 1 ELSE 0
      /\ \A i \in 1 .. n - 2 + 1 : unread'[i] = unread[2 + i - 1]
  BY <1>1, <1>2, <1>3, SubSeqProperties
<1> HIDE DEF n
<1>5. Len(unread') = n - 1
  BY <1>2, <1>4
<1>6. ASSUME NEW i \in 1 .. n - 1
      PROVE  unread'[i] = unread[i + 1] /\ i + 1 \in 1 .. n
  <2>1. i \in 1 .. n - 2 + 1 /\ 2 + i - 1 = i + 1
    BY <1>2
  <2>2. unread'[i] = unread[2 + i - 1]
    BY <1>4, <2>1
  <2>3. QED
    BY <1>2, <2>1, <2>2
<1>7. QED
  BY <1>4, <1>5, <1>6 DEF n

(* ... and the others. *)
LEMMA OtherStepTypes ==
  ASSUME QInv, Next, \A t \in Thread : ~ WriterStep(t)
  PROVE  TypeOK'
<1>0. TypeOK /\ queueSize \in Nat /\ place \in 0 .. queueSize /\ head \in 0 .. queueSize
      /\ tail \in 0 .. queueSize /\ newHead \in 0 .. queueSize /\ Len(unread) \in Nat
  BY Types DEF QInv
<1> USE <1>0 DEF TypeOK, machine, memory, ports, writers, reader, Goto
<1>1. ASSUME NEW t \in Notifier, SocketFilterNotification(t) PROVE TypeOK'
  <2>1. sent + 1 \in Message /\ sent + 1 \in 0 .. MaxNotifications /\ t \in Thread
    BY <1>1, SizeAssumption DEF SocketFilterNotification, Message, Notification, Thread
  <2>2. QED
    BY <1>1, <2>1 DEF SocketFilterNotification, PcState
<1>2. CASE StopLogging
  BY <1>2 DEF StopLogging, PcState
<1>3. CASE UnregisterUserClient
  BY <1>3 DEF UnregisterUserClient, PcState
<1>4. CASE FreeAllocatedResources
  BY <1>4 DEF FreeAllocatedResources, PcState, Message
<1>5. CASE SetNotificationPort
  BY <1>5 DEF SetNotificationPort, ClientState
<1>6. CASE RegisterNotificationPort
  BY <1>6 DEF RegisterNotificationPort, ClientState
<1>7. CASE WaitForAvailableData
  BY <1>7 DEF WaitForAvailableData, ClientState
<1>8. CASE DataAvailable
  BY <1>8 DEF DataAvailable, ClientState
<1>9. CASE LocateEntry
  <2>1. Len(unread) > 0
    BY <1>9 DEF LocateEntry, Reading, QInv
  <2>2. LET e == unread[1] IN
        /\ e.at \in 0 .. queueSize /\ EndOf(e) \in 0 .. queueSize
        /\ entry' = e.at /\ newHead' = e.at + DataSize(e.message) + 1
        /\ EndOf(e) = e.at + DataSize(e.message) + 1
    <3> DEFINE e == unread[1]
    <3> HIDE DEF TypeOK
    <3>1. 1 \in 1 .. Len(unread)
      BY <2>1
    <3>2. /\ e.at = (IF WrappedAt(HeadSeenByReader) THEN 0 ELSE HeadSeenByReader)
          /\ queue[e.at].size = DataSize(e.message) /\ EndOf(e) <= queueSize
      BY <2>1, Located DEF QInv
    <3>3. e.at \in 0 .. queueSize /\ EndOf(e) \in Nat /\ EndOf(e) = e.at + DataSize(e.message) + 1
      BY <3>1, EntryTypes
    <3> HIDE DEF e
    <3>4. entry' = e.at /\ newHead' = e.at + DataSize(e.message) + 1
      BY <1>9, <3>2 DEF LocateEntry
    <3>5. QED
      BY <3>2, <3>3, <3>4 DEF e
  <2>3. entry' \in 0 .. queueSize /\ newHead' \in 0 .. queueSize
    BY <2>2
  <2>4. QED
    BY <1>9, <2>3 DEF LocateEntry, ClientState
<1>10. CASE CopyEntry
  <2>1. copied' \in Message \cup {NoMessage}
    BY <1>10 DEF CopyEntry
  <2>2. QED
    BY <1>10, <2>1 DEF CopyEntry, ClientState
<1>11. CASE StoreHead
  <2>1. Len(unread) > 0
    BY <1>11 DEF StoreHead, Reading, QInv
  <2>2. unread' \in Seq([at : 0 .. queueSize, message : Message])
    BY <1>11, <2>1, Taken DEF UnreadEntry
  <2>3. QED
    BY <1>11, <2>2 DEF StoreHead, ClientState
<1>12. CASE PerformTail
  BY <1>12 DEF PerformTail
<1>13. CASE PerformHead
  BY <1>13 DEF PerformHead
<1>14. QED
  BY <1>1, <1>2, <1>3, <1>4, <1>5, <1>6, <1>7, <1>8, <1>9, <1>10, <1>11, <1>12, <1>13
  DEF Next, ClientStep, MemoryStep

-----------------------------------------------------------------------------
(* One thread writes at a time. *)

LEMMA OneWriterStep ==
  ASSUME TypeOK, OneWriter, Next
  PROVE  OneWriter'
<1> USE ThreadAssumption
    DEF OneWriter, NobodyNotifies, Busy, Goto, memory, writers, Thread
<1>0. pc \in [Thread -> PcState] /\ sending \in [Thread -> Message \cup {NoMessage}]
  BY Types
<1>1. ASSUME NEW t \in Notifier, SocketFilterNotification(t) PROVE OneWriter'
  <2>1. sent + 1 \in Message
    BY <1>1, Types, SizeAssumption DEF SocketFilterNotification, Message, Notification
  <2>2. QED
    BY <1>0, <1>1, <2>1 DEF SocketFilterNotification
<1>2. ASSUME NEW t \in Thread, Lock(t) PROVE OneWriter'
  BY <1>0, <1>2 DEF Lock
<1>3. ASSUME NEW t \in Thread, Sample(t) PROVE OneWriter'
  BY <1>0, <1>3 DEF Sample
<1>4. ASSUME NEW t \in Thread, WriteSize(t) PROVE OneWriter'
  BY <1>0, <1>4 DEF WriteSize
<1>5. ASSUME NEW t \in Thread, WriteData(t) PROVE OneWriter'
  BY <1>0, <1>5 DEF WriteData
<1>6. ASSUME NEW t \in Thread, StoreTail(t) PROVE OneWriter'
  BY <1>0, <1>6 DEF StoreTail
<1>7. ASSUME NEW t \in Thread, CheckEmptied(t) PROVE OneWriter'
  BY <1>0, <1>7 DEF CheckEmptied
<1>8. ASSUME NEW t \in Thread, SendDataAvailableNotification(t) PROVE OneWriter'
  BY <1>0, <1>8 DEF SendDataAvailableNotification
<1>9. ASSUME NEW t \in Thread, Unlock(t) PROVE OneWriter'
  BY <1>0, <1>9 DEF Unlock
<1>10. CASE StopLogging
  BY <1>0, <1>10 DEF StopLogging
<1>11. CASE UnregisterUserClient
  BY <1>0, <1>11 DEF UnregisterUserClient
<1>12. CASE FreeAllocatedResources
  BY <1>0, <1>12 DEF FreeAllocatedResources, Message
<1>13. CASE ClientStep
  BY <1>13 DEF ClientStep, SetNotificationPort, RegisterNotificationPort, WaitForAvailableData,
     DataAvailable, LocateEntry, CopyEntry, StoreHead
<1>14. CASE MemoryStep
  BY <1>14 DEF MemoryStep, PerformTail, PerformHead
<1>15. QED
  BY <1>1, <1>2, <1>3, <1>4, <1>5, <1>6, <1>7, <1>8, <1>9, <1>10, <1>11, <1>12, <1>13, <1>14
  DEF Next, WriterStep

-----------------------------------------------------------------------------
(* Steps that leave the memory and the history alone leave the ring alone. *)

LEMMA RingUnchanged ==
  ASSUME Ring, EntriesIntact, UNCHANGED <<machine, memory, unread>>
  PROVE  Ring' /\ EntriesIntact'
BY DEF Ring, EntriesIntact, machine, memory, InOrder, Placed, Between, Follows, Precedes, Before, EndBefore, EndOf,
   HeadSeenByReader, TailSeenByWriter

(* ... and so do they what a thread is writing, *)
LEMMA InFlightUnchanged ==
  ASSUME InFlight, UNCHANGED <<machine, memory, writers>>
  PROVE  InFlight'
BY DEF InFlight, InFlightOf, machine, memory, writers, RoomFor

(* ... and what the client is reading. *)
LEMMA ReadingUnchanged ==
  ASSUME Reading, UNCHANGED <<machine, memory, reader, unread>>
  PROVE  Reading'
BY DEF Reading, machine, memory, reader, EndOf

(* A thread that does not come to write leaves what is being written alone. *)
LEMMA InFlightByOthers ==
  ASSUME InFlight, NEW t \in Thread, UNCHANGED <<machine, queue, head, tail, localTail, place>>,
         \A u \in Thread : u # t => pc'[u] = pc[u] /\ sending'[u] = sending[u],
         pc'[t] \notin Writing
  PROVE  InFlight'
<1>1. ASSUME NEW u \in Thread, u # t
      PROVE  InFlightOf(u)'
  <2>1. InFlightOf(u) /\ pc'[u] = pc[u] /\ sending'[u] = sending[u]
    BY <1>1 DEF InFlight
  <2>2. QED
    BY <2>1 DEF InFlightOf, RoomFor, machine
<1>2. InFlightOf(t)'
  BY DEF InFlightOf, Writing
<1>3. QED
  BY <1>1, <1>2 DEF InFlight

-----------------------------------------------------------------------------
(* The ring as a thread that is writing finds it. *)

(* The variables that ring arithmetic is about are numbers. *)
LEMMA RingTypes ==
  ASSUME TypeOK
  PROVE  /\ queueSize \in Nat /\ head \in 0 .. queueSize /\ tail \in 0 .. queueSize
         /\ place \in 0 .. queueSize /\ localTail \in 0 .. queueSize /\ newHead \in 0 .. queueSize
         /\ HeadSeenByReader \in 0 .. queueSize /\ TailSeenByWriter \in 0 .. queueSize
         /\ Len(unread) \in Nat
BY Types

(* The cells it writes are no unread entry's, nor the size before a wrap. *)
LEMMA WritesFreeCells ==
  ASSUME QInv, NEW t \in Thread, pc[t] \in Writing, NEW i \in 1 .. Len(unread)
  PROVE  LET e == unread[i]
             newTail == place + EntrySize(sending[t])
         IN  /\ EndOf(e) <= place \/ newTail <= e.at
             /\ place # tail => EndOf(e) <= tail
<1> DEFINE a == unread[i].at
           b == EndOf(unread[i])
           s == EntrySize(sending[t])
           h == HeadSeenByReader
<1>1. /\ queueSize \in Nat /\ head \in 0 .. queueSize /\ tail \in 0 .. queueSize
      /\ place \in 0 .. queueSize /\ h \in 0 .. queueSize
  BY RingTypes DEF QInv
<1>2. s \in Nat /\ RoomFor(s) /\ TailSeenByWriter = tail /\ s >= 2
  BY WriterPlace
<1>3. InOrder(head, h, tail)
  BY <1>2 DEF QInv, Ring
<1>4. \/ h <= a /\ b <= tail
      \/ tail < h /\ h <= a /\ b <= queueSize
      \/ tail < h /\ b <= tail
  <2>1. Placed(unread[i], h, TailSeenByWriter)
    BY DEF QInv, Ring
  <2>2. QED
    BY <1>2, <2>1 DEF Placed, Between
<1>5. a \in Nat /\ b \in Nat
  BY EntryTypes, <1>1 DEF QInv
<1> HIDE DEF a, b, s, h
<1>6. /\ b <= place \/ place + s <= a
      /\ place # tail => b <= tail
  BY <1>1, <1>2, <1>3, <1>4, <1>5 DEF InOrder, RoomFor
<1>7. QED
  BY <1>6 DEF a, b, s

(* Behind a tail that has wrapped, it writes below the head of the client. *)
LEMMA WritesBeforeHead ==
  ASSUME QInv, NEW t \in Thread, pc[t] \in Writing, TailSeenByWriter < HeadSeenByReader
  PROVE  place = tail /\ place + EntrySize(sending[t]) <= HeadSeenByReader
<1> DEFINE s == EntrySize(sending[t])
           h == HeadSeenByReader
<1>1. /\ queueSize \in Nat /\ head \in 0 .. queueSize /\ tail \in 0 .. queueSize
      /\ place \in 0 .. queueSize /\ h \in 0 .. queueSize
  BY RingTypes DEF QInv
<1>2. s \in Nat /\ RoomFor(s) /\ TailSeenByWriter = tail /\ s >= 2
  BY WriterPlace
<1>3. InOrder(head, h, tail) /\ tail < h
  BY <1>2 DEF QInv, Ring
<1> HIDE DEF s, h
<1>4. place = tail /\ place + s <= h
  BY <1>1, <1>2, <1>3 DEF InOrder, RoomFor
<1>5. QED
  BY <1>4 DEF s, h

(* Nobody else is writing. *)
LEMMA OthersDoNotWrite ==
  ASSUME OneWriter, NEW t \in Thread, pc[t] \in Busy,
         \A u \in Thread : u # t => pc'[u] = pc[u], InFlightOf(t)'
  PROVE  InFlight'
<1>1. ASSUME NEW u \in Thread, u # t PROVE InFlightOf(u)'
  <2>1. pc[u] \notin Writing /\ pc'[u] = pc[u]
    BY <1>1, Alone DEF Writing, Busy
  <2>2. QED
    BY <2>1 DEF InFlightOf, Writing
<1>2. QED
  BY <1>1 DEF InFlight

(* The head moves on, and the room that was found is there still. *)
LEMMA HeadMoves ==
  ASSUME QInv, head' \in 0 .. queueSize, delayedTail = NoStore => InOrder(head, head', tail),
         UNCHANGED <<machine, queue, tail, writers>>
  PROVE  InFlight'
<1>1. SUFFICES ASSUME NEW t \in Thread PROVE InFlightOf(t)'
  BY DEF InFlight
<1>2. InFlightOf(t) /\ pc' = pc /\ sending' = sending /\ place' = place /\ localTail' = localTail
      /\ queue' = queue /\ tail' = tail /\ queueSize' = queueSize
  BY DEF QInv, InFlight, machine, writers
<1>3. ASSUME pc[t] \in Writing PROVE RoomFor(EntrySize(sending[t]))'
  <2> DEFINE s == EntrySize(sending[t])
  <2>1. s \in Nat /\ s >= 2 /\ RoomFor(s) /\ InOrder(head, head', tail)
    BY <1>3, WriterPlace
  <2>2. /\ queueSize \in Nat /\ head \in 0 .. queueSize /\ tail \in 0 .. queueSize
        /\ place \in 0 .. queueSize
    BY RingTypes DEF QInv
  <2>3. s' = s
    BY <1>2
  <2> HIDE DEF s
  <2>4. RoomFor(s)'
    BY <1>2, <2>1, <2>2, <2>3 DEF RoomFor, InOrder
  <2>5. QED
    BY <2>4 DEF s
<1>4. QED
  BY <1>2, <1>3 DEF InFlightOf

-----------------------------------------------------------------------------
(* The steps of a thread that enqueues. *)

(* What these steps, and those below, have to keep besides types and turns. *)
RestOfInv == Ring /\ EntriesIntact /\ InFlight /\ Reading

(* The room that is found is free. *)
LEMMA SampleStep ==
  ASSUME QInv, NEW t \in Thread, Sample(t)
  PROVE  RestOfInv'
<1>1. Ring' /\ EntriesIntact' /\ Reading'
  BY RingUnchanged, ReadingUnchanged DEF QInv, Sample
<1>2. pc[t] \in Busy /\ pc \in [Thread -> PcState] /\ sending' = sending
  BY Types DEF Sample, Busy, QInv
<1> DEFINE s == EntrySize(sending[t])
<1>3. s \in Nat /\ queueSize \in Nat /\ head \in 0 .. queueSize /\ tail \in 0 .. queueSize
  <2>1. sending[t] \in Message /\ TypeOK /\ queueSize \in QueueSizes
    BY <1>2, Types DEF QInv, OneWriter
  <2>2. QED
    BY <2>1, Types, Sizes
<1>4. ASSUME pc'[t] = "writeSize" PROVE localTail' = tail' /\ RoomFor(s)'
  <2> HIDE DEF s
  <2>1. s' = s
    BY <1>2 DEF s
  <2>2. /\ localTail' = tail' /\ tail' = tail /\ head' = head /\ queueSize' = queueSize
        /\ \/ (RoomAtEnd(s) \/ RoomBeforeHead(s)) /\ place' = tail
           \/ RoomAtBeginning(s) /\ place' = 0
    BY <1>2, <1>4 DEF Sample, s, Goto, memory, machine
  <2>3. QED
    BY <1>3, <2>1, <2>2 DEF RoomFor, RoomAtEnd, RoomBeforeHead, RoomAtBeginning
<1>5. InFlightOf(t)'
  <2>1. pc'[t] \in {"writeSize", "full"}
    BY <1>2 DEF Sample, Goto
  <2>2. QED
    BY <1>2, <1>4, <2>1 DEF InFlightOf, Writing
<1>6. \A u \in Thread : u # t => pc'[u] = pc[u]
  BY <1>2 DEF Sample, Goto
<1>7. QED
  BY <1>1, <1>2, <1>5, <1>6, OthersDoNotWrite DEF RestOfInv, QInv

(* A thread that writes at its place, or at the old tail after a wrap, leaves the ring alone. *)
LEMMA WritesLeaveRing ==
  ASSUME QInv, NEW t \in Thread, pc[t] \in Writing, NEW cells,
         UNCHANGED <<machine, head, tail, delayedHead, delayedTail, unread>>,
         \A c \in cells : \/ place <= c /\ c < place + EntrySize(sending[t])
                          \/ c = tail /\ place # tail,
         cells \subseteq Int,
         \A c \in 0 .. queueSize - 1 : c \notin cells => queue'[c] = queue[c]
  PROVE  Ring' /\ EntriesIntact'
<1> DEFINE h == HeadSeenByReader
           ct == TailSeenByWriter
           s == EntrySize(sending[t])
<1>1. /\ h' = h /\ ct' = ct /\ head' = head /\ unread' = unread /\ queueSize' = queueSize
      /\ tail' = tail /\ delayedTail' = delayedTail
  BY DEF HeadSeenByReader, TailSeenByWriter, machine
<1>2. /\ queueSize \in Nat /\ h \in 0 .. queueSize /\ ct \in 0 .. queueSize /\ Len(unread) \in Nat
      /\ place \in Nat /\ tail \in 0 .. queueSize
  BY RingTypes DEF QInv
<1>3. s \in Nat
  BY WriterPlace
<1>4. EntriesIntact'
  <2>1. SUFFICES ASSUME NEW i \in 1 .. Len(unread),
                        NEW c \in {unread[i].at} \cup
                                  DataCells(unread[i].at, DataSize(unread[i].message))
                 PROVE  queue'[c] = queue[c]
    BY <1>1 DEF QInv, EntriesIntact
  <2> DEFINE a == unread[i].at
             d == DataSize(unread[i].message)
             b == EndOf(unread[i])
  <2>2. a \in 0 .. queueSize /\ d \in Nat /\ d >= 1 /\ b = a + d + 1
    BY EntryTypes DEF QInv
  <2>3. c \in Int /\ a <= c /\ c < b
    <3> HIDE DEF a, b, d
    <3>1. c = a \/ c \in a + 1 .. a + 1 + d - 1
      BY <2>1 DEF DataCells, a, d
    <3>2. QED
      BY <1>2, <2>2, <3>1
  <2>4. b <= place \/ place + s <= a
    BY WritesFreeCells
  <2>5. place # tail => b <= tail
    BY WritesFreeCells
  <2>6. b <= queueSize
    <3>1. Placed(unread[i], h, ct)
      BY DEF QInv, Ring
    <3> HIDE DEF h, ct
    <3>2. QED
      BY <1>2, <2>2, <3>1 DEF Placed, Between
  <2> HIDE DEF a, b, d, s
  <2>7. c \notin cells
    BY <1>2, <1>3, <2>2, <2>3, <2>4, <2>5 DEF s
  <2>8. c \in 0 .. queueSize - 1
    BY <1>2, <2>2, <2>3, <2>6
  <2>9. QED
    BY <2>7, <2>8
<1>5. ASSUME NEW i \in 1 .. Len(unread)
      PROVE  Follows(EndBefore(i), unread[i], h, ct)'
  <2> DEFINE x == EndBefore(i)
             e == unread[i]
  <2>1. Follows(x, e, h, ct)
    BY DEF QInv, Ring
  <2>2. x' = x /\ e' = e
    BY <1>1 DEF EndBefore, EndOf
  <2>3. x \in Nat
    <3>1. CASE i = 1
      BY <1>2, <3>1 DEF EndBefore
    <3>2. CASE i # 1
      <4>1. i - 1 \in 1 .. Len(unread)
        BY <1>2, <3>2
      <4>2. QED
        BY <3>2, <4>1, EntryTypes DEF EndBefore, QInv
    <3>3. QED
      BY <3>1, <3>2
  <2>4. ct < h => place = tail /\ place + s <= h
    BY WritesBeforeHead
  <2>5. ASSUME ct < h, h <= x, x + 1 <= queueSize
        PROVE  queue'[x] = queue[x]
    <3> HIDE DEF h, ct, x, s
    <3>1. x \in 0 .. queueSize - 1 /\ x \notin cells
      BY <1>2, <1>3, <2>3, <2>4, <2>5 DEF s
    <3>2. QED
      BY <3>1
  <2> HIDE DEF h, ct, x, e
  <2>6. Follows(x, e, h, ct)'
    BY <1>1, <2>1, <2>2, <2>5 DEF Follows, EndOf
  <2>7. QED
    BY <2>6 DEF h, ct, x, e
<1>6. ASSUME NEW i \in 1 .. Len(unread)
      PROVE  Placed(unread[i], h, ct)'
  BY <1>1 DEF QInv, Ring, Placed, Between, EndOf
<1>7. ASSUME NEW i \in 1 .. Len(unread), NEW j \in 1 .. Len(unread), i < j
      PROVE  Precedes(unread[i], unread[j], h, ct)'
  BY <1>1, <1>7 DEF QInv, Ring, Precedes, Before, EndOf
<1>8. \A i : EndBefore(i)' = EndBefore(i)
  BY <1>1 DEF EndBefore, EndOf
<1>9. InOrder(head, h, ct)'
  BY <1>1 DEF QInv, Ring, InOrder
<1>10. Ring'
  BY <1>1, <1>5, <1>6, <1>7, <1>8, <1>9 DEF QInv, Ring
<1>11. QED
  BY <1>4, <1>10

(* The size is written ... *)
LEMMA WriteSizeStep ==
  ASSUME QInv, NEW t \in Thread, WriteSize(t)
  PROVE  RestOfInv'
<1> DEFINE m == sending[t]
           d == DataSize(m)
<1>1. /\ pc[t] = "writeSize" /\ pc' = [pc EXCEPT ![t] = "writeData"]
      /\ queue' = [c \in DOMAIN queue |-> IF c \in SizeCells THEN SizeCell(d) ELSE queue[c]]
      /\ UNCHANGED <<machine, head, tail, delayedHead, delayedTail, sending, localTail, place,
                     reader, unread>>
  BY DEF WriteSize, Goto
<1>2. pc[t] \in Writing /\ pc[t] \in Busy /\ pc \in [Thread -> PcState]
  BY <1>1, Types DEF Writing, Busy, QInv
<1>3. /\ queueSize \in Nat /\ tail \in 0 .. queueSize /\ place \in Nat
      /\ DOMAIN queue = 0 .. queueSize - 1
  BY Types DEF QInv
<1>4. /\ EntrySize(m) = d + 1 /\ d \in Nat /\ d >= 1 /\ localTail = tail
      /\ place + EntrySize(m) \in 1 .. queueSize /\ RoomFor(EntrySize(m))
  BY <1>2, WriterPlace
<1>0. m' = m /\ d' = d
  BY <1>1
<1> HIDE DEF d, m
<1>5. Ring' /\ EntriesIntact'
  <2>1. \A c \in 0 .. queueSize - 1 : c \notin SizeCells => queue'[c] = queue[c]
    BY <1>1, <1>3
  <2>2. SizeCells \subseteq Int
    BY <1>3, <1>4 DEF SizeCells
  <2>3. \A c \in SizeCells : \/ place <= c /\ c < place + EntrySize(m)
                             \/ c = tail /\ place # tail
    BY <1>3, <1>4 DEF SizeCells
  <2>4. QED
    BY <1>1, <1>2, <2>1, <2>2, <2>3, WritesLeaveRing DEF m
<1>6. Reading'
  BY <1>1, ReadingUnchanged DEF QInv, Reading, reader, EndOf
<1>7. InFlightOf(t)'
  <2>1. place \in 0 .. queueSize - 1 /\ queue'[place] = SizeCell(d)
    BY <1>1, <1>3, <1>4 DEF SizeCells
  <2>2. ASSUME place # localTail, localTail + 1 <= queueSize PROVE queue'[localTail] = SizeCell(d)
    <3>1. localTail \in 0 .. queueSize - 1 /\ localTail \in SizeCells
      BY <1>3, <1>4, <2>2 DEF SizeCells
    <3>2. QED
      BY <1>1, <1>3, <3>1
  <2>3. pc'[t] = "writeData" /\ sending'[t] = m
    BY <1>1, <1>2 DEF m
  <2>4. RoomFor(EntrySize(m))' /\ localTail' = tail' /\ queueSize' = queueSize
    BY <1>0, <1>1, <1>4 DEF RoomFor, machine
  <2>5. QED
    BY <1>1, <2>1, <2>2, <2>3, <2>4 DEF InFlightOf, d, m
<1>8. \A u \in Thread : u # t => pc'[u] = pc[u]
  BY <1>1, <1>2
<1>9. QED
  BY <1>2, <1>5, <1>6, <1>7, <1>8, OthersDoNotWrite DEF RestOfInv, QInv

(* ... and the data, over neither of its sizes. *)
LEMMA WriteDataStep ==
  ASSUME QInv, NEW t \in Thread, WriteData(t)
  PROVE  RestOfInv'
<1> DEFINE m == sending[t]
           d == DataSize(m)
<1>1. /\ pc[t] = "writeData" /\ pc' = [pc EXCEPT ![t] = "storeTail"]
      /\ queue' = [c \in DOMAIN queue |-> IF c \in DataCells(place, d) THEN DataCell(m) ELSE queue[c]]
      /\ UNCHANGED <<machine, head, tail, delayedHead, delayedTail, sending, localTail, place,
                     reader, unread>>
  BY DEF WriteData, Goto
<1>2. pc[t] \in Writing /\ pc[t] \in Busy /\ pc \in [Thread -> PcState]
  BY <1>1, Types DEF Writing, Busy, QInv
<1>3. /\ queueSize \in Nat /\ tail \in 0 .. queueSize /\ place \in Nat /\ head \in 0 .. queueSize
      /\ DOMAIN queue = 0 .. queueSize - 1
  BY Types DEF QInv
<1>4. /\ EntrySize(m) = d + 1 /\ d \in Nat /\ d >= 1 /\ localTail = tail
      /\ place + EntrySize(m) \in 1 .. queueSize /\ RoomFor(EntrySize(m))
  BY <1>2, WriterPlace
<1>5. /\ queue[place] = SizeCell(d)
      /\ place # localTail /\ localTail + 1 <= queueSize => queue[localTail] = SizeCell(d)
  BY <1>1 DEF QInv, InFlight, InFlightOf
<1>0. m' = m /\ d' = d
  BY <1>1
<1> HIDE DEF d, m
<1>6. Ring' /\ EntriesIntact'
  <2>1. \A c \in 0 .. queueSize - 1 : c \notin DataCells(place, d) => queue'[c] = queue[c]
    BY <1>1, <1>3
  <2>2. DataCells(place, d) \subseteq Int
    BY <1>3, <1>4 DEF DataCells
  <2>3. \A c \in DataCells(place, d) : \/ place <= c /\ c < place + EntrySize(m)
                                       \/ c = tail /\ place # tail
    BY <1>3, <1>4 DEF DataCells
  <2>4. QED
    BY <1>1, <1>2, <2>1, <2>2, <2>3, WritesLeaveRing DEF m
<1>7. Reading'
  BY <1>1 DEF QInv, Reading, reader, EndOf
<1>8. InFlightOf(t)'
  <2>1. queue'[place] = SizeCell(d)
    <3>1. place \in 0 .. queueSize - 1 /\ place \notin DataCells(place, d)
      BY <1>3, <1>4 DEF DataCells
    <3>2. QED
      BY <1>1, <1>3, <1>5, <3>1
  <2>2. ASSUME place # localTail, localTail + 1 <= queueSize PROVE queue'[localTail] = SizeCell(d)
    <3>1. place = 0 /\ head <= tail /\ d + 1 < head
      BY <1>3, <1>4, <2>2 DEF RoomFor
    <3>2. localTail \in 0 .. queueSize - 1 /\ localTail \notin DataCells(place, d)
      BY <1>3, <1>4, <2>2, <3>1 DEF DataCells
    <3>3. QED
      BY <1>1, <1>3, <1>5, <2>2, <3>2
  <2>3. \A c \in DataCells(place, d) : queue'[c] = DataCell(m)
    <3>1. DataCells(place, d) \subseteq 0 .. queueSize - 1
      BY <1>3, <1>4 DEF DataCells
    <3>2. QED
      BY <1>1, <1>3, <3>1
  <2>4. pc'[t] = "storeTail" /\ sending'[t] = m
    BY <1>1, <1>2 DEF m
  <2>5. RoomFor(EntrySize(m))' /\ localTail' = tail' /\ queueSize' = queueSize
    BY <1>0, <1>1, <1>4 DEF RoomFor, machine
  <2>6. QED
    BY <1>1, <2>1, <2>2, <2>3, <2>4, <2>5 DEF InFlightOf, d, m
<1>9. \A u \in Thread : u # t => pc'[u] = pc[u]
  BY <1>1, <1>2
<1>10. QED
  BY <1>2, <1>6, <1>7, <1>8, <1>9, OthersDoNotWrite DEF RestOfInv, QInv

(* The tail moves over the entry that was written, which is published. *)
LEMMA StoreTailStep ==
  ASSUME QInv, NEW t \in Thread, StoreTail(t), NEW n, n = Len(unread)
  PROVE  RestOfInv'
<1> DEFINE m == sending[t]
           d == DataSize(m)
           s == EntrySize(m)
           new == [at |-> place, message |-> m]
           h == HeadSeenByReader
           ct == TailSeenByWriter
<1>1. /\ pc[t] = "storeTail" /\ pc' = [pc EXCEPT ![t] = "checkEmptied"]
      /\ IF storeBuffers THEN delayedTail' = place + s /\ UNCHANGED tail
                         ELSE tail' = place + s /\ UNCHANGED delayedTail
      /\ unread' = Append(unread, new)
      /\ UNCHANGED <<machine, queue, head, delayedHead, sending, localTail, place, reader>>
  BY DEF StoreTail, Goto
<1>2. pc[t] \in Writing /\ pc[t] \in Busy /\ pc \in [Thread -> PcState]
  BY <1>1, Types DEF Writing, Busy, QInv
<1>3. /\ queueSize \in Nat /\ tail \in 0 .. queueSize /\ place \in Nat /\ head \in 0 .. queueSize
      /\ h \in 0 .. queueSize /\ n \in Nat
  BY RingTypes DEF QInv
<1>4. /\ m \in Message /\ s = d + 1 /\ d \in Nat /\ d >= 1 /\ localTail = tail
      /\ place + s \in 1 .. queueSize /\ RoomFor(s) /\ delayedTail = NoStore /\ ct = tail
  BY <1>2, WriterPlace
<1>5. /\ queue[place] = SizeCell(d)
      /\ place # localTail /\ localTail + 1 <= queueSize => queue[localTail] = SizeCell(d)
      /\ \A c \in DataCells(place, d) : queue[c] = DataCell(m)
  BY <1>1 DEF QInv, InFlight, InFlightOf
<1>6. ct' = place + s /\ h' = h /\ queueSize' = queueSize /\ queue' = queue /\ head' = head
  BY <1>1, <1>3, <1>4 DEF TailSeenByWriter, HeadSeenByReader, machine
<1>7. /\ Len(unread') = n + 1 /\ unread'[n + 1] = new
      /\ \A i \in 1 .. n : unread'[i] = unread[i]
  <2>1. unread \in Seq(UnreadEntry) /\ new \in UnreadEntry
    BY <1>4, Types DEF UnreadEntry, QInv
  <2>2. QED
    BY <1>1, <2>1, AppendProperties
<1>8. new.at = place /\ new.message = m /\ EndOf(new) = place + s
  BY DEF EndOf
<1>9. EndBefore(n + 1) = ct /\ InOrder(head, h, ct)
  BY DEF QInv, Ring
<1>10. ASSUME NEW i \in 1 .. n + 1
       PROVE  EndBefore(i)' = EndBefore(i)
  <2>1. CASE i = 1
    BY <1>6, <2>1 DEF EndBefore
  <2>2. CASE i # 1
    <3>1. i - 1 \in 1 .. n
      BY <1>3, <2>2
    <3>2. unread'[i - 1] = unread[i - 1]
      BY <1>7, <3>1
    <3>3. QED
      BY <2>2, <3>2 DEF EndBefore, EndOf
  <2>3. QED
    BY <2>1, <2>2
<1>11. EndBefore(n + 2)' = ct'
  <2>1. n + 2 # 1 /\ n + 2 - 1 = n + 1
    BY <1>3
  <2>2. QED
    BY <1>6, <1>7, <1>8, <2>1 DEF EndBefore, EndOf
<1>12. InOrder(head', h', ct')
  <2> HIDE DEF m, d, s, h, ct
  <2>1. QED
    BY <1>3, <1>4, <1>6, <1>9 DEF InOrder, RoomFor
<1>13. ASSUME NEW i \in 1 .. n
       PROVE  /\ Placed(unread[i], h', ct')
              /\ Follows(EndBefore(i), unread[i], h', ct')
              /\ Precedes(unread[i], new, h', ct')
  <2> DEFINE e == unread[i]
             a == e.at
             b == EndOf(e)
             x == EndBefore(i)
  <2>1. a \in 0 .. queueSize /\ b \in Nat /\ b = a + DataSize(e.message) + 1
        /\ DataSize(e.message) \in Nat /\ DataSize(e.message) >= 1
    BY EntryTypes DEF QInv
  <2>2. Between(a, b, h, ct) /\ Follows(x, e, h, ct)
    BY DEF QInv, Ring, Placed
  <2> HIDE DEF m, d, s, h, ct, a, b, x
  <2>3. Between(a, b, h', ct')
    BY <1>3, <1>4, <1>6, <1>9, <2>1, <2>2 DEF Between, InOrder, RoomFor
  <2>4. Before(a, b, place, place + s, h', ct')
    BY <1>3, <1>4, <1>6, <1>9, <2>1, <2>2 DEF Between, Before, InOrder, RoomFor
  <2>5. Follows(x, e, h', ct')
    <3>1. ct < h => ct' < h'
      BY <1>3, <1>4, <1>6, <1>9 DEF InOrder, RoomFor
    <3> HIDE DEF e
    <3>2. QED
      BY <1>6, <2>2, <3>1 DEF Follows
  <2>6. QED
    BY <1>8, <2>3, <2>4, <2>5 DEF Placed, Precedes, a, b, x
<1>14. ASSUME NEW i \in 1 .. n, NEW j \in 1 .. n, i < j
       PROVE  Precedes(unread[i], unread[j], h', ct')
  <2> DEFINE e == unread[i]
             f == unread[j]
             a == e.at
             b == EndOf(e)
             a2 == f.at
             b2 == EndOf(f)
  <2>1. a \in Nat /\ b \in Nat /\ a2 \in Nat /\ b2 \in Nat /\ a < b /\ a2 < b2
    <3>1. a \in 0 .. queueSize /\ b \in Nat /\ b = a + DataSize(e.message) + 1
          /\ DataSize(e.message) \in Nat
      BY EntryTypes DEF QInv
    <3>2. a2 \in 0 .. queueSize /\ b2 \in Nat /\ b2 = a2 + DataSize(f.message) + 1
          /\ DataSize(f.message) \in Nat
      BY EntryTypes DEF QInv
    <3> HIDE DEF a, b, a2, b2
    <3>3. QED
      BY <1>3, <3>1, <3>2
  <2>2. Between(a, b, h, ct) /\ Before(a, b, a2, b2, h, ct)
    BY <1>14 DEF QInv, Ring, Placed, Precedes
  <2> HIDE DEF m, d, s, h, ct, a, b, a2, b2, e, f
  <2>3. Before(a, b, a2, b2, h', ct')
    BY <1>3, <1>4, <1>6, <1>9, <2>1, <2>2 DEF Between, Before, InOrder, RoomFor
  <2>4. QED
    BY <2>3 DEF Precedes, e, f, a, b, a2, b2
<1>15. Placed(new, h', ct') /\ Follows(ct, new, h', ct')
  <2> HIDE DEF m, d, s, h, ct, new
  <2>1. Placed(new, h', ct')
    <3>1. Between(place, place + s, h', ct')
      BY <1>3, <1>4, <1>6, <1>9 DEF Between, InOrder, RoomFor
    <3>2. QED
      BY <1>8, <3>1 DEF Placed
  <2>2. CASE place = tail
    <3>1. place + s <= queueSize
      BY <1>3, <1>4
    <3>2. QED
      BY <1>4, <1>8, <2>1, <2>2, <3>1 DEF Follows
  <2>3. CASE place # tail
    <3>1. place = 0 /\ s < head /\ head <= tail /\ tail + s > queueSize
      BY <1>3, <1>4, <2>3 DEF RoomFor
    <3>2. h <= tail /\ head <= h
      BY <1>3, <1>4, <1>9, <3>1 DEF InOrder
    <3>3. ct' < h' /\ h' <= ct
      BY <1>3, <1>4, <1>6, <3>1, <3>2
    <3>4. ct + 1 <= queueSize => queue[ct] = SizeCell(d)
      BY <1>4, <1>5, <2>3
    <3>5. EntrySize(new.message) = s /\ DataSize(new.message) = d
      BY <1>8 DEF s, d
    <3>6. s + ct > queueSize
      BY <1>3, <1>4, <3>1
    <3>7. QED
      BY <1>8, <2>1, <3>1, <3>3, <3>4, <3>5, <3>6 DEF Follows
  <2>4. QED
    BY <2>1, <2>2, <2>3
<1>16. ASSUME NEW i \in 1 .. n + 1
       PROVE  /\ (Placed(unread[i], h, ct) /\ Follows(EndBefore(i), unread[i], h, ct))'
              /\ \A j \in 1 .. n + 1 : i < j => Precedes(unread[i], unread[j], h, ct)'
  <2>1. CASE i = n + 1
    <3>1. unread'[i] = new /\ EndBefore(i)' = ct
      BY <1>7, <1>9, <1>10, <2>1
    <3>2. Placed(unread'[i], h', ct') /\ Follows(EndBefore(i)', unread'[i], h', ct')
      BY <1>15, <3>1
    <3>3. \A j \in 1 .. n + 1 : ~ i < j
      BY <1>3, <2>1
    <3> HIDE DEF h, ct
    <3>4. QED
      BY <1>6, <3>2, <3>3 DEF Placed, Between, Follows, EndOf
  <2>2. CASE i \in 1 .. n
    <3>1. unread'[i] = unread[i] /\ EndBefore(i)' = EndBefore(i)
      BY <1>7, <1>10, <2>2
    <3>2. /\ Placed(unread[i], h', ct') /\ Follows(EndBefore(i), unread[i], h', ct')
          /\ Precedes(unread[i], new, h', ct')
      BY <1>13, <2>2
    <3>3. ASSUME NEW j \in 1 .. n + 1, i < j PROVE Precedes(unread[i], unread'[j], h', ct')
      <4>1. CASE j = n + 1
        BY <1>7, <3>2, <4>1
      <4>2. CASE j \in 1 .. n
        BY <1>7, <1>14, <2>2, <3>3, <4>2
      <4>3. QED
        BY <1>3, <4>1, <4>2
    <3> HIDE DEF h, ct
    <3>4. QED
      BY <1>6, <3>1, <3>2, <3>3 DEF Placed, Between, Follows, Precedes, Before, EndOf
  <2>3. QED
    BY <1>3, <2>1, <2>2
<1>17. Ring'
  <2>1. delayedTail' # NoStore => tail' = tail
    BY <1>1, <1>4
  <2>2. EndBefore(n + 1)' = tail
    <3>1. n + 1 \in 1 .. n + 1
      BY <1>3
    <3>2. QED
      BY <1>4, <1>9, <1>10, <3>1
  <2>3. Len(unread') + 1 = n + 2 /\ Len(unread') > 0
    BY <1>3, <1>7
  <2>4. EndBefore(Len(unread) + 1)' = ct'
    BY <1>11, <2>3 DEF EndBefore
  <2>5. delayedTail' # NoStore => Len(unread') > 0 /\ EndBefore(Len(unread))' = tail'
    BY <1>7, <2>1, <2>2, <2>3 DEF EndBefore
  <2>6. InOrder(head, h, ct)'
    BY <1>12 DEF InOrder
  <2> HIDE DEF h, ct
  <2>7. QED
    BY <1>7, <1>16, <2>4, <2>5, <2>6 DEF Ring, h, ct
<1>18. EntriesIntact'
  <2>1. ASSUME NEW i \in 1 .. n + 1
        PROVE  /\ queue[unread'[i].at] = SizeCell(DataSize(unread'[i].message))
               /\ \A c \in DataCells(unread'[i].at, DataSize(unread'[i].message)) :
                    queue[c] = DataCell(unread'[i].message)
    <3>1. CASE i = n + 1
      BY <1>5, <1>7, <1>8, <3>1
    <3>2. CASE i \in 1 .. n
      BY <1>7, <3>2 DEF QInv, EntriesIntact
    <3>3. QED
      BY <1>3, <3>1, <3>2
  <2>2. QED
    BY <1>6, <1>7, <2>1 DEF EntriesIntact
<1>19. Reading'
  <2>1. Len(unread) > 0 => unread'[1] = unread[1]
    BY <1>3, <1>7
  <2>2. QED
    BY <1>1, <1>3, <1>7, <2>1 DEF QInv, Reading, reader, EndOf
<1>20. InFlightOf(t)'
  BY <1>1, <1>2 DEF InFlightOf, Writing
<1>21. \A u \in Thread : u # t => pc'[u] = pc[u]
  BY <1>1, <1>2
<1>22. QED
  BY <1>2, <1>17, <1>18, <1>19, <1>20, <1>21, OthersDoNotWrite DEF RestOfInv, QInv

(* The steps of a thread before and after it writes change neither ring nor entry. *)
LEMMA AroundStep ==
  ASSUME QInv, NEW t \in Thread, Lock(t) \/ CheckEmptied(t) \/ SendDataAvailableNotification(t)
  PROVE  RestOfInv'
<1>1. Ring' /\ EntriesIntact' /\ Reading'
  BY RingUnchanged, ReadingUnchanged
  DEF QInv, Lock, CheckEmptied, SendDataAvailableNotification
<1>2. pc \in [Thread -> PcState]
  BY Types DEF QInv
<1>3. InFlight'
  <2>1. pc'[t] \notin Writing /\ \A u \in Thread : u # t => pc'[u] = pc[u]
    BY <1>2 DEF Lock, CheckEmptied, SendDataAvailableNotification, Goto, Writing
  <2>2. UNCHANGED <<machine, queue, head, tail, localTail, place, sending>>
    BY DEF Lock, CheckEmptied, SendDataAvailableNotification, memory
  <2>3. QED
    BY <2>1, <2>2, InFlightByOthers DEF QInv
<1>4. QED
  BY <1>1, <1>3 DEF RestOfInv

(* A thread leaves, and what it was writing is nobody's. *)
LEMMA UnlockStep ==
  ASSUME QInv, NEW t \in Thread, Unlock(t)
  PROVE  RestOfInv'
<1>1. Ring' /\ EntriesIntact' /\ Reading'
  BY RingUnchanged, ReadingUnchanged DEF QInv, Unlock
<1>2. pc[t] \in Busy /\ pc \in [Thread -> PcState]
  BY Types DEF QInv, Unlock, Busy
<1>3. pc'[t] \notin Writing /\ \A u \in Thread : u # t => pc'[u] = pc[u]
  BY <1>2 DEF Unlock, Goto, Writing
<1>4. InFlightOf(t)'
  BY <1>3 DEF InFlightOf, Writing
<1>5. QED
  BY <1>1, <1>2, <1>3, <1>4, OthersDoNotWrite DEF RestOfInv, QInv

(* The steps that do not come near the queue. *)
LEMMA NotifyStep ==
  ASSUME QInv, \/ \E t \in Notifier : SocketFilterNotification(t)
               \/ StopLogging \/ UnregisterUserClient \/ FreeAllocatedResources
  PROVE  RestOfInv'
<1>1. Ring' /\ EntriesIntact' /\ Reading'
  <2>1. UNCHANGED <<machine, memory, reader, unread>>
    BY DEF SocketFilterNotification, StopLogging, UnregisterUserClient, FreeAllocatedResources
  <2>2. QED
    BY <2>1, RingUnchanged, ReadingUnchanged DEF QInv
<1>2. pc \in [Thread -> PcState] /\ sending \in [Thread -> Message \cup {NoMessage}]
  BY Types DEF QInv
<1>3. UNCHANGED <<machine, queue, head, tail, localTail, place>>
  BY DEF SocketFilterNotification, StopLogging, UnregisterUserClient, FreeAllocatedResources, memory
<1>4. \E t \in Thread :
        /\ pc'[t] \notin Writing
        /\ \A u \in Thread : u # t => pc'[u] = pc[u] /\ sending'[u] = sending[u]
  <2>1. CASE \E t \in Notifier : SocketFilterNotification(t)
    BY <1>2, <2>1 DEF SocketFilterNotification, Goto, Writing, Thread
  <2>2. CASE StopLogging \/ UnregisterUserClient \/ FreeAllocatedResources
    <3>1. /\ pc'[Terminator] \notin Writing
          /\ \A u \in Thread : u # Terminator => pc'[u] = pc[u] /\ sending'[u] = sending[u]
          /\ Terminator \in Thread
      BY <1>2, <2>2
      DEF StopLogging, UnregisterUserClient, FreeAllocatedResources, Goto, Writing, Thread
    <3>2. QED
      BY <3>1
  <2>3. QED
    BY <2>1, <2>2
<1>5. InFlight'
  BY <1>3, <1>4, InFlightByOthers DEF QInv
<1>6. QED
  BY <1>1, <1>5 DEF RestOfInv

-----------------------------------------------------------------------------
(* The stores that were delayed. *)

(* The tail reaches memory while nobody fills an entry. *)
LEMMA PerformTailStep ==
  ASSUME QInv, PerformTail
  PROVE  RestOfInv'
<1>1. /\ delayedTail # NoStore /\ tail' = delayedTail /\ delayedTail' = NoStore
      /\ UNCHANGED <<machine, queue, head, delayedHead, writers, reader, unread>>
  BY DEF PerformTail
<1>2. /\ HeadSeenByReader' = HeadSeenByReader /\ TailSeenByWriter' = TailSeenByWriter
      /\ queueSize' = queueSize
  BY <1>1 DEF HeadSeenByReader, TailSeenByWriter, machine
<1>3. Ring' /\ EntriesIntact'
  BY <1>1, <1>2
  DEF QInv, Ring, EntriesIntact, InOrder, Placed, Between, Follows, Precedes, Before, EndBefore,
      EndOf
<1>4. Reading'
  BY <1>1 DEF QInv, Reading, reader, EndOf
<1>5. InFlight'
  <2>1. ASSUME NEW t \in Thread PROVE pc'[t] \notin Writing
    <3>1. pc[t] \in Writing => delayedTail = NoStore
      BY WriterPlace
    <3>2. pc' = pc
      BY <1>1 DEF writers
    <3>3. QED
      BY <1>1, <3>1, <3>2
  <2>2. QED
    BY <2>1 DEF InFlight, InFlightOf, Writing
<1>6. QED
  BY <1>3, <1>4, <1>5 DEF RestOfInv

(* The head reaches memory, which frees cells. *)
LEMMA PerformHeadStep ==
  ASSUME QInv, PerformHead
  PROVE  RestOfInv'
<1> DEFINE h == HeadSeenByReader
           ct == TailSeenByWriter
<1>1. /\ delayedHead # NoStore /\ head' = delayedHead /\ delayedHead' = NoStore
      /\ UNCHANGED <<machine, queue, tail, delayedTail, writers, reader, unread>>
  BY DEF PerformHead
<1>2. h' = h /\ ct' = ct /\ queueSize' = queueSize /\ h = head'
  BY <1>1 DEF HeadSeenByReader, TailSeenByWriter, machine
<1>3. InOrder(head, h, ct) /\ head \in 0 .. queueSize /\ h \in 0 .. queueSize
      /\ ct \in 0 .. queueSize /\ queueSize \in Nat
  BY RingTypes DEF QInv, Ring
<1>4. InOrder(head, h, ct)'
  <2> HIDE DEF h, ct
  <2>1. QED
    BY <1>2, <1>3 DEF InOrder
<1>5. Ring' /\ EntriesIntact'
  BY <1>1, <1>2, <1>4
  DEF QInv, Ring, EntriesIntact, Placed, Between, Follows, Precedes, Before, EndBefore, EndOf
<1>6. Reading'
  BY <1>1 DEF QInv, Reading, reader, EndOf
<1>7. InFlight'
  <2>1. delayedTail = NoStore => InOrder(head, head', tail)
    BY <1>2, <1>3 DEF TailSeenByWriter
  <2>2. QED
    BY <1>1, <1>2, <1>3, <2>1, HeadMoves
<1>8. QED
  BY <1>5, <1>6, <1>7 DEF RestOfInv

-----------------------------------------------------------------------------
(* The steps of the client. *)

(* Those that have no entry in hand. *)
LEMMA ClientWaits ==
  ASSUME QInv, SetNotificationPort \/ RegisterNotificationPort \/ WaitForAvailableData
  PROVE  RestOfInv'
<1>1. UNCHANGED <<machine, memory, writers, entry, newHead, copied, unread>>
      /\ client' \notin {"dequeue", "copy", "storeHead"}
  BY DEF SetNotificationPort, RegisterNotificationPort, WaitForAvailableData
<1>2. QED
  BY <1>1, RingUnchanged, InFlightUnchanged DEF QInv, RestOfInv, Reading

(* The client goes on only to an entry whose tail is in memory. *)
LEMMA DataAvailableStep ==
  ASSUME QInv, DataAvailable
  PROVE  RestOfInv'
<1>1. Ring' /\ EntriesIntact' /\ InFlight'
  BY RingUnchanged, InFlightUnchanged DEF QInv, DataAvailable
<1>2. ASSUME HeadSeenByReader # tail
      PROVE  Len(unread) > 0 /\ (delayedTail # NoStore => Len(unread) > 1)
  <2>1. EndBefore(Len(unread) + 1) = TailSeenByWriter /\ Len(unread) \in Nat
    BY RingTypes DEF QInv, Ring
  <2>2. delayedTail # NoStore => Len(unread) > 0 /\ EndBefore(Len(unread)) = tail
    BY DEF QInv, Ring
  <2>3. CASE Len(unread) = 0
    BY <1>2, <2>1, <2>2, <2>3 DEF EndBefore, TailSeenByWriter
  <2>4. CASE Len(unread) = 1
    BY <1>2, <2>2, <2>4 DEF EndBefore
  <2>5. Len(unread) = 0 \/ Len(unread) = 1 \/ Len(unread) > 1
    <3>1. \A k \in Nat : k = 0 \/ k = 1 \/ k > 1
      OBVIOUS
    <3>2. QED
      BY <2>1, <3>1
  <2>6. CASE Len(unread) > 1
    <3>1. \A k \in Nat : k > 1 => k > 0
      OBVIOUS
    <3>2. QED
      BY <2>1, <2>6, <3>1
  <2>7. QED
    BY <2>3, <2>4, <2>5, <2>6
<1>3. Reading'
  BY <1>2 DEF DataAvailable, Reading, memory
<1>4. QED
  BY <1>1, <1>3 DEF RestOfInv

(* It locates the first unread entry ... *)
LEMMA LocateEntryStep ==
  ASSUME QInv, LocateEntry
  PROVE  RestOfInv'
<1> DEFINE e == unread[1]
           at == IF WrappedAt(HeadSeenByReader) THEN 0 ELSE HeadSeenByReader
<1>1. Ring' /\ EntriesIntact' /\ InFlight'
  BY RingUnchanged, InFlightUnchanged DEF QInv, LocateEntry
<1>2. /\ client = "dequeue" /\ client' = "copy" /\ entry' = at
      /\ newHead' = at + queue[at].size + 1 /\ unread' = unread /\ delayedTail' = delayedTail
  BY DEF LocateEntry, memory
<1>3. Len(unread) > 0 /\ (delayedTail # NoStore => Len(unread) > 1)
  BY <1>2 DEF QInv, Reading
<1>4. e.at = at /\ queue[e.at].size = DataSize(e.message)
  BY <1>3, Located DEF QInv
<1>5. EndOf(e) = e.at + DataSize(e.message) + 1
  <2>1. 1 \in 1 .. Len(unread)
    BY <1>3, RingTypes DEF QInv
  <2>2. QED
    BY <2>1, EntryTypes DEF QInv
<1>6. e' = e /\ EndOf(e)' = EndOf(e)
  BY <1>2 DEF EndOf
<1> HIDE DEF e, at
<1>7. entry' = e.at /\ newHead' = EndOf(e)
  BY <1>2, <1>4, <1>5
<1>8. Reading'
  BY <1>2, <1>3, <1>6, <1>7 DEF Reading, e
<1>9. QED
  BY <1>1, <1>8 DEF RestOfInv

(* ... and copies its message whole. *)
LEMMA CopyEntryStep ==
  ASSUME QInv, CopyEntry
  PROVE  RestOfInv' /\ copied' = unread[1].message
<1> DEFINE e == unread[1]
           m == e.message
           cells == DataCells(entry, queue[entry].size) \cap DOMAIN queue
           whole == {v \in Message : cells # {} /\ \A c \in cells : queue[c] = DataCell(v)}
<1>1. Ring' /\ EntriesIntact' /\ InFlight'
  BY RingUnchanged, InFlightUnchanged DEF QInv, CopyEntry
<1>2. /\ client = "copy" /\ client' = "storeHead"
      /\ copied' = IF whole = {} THEN NoMessage ELSE CHOOSE v \in whole : TRUE
      /\ UNCHANGED <<entry, newHead, unread, delayedTail>>
  BY DEF CopyEntry, memory
<1>3. /\ Len(unread) > 0 /\ (delayedTail # NoStore => Len(unread) > 1)
      /\ entry = e.at /\ newHead = EndOf(e)
  BY <1>2 DEF QInv, Reading
<1>4. 1 \in 1 .. Len(unread) /\ DOMAIN queue = 0 .. queueSize - 1 /\ queueSize \in Nat
  BY <1>3, Types DEF QInv
<1>5. /\ m \in Message /\ e.at \in 0 .. queueSize /\ DataSize(m) \in Nat /\ DataSize(m) >= 1
      /\ EndOf(e) = e.at + DataSize(m) + 1
  BY <1>4, EntryTypes DEF QInv
<1>6. queue[e.at].size = DataSize(m) /\ EndOf(e) <= queueSize
  BY <1>3, Located DEF QInv
<1>7. \A c \in DataCells(e.at, DataSize(m)) : queue[c] = DataCell(m)
  BY <1>4 DEF QInv, EntriesIntact
<1>8. e.at + 1 \in cells /\ \A c \in cells : queue[c] = DataCell(m)
  <2> DEFINE a == e.at
             d == DataSize(m)
  <2>1. a \in 0 .. queueSize /\ d \in Nat /\ d >= 1 /\ a + d + 1 <= queueSize
    BY <1>5, <1>6
  <2>2. cells = (a + 1 .. a + 1 + d - 1) \cap (0 .. queueSize - 1)
    BY <1>3, <1>4, <1>6 DEF DataCells
  <2>3. \A c \in a + 1 .. a + 1 + d - 1 : queue[c] = DataCell(m)
    BY <1>7 DEF DataCells
  <2> HIDE DEF cells, a, d
  <2>4. a + 1 \in cells /\ \A c \in cells : queue[c] = DataCell(m)
    BY <1>4, <2>1, <2>2, <2>3
  <2>5. QED
    BY <2>4 DEF a
<1>9. whole = {m}
  <2>1. m \in whole
    BY <1>5, <1>8
  <2>2. ASSUME NEW v \in whole PROVE v = m
    <3>1. queue[e.at + 1] = DataCell(v) /\ queue[e.at + 1] = DataCell(m)
      BY <1>8
    <3>2. DataCell(v).data = v /\ DataCell(m).data = m
      BY DEF DataCell
    <3>3. QED
      BY <3>1, <3>2
  <2>3. QED
    BY <2>1, <2>2
<1>10. copied' = m
  BY <1>2, <1>9
<1>11. Reading'
  <2>1. e' = e /\ EndOf(e)' = EndOf(e)
    BY <1>2 DEF EndOf
  <2> HIDE DEF whole, cells
  <2>2. QED
    BY <1>2, <1>3, <1>10, <2>1 DEF Reading
<1>12. QED
  BY <1>1, <1>10, <1>11 DEF RestOfInv

(* The head moves over the first entry, which is taken. *)
LEMMA StoreHeadStep ==
  ASSUME QInv, StoreHead, NEW n, n = Len(unread)
  PROVE  RestOfInv'
<1> DEFINE e == unread[1]
           k == e.at
           x == EndOf(e)
           h == HeadSeenByReader
           ct == TailSeenByWriter
<1>1. /\ client = "storeHead" /\ client' = "check" /\ delayedHead = NoStore
      /\ IF storeBuffers THEN delayedHead' = newHead /\ UNCHANGED head
                         ELSE head' = newHead /\ UNCHANGED delayedHead
      /\ UNCHANGED <<machine, queue, tail, delayedTail, ports, writers>>
  BY DEF StoreHead
<1>2. n > 0 /\ (delayedTail # NoStore => n > 1) /\ newHead = x
  BY <1>1 DEF QInv, Reading
<1>3. /\ queueSize \in Nat /\ head \in 0 .. queueSize /\ h \in 0 .. queueSize
      /\ ct \in 0 .. queueSize /\ newHead \in 0 .. queueSize /\ tail \in 0 .. queueSize
      /\ n \in Nat
  BY RingTypes DEF QInv
<1>4. /\ Len(unread') = n - 1
      /\ \A i \in 1 .. n - 1 : unread'[i] = unread[i + 1] /\ i + 1 \in 1 .. n
  BY <1>2, Taken DEF QInv
<1>5. /\ h' = x /\ ct' = ct /\ queueSize' = queueSize /\ queue' = queue
      /\ tail' = tail /\ delayedTail' = delayedTail /\ h = head /\ head' \in {head, x}
  BY <1>1, <1>2, <1>3 DEF TailSeenByWriter, HeadSeenByReader, machine
<1>6. /\ k \in 0 .. queueSize /\ x \in 0 .. queueSize /\ k < x
      /\ Between(k, x, h, ct) /\ InOrder(head, h, ct)
  <2>1. 1 \in 1 .. Len(unread)
    BY <1>2, <1>3
  <2>2. e.at \in 0 .. queueSize /\ x = e.at + DataSize(e.message) + 1
        /\ DataSize(e.message) \in Nat
    BY <2>1, EntryTypes DEF QInv
  <2>3. Placed(e, h, ct) /\ InOrder(head, h, ct)
    BY <2>1 DEF QInv, Ring
  <2> DEFINE a == e.at
             d == DataSize(e.message)
  <2>4. a \in 0 .. queueSize /\ x = a + d + 1 /\ d \in Nat
    BY <2>2
  <2>5. x \in 0 .. queueSize
    BY <1>2, <1>3
  <2> HIDE DEF a, d, x
  <2>6. a < x
    BY <1>3, <2>4
  <2>7. QED
    BY <2>3, <2>4, <2>5, <2>6 DEF a, x, Placed
<1>7. InOrder(head', x, ct)
  <2> HIDE DEF e, k, x, h, ct
  <2>1. QED
    BY <1>3, <1>5, <1>6 DEF Between, InOrder
<1>8. ASSUME NEW i \in 1 .. n
      PROVE  EndBefore(i)' = EndBefore(i + 1)
  <2>1. i \in Nat /\ i + 1 # 1 /\ (i + 1) - 1 = i
    BY <1>3
  <2>2. EndBefore(i + 1) = EndOf(unread[i])
    BY <2>1 DEF EndBefore
  <2>3. CASE i = 1
    BY <1>5, <2>2, <2>3 DEF EndBefore
  <2>4. CASE i # 1
    <3>1. i - 1 \in 1 .. n - 1 /\ (i - 1) + 1 = i
      BY <1>3, <2>4
    <3>2. unread'[i - 1] = unread[i]
      BY <1>4, <3>1
    <3>3. QED
      BY <2>2, <2>4, <3>2 DEF EndBefore, EndOf
  <2>5. QED
    BY <2>3, <2>4
<1>9. ASSUME NEW i \in 2 .. n
      PROVE  LET f == unread[i] IN
             /\ f.at \in 0 .. queueSize /\ EndOf(f) \in Nat /\ f.at < EndOf(f)
             /\ Between(f.at, EndOf(f), h, ct) /\ Before(k, x, f.at, EndOf(f), h, ct)
  <2> DEFINE f == unread[i]
             a == f.at
             b == EndOf(f)
             d == DataSize(f.message)
  <2>1. i \in 1 .. Len(unread) /\ 1 \in 1 .. Len(unread) /\ 1 < i
    BY <1>3
  <2>2. a \in 0 .. queueSize /\ b \in Nat /\ b = a + d + 1 /\ d \in Nat
    BY <2>1, EntryTypes DEF QInv
  <2>3. Placed(f, h, ct) /\ Precedes(e, f, h, ct)
    BY <2>1 DEF QInv, Ring
  <2>4. a < b
    <3> HIDE DEF a, b, d
    <3>1. QED
      BY <1>3, <2>2
  <2>5. QED
    BY <2>2, <2>3, <2>4 DEF Placed, Precedes
<1>10. ASSUME NEW i \in 2 .. n
       PROVE  Placed(unread[i], x, ct) /\ Follows(EndBefore(i), unread[i], x, ct)
  <2> DEFINE f == unread[i]
             a == f.at
             b == EndOf(f)
             y == EndBefore(i)
  <2>1. /\ a \in 0 .. queueSize /\ b \in Nat /\ a < b
        /\ Between(a, b, h, ct) /\ Before(k, x, a, b, h, ct)
    BY <1>9
  <2>2. Follows(y, f, h, ct)
    <3>1. i \in 1 .. Len(unread)
      BY <1>3
    <3>2. QED
      BY <3>1 DEF QInv, Ring
  <2>3. Between(a, b, x, ct)
    <3> HIDE DEF k, x, h, ct, a, b
    <3>1. QED
      BY <1>3, <1>6, <2>1 DEF Between, Before
  <2>4. ct < h /\ h <= y => ct < x /\ x <= y
    <3>1. CASE i = 2
      <4>1. y = x
        BY <3>1 DEF EndBefore
      <4> HIDE DEF k, x, h, ct, y
      <4>2. QED
        BY <1>3, <1>6, <4>1
    <3>2. CASE i # 2
      <4> DEFINE g == unread[i - 1]
                 c == g.at
      <4>1. i - 1 \in 2 .. n /\ i # 1
        BY <1>3, <3>2
      <4>2. y = EndOf(g)
        BY <4>1 DEF EndBefore
      <4>3. /\ c \in 0 .. queueSize /\ y \in Nat /\ c < y
            /\ Between(c, y, h, ct) /\ Before(k, x, c, y, h, ct)
        BY <1>9, <4>1, <4>2
      <4> HIDE DEF k, x, h, ct, y, g, c
      <4>4. QED
        BY <1>3, <1>6, <4>3 DEF Between, Before
    <3>3. QED
      BY <3>1, <3>2
  <2>5. Follows(y, f, x, ct)
    <3> HIDE DEF k, x, h, ct, y, f
    <3>1. QED
      BY <2>2, <2>4 DEF Follows
  <2>6. QED
    BY <2>3, <2>5 DEF Placed
<1>11. ASSUME NEW i \in 2 .. n, NEW j \in 2 .. n, i < j
       PROVE  Precedes(unread[i], unread[j], x, ct)
  <2> DEFINE a == unread[i].at
             b == EndOf(unread[i])
             c == unread[j].at
             d == EndOf(unread[j])
  <2>1. /\ a \in 0 .. queueSize /\ b \in Nat /\ a < b
        /\ Between(a, b, h, ct) /\ Before(k, x, a, b, h, ct)
    BY <1>9
  <2>2. c \in 0 .. queueSize /\ d \in Nat /\ c < d
    BY <1>9
  <2>3. Before(a, b, c, d, h, ct)
    <3>1. i \in 1 .. Len(unread) /\ j \in 1 .. Len(unread)
      BY <1>3
    <3>2. Precedes(unread[i], unread[j], h, ct)
      BY <1>11, <3>1 DEF QInv, Ring
    <3>3. QED
      BY <3>2 DEF Precedes
  <2>4. Before(a, b, c, d, x, ct)
    <3> HIDE DEF k, x, h, ct, a, b, c, d
    <3>1. QED
      BY <1>3, <1>6, <2>1, <2>2, <2>3 DEF Between, Before
  <2>5. QED
    BY <2>4 DEF Precedes
<1>12. ASSUME NEW i \in 1 .. n - 1
       PROVE  /\ (Placed(unread[i], h, ct) /\ Follows(EndBefore(i), unread[i], h, ct))'
              /\ \A j \in 1 .. n - 1 : i < j => Precedes(unread[i], unread[j], h, ct)'
  <2>1. i + 1 \in 2 .. n /\ i \in 1 .. n
    BY <1>3
  <2>2. unread'[i] = unread[i + 1] /\ EndBefore(i)' = EndBefore(i + 1)
    BY <1>4, <1>8, <2>1
  <2>3. Placed(unread'[i], x, ct) /\ Follows(EndBefore(i)', unread'[i], x, ct)
    BY <1>10, <2>1, <2>2
  <2>4. ASSUME NEW j \in 1 .. n - 1, i < j PROVE Precedes(unread'[i], unread'[j], x, ct)
    <3>1. j + 1 \in 2 .. n /\ i + 1 < j + 1
      BY <1>3, <2>4
    <3>2. unread'[j] = unread[j + 1]
      BY <1>4
    <3>3. QED
      BY <1>11, <2>1, <2>2, <3>1, <3>2
  <2> HIDE DEF h, ct, x
  <2>5. QED
    BY <1>5, <2>3, <2>4 DEF Placed, Between, Follows, Precedes, Before, EndOf
<1>13. Ring'
  <2>1. EndBefore(n)' = ct'
    <3>1. n \in 1 .. n
      BY <1>2, <1>3
    <3>2. QED
      BY <1>5, <1>8, <3>1 DEF QInv, Ring
  <2>2. EndBefore(Len(unread) + 1)' = ct'
    <3>1. Len(unread') + 1 = n
      BY <1>3, <1>4
    <3>2. QED
      BY <2>1, <3>1 DEF EndBefore
  <2>3. delayedTail' # NoStore => Len(unread') > 0 /\ EndBefore(Len(unread))' = tail'
    <3>1. SUFFICES ASSUME delayedTail # NoStore
                   PROVE  Len(unread') > 0 /\ EndBefore(Len(unread))' = tail'
      BY <1>5
    <3>2. n > 1 /\ EndBefore(n) = tail
      BY <1>2, <3>1 DEF QInv, Ring
    <3>3. n - 1 \in 1 .. n /\ (n - 1) + 1 = n /\ n - 1 > 0
      BY <1>3, <3>2
    <3>4. EndBefore(n - 1)' = tail
      BY <1>8, <3>2, <3>3
    <3>5. EndBefore(Len(unread))' = tail
      BY <1>4, <3>4 DEF EndBefore
    <3>6. QED
      BY <1>4, <1>5, <3>3, <3>5
  <2>4. InOrder(head, h, ct)'
    BY <1>5, <1>7 DEF InOrder
  <2> HIDE DEF h, ct, x
  <2>5. QED
    BY <1>4, <1>12, <2>2, <2>3, <2>4 DEF Ring, h, ct
<1>14. EntriesIntact'
  <2>1. ASSUME NEW i \in 1 .. n - 1
        PROVE  /\ queue[unread'[i].at] = SizeCell(DataSize(unread'[i].message))
               /\ \A c \in DataCells(unread'[i].at, DataSize(unread'[i].message)) :
                    queue[c] = DataCell(unread'[i].message)
    BY <1>4 DEF QInv, EntriesIntact
  <2>2. QED
    BY <1>4, <1>5, <2>1 DEF EntriesIntact
<1>15. InFlight'
  <2>1. delayedTail = NoStore => InOrder(head, head', tail)
    <3>1. head' = head \/ head' = x
      BY <1>5
    <3>2. delayedTail = NoStore => ct = tail
      BY DEF TailSeenByWriter
    <3> HIDE DEF h, ct, x, k, e
    <3>3. QED
      BY <1>3, <1>5, <1>6, <3>1, <3>2 DEF InOrder, Between
  <2>2. head' \in 0 .. queueSize
    BY <1>3, <1>5, <1>6
  <2>3. QED
    BY <1>1, <2>1, <2>2, HeadMoves
<1>16. Reading'
  BY <1>1 DEF Reading
<1>17. QED
  BY <1>13, <1>14, <1>15, <1>16 DEF RestOfInv

-----------------------------------------------------------------------------
(* The invariant. *)

(* It holds of the empty ring ... *)
LEMMA InitQInv == Init => QInv
<1> SUFFICES ASSUME Init PROVE QInv
  OBVIOUS
<1>1. queueSize \in Nat /\ queueSize >= 4
  BY SizeAssumption DEF Init
<1>2. /\ head = 0 /\ tail = 0 /\ delayedHead = NoStore /\ delayedTail = NoStore
      /\ unread = <<>> /\ Len(unread) = 0 /\ client = "start"
      /\ pc = [t \in Thread |-> "idle"] /\ sending = [t \in Thread |-> NoMessage]
  BY DEF Init
<1>3. TypeOK
  <2>1. queue \in [0 .. queueSize - 1 -> Cell]
    BY DEF Init, SizeCell, Cell
  <2>2. sent \in 0 .. MaxNotifications
    BY SizeAssumption DEF Init
  <2>3. unread \in Seq([at : 0 .. queueSize, message : Message])
    BY <1>2, EmptySeq
  <2>4. {head, tail, localHead, localTail, place, entry, newHead} \subseteq 0 .. queueSize
    BY <1>1 DEF Init
  <2>5. /\ storeBuffers \in BOOLEAN /\ queueSize \in QueueSizes /\ client \in ClientState
        /\ {queuePort, fNotificationPorts, machMessage} \subseteq BOOLEAN
        /\ fLock \in Thread \cup {NoThread}
        /\ {copied, received} \subseteq Message \cup {NoMessage}
        /\ delayedHead = NoStore /\ delayedTail = NoStore
    BY DEF Init, ClientState
  <2>6. pc \in [Thread -> PcState] /\ sending \in [Thread -> Message \cup {NoMessage}]
    BY <1>2 DEF PcState
  <2>7. QED
    BY <2>1, <2>2, <2>3, <2>4, <2>5, <2>6 DEF TypeOK
<1>4. OneWriter
  BY <1>2 DEF OneWriter, Busy, NobodyNotifies, Thread
<1>5. Ring
  <2>1. HeadSeenByReader = 0 /\ TailSeenByWriter = 0
    BY <1>2 DEF HeadSeenByReader, TailSeenByWriter
  <2>2. EndBefore(Len(unread) + 1) = 0
    BY <1>2, <2>1 DEF EndBefore
  <2>3. QED
    BY <1>2, <2>1, <2>2 DEF Ring, InOrder
<1>6. EntriesIntact
  BY <1>2 DEF EntriesIntact
<1>7. InFlight /\ Reading
  BY <1>2 DEF InFlight, InFlightOf, Writing, Reading
<1>8. QED
  BY <1>3, <1>4, <1>5, <1>6, <1>7 DEF QInv

(* ... and every step keeps it. *)
LEMMA NextQInv == QInv /\ [Next]_vars => QInv'
<1> SUFFICES ASSUME QInv, [Next]_vars PROVE QInv'
  OBVIOUS
<1>1. CASE Next
  <2>1. TypeOK'
    BY <1>1, WriterStepTypes, OtherStepTypes
  <2>2. OneWriter'
    BY <1>1, OneWriterStep DEF QInv
  <2>3. RestOfInv'
    <3>1. ASSUME NEW t \in Thread, WriterStep(t) PROVE RestOfInv'
      BY <3>1, AroundStep, SampleStep, WriteSizeStep, WriteDataStep, StoreTailStep, UnlockStep
      DEF WriterStep
    <3>2. CASE ClientStep
      BY <3>2, ClientWaits, DataAvailableStep, LocateEntryStep, CopyEntryStep, StoreHeadStep
      DEF ClientStep
    <3>3. CASE MemoryStep
      BY <3>3, PerformTailStep, PerformHeadStep DEF MemoryStep
    <3>4. QED
      BY <1>1, <3>1, <3>2, <3>3, NotifyStep DEF Next
  <2>4. QED
    BY <2>1, <2>2, <2>3 DEF QInv, RestOfInv
<1>2. CASE UNCHANGED vars
  <2>1. TypeOK' /\ OneWriter'
    BY <1>2
    DEF QInv, TypeOK, OneWriter, NobodyNotifies, vars, machine, memory, ports, writers, reader
  <2>2. RestOfInv'
    BY <1>2, RingUnchanged, InFlightUnchanged, ReadingUnchanged DEF QInv, RestOfInv, vars
  <2>3. QED
    BY <2>1, <2>2 DEF QInv, RestOfInv
<1>3. QED
  BY <1>1, <1>2

(* QInv is an invariant of the data queue. *)
THEOREM Invariance == Spec => []QInv
BY InitQInv, NextQInv, PTL DEF Spec

(* The variables keep their types: the head, the tail and every place stay in the ring. *)
THEOREM TypeCorrect == Spec => []TypeOK
<1>1. QInv => TypeOK
  BY DEF QInv
<1>2. QED
  BY <1>1, Invariance, PTL

(***************************************************************************)
(* What was published and not taken is in memory as it was written: neither *)
(* a later entry nor the size written at an old tail overwrites it.         *)
(***************************************************************************)
THEOREM NothingUnreadIsOverwritten == Spec => []EntriesIntact
<1>1. QInv => EntriesIntact
  BY DEF QInv
<1>2. QED
  BY <1>1, Invariance, PTL

(***************************************************************************)
(* enqueueWithBarrier refuses no notification when the queue is empty,      *)
(* wherever in the ring the head and the tail are.                          *)
(***************************************************************************)
THEOREM EmptyQueueHasRoom == Spec => RefusedOnlyIfUnread
<1>1. ASSUME QInv, [Next]_vars
      PROVE  [\A t \in Thread : pc[t] = "enqueue" /\ pc'[t] = "full" => head # tail]_pc
  <2>1. SUFFICES ASSUME NEW t \in Thread, pc[t] = "enqueue", pc'[t] = "full" PROVE head # tail
    OBVIOUS
  <2>2. pc \in [Thread -> PcState] /\ TypeOK
    BY <1>1, Types DEF QInv
  <2>3. Sample(t)
    <3>1. CASE \E u \in Thread : WriterStep(u)
      BY <2>1, <2>2, <3>1
      DEF WriterStep, Lock, WriteSize, WriteData, StoreTail, CheckEmptied,
          SendDataAvailableNotification, Unlock, Sample, Goto
    <3>2. CASE \E u \in Notifier : SocketFilterNotification(u)
      BY <2>1, <2>2, <3>2 DEF SocketFilterNotification, Goto
    <3>3. CASE StopLogging \/ UnregisterUserClient \/ FreeAllocatedResources
      BY <2>1, <2>2, <3>3 DEF StopLogging, UnregisterUserClient, FreeAllocatedResources, Goto
    <3>4. CASE ClientStep \/ MemoryStep
      <4>1. pc' = pc
        BY <3>4
        DEF ClientStep, SetNotificationPort, RegisterNotificationPort, WaitForAvailableData,
            DataAvailable, LocateEntry, CopyEntry, StoreHead, MemoryStep, PerformTail,
            PerformHead, writers
      <4>2. QED
        BY <2>1, <4>1
    <3>5. CASE UNCHANGED vars
      BY <2>1, <3>5 DEF vars, writers
    <3>6. QED
      BY <1>1, <3>1, <3>2, <3>3, <3>4, <3>5 DEF Next
  <2>4. sending[t] \in Message
    BY <1>1, <2>1 DEF QInv, OneWriter, Busy
  <2> DEFINE s == EntrySize(sending[t])
  <2>5. s \in Nat /\ 2 * s <= queueSize
    BY <2>2, <2>4, Types, Sizes
  <2>6. ~ (RoomAtEnd(s) \/ RoomBeforeHead(s) \/ RoomAtBeginning(s))
    BY <2>1, <2>2, <2>3 DEF Sample, Goto
  <2>7. head \in 0 .. queueSize /\ tail \in 0 .. queueSize /\ queueSize \in Nat
    BY <2>2, RingTypes
  <2> HIDE DEF s
  <2>8. QED
    BY <2>5, <2>6, <2>7 DEF RoomAtEnd, RoomBeforeHead, RoomAtBeginning
<1>2. QED
  BY <1>1, Invariance, PTL DEF Spec, RefusedOnlyIfUnread

-----------------------------------------------------------------------------
(* The refinement: the messages of the unread entries are the queue. *)

Messages(u) == [i \in DOMAIN u |-> u[i].message]

(* They are a sequence of messages as long as that of the entries. *)
LEMMA MessagesProperties ==
  ASSUME NEW A, NEW u \in Seq([at : A, message : Message])
  PROVE  /\ Messages(u) \in Seq(Message)
         /\ Len(Messages(u)) = Len(u) /\ Len(u) \in Nat
         /\ \A i \in 1 .. Len(u) : Messages(u)[i] = u[i].message
<1> DEFINE n == Len(u)
<1>1. n \in Nat /\ DOMAIN u = 1 .. n
  BY LenProperties
<1>2. \A i \in 1 .. n : u[i].message \in Message
  <2>1. \A i \in 1 .. n : u[i] \in [at : A, message : Message]
    BY ElementOfSeq
  <2>2. QED
    BY <2>1
<1> HIDE DEF n
<1>3. Messages(u) \in [1 .. n -> Message]
  BY <1>1, <1>2 DEF Messages
<1>4. Messages(u) \in Seq(Message) /\ DOMAIN Messages(u) = 1 .. n
  BY <1>1, <1>3, SeqDef
<1>5. Len(Messages(u)) = n
  <2>1. Len(Messages(u)) \in Nat /\ DOMAIN Messages(u) = 1 .. Len(Messages(u))
    BY <1>4, LenProperties
  <2>2. QED
    BY <1>1, <1>4, <2>1
<1>6. QED
  BY <1>1, <1>4, <1>5 DEF Messages, n

(* ... before and after a step. *)
LEMMA MessagesTypes ==
  ASSUME QInv, QInv'
  PROVE  /\ Messages(unread) \in Seq(Message) /\ Len(Messages(unread)) = Len(unread)
         /\ Len(unread) \in Nat
         /\ \A i \in 1 .. Len(unread) : Messages(unread)[i] = unread[i].message
         /\ Messages(unread') \in Seq(Message) /\ Len(Messages(unread')) = Len(unread')
         /\ \A i \in 1 .. Len(unread') : Messages(unread')[i] = unread'[i].message
<1>1. unread \in Seq([at : 0 .. queueSize, message : Message])
  BY DEF QInv, TypeOK
<1>2. unread' \in Seq([at : 0 .. queueSize', message : Message])
  BY DEF QInv, TypeOK
<1>3. QED
  BY <1>1, <1>2, MessagesProperties

(* The store of the tail puts the message at the end of the queue, *)
LEMMA StoreTailEnqueues ==
  ASSUME QInv, QInv', NEW t \in Thread, StoreTail(t), NEW n, n = Len(unread)
  PROVE  /\ sending[t] \in Message
         /\ Messages(unread') = Append(Messages(unread), sending[t])
<1> DEFINE m == sending[t]
           e == [at |-> place, message |-> m]
           q == Messages(unread)
<1>1. m \in Message
  BY WriterPlace DEF StoreTail, Writing
<1>2. n \in Nat /\ q \in Seq(Message) /\ Len(q) = n /\ \A i \in 1 .. n : q[i] = unread[i].message
  BY MessagesTypes
<1>3. /\ Messages(unread') \in Seq(Message) /\ Len(Messages(unread')) = Len(unread')
      /\ \A i \in 1 .. Len(unread') : Messages(unread')[i] = unread'[i].message
  BY MessagesTypes
<1>4. /\ Len(unread') = n + 1 /\ unread'[n + 1] = e
      /\ \A i \in 1 .. n : unread'[i] = unread[i]
  <2>1. unread \in Seq(UnreadEntry) /\ e \in UnreadEntry
    BY <1>1, Types DEF UnreadEntry, QInv
  <2>2. QED
    BY <2>1, AppendProperties DEF StoreTail
<1>5. /\ Append(q, m) \in Seq(Message) /\ Len(Append(q, m)) = n + 1
      /\ Append(q, m)[n + 1] = m /\ \A i \in 1 .. n : Append(q, m)[i] = q[i]
  BY <1>1, <1>2, AppendProperties
<1>6. ASSUME NEW i \in 1 .. n + 1 PROVE Messages(unread')[i] = Append(q, m)[i]
  <2>1. Messages(unread')[i] = unread'[i].message
    BY <1>3, <1>4
  <2>2. CASE i = n + 1
    BY <1>4, <1>5, <2>1, <2>2
  <2>3. CASE i \in 1 .. n
    BY <1>2, <1>4, <1>5, <2>1, <2>3
  <2>4. QED
    BY <1>2, <2>2, <2>3
<1> HIDE DEF q, m
<1>7. Messages(unread') = Append(q, m)
  BY <1>3, <1>4, <1>5, <1>6, SeqEqual
<1>8. QED
  BY <1>1, <1>7 DEF q, m

(* and that of the head takes the first one. *)
LEMMA StoreHeadDequeues ==
  ASSUME QInv, QInv', StoreHead, NEW n, n = Len(unread)
  PROVE  LET q == Messages(unread) IN
         q # <<>> /\ received' = Head(q) /\ Messages(unread') = Tail(q)
<1> DEFINE q == Messages(unread)
<1>1. n > 0 /\ received' = unread[1].message
  BY DEF StoreHead, QInv, Reading
<1>2. n \in Nat /\ q \in Seq(Message) /\ Len(q) = n /\ \A i \in 1 .. n : q[i] = unread[i].message
  BY MessagesTypes
<1>3. /\ Messages(unread') \in Seq(Message) /\ Len(Messages(unread')) = Len(unread')
      /\ \A i \in 1 .. Len(unread') : Messages(unread')[i] = unread'[i].message
  BY MessagesTypes
<1>4. /\ Len(unread') = n - 1
      /\ \A i \in 1 .. n - 1 : unread'[i] = unread[i + 1] /\ i + 1 \in 1 .. n
  BY <1>1, Taken DEF QInv
<1> HIDE DEF q
<1>5. q # <<>>
  BY <1>1, <1>2, EmptySeq
<1>6. /\ Tail(q) \in Seq(Message) /\ Len(Tail(q)) = n - 1
      /\ \A i \in 1 .. n - 1 : Tail(q)[i] = q[i + 1]
  BY <1>2, <1>5, HeadTailProperties
<1>7. received' = Head(q)
  <2>1. Head(q) = q[1]
    BY <1>2, <1>5
  <2>2. 1 \in 1 .. n
    BY <1>1, <1>2
  <2>3. QED
    BY <1>1, <1>2, <2>1, <2>2
<1>8. ASSUME NEW i \in 1 .. n - 1 PROVE Messages(unread')[i] = Tail(q)[i]
  BY <1>2, <1>3, <1>4, <1>6
<1>9. Messages(unread') = Tail(q)
  BY <1>3, <1>4, <1>6, <1>8, SeqEqual
<1>10. QED
  BY <1>5, <1>7, <1>9 DEF q

(* The other steps are invisible to the queue. *)
LEMMA OtherStepsStutter ==
  ASSUME [Next]_vars, \A t \in Thread : ~ StoreTail(t), ~ StoreHead
  PROVE  unread' = unread /\ received' = received
<1>1. CASE \E t \in Thread : WriterStep(t)
  BY <1>1
  DEF WriterStep, Lock, Sample, WriteSize, WriteData, CheckEmptied,
      SendDataAvailableNotification, Unlock, reader
<1>2. CASE \E t \in Notifier : SocketFilterNotification(t)
  BY <1>2 DEF SocketFilterNotification, reader
<1>3. CASE StopLogging \/ UnregisterUserClient \/ FreeAllocatedResources
  BY <1>3 DEF StopLogging, UnregisterUserClient, FreeAllocatedResources, reader
<1>4. CASE ClientStep
  BY <1>4
  DEF ClientStep, SetNotificationPort, RegisterNotificationPort, WaitForAvailableData,
      DataAvailable, LocateEntry, CopyEntry
<1>5. CASE MemoryStep
  BY <1>5 DEF MemoryStep, PerformTail, PerformHead, reader
<1>6. CASE UNCHANGED vars
  BY <1>6 DEF vars, reader
<1>7. QED
  BY <1>1, <1>2, <1>3, <1>4, <1>5, <1>6 DEF Next

(***************************************************************************)
(* The ring of cells implements the queue, with delayed stores as well:     *)
(* StoreTail is Enqueue, StoreHead is Dequeue, every other step a stutter.  *)
(***************************************************************************)
THEOREM ImplementsQueue == Spec => ImplementsNotificationQueue
<1>1. Init => Queued!Init
  <2>1. Init => unread = <<>> /\ received = NoMessage
    BY DEF Init
  <2>2. Messages(<<>>) = <<>>
    BY DEF Messages
  <2>3. QED
    BY <2>1, <2>2 DEF Queued!Init, Messages
<1>2. QInv /\ QInv' /\ [Next]_vars => [Queued!Next]_(Queued!vars)
  <2>1. SUFFICES ASSUME QInv, QInv', [Next]_vars PROVE [Queued!Next]_(Queued!vars)
    OBVIOUS
  <2>2. ASSUME NEW t \in Thread, StoreTail(t) PROVE Queued!Next
    <3>1. sending[t] \in Message /\ Messages(unread') = Append(Messages(unread), sending[t])
      BY <2>1, <2>2, StoreTailEnqueues
    <3>2. received' = received
      BY <2>2 DEF StoreTail, reader
    <3>3. \E m \in Message :
            Messages(unread') = Append(Messages(unread), m) /\ received' = received
      BY <3>1, <3>2
    <3>4. QED
      BY <3>3 DEF Queued!Next, Queued!Enqueue, Messages
  <2>3. CASE StoreHead
    BY <2>1, <2>3, StoreHeadDequeues DEF Queued!Next, Queued!Dequeue, Messages
  <2>4. CASE (\A t \in Thread : ~ StoreTail(t)) /\ ~ StoreHead
    BY <2>1, <2>4, OtherStepsStutter DEF Queued!vars
  <2>5. QED
    BY <2>2, <2>3, <2>4
<1>3. QED
  BY <1>1, <1>2, Invariance, PTL DEF Spec, ImplementsNotificationQueue, Queued!Spec

-----------------------------------------------------------------------------
(***************************************************************************)
(* The client of a data queue is not left asleep on data where processors   *)
(* do not delay stores: the second test of enqueueWithBarrier, that of the  *)
(* head against the old tail, is enough there.  (The run wakeup_lost shows  *)
(* that it is not where they do.)                                           *)
(***************************************************************************)

(* A message waits for the client, or a thread is about to send one. *)
Woken ==
  \/ machMessage
  \/ \E t \in Thread : pc[t] = "notify" \/ (pc[t] = "checkEmptied" /\ MustNotify)

(* The port is there before the first notification is, and the client in its loop. *)
Registered == queuePort /\ client \notin {"start", "gone", "registering"}

(* The client does not wait on data for nothing. *)
Awake == ~ storeBuffers /\ sent > 0 /\ client = "wait" /\ unread # <<>> => Woken

WInv ==
  /\ fNotificationPorts \/ sent > 0 => Registered
  /\ client = "registering" => queuePort
  /\ \A t \in Notifier : pc[t] # "idle" => sent > 0
  /\ unread # <<>> => sent > 0 \/ pc[Terminator] \notin {"idle", "unregister"}
  /\ ~ storeBuffers => delayedHead = NoStore /\ delayedTail = NoStore
  /\ Awake

(* Nobody is awaited at first. *)
LEMMA InitWInv == Init => WInv
<1> SUFFICES ASSUME Init PROVE WInv
  OBVIOUS
<1>1. /\ fNotificationPorts = FALSE /\ sent = 0 /\ unread = <<>> /\ delayedHead = NoStore
      /\ delayedTail = NoStore /\ pc = [t \in Thread |-> "idle"]
      /\ client = "start"
  BY DEF Init
<1>2. QED
  BY <1>1 DEF WInv, Awake, Thread

(* Where the head has come to the tail, nothing is unread. *)
LEMMA EmptyWhenEqual ==
  ASSUME QInv, HeadSeenByReader = TailSeenByWriter
  PROVE  unread = <<>>
<1> DEFINE h == HeadSeenByReader
<1>1. h \in 0 .. queueSize /\ queueSize \in Nat /\ unread \in Seq(UnreadEntry) /\ Len(unread) \in Nat
  BY Types DEF QInv
<1>2. ASSUME Len(unread) > 0 PROVE FALSE
  <2> DEFINE e == unread[1]
             a == e.at
             b == EndOf(e)
             d == DataSize(e.message)
  <2>1. 1 \in 1 .. Len(unread)
    BY <1>1, <1>2
  <2>2. a \in 0 .. queueSize /\ b = a + d + 1 /\ d \in Nat
    BY <2>1, EntryTypes DEF QInv
  <2>3. Between(a, b, h, h)
    BY <2>1 DEF QInv, Ring, Placed
  <2> HIDE DEF a, b, d, h
  <2>4. QED
    BY <1>1, <2>2, <2>3 DEF Between
<1>3. Len(unread) = 0
  <2>1. \A k \in Nat : k > 0 \/ k = 0
    OBVIOUS
  <2>2. QED
    BY <1>1, <1>2, <2>1
<1>4. QED
  BY <1>1, <1>3, EmptySeq

(* ... and where nothing is unread, the head has come to the tail. *)
LEMMA EqualWhenEmpty ==
  ASSUME Ring, unread = <<>>
  PROVE  HeadSeenByReader = TailSeenByWriter
<1>1. Len(unread) = 0
  BY EmptySeq
<1>2. QED
  BY <1>1 DEF Ring, EndBefore

(* The steps of a thread that enqueues. *)
LEMMA WriterKeepsWInv ==
  ASSUME QInv, WInv, NEW t \in Thread, WriterStep(t)
  PROVE  WInv'
<1>1. /\ pc \in [Thread -> PcState] /\ sent \in Nat /\ Terminator \in Thread
      /\ \A u \in Notifier : u \in Thread /\ u # Terminator
      /\ \A u \in Thread : u \in Notifier \/ u = Terminator
  BY Types, SizeAssumption, ThreadAssumption DEF QInv, Thread
<1> USE DEF Goto, machine, memory, ports, writers, reader
<1>2. CASE Lock(t) \/ WriteSize(t) \/ WriteData(t)
  BY <1>1, <1>2 DEF WInv, Registered, Awake, Woken, MustNotify, Lock, WriteSize, WriteData
<1>3. ASSUME pc[t] \in Busy, NEW u \in Thread, u # t
      PROVE  pc[u] \notin {"notify", "checkEmptied"}
  BY <1>3, Alone DEF QInv, Busy
<1>4. CASE Sample(t)
  <2>1. Woken => machMessage
    BY <1>1, <1>3, <1>4 DEF Sample, Woken, Busy
  <2>2. /\ UNCHANGED <<memory, ports, reader, storeBuffers, sent, unread>>
        /\ pc[t] = "enqueue" /\ pc'[t] \in {"writeSize", "full"}
        /\ \A u \in Thread : u # t => pc'[u] = pc[u]
    BY <1>1, <1>4 DEF Sample
  <2>3. machMessage' => Woken'
    BY DEF Woken
  <2>4. QED
    BY <1>1, <2>1, <2>2, <2>3 DEF WInv, Registered, Awake
<1>5. CASE StoreTail(t)
  <2>1. sent > 0 \/ t = Terminator
    BY <1>1, <1>5 DEF WInv, StoreTail
  <2>2. ~ storeBuffers => delayedHead' = NoStore /\ delayedTail' = NoStore
    BY <1>5 DEF WInv, StoreTail
  <2>3. Woken => machMessage
    BY <1>1, <1>3, <1>5 DEF StoreTail, Woken, Busy
  <2>4. localTail = tail
    BY <1>5, WriterPlace DEF StoreTail, Writing
  <2>5. ASSUME ~ storeBuffers, unread = <<>> PROVE head = localTail
    <3>1. delayedHead = NoStore /\ delayedTail = NoStore
      BY <2>5 DEF WInv
    <3>2. HeadSeenByReader = TailSeenByWriter
      BY <2>5, EqualWhenEmpty DEF QInv
    <3>3. QED
      BY <2>4, <3>1, <3>2 DEF HeadSeenByReader, TailSeenByWriter
  <2>6. ASSUME ~ storeBuffers, unread = <<>> PROVE Woken'
    <3>1. head' = head /\ localTail' = localTail /\ pc'[t] = "checkEmptied"
      BY <1>1, <1>5 DEF StoreTail
    <3>2. QED
      BY <2>5, <2>6, <3>1 DEF Woken, MustNotify
  <2>7. Awake'
    <3>1. /\ storeBuffers' = storeBuffers /\ sent' = sent /\ client' = client
          /\ machMessage' = machMessage
      BY <1>5 DEF StoreTail
    <3>2. machMessage' => Woken'
      BY DEF Woken
    <3>3. QED
      BY <2>3, <2>6, <3>1, <3>2 DEF WInv, Awake
  <2>8. /\ fNotificationPorts' \/ sent' > 0 => Registered'
        /\ \A u \in Notifier : pc'[u] # "idle" => sent' > 0
        /\ sent' > 0 \/ pc'[Terminator] \notin {"idle", "unregister"}
        /\ storeBuffers' = storeBuffers
        /\ client' = "registering" => queuePort'
    BY <1>1, <1>5, <2>1 DEF WInv, Registered, StoreTail
  <2>9. QED
    BY <2>2, <2>7, <2>8 DEF WInv
<1>6. CASE CheckEmptied(t)
  <2>1. Woken => machMessage \/ MustNotify
    BY <1>1, <1>3, <1>6 DEF CheckEmptied, Woken, Busy
  <2>2. MustNotify => pc'[t] = "notify"
    BY <1>1, <1>6 DEF CheckEmptied
  <2>3. Woken => Woken'
    BY <1>6, <2>1, <2>2 DEF CheckEmptied, Woken
  <2>4. QED
    BY <1>1, <1>6, <2>3 DEF WInv, Registered, Awake, CheckEmptied
<1>7. CASE SendDataAvailableNotification(t)
  <2>1. sent > 0 => machMessage'
    BY <1>7 DEF SendDataAvailableNotification, WInv, Registered
  <2>2. QED
    BY <1>1, <1>7, <2>1 DEF WInv, Registered, Awake, Woken, SendDataAvailableNotification
<1>8. CASE Unlock(t)
  <2>1. Woken => machMessage
    BY <1>1, <1>3, <1>8 DEF Unlock, Woken, Busy
  <2>2. QED
    BY <1>1, <1>8, <2>1 DEF WInv, Registered, Awake, Woken, Unlock
<1>9. QED
  BY <1>2, <1>4, <1>5, <1>6, <1>7, <1>8 DEF WriterStep

(* The steps of the client. *)
LEMMA ClientKeepsWInv ==
  ASSUME QInv, WInv, ClientStep
  PROVE  WInv'
<1> USE DEF machine, memory, ports, writers, reader
<1>1. sent \in Nat
  BY Types, SizeAssumption DEF QInv
<1>2. CASE SetNotificationPort
  BY <1>1, <1>2 DEF WInv, Registered, Awake, SetNotificationPort
<1>3. CASE RegisterNotificationPort
  BY <1>1, <1>3 DEF WInv, Registered, Awake, RegisterNotificationPort
<1>4. CASE WaitForAvailableData \/ LocateEntry \/ CopyEntry
  BY <1>1, <1>4 DEF WInv, Registered, Awake, WaitForAvailableData, LocateEntry, CopyEntry
<1>5. CASE DataAvailable
  <2>1. ASSUME ~ storeBuffers, client' = "wait" PROVE unread = <<>>
    <3>1. delayedHead = NoStore /\ delayedTail = NoStore
      BY <2>1 DEF WInv
    <3>2. HeadSeenByReader = tail
      BY <1>5, <2>1 DEF DataAvailable
    <3>3. QED
      BY <3>1, <3>2, EmptyWhenEqual DEF TailSeenByWriter
  <2>2. QED
    BY <1>1, <1>5, <2>1 DEF WInv, Registered, Awake, DataAvailable
<1>6. CASE StoreHead
  <2>1. unread' # <<>> => unread # <<>>
    <3>1. Len(unread) > 0
      BY <1>6 DEF QInv, Reading, StoreHead
    <3>2. QED
      BY <3>1, EmptySeq
  <2>2. QED
    BY <1>1, <1>6, <2>1 DEF WInv, Registered, Awake, StoreHead
<1>7. QED
  BY <1>2, <1>3, <1>4, <1>5, <1>6 DEF ClientStep

(* The other steps. *)
LEMMA OthersKeepWInv ==
  ASSUME QInv, WInv,
         \/ \E t \in Notifier : SocketFilterNotification(t)
         \/ StopLogging \/ UnregisterUserClient \/ FreeAllocatedResources
         \/ MemoryStep \/ UNCHANGED vars
  PROVE  WInv'
<1>1. /\ pc \in [Thread -> PcState] /\ sent \in Nat /\ Terminator \in Thread
      /\ \A u \in Notifier : u \in Thread /\ u # Terminator
  BY Types, SizeAssumption, ThreadAssumption DEF QInv, Thread
<1> USE DEF Goto, machine, memory, ports, writers, reader
<1>2. ASSUME NEW t \in Notifier, SocketFilterNotification(t) PROVE WInv'
  <2>1. sent > 0 \/ unread = <<>>
    BY <1>2 DEF WInv, SocketFilterNotification
  <2>2. Woken => Woken'
    BY <1>1, <1>2 DEF Woken, MustNotify, SocketFilterNotification
  <2>3. sent' > 0
    BY <1>1, <1>2 DEF SocketFilterNotification
  <2>4. QED
    BY <1>1, <1>2, <2>1, <2>2, <2>3 DEF WInv, Registered, Awake, SocketFilterNotification
<1>3. CASE StopLogging \/ UnregisterUserClient \/ FreeAllocatedResources
  <2>1. Woken => Woken'
    BY <1>1, <1>3
    DEF Woken, MustNotify, StopLogging, UnregisterUserClient, FreeAllocatedResources
  <2>2. pc[Terminator] \notin {"idle", "unregister"} =>
          pc'[Terminator] \notin {"idle", "unregister"}
    BY <1>1, <1>3 DEF StopLogging, UnregisterUserClient, FreeAllocatedResources
  <2>3. QED
    BY <1>1, <1>3, <2>1, <2>2
    DEF WInv, Registered, Awake, StopLogging, UnregisterUserClient, FreeAllocatedResources
<1>4. CASE MemoryStep
  <2>1. storeBuffers
    BY <1>4 DEF WInv, MemoryStep, PerformTail, PerformHead
  <2>2. UNCHANGED <<storeBuffers, fNotificationPorts, queuePort, client, sent, pc, unread>>
    BY <1>4 DEF MemoryStep, PerformTail, PerformHead
  <2>3. QED
    BY <2>1, <2>2 DEF WInv, Registered, Awake
<1>5. CASE UNCHANGED vars
  BY <1>5 DEF WInv, Registered, Awake, Woken, MustNotify, vars
<1>6. QED
  BY <1>2, <1>3, <1>4, <1>5

(* Every step keeps the invariant. *)
LEMMA NextWInv == QInv /\ WInv /\ [Next]_vars => WInv'
BY WriterKeepsWInv, ClientKeepsWInv, OthersKeepWInv DEF Next

(* WInv is an invariant of the data queue. *)
THEOREM WakeupInvariance == Spec => []WInv
BY InitWInv, NextWInv, Invariance, PTL DEF Spec

(***************************************************************************)
(* Where no store is delayed, the client never sleeps on a queue that holds *)
(* data with nobody about to wake it: what enqueueWithBarrier says of a     *)
(* queue that was "emptied during enqueue".                                 *)
(***************************************************************************)
THEOREM ClientIsWoken == Spec => []WakeupInOrder
<1>1. QInv /\ WInv => WakeupInOrder
  <2>1. SUFFICES ASSUME QInv, WInv, ~ storeBuffers, Asleep PROVE unread = <<>> \/ sent = 0
    BY DEF WakeupInOrder, NoLostWakeup
  <2>2. sent \in Nat
    BY <2>1, Types, SizeAssumption DEF QInv
  <2>3. sent = 0 \/ sent > 0
    BY <2>2
  <2>4. QED
    BY <2>1, <2>3 DEF WInv, Awake, Woken, Asleep
<1>2. QED
  BY <1>1, Invariance, WakeupInvariance, PTL
=============================================================================
