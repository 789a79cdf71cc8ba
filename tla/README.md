# A verification project for MacOSX-Network-Sockets-Filter

TLA+ modules that model the socket filter, TLC runs that check them on small
instances, and proofs that TLAPS checks for every instance. Source paths are
relative to the repository; `SO` stands for
`NKE/NetworkKernelExtension/NkeSocketObject.cpp`, `SF` for `NkeSocketFilter.cpp`
and `UC` for `NkeIOUserClient.cpp` in the same directory.

Run from this directory:

    tlc -config socket_detach.cfg MCSocketObject
    tlapm NkeSocketLifecycle_proofs.tla

## 1. The system and its parts

A network kernel extension attaches a filter to every TCP socket. Data in either
direction is taken from the stream, queued, copied to shared buffers and reported
to one user-mode client, which allows or denies each packet. Allowed packets are
injected back, in order. The hard part is that many threads work on one queue
without a common lock, that reports fail when buffers or the client are missing,
and that the socket may be shut down or go away at any moment.

| Part | State | Operations | Talks to |
|---|---|---|---|
| Deferred data of a socket (SO, `NkeSocketObject.h`) | `pendingQueue`, `packetsWaitingForReporting`, `numberOfPending*Packets`, `SocketsListToReport`, `injectionMutex`, `rwLock`, event flags | `FltData`, `DeliverWaitingNotifications`, `reinjectDeferredData`, `setDeferredDataProperties`, `purgePendingQueue`, `checkForInjectionCompletion`, `InjectionThreadRoutine` | buffers, client, kernel socket |
| Callbacks of the filter (SF) | `gSocketFilter`, registration flags | `FltAttach`, `FltDetach`, `FltNotify`, `FltDataIn/Out`, `FltConnect*`, `FltBind` | socket objects |
| Pool of communication buffers (SF 1084-1284) | `freeBuffers`, `freeBuffersHead` | acquire, release, `copyDataToBuffers`, `releaseDataBuffers` | everyone who reports; the client, which returns indices |
| Reference to the user client (UC 724-866) | `userClient`, `pendingUnregistration`, `clientInvocations` | register, unregister, get, release | every notification |
| User client (UC) | open state, notification port, data queue, its lock | open, close, terminate, `socketFilterNotification`, `processServiceSocketFilterResponse` | the reference, the filter |
| Data queue (UC 514-593, 613-653; dequeue in SO 42-90) | ring with head and tail in shared memory, port | enqueue with a barrier, dequeue, wake-up message | kernel threads, the client process |
| Socket object lifecycle (SO 421-605, SF 340-448) | `SocketsList`, reference counts, sequence number | `withSocket`, insert, remove, lookup, `free` | `FltAttach`, `FltDetach`, responses, the injection thread |
| Locks | `rwLock`, injection mutex and detaching lock of a socket, two list locks, the user client's lock, the kernel's socket lock | the order in which functions take them | everybody |
| Filter and driver start/stop (SF 228-326, `NetworkKernelExtension.cpp`) | registration flags | `startFilter`, `stopFilter`, `start`, `stop`, `newUserClient` | IOKit |
| Data tags, addresses, buffers' memory, logging | fields of the socket object, OS memory | tag, untag, record, map | - |
| Example client (`NkeClient/NkeClient/main.cpp`) | none of its own | answers each notification, allowing it | data queue, user client |

How they interact: `FltData` (a kernel thread for each direction of a socket)
queues a packet and reports it through the pool, the client reference and the
data queue. The client answers by a call that runs `processServiceResponse` in a
kernel thread of its own: it releases the buffers, delivers reports that wait for
buffers - of any socket - then finds the socket, marks the packet and injects
what can be injected. Once a second the injection thread does the last two for all sockets.
`FltNotify` and `FltDetach` inject, purge and wait, each for its part of the queue.

What makes the parts correct:

* deferred data: order of reports and of injections, no data without permission,
  no packet, report or sleeping sender forgotten, exact counters, nothing left
  after detach, a restored receive window, threads that return;
* pool: one holder for a buffer, none lost, loops that end;
* client reference: no use after release, an unregistration that returns;
* data queue: no notification lost, overwritten or left without a wake-up;
* lifecycle: no object freed while it is used or kept for ever, an answer never
  applied to a later socket at the same address;
* locks: nobody waits for himself through others.

The hazards, each with its line and the properties that cover it, are listed in
`PROJECT.json`; a hazard without a property says there why it has none.

## 2. The modules and the code

| Module | Models or proves |
|---|---|
| `NkeSocketObject`, `MCSocketObject` | the deferred data of the sockets |
| `NkeSocketObject_proofs`, `NkeSocketReports_proofs`, `NkeSocketInjection_proofs` | its theorems, each extending the one before |
| `NkeBufferPool` | the lock-free list of buffers |
| `SocketBuffers` | what the pool promises |
| `NkeBufferPool_proofs` | that the pool keeps the promise until one of two faults |
| `NkeDataQueue` | the ring between kernel and client, and its wake-ups |
| `NotificationQueue` | what the ring promises |
| `NkeDataQueue_proofs` | that it keeps the promise, and wakes the client |
| `NkeSocketLifecycle`, `NkeSocketLifecycle_proofs` | the objects: lists, references, addresses used again |
| `NkeIOUserClientRef`, `NkeIOUserClientRef_proofs` | the reference to the client |
| `NkeLocks`, `NkeLocks_proofs` | the order of the locks |

**`NkeSocketObject`** (SO, and the calls of SF that reach it). The state of each
socket is a function on `Socket`, with the names of the code. A section under
`rwLock` is one action; the injection mutex is held over several actions and is
a variable; `SocketsListToReportLock` is a leaf and is inside the action or an
action of its own, as in the code. `pc[t]` says where a thread is:

| Actions | Code |
|---|---|
| `FltData`, `Enqueue`, `Notify`, `WakeUp` | `FltData` SO 991-1312, `allocatePkt` 782-847 |
| `DeliverPop`, `DeliverScan`, `DeliverReinsert` | `DeliverWaitingNotifications` SO 1319-1601 |
| `Reinject`, `Inject` | `reinjectDeferredData` SO 1677-1895 |
| `Purge` | `purgePendingQueue` SO 2019-2118 |
| `Drain` | `checkForInjectionCompletion( All, true )` SO 2122-2183 |
| `SocketEvent`, `EventDone` | `FltNotify` SF 468-811, `logSocketPostEvent` SO 708-755 |
| `Unlist`, `Unreport` | `removeFromSocketsList` SO 509-566, called by `FltDetach` SF 413-448 |
| `Respond`, `Lookup`, `SetDeferredDataProperties` | the client's loop `main.cpp` 133-197; `processServiceResponse` SF 1288-1334; SO 570-603, 1899-1973 |
| `CollectSockets`, `NextSocket` | `InjectionThreadRoutine` SO 152-316 |
| `Expire` | the deadline of 60 s, `NkeSocketObject.h` 250-261 |

The queue is a set of entries with the `place` each got at the tail, which is
its order. One run of the loop of `DeliverWaitingNotifications` is one action
with a free choice (`ScanOutcome`) of which reports succeed: copies fail when
the pool is empty and notifications when the client is missing or its queue is
full, so both fail here whenever they like. `granted` is history: the pending
data the client has allowed.

**`SocketBuffers`** is what the pool promises: a set of free buffers, and one
holder for each other. **`NkeBufferPool`** is the code: one action for each load,
store and compare-and-swap of the linked array, with the load of the next link
before the compare-and-swap. It implements `SocketBuffers` with the refinement
`free <- FreeList`, the buffers reached from the head: those that are in every
set that has the head and is closed under the links. The history variable
`faulted` becomes true when a compare-and-swap succeeds with a link that has
changed since it was loaded (`StaleLink`), or when `FltData` releases the indices
of a failed copy a second time (`ReleasesTwice`).

**`NkeDataQueue`** is the `IODataQueue` in shared memory: `enqueueWithBarrier`
under the lock of the user client, `IODataQueueDequeue` in the client without
one, the messages to the port, `registerNotificationPort`, and the stop message
of `freeAllocatedResources`. The ring is an array of cells; an entry is a size
cell and data cells, and every load, store and copy is an action, so that the
client can read a half-written entry if the order of the stores lets it. A store
of the head or tail may wait in the store buffer of its processor
(`storeBuffers`, chosen once at the start), as the x86 target allows where no
barrier and no locked instruction follows. The ring implements
**`NotificationQueue`**, a plain queue, with `queue <- unread`.

**`NkeSocketLifecycle`** follows the objects instead of the packets: their
reference counts, the two lists that hold references, the thread-local ones of
`removeFromSocketsList`, of `FltAttach` to an object left at its address, of
`InjectionThreadRoutine` and of `DeliverWaitingNotifications`, whose reference
moves from the list to the thread and back. The deferred data is three numbers
(to be reported, reported, in injection) that bound what the functions do with
an object. The kernel may miss a detach callback, as the comment of `FltAttach`
says it does.

**`NkeIOUserClientRef`** models the client reference one load, store or atomic
operation at a time, and the `open`, `startLogging`, `terminate` and
`stopLogging` of the clients that use it. The second reference of the code,
`gServiceUserClient`, is not modelled. This module and the pool take the loads
and stores of different threads to happen in one order, as the locked
instructions of the target (x86) make them.

**`NkeLocks`** has nothing but locks: a function is the path of lock operations
it goes along, from `FltAttach` to the injection thread. The kernel's socket
lock is taken by the calls that inject data, read an address and set the receive
buffer (`CallOfSocket`), two of which are made under `rwLock` (SO 1188, 1498); if
`HeldInCallbacks` it is held around `sock_evt_closing` and `FltDetach`, of which
the comments of SF 672 and SO 1652 say so. Every event begins and ends with
`rwLock` (`LogEvent`). The callbacks for connections and addresses go along a part
of the path of `Connected`.

**`MCSocketObject`** names the set of events of the runs; the other modules are
run as they are. `..._proofs` modules hold the theorems.

### What is assumed of the kernel

* `FltData` calls of one direction of a socket do not overlap (send-buffer lock
  and TCP input path), so there is one wait entry for each socket at most.
* `FltDetach` comes when no `FltData` of the socket is in progress, and nothing
  of the filter is called for the socket afterwards.
* The events of one socket are sequential and each comes at most once.
* `NkeLocks` assumes the same of the callbacks of one socket (`NotTogether`):
  attach and detach come alone, events one after the other, data at any time.
* In `NkeSocketObject` each socket is attached once; objects that follow each
  other at one address are the subject of `NkeSocketLifecycle`.

## 3. The runs

All bounds are constants of the cfg: `MaxData` bounds the calls of `FltData` for
one socket, `MaxEvents` the events before `FltDetach`, `MaxParts` the buffers of
a packet, `MaxNotifications` the notifications sent, `MaxObjects` the sockets
attached one after the other, `MaxPending` the packets an object defers.

| Run | Instance | Shows |
|---|---|---|
| `socket_detach` | 1 socket, 2 packets, client thread, injection thread, `FltDetach` | `TypeOK`, `UnreportedAtTail`, `ReportingCountExact`, `ReportNeverForgotten`, `SleeperHasItsPacket`, `PendingCountersExact`, `QuietAfterDetach`; `InjectedWithPermission`, `InjectionInOrder`, `ReportedInOrder` |
| `socket_live` | 1 packet, one event of any kind, then perhaps detach; fair | `WindowRestored`; `SenderWakesUp`, `QueueDrains`, `EventReturns` |
| `lifecycle` | 1 address, 2 objects, a calling, a delivering and the injection thread; fair | `TypeOK`, `RetainCountExact`, `NoUseAfterFree`, `FreedWithNothingLeft`, `NoPacketOutlivesDetach`, `OneObjectPerSocket`, `ResponseForItsSocket`; `FreedForEver`, `DetachedIsFreed` |
| `data_queue` | rings of 6 and of 7 cells, entries of 3, 4 notifications of 2 threads, stop message; delayed stores or not; fair | `TypeOK`, `EntriesIntact`, `WakeupInOrder`; `ImplementsNotificationQueue`, `RefusedOnlyIfUnread`, `MessageIsRead` |
| `pool` | 2 buffers, a thread in `FltData`, a delivering thread, a client thread, packets of 1 or 2 parts, up to the first fault; fair | `TypeOK`, `SharedOnlyAfterFault`, `LostOnlyAfterFault`; `ImplementsSocketBuffersUntilFault`, `ReportReturns` |
| `own_locks` | 1 socket, 3 threads, socket lock held in callbacks | `CirclesNeedTheSocketLock` |
| `client_ref` | 3 clients, 2 callers; fair | `TypeOK`, `NoUseAfterRelease`, `InvocationsExact`, `PendingIsTemporary`; `UnregisterReturns` |

What each property says and which code it is about is in the comment before it.

Why the bounds are enough. Two packets are the least at which order, overtaking
and a partly reported queue exist, and all threads that work on a socket besides
the senders are present in `socket_detach`; more packets, more sockets, more
client threads and longer sequences of events are left to the proofs, which
cover every safety property of this module. Liveness depends on what happens to
one packet, in every kind of event and in an event followed by detach. Two
objects at one address are the least at which a late response can meet a wrong
object. A ring of 6 cells is filled exactly by two entries and one of 7 is not,
so both kinds of wrap are met (with the size written at the old tail, and
without); four notifications go round the ring twice; the proofs are for every capacity,
size and number. With two buffers and two taking threads, a packet of two parts
finds one buffer only, both takers fail at once and give back together, also
while the client does, and each of them can lose the head to any other: all the
contention the words of the pool can have, and enough for both faults. The run has
the constraint `UntilFault`, since its properties say nothing of what comes after
one; that nothing else gives a buffer to two packets is proved (section 5).
A circle of the driver's locks needs two threads, and a third
can be the one that holds what both want; one socket has all of its locks. The
client reference needs three clients for two overlapping unregistrations and a
third registration.

Deadlock is checked in the runs of the pool, which never stops as a whole. In
`own_locks` it is what the socket's lock causes (`lock_order`). The other systems
really may stop: a detached socket gets no data, a stopped queue no message, a terminated client does nothing.

### Where the code and its own words disagree

Each of these runs checks one statement of a comment or assertion and finds it
violated.

* `response_lost` - SO 1969 asserts that a response finds its packet unless the
  socket was closed or shut down. `FltDetach` purges as well: a response that
  looked the socket up before meets an empty queue after.
* `wakeup_lost` - the second condition at UC 587 is to send a message also when
  the queue was emptied during the enqueue. The barrier stands before the store
  of the tail and none after it, so the load of the head may come first: the
  client misses the entry and no message follows. `WakeupInOrder` and
  `MessageIsRead` of `data_queue` show that the code is right without that delay.
* `lock_order` - SO 1622 and 1629 forbid locks held across system calls, and
  injection under a lock that a callback called with the socket lock takes. The
  code has two circles with the socket lock. It sets the receive buffer under
  `rwLock` (SO 1188, 1498), which `logSocketPreEvent` takes in `sock_evt_closing`
  (SF 525, SO 666) and `removeFromSocketsList` in `FltDetach`. And it injects under
  the injection mutex, which `purgePendingQueue` takes in the same callbacks. TLC
  prints one of them. `own_locks` shows that every circle goes through the socket lock.
* `pool_shared` - SF 1092 and 1160 say there is no ABA problem. With two
  threads taking buffers there is: the head is taken, the buffer behind it too,
  and the first given back, between the load of the link and the
  compare-and-swap. `pool` shows that a stale link, or the second release below, is
  needed for it.
* `client_refused` - UC 736 asserts that a client that has opened the driver
  finds none registered; `terminate` closes before it unregisters.

Other things met while modelling, which need no run:

* SO 1125 and 1442 assert that a failed `copyDataToBuffers` leaves an empty array
  (`buffers[0]` is `UINT8_MAX`); it leaves the indices it has released (SF
  1239-1250), and `FltData` releases them again (SO 1272), the second of the faults
  of the pool. `DeliverWaitingNotifications` releases once;
* the assertion of UC 836 that an unregistration is pending when `getUserClient`
  gives up fails as well (one can begin and end before `clientInvocations` is
  raised), and an unregistration waits for the invocations of a client that was
  registered later too, against the comment of UC 776;
* `purgePendingQueue` in `FltDetach` takes the injection mutex, so that the wait
  of `checkForInjectionCompletion` after it always finds the counters at zero:
  what the proof of `DetachIsQuiet` uses;
* `reinjectDeferredData` tests an uninitialised `error` of a denied packet
  (SO 1795, 1843), with no effect beyond a trace; the retain at SO 259 never runs
  (its condition is an end of list);
* where memory is short `start` halves `fQueueSize` and then allocates half of
  that (UC 155-156); `enqueueWithBarrier` uses the true size;
* with `DBG` defined the check of the port in `socketFilterNotification` is
  compiled out;
* `gSocketSequence` wraps after 2^32 sockets, then a late response could name
  another object; a socket whose detach callback is missed keeps its packets
  until its address is used again (`NoPacketOutlivesDetach` excepts it).

## 4. Fairness

`FairSpec` of `NkeSocketObject` assumes that a kernel thread that can run does
run: weak fairness of the steps of each thread (no step of which waits for a
condition that comes and goes, except for the injection mutex, which its holder
gives up before it can be asked for it again), and of `Expire`, since deadlines
pass. `SenderWakesUp` and `QueueDrains` rest on the deadlines: without a client
nothing else ends the wait. Nothing is assumed of the client, of new data, or of
new events.

In `NkeBufferPool` each thread that has begun goes on; a client that
never answers keeps its buffers. A compare-and-swap fails only because another
thread's has succeeded, so that one report can be overtaken for ever, but only by
others that end: `ReportReturns` says so. In `NkeDataQueue` every thread that has begun
goes on, so does the loop of the client, and a delayed store is performed at some
time. In `NkeSocketLifecycle` every thread has weak fairness, and the step that
takes the injection mutex has strong fairness: a kernel mutex lets each waiter
in, although others take it again and again. Nobody has to attach, detach,
answer or be notified. In `NkeIOUserClientRef` clients and callers that
have begun go on; nobody needs to open, close or notify. `UnregisterReturns`
has an exception: of two overlapping unregistrations the first to end clears
`pendingUnregistration`, a third client may register, and its invocations may
keep the count the second polls above zero for ever.

## 5. The proofs

### The deferred data

For any sockets, client threads, sets of events, `MaxData` and `MaxEvents`, under
the named assumptions of the module (`None` is no socket, thread, event or
response; the kinds of threads are disjoint; the bounds are natural numbers), the
three modules prove all safety properties that the runs of `NkeSocketObject` check:

| Theorem | Property |
|---|---|
| `TypeCorrect` | `TypeOK`: no counter becomes negative |
| `ReportingCounted`, `PendingCounted`, `TailUnreported` | `ReportingCountExact`, `PendingCountersExact`, `UnreportedAtTail` |
| `ReportsNeverForgotten`, `SleepersHaveTheirPacket`, `WindowAlwaysRestored` | `ReportNeverForgotten`, `SleeperHasItsPacket`, `WindowRestored` |
| `DetachIsQuiet` | `QuietAfterDetach` |
| `InjectedInOrder`, `InjectedWhenAllowed`, `NotifiedInOrder` | the action properties `InjectionInOrder`, `InjectedWithPermission`, `ReportedInOrder` |

None of them is inductive. The invariant is built in four layers, each proved
with the help of those below it.

1. `IInv == TypeOK /\ LocalsSet /\ QueueWellFormed /\ ReportingCountExact /\
   PendingCountersExact /\ UnreportedAtTail`. `LocalsSet` says which local
   variables are set at each `pc`. `QueueWellFormed` says that the queue and the
   list being injected are finite and disjoint and that places are unique.
   `TypeOK` needs the counters to be exact, because subtraction must stay in
   `Nat`; the counters need finite, disjoint sets for the arithmetic of
   `Cardinality`; `UnreportedAtTail` needs `ReportingCountExact`, as `FltData`
   decides by the counter whether a packet may be reported at once.
2. `RInv` adds where an event thread can be (`EventLocals`), that only a sender
   on its way to sleep has a wait entry (`SenderWaits`), the wait entries in terms
   of single packets (`SleeperInv`), `ReportNeverForgotten` and `WindowRestored`.
   The counter of layer 1 carries the argument for reports: `FltData` inserts the
   socket when the counter was zero, when nothing waited; otherwise the socket is
   in the list or with a thread, and the thread that leaves a packet unreported
   has decided so in the same section in which it could still see the packet.
3. `JInv` adds `MutexInv` (packets are on their way to injection only in the hands
   of the holder of the mutex), `DataQuiet` (no data callback once detach has
   begun), and for each socket: quiet after the purge, an answer a client thread
   brings was granted, what is allowed was granted, and for each direction the
   order of data indices follows that of places, with what a sender has
   allocated behind all and what is being injected before all (`OrderAt`,
   `FreshAt`, `PermitAt`). With this a step that injects the first packet
   of the list cannot pass another of the same direction.
4. `NInv` adds that the client has heard nothing of a packet still to be reported
   or still with its sender (`UntoldAt`), from which `ReportedInOrder` follows by
   `UnreportedAtTail` and the order of layer 3.

Each layer has one lemma per action, or per group of actions that do not touch
what the conjunct speaks of (`DataMove`, `EventMove`, `DeliverMove`, ... with the
lemma `OneMoves`: a step changes the local variables of one thread).

### The client reference

`NkeIOUserClientRef_proofs` proves, for any clients and any finite set of callers,
`TypeCorrect`, `InvocationsCounted`, `UseIsSafe` (`[]NoUseAfterRelease`) and
`PendingEnds`. The heart is a relation of three places: a caller that confirmed a
client is counted in `clientInvocations`, a client is released only after its
owner saw the count at zero when the client was not registered, hence no caller
can hold it then.

### The locks

`NkeLocks_proofs` proves `OwnLocksAreOrdered`: `[]CirclesNeedTheSocketLock` for any
number of sockets and threads, whether or not callbacks come with the socket lock
held. The locks have a rank (injection mutex, `rwLock`, the others but the socket
lock, which has none); a path is `Proper` if what it takes is the socket lock or
has a higher rank than what it holds of the others, and the lemmas `Concat`
and `Held` say that sequences and nestings of proper paths are proper, so that
the functions are treated one by one. The invariant says that the rest of each
thread's path is ordered and drops every lock the thread owns. A thread that does
not wait for a socket lock waits for a lower rank than the thread it waits for,
and there are three ranks: no circle is made of such threads. With `lock_order` this says
what must change: no call of the kernel that takes the socket lock may be made
under `rwLock` or the injection mutex, or no callback with the socket lock held
may take these two.

### The pool of buffers

`NkeBufferPool_proofs` proves, for any number of buffers, parts of a packet and
threads that take buffers and give them back:

| Theorem | Property |
|---|---|
| `TypeCorrect` | `TypeOK`, faults included |
| `Separation` | `SharedOnlyAfterFault`: until a fault a buffer has one holder, and none while it is in the list |
| `Conservation` | `LostOnlyAfterFault`: until a fault a buffer without a holder is in the list |
| `Refinement` | `ImplementsSocketBuffersUntilFault` |

`pool_shared` shows the first fault, the second is in the code in so many words (section
3); the theorems say that it has no other, and where a correction has to begin: a
compare-and-swap of the head with a version, and an array that a failed copy
leaves empty.

The free list is the least set of buffers closed under the links that has the
head, so that no induction over the length of the list is needed: a lemma about
a step compares closed sets. `ReachFirst` unrolls the list by one buffer,
`ReachUnlinked` says that a link outside the list may be written; from them
`TakenList` and `GivenList` say what a successful compare-and-swap does to the list.

The invariant is `UntilFaultInv`: the types and places always, and `IInv` until a
fault. `Holders` ties the history variable `holder` to the indices in the arrays
of the threads and of the notifications, `HeldOnce` says that each index is at one
place, `Marked` that a held buffer nobody works on has no link, `FreeInList` that
the list is exactly what nobody holds, and `Acyclic` that no buffer of the list
leads back to itself. Nothing need be said of what a taking thread has loaded: if
the head is the one it loaded, with the link it loaded, the swap is right
whatever the list went through meanwhile (`AcquireKeeps`), so that of the ABA cases
those with a changed link alone do harm. A thread that gives a buffer back
tests the link the buffer has at the time of the swap, which only that thread
can write (`ReleaseKeeps`). A failed compare-and-swap changes nothing; a
successful one is the `Acquire` or `Release` of `SocketBuffers`, and every other step
passes buffers on or is a stutter.

### The socket objects

`NkeSocketLifecycle_proofs` proves, for any addresses, calling and delivering
threads, numbers of sockets and packets (`MaxAssumption`, `ThreadAssumption`: the
bounds are natural numbers, the kinds of threads are disjoint and finite), all
safety properties of the run `lifecycle`:

| Theorem | Property |
|---|---|
| `TypeCorrect` | `TypeOK`: no reference count becomes negative |
| `ReferencesCounted` | `RetainCountExact` |
| `NoneUsedAfterFree`, `NothingLeft` | `NoUseAfterFree`, `FreedWithNothingLeft` |
| `PacketsEndWithDetach` | `NoPacketOutlivesDetach` |
| `LookupIsUnambiguous`, `ResponsesReachTheirSocket` | `OneObjectPerSocket`, `ResponseForItsSocket` |
| `FreedStayFreed` | the action property `FreedForEver` |

The invariant is built in three layers; none uses a later one.

1. `SInv`, the threads and the lists: at which `pc` a thread has an object and
   which of its locals are set (`Locals`); the kernel's thread of an address works on
   an object of that address (`OfAddress`), which is listed from `insert` to
   `remove` (`Listed`); once it is removed, nothing of the address is listed, hence
   one object for an address (`OneListed`); sequence numbers are new (`Used`);
   an object is in `SocketsListToReport` once (`ListedOnce`).
2. `PInv`, the packets: a thread moves packets of an object from one place to the
   next but adds none, except in `FltData`; so an object whose queue was purged
   under the injection mutex and whose packets in injection were awaited
   (`Gone`) has none, and none comes when the object is not attached.
3. `Counted`, the references: each place that keeps an object is a token, and
   the count is the number of tokens. Each step adds one (`TokenAdded`), drops one
   (`TokenDropped`) or puts one in the place of another (`TokenMoved`): so
   `DeliverWaitingNotifications` moves the reference of the list to itself and
   back, and `removeFromSocketsList` that of the list to its local. The one step
   of many objects, the round of the injection thread, adds one to each.

An object a thread has is then one with a token, its own or, in a callback of an
attached socket, that of `SocketsList`; a freed object has none, so that no
lookup finds it and nothing retains it again.

### The data queue

`NkeDataQueue_proofs` proves, for any set of capacities that hold two
notifications (`SizeAssumption`; the least that `start` accepts is far above),
notifications of any size and number and any notifying threads, that the ring
implements `NotificationQueue` (`ImplementsQueue`), and with it `TypeCorrect`,
`NothingUnreadIsOverwritten` and `EmptyQueueHasRoom`. `StoreTail` is the abstract
`Enqueue`, `StoreHead` is `Dequeue`, and every other step is a stutter. The invariant is
`QInv == TypeOK /\ OneWriter /\ Ring /\ EntriesIntact /\ InFlight /\ Reading`:

* `OneWriter`: one thread at a time is in `enqueueWithBarrier` - those that notify by
  the lock, the one that stops without it because nobody notifies any more - and a
  delayed tail belongs to a thread that has not yet unlocked;
* `Ring`: there are three positions, the head in memory, the head the client
  has stored and the tail the writer has stored, in this order around the ring;
  every unread entry lies between the last two (`Placed`), each before the next
  (`Precedes`), and the client finds each where the one before it ends or at the
  beginning of the ring (`Follows`, with the size at the old tail);
* `InFlight`: the room `Sample` found with an old head is still free (`RoomFor`;
  the head only moves away), and what is written of the entry is there;
* `Reading`: the client's locals are the first unread entry.

`EntriesIntact` alone is not inductive: that a write misses all unread entries
needs their places. Integer arithmetic is kept to operators on numbers (`Between`,
`Before`, `InOrder`), which the lemmas of the steps unfold for one or two entries.

The last section of the module adds `WInv`: a client that waits on unread data has a message
at its port, or the one writer is about to test the head against the old tail
and will find them equal, or about to send. Hence `ClientIsWoken`
(`[]WakeupInOrder`), under the assumption, in the property, that stores are not
delayed; `wakeup_lost` is the run without it.

### Only model-checked

TLC alone checks

* liveness (`SenderWakesUp`, `QueueDrains`, `EventReturns`, `DetachedIsFreed`,
  `ReportReturns`, `MessageIsRead`, `UnregisterReturns`): the prover has no rules
  for fairness;
* `NoCircularWait`, `ResponseFindsItsPacket` and the other statements that the runs find violated.

## 6. Not modelled, and why

* `capturingMode` (SO 1017-1051, 2152): the code in `src/` never changes it.
* The count of users of the detaching lock and the poll for it (SO 2407-2466):
  `FltData` is a user around `sock_setsockopt`, in `reinjectDeferredData` and the
  injection thread the calls are commented out. `FltDetach` does not meet `FltData`,
  so that `acquireDetachingLockForRemoval` finds the count at zero after its first
  sleep. In `NkeLocks` it is a lock.
* A part of a packet that cannot be copied (SF 1215-1221): the buffer in hand is
  released before those of the array. `copyDataMbuf` fails only for bytes beyond
  the packet, which the loop does not ask for and SF 1214 asserts it does not.
* Tags on mbufs, byte totals, addresses, permissions of connect and bind,
  logging: recorded and passed on; no control depends on them except that
  injected data is not deferred again.
* `DeliverWaitingNotifications` called from itself (SO 1553) when a notification
  failed: the call works on other sockets as another delivering thread would, and
  such threads are present.
* A notification that fails for an expired packet while the loop goes on
  (SO 1377): its buffers leak. To state it the pool and the queue must be in one
  module, beyond what a run can explore.
* `startFilter`, `stopFilter` and the driver's `start` and `stop`: sequences of
  kernel calls at load and unload; when the kernel lets an unload pass is not in
  the code.
* A client that dies with unanswered notifications: nothing in the code gives its
  buffers back, so there is no behaviour to state; in `NkeBufferPool` the client
  may keep buffers for ever.
* `gServiceUserClient`, the second reference, registered and left like the first.
* Memory of the buffers (`NkeDataBuffer.cpp`) and its mapping to the client.

What is left to do: the queue and the pool in one module for the leak of SO 1377;
what the pool keeps after a fault beyond the range of its indices (`TypeCorrect`).
