--------------------------- MODULE NkeSocketObject ---------------------------
(***************************************************************************)
(* The deferred data of the sockets the filter is attached to: the pending *)
(* queue of every NkeSocketObject, the list of sockets whose packets still *)
(* wait to be reported to the client, and the threads that work on both:   *)
(*                                                                         *)
(*   - the kernel threads that call FltData, at most one for each socket   *)
(*     and direction (the kernel serialises the senders with the send      *)
(*     buffer lock and the receivers in the TCP input path);               *)
(*   - the threads of the client that answer notifications                 *)
(*     (processServiceResponse);                                           *)
(*   - the injection thread (InjectionThreadRoutine);                      *)
(*   - one thread for each socket that calls FltNotify and FltDetach.      *)
(*                                                                         *)
(* A section of code under rwLock is one step.  The sections nest only     *)
(* SocketsListToReportLock and SocketsListLock, which are leaves.  The     *)
(* injection mutex is held across several steps and is a variable.  The    *)
(* buffer pool is left to NkeBufferPool: copyDataToBuffers fails here      *)
(* whenever it likes, and so does the notification of the client.          *)
(***************************************************************************)
EXTENDS Naturals, FiniteSets, Sequences

CONSTANTS
  Socket,           (* The sockets, each attached once (one NkeSocketObject). *)
  ClientThread,     (* The threads of the client that send responses.         *)
  InjectionThread,  (* The injection thread.                                  *)
  SocketEvents,     (* The events FltNotify and FltDetach may be called for.  *)
  MaxData,          (* Bound: calls of FltData for one socket.                *)
  MaxEvents,        (* Bound: events of one socket before FltDetach.          *)
  None              (* No thread, no socket, no event, no response.           *)

Direction    == {"in", "out"}
DataThread   == Socket \X Direction
EventThread  == Socket \X {"event"}
Thread       == DataThread \cup EventThread \cup ClientThread \cup {InjectionThread}

AllEvents == {"closing", "disconnecting", "cantrecvmore",
              "shutdownRDWR", "shutdownWR", "shutdownRD", "detach"}

ASSUME SocketAssumption == None \notin Socket
ASSUME ThreadAssumption ==
  /\ InjectionThread \notin DataThread \cup EventThread \cup ClientThread
  /\ ClientThread \cap (DataThread \cup EventThread) = {}
  /\ None \notin Thread
ASSUME ResponseAssumption == None \notin [socket: Socket, dataIndex: Nat, allow: BOOLEAN]
ASSUME EventAssumption == SocketEvents \subseteq AllEvents /\ None \notin AllEvents
ASSUME MaxDataAssumption == MaxData \in Nat
ASSUME MaxEventsAssumption == MaxEvents \in Nat

(***************************************************************************)
(* An entry of the pending queue.  place is the position the entry was     *)
(* given by TAILQ_INSERT_TAIL: the queue is the set of its entries in the  *)
(* order of their places.  expired is deadlineTimerExpired, with the time  *)
(* it is computed from.  waiter: waitEntry is not NULL.                    *)
(***************************************************************************)
PendingPktQueueItem ==
  [dataIndex: Nat, place: Nat, dir: Direction, needToBeReported: BOOLEAN,
   responseReceived: BOOLEAN, allowData: BOOLEAN, expired: BOOLEAN,
   waiter: BOOLEAN]

VARIABLES
  pendingQueue,               (* [Socket -> set of entries], under rwLock       *)
  packetsToInject,            (* [Socket -> set of entries], the local list of  *)
                              (* the reinjectDeferredData call in progress      *)
  injectionMutex,             (* [Socket -> Thread or None]                     *)
  deadlinedPackets,           (* [Socket -> BOOLEAN], the counter is not zero   *)
  packetsWaitingForReporting, (* [Socket -> Nat]                                *)
  pendingDataNextIndex,       (* [Socket -> Nat]                                *)
  nextPlace,                  (* [Socket -> Nat], place of the next entry       *)
  numberOfPending,            (* numberOfPendingInPackets, ...OutPackets        *)
  receiveBuffer,              (* SO_RCVBUF: "original" or "reserve"             *)
  waitEntry,                  (* the wait entry on the stack of FltData(out)    *)
  listed,                     (* [Socket -> BOOLEAN], flags.insertedInSocketsList *)
  SocketsListToReport,        (* sequence of sockets, without repetition        *)
  event,                      (* the event FltNotify or FltDetach works on      *)
  eventsDone,                 (* flags.f_sock_evt_*, set after the event        *)
  pc, hand, call, response, reinsertInList, failed,  (* local to the threads    *)
  localSocketsList,           (* the sockets the injection thread still visits  *)
  clientPresent,              (* a client is registered                         *)
  notified,                   (* notifications the client has not answered      *)
  granted                     (* history: pending data the client has allowed   *)

reportVars  == <<packetsWaitingForReporting, waitEntry, receiveBuffer>>
allocVars   == <<pendingDataNextIndex, nextPlace>>
queueVars   == <<pendingQueue, numberOfPending, reportVars, allocVars>>
injectVars  == <<packetsToInject, injectionMutex, deadlinedPackets>>
listVars   == <<listed, SocketsListToReport>>
eventVars   == <<event, eventsDone>>
deliverVars == <<reinsertInList, failed>>
localVars   == <<hand, call, response, deliverVars, localSocketsList>>
clientVars  == <<clientPresent, notified, granted>>
vars == <<queueVars, injectVars, listVars, eventVars, localVars, clientVars, pc>>

-----------------------------------------------------------------------------
(* The queue.                                                              *)

Unreported(s) == {p \in pendingQueue[s] : p.needToBeReported}

UpTo(s, p) == {q \in pendingQueue[s] : q.place <= p.place}

Outstanding(s, d) ==
  Cardinality({p \in pendingQueue[s] \cup packetsToInject[s] : p.dir = d})

InsertedInSocketsListToReport(s) ==
  \E i \in DOMAIN SocketsListToReport : SocketsListToReport[i] = s

(* The list without s, which occurs in it at most once (TAILQ_REMOVE). *)
Without(list, s) ==
  IF \E i \in DOMAIN list : list[i] = s
  THEN LET k == CHOOSE i \in DOMAIN list : list[i] = s
       IN  [i \in 1 .. Len(list) - 1 |-> IF i < k THEN list[i] ELSE list[i + 1]]
  ELSE list

Attached(s) == "detach" \notin eventsDone[s] /\ event[s] # "detach"

Init ==
  /\ pendingQueue = [s \in Socket |-> {}]
  /\ packetsToInject = [s \in Socket |-> {}]
  /\ injectionMutex = [s \in Socket |-> None]
  /\ deadlinedPackets = [s \in Socket |-> FALSE]
  /\ packetsWaitingForReporting = [s \in Socket |-> 0]
  /\ pendingDataNextIndex = [s \in Socket |-> 0]
  /\ nextPlace = [s \in Socket |-> 0]
  /\ numberOfPending = [s \in Socket |-> [d \in Direction |-> 0]]
  /\ receiveBuffer = [s \in Socket |-> "original"]
  /\ waitEntry = [s \in Socket |-> "none"]
  /\ listed = [s \in Socket |-> TRUE]
  /\ SocketsListToReport = <<>>
  /\ event = [s \in Socket |-> None]
  /\ eventsDone = [s \in Socket |-> {}]
  /\ pc = [t \in Thread |-> IF t = InjectionThread THEN "collect" ELSE "idle"]
  /\ hand = [t \in Thread |-> None]
  /\ call = [t \in DataThread |-> 0]
  /\ response = [c \in ClientThread |-> None]
  /\ reinsertInList = [t \in Thread |-> FALSE]
  /\ failed = [t \in Thread |-> FALSE]
  /\ localSocketsList = {}
  /\ clientPresent \in BOOLEAN
  /\ notified = [s \in Socket |-> {}]
  /\ granted = [s \in Socket |-> {}]

-----------------------------------------------------------------------------
(***************************************************************************)
(* FltData.                                                                *)
(***************************************************************************)

(* allocatePkt, before any lock is taken. *)
FltData(s, d) ==
  LET t == <<s, d>> IN
  /\ pc[t] = "idle"
  /\ Attached(s)
  /\ pendingDataNextIndex[s] < MaxData
  /\ call' = [call EXCEPT ![t] = pendingDataNextIndex[s]]
  /\ pendingDataNextIndex' = [pendingDataNextIndex EXCEPT ![s] = @ + 1]
  /\ numberOfPending' = [numberOfPending EXCEPT ![s][d] = @ + 1]
  /\ pc' = [pc EXCEPT ![t] = "enqueue"]
  /\ UNCHANGED <<pendingQueue, reportVars, nextPlace, injectVars, listVars, eventVars,
                 clientVars, hand, response, deliverVars, localSocketsList>>

(* The report is postponed when the buffers ran out, and also when an      *)
(* earlier packet still waits to be reported, to keep the order.           *)
PostponeIfNoBuffers(s, copied) == ~copied

MustPostpone(s, copied) == ~copied \/ packetsWaitingForReporting[s] # 0

NewEntry(s, d, postponed) ==
  [dataIndex |-> call[<<s, d>>], place |-> nextPlace[s], dir |-> d,
   needToBeReported |-> postponed, responseReceived |-> FALSE, allowData |-> FALSE,
   expired |-> FALSE, waiter |-> postponed /\ d = "out"]

(* OSIncrementAtomic returns the value from before the increment. *)
FirstToReportLate(s) == packetsWaitingForReporting[s] = 1

FirstToReport(s) == packetsWaitingForReporting[s] = 0

(* copyDataToBuffers has copied the data, or found no free buffer; then the *)
(* section of FltData under rwLock.                                         *)
Enqueue(s, d) ==
  LET t == <<s, d>> IN
  /\ pc[t] = "enqueue"
  /\ \E copied \in BOOLEAN :
       LET postponed == MustPostpone(s, copied) IN
       /\ pendingQueue' = [pendingQueue EXCEPT ![s] = @ \cup {NewEntry(s, d, postponed)}]
       /\ packetsWaitingForReporting' =
            [packetsWaitingForReporting EXCEPT ![s] = IF postponed THEN @ + 1 ELSE @]
       /\ SocketsListToReport' =
            IF postponed /\ FirstToReport(s) /\ ~InsertedInSocketsListToReport(s)
            THEN Append(SocketsListToReport, s) ELSE SocketsListToReport
       /\ waitEntry' = [waitEntry EXCEPT ![s] =
            IF postponed /\ d = "out" THEN "unsatisfied" ELSE @]
       /\ receiveBuffer' = [receiveBuffer EXCEPT ![s] =
            IF postponed /\ d = "in" THEN "reserve" ELSE @]
       /\ pc' = [pc EXCEPT ![t] = IF postponed THEN "deliver" ELSE "notify"]
  /\ nextPlace' = [nextPlace EXCEPT ![s] = @ + 1]
  /\ UNCHANGED <<numberOfPending, pendingDataNextIndex, injectVars, listed, eventVars,
                 clientVars, localVars>>

(* The notification, after the lock was released; when it fails the buffers *)
(* are released, which also delivers waiting notifications, and the packet  *)
(* stays in the queue as if it had been reported.                           *)
Notify(s, d) ==
  LET t == <<s, d>> IN
  /\ pc[t] = "notify"
  /\ \/ /\ clientPresent
        /\ notified' = [notified EXCEPT ![s] = @ \cup {call[t]}]
        /\ pc' = [pc EXCEPT ![t] = "idle"]
     \/ /\ notified' = notified
        /\ pc' = [pc EXCEPT ![t] = "deliver"]
  /\ UNCHANGED <<queueVars, injectVars, listVars, eventVars, localVars, clientPresent,
                 granted>>

(* The loop of FltData that waits until the packet was reported. *)
WakeUp(s) ==
  LET t == <<s, "out">> IN
  /\ pc[t] = "wait"
  /\ waitEntry[s] = "satisfied"
  /\ waitEntry' = [waitEntry EXCEPT ![s] = "none"]
  /\ pc' = [pc EXCEPT ![t] = "idle"]
  /\ UNCHANGED <<pendingQueue, packetsWaitingForReporting, allocVars, numberOfPending,
                 receiveBuffer, injectVars, listVars, eventVars, localVars, clientVars>>

(* Sixty seconds after the allocation; the older packets of a direction     *)
(* expire first.                                                           *)
Expire(s) ==
  \E p \in pendingQueue[s] :
    /\ ~p.expired
    /\ \A q \in pendingQueue[s] : q.dir = p.dir /\ q.dataIndex < p.dataIndex => q.expired
    /\ pendingQueue' =
         [pendingQueue EXCEPT ![s] = (@ \ {p}) \cup {[p EXCEPT !.expired = TRUE]}]
    /\ UNCHANGED <<reportVars, allocVars, numberOfPending, injectVars, listVars, eventVars,
                   localVars, clientVars, pc>>

-----------------------------------------------------------------------------
(***************************************************************************)
(* DeliverWaitingNotifications, called by FltData, by                      *)
(* processServiceResponse and by the injection thread.                     *)
(***************************************************************************)

(* Where a thread goes on when the call returns. *)
AfterDelivery(t) ==
  CASE t \in ClientThread -> "lookup"
    [] t = InjectionThread -> "collect"
    [] OTHER -> IF t[2] = "out" /\ waitEntry[t[1]] # "none" THEN "wait" ELSE "idle"

DeliverPop(t) ==
  /\ pc[t] = "deliver"
  /\ IF SocketsListToReport = <<>>
     THEN /\ pc' = [pc EXCEPT ![t] = AfterDelivery(t)]
          /\ UNCHANGED <<hand, SocketsListToReport>>
     ELSE /\ hand' = [hand EXCEPT ![t] = Head(SocketsListToReport)]
          /\ SocketsListToReport' = Tail(SocketsListToReport)
          /\ pc' = [pc EXCEPT ![t] = "scan"]
  /\ UNCHANGED <<queueVars, injectVars, listed, eventVars, clientVars, call, response,
                 deliverVars, localSocketsList>>

(***************************************************************************)
(* A run of the loop over the queue of s, under rwLock, goes through the   *)
(* unreported packets from the front.  processed are the ones it marks as  *)
(* reported: those the client was notified of (sent), and those that could *)
(* not be reported and have expired.  It stops at the first one that could *)
(* not be reported and has not expired.                                    *)
(***************************************************************************)
ScanOutcome(s, processed, sent) ==
  /\ sent \subseteq processed
  /\ \A p \in processed \ sent : p.expired
  /\ \A p \in Unreported(s) \ processed : \A q \in processed : q.place < p.place
  /\ processed # Unreported(s) =>
       \E p \in Unreported(s) \ processed :
         /\ ~p.expired
         /\ \A q \in Unreported(s) \ processed : p.place <= q.place
  /\ sent # {} => clientPresent

AsReportedWithEntry(p, sent) ==
  [p EXCEPT !.needToBeReported = FALSE, !.allowData = @ /\ p \in sent]

AsReported(p, sent) ==
  [p EXCEPT !.needToBeReported = FALSE, !.waiter = FALSE, !.allowData = @ /\ p \in sent]

(* Every inbound packet marked as reported sets SO_RCVBUF back. *)
RestoresIfSent(processed, sent) == \E p \in sent : p.dir = "in"

RestoresWindow(processed, sent) == \E p \in processed : p.dir = "in"

(* The last packet the loop tried could not be reported. *)
LastFailed(s, processed, sent) ==
  \/ processed # Unreported(s)
  \/ \E p \in processed \ sent : \A q \in processed : q.place <= p.place

(* What the run of the loop changes. *)
Scan(t, processed, sent) ==
  LET s == hand[t] IN
  /\ pendingQueue' = [pendingQueue EXCEPT ![s] =
       (@ \ processed) \cup {AsReported(p, sent) : p \in processed}]
  /\ packetsWaitingForReporting' =
       [packetsWaitingForReporting EXCEPT ![s] = @ - Cardinality(processed)]
  /\ waitEntry' = [waitEntry EXCEPT ![s] =
       IF \E p \in processed : p.waiter THEN "satisfied" ELSE @]
  /\ receiveBuffer' = [receiveBuffer EXCEPT ![s] =
       IF RestoresWindow(processed, sent) THEN "original" ELSE @]
  /\ notified' = [notified EXCEPT ![s] = @ \cup {p.dataIndex : p \in sent}]
  /\ reinsertInList' = [reinsertInList EXCEPT ![t] = processed # Unreported(s)]
  /\ failed' = [failed EXCEPT ![t] = LastFailed(s, processed, sent)]

DeliverScan(t) ==
  /\ pc[t] = "scan"
  /\ \E processed \in SUBSET Unreported(hand[t]) : \E sent \in SUBSET processed :
       ScanOutcome(hand[t], processed, sent) /\ Scan(t, processed, sent)
  /\ pc' = [pc EXCEPT ![t] = "reinsert"]
  /\ UNCHANGED <<allocVars, numberOfPending, injectVars, listVars, eventVars, hand, call,
                 response, localSocketsList, clientPresent, granted>>

(* After rwLock was released: the socket goes back to the tail of the list, *)
(* unless FltData has inserted it again already; an error ends the call.    *)
DeliverReinsert(t) ==
  /\ pc[t] = "reinsert"
  /\ SocketsListToReport' =
       IF reinsertInList[t] /\ ~InsertedInSocketsListToReport(hand[t])
       THEN Append(SocketsListToReport, hand[t]) ELSE SocketsListToReport
  /\ pc' = [pc EXCEPT ![t] = IF failed[t] THEN AfterDelivery(t) ELSE "deliver"]
  /\ hand' = [hand EXCEPT ![t] = None]
  /\ reinsertInList' = [reinsertInList EXCEPT ![t] = FALSE]
  /\ failed' = [failed EXCEPT ![t] = FALSE]
  /\ UNCHANGED <<queueVars, injectVars, listed, eventVars, clientVars, call, response,
                 localSocketsList>>

-----------------------------------------------------------------------------
(***************************************************************************)
(* reinjectDeferredData and purgePendingQueue.  A data direction type is   *)
(* the set of the directions it selects.                                   *)
(***************************************************************************)

DecidedByClient(p) == ~p.needToBeReported /\ p.responseReceived

(* A packet the loop may pass: reported, and answered or expired. *)
Decided(p) == ~p.needToBeReported /\ (p.responseReceived \/ p.expired)

InjectableAnywhere(s, type) == {p \in pendingQueue[s] : p.dir \in type /\ Decided(p)}

(* The selected packets in front of the first selected one not decided. *)
Injectable(s, type) ==
  {p \in pendingQueue[s] :
     /\ p.dir \in type
     /\ \A q \in UpTo(s, p) : q.dir \in type => Decided(q)}

InjectType(t) ==
  IF t \notin EventThread THEN Direction
  ELSE CASE event[t[1]] = "cantrecvmore" -> {"in"}
         [] event[t[1]] \in {"shutdownRDWR", "shutdownWR"} -> {"out"}
         [] OTHER -> Direction

AfterInjection(t) ==
  CASE t \in ClientThread -> "idle"
    [] t = InjectionThread -> "walk"
    [] OTHER -> CASE event[t[1]] = "disconnecting" -> "drainOut"
                  [] event[t[1]] = "shutdownRDWR" -> "purge"
                  [] OTHER -> "done"

NoMutex(s) == TRUE

InjectionMutexFree(s) == injectionMutex[s] = None

(* deadlinedPackets counts the expired packets taken out of the queue; only *)
(* whether there was one is kept.                                           *)
Deadlined(s, moved) == deadlinedPackets[s] \/ \E p \in moved : p.expired

(* Takes the injection mutex, and under rwLock moves the packets; without  *)
(* any the mutex is released at once.                                      *)
Reinject(t) ==
  LET s == hand[t]
      moved == Injectable(s, InjectType(t)) IN
  /\ pc[t] = "reinject"
  /\ InjectionMutexFree(s)
  /\ pendingQueue' = [pendingQueue EXCEPT ![s] = @ \ moved]
  /\ packetsToInject' = [packetsToInject EXCEPT ![s] = @ \cup moved]
  /\ deadlinedPackets' = [deadlinedPackets EXCEPT ![s] = Deadlined(s, moved)]
  /\ IF moved = {}
     THEN /\ pc' = [pc EXCEPT ![t] = AfterInjection(t)]
          /\ hand' = [hand EXCEPT ![t] = None]
          /\ UNCHANGED injectionMutex
     ELSE /\ pc' = [pc EXCEPT ![t] = "inject"]
          /\ injectionMutex' = [injectionMutex EXCEPT ![s] = t]
          /\ UNCHANGED hand
  /\ UNCHANGED <<reportVars, allocVars, numberOfPending, listVars, eventVars, clientVars,
                 call, response, deliverVars, localSocketsList>>

MayInjectExpired(s, p) == p.allowData \/ p.expired

(* Data is given to the socket only with the permission of the client, and *)
(* not once the disconnecting event was processed; else it is freed.       *)
MayInject(s, p) == p.allowData /\ "disconnecting" \notin eventsDone[s]

(* One round of the loop over packetsToInject: sock_inject_data_in or _out *)
(* or mbuf_freem, then the counter; the mutex is released after the last.  *)
Inject(t) ==
  LET s == hand[t] IN
  /\ pc[t] = "inject"
  /\ \E p \in packetsToInject[s] :
       /\ \A q \in packetsToInject[s] : p.place <= q.place
       /\ packetsToInject' = [packetsToInject EXCEPT ![s] = @ \ {p}]
       /\ granted' = [granted EXCEPT ![s] = @ \ {p.dataIndex}]
       /\ numberOfPending' = [numberOfPending EXCEPT ![s][p.dir] = @ - 1]
       /\ IF packetsToInject[s] = {p}
          THEN /\ injectionMutex' = [injectionMutex EXCEPT ![s] = None]
               /\ pc' = [pc EXCEPT ![t] = AfterInjection(t)]
               /\ hand' = [hand EXCEPT ![t] = None]
          ELSE UNCHANGED <<injectionMutex, pc, hand>>
  /\ UNCHANGED <<deadlinedPackets, pendingQueue, reportVars, allocVars, listVars, eventVars, clientPresent,
                 notified, call, response, deliverVars, localSocketsList>>

(* What a purge of the given type takes out of the queue of s. *)
Purged(s, type) == {p \in pendingQueue[s] : p.dir \in type}

NoneReported(gone) == {}

AllReported(gone) == gone

(* The purged packets that leave packetsWaitingForReporting, and those that *)
(* leave the counter of a direction.                                        *)
NeverReported(gone) == {p \in gone : p.needToBeReported}

OfEitherDirection(gone, d) == gone

OfDirection(gone, d) == {p \in gone : p.dir = d}

PurgeType(e) == IF e = "detach" THEN Direction ELSE {"in"}

(* The whole of purgePendingQueue runs under the injection mutex and       *)
(* rwLock; a purged sender is woken up.                                    *)
Purge(s) ==
  LET t == <<s, "event">>
      gone == Purged(s, PurgeType(event[s])) IN
  /\ pc[t] = "purge"
  /\ InjectionMutexFree(s)
  /\ pendingQueue' = [pendingQueue EXCEPT ![s] = @ \ gone]
  /\ packetsWaitingForReporting' = [packetsWaitingForReporting EXCEPT ![s] =
       @ - Cardinality(NeverReported(gone))]
  /\ numberOfPending' = [numberOfPending EXCEPT ![s] =
       [d \in Direction |-> @[d] - Cardinality(OfDirection(gone, d))]]
  /\ waitEntry' = [waitEntry EXCEPT ![s] = IF \E p \in gone : p.waiter THEN "satisfied" ELSE @]
  /\ granted' = [granted EXCEPT ![s] = @ \ {p.dataIndex : p \in gone}]
  /\ pc' = [pc EXCEPT ![t] = IF event[s] = "detach" THEN "drainOut" ELSE "done"]
  /\ UNCHANGED <<allocVars, receiveBuffer, injectVars, listVars, eventVars, localVars,
                 clientPresent, notified>>

-----------------------------------------------------------------------------
(***************************************************************************)
(* FltNotify and FltDetach.                                                *)
(***************************************************************************)

FirstStep(e) ==
  CASE e \in {"closing", "shutdownRD"} -> "purge"
    [] e = "detach" -> "unlist"
    [] OTHER -> "reinject"

(* Each event comes once.  The kernel detaches the filter from a socket    *)
(* when no other call of the filter for the socket is in progress.         *)
SocketEvent(s) ==
  LET t == <<s, "event">> IN
  /\ pc[t] = "idle"
  /\ Attached(s)
  /\ \E e \in SocketEvents \ eventsDone[s] :
       /\ e = "detach" => \A d \in Direction : pc[<<s, d>>] = "idle"
       /\ e # "detach" => Cardinality(eventsDone[s]) < MaxEvents
       /\ event' = [event EXCEPT ![s] = e]
       /\ pc' = [pc EXCEPT ![t] = FirstStep(e)]
       /\ hand' = [hand EXCEPT ![t] = s]
  /\ UNCHANGED <<queueVars, injectVars, listVars, eventsDone, clientVars, call, response,
                 deliverVars, localSocketsList>>

(* removeFromSocketsList: out of SocketsList ... *)
Unlist(s) ==
  LET t == <<s, "event">> IN
  /\ pc[t] = "unlist"
  /\ listed' = [listed EXCEPT ![s] = FALSE]
  /\ pc' = [pc EXCEPT ![t] = "unreport"]
  /\ UNCHANGED <<queueVars, injectVars, SocketsListToReport, eventVars, localVars,
                 clientVars>>

(* ... and, under the other lock, out of SocketsListToReport. *)
Unreport(s) ==
  LET t == <<s, "event">> IN
  /\ pc[t] = "unreport"
  /\ SocketsListToReport' = Without(SocketsListToReport, s)
  /\ pc' = [pc EXCEPT ![t] = "purge"]
  /\ UNCHANGED <<queueVars, injectVars, listed, eventVars, localVars, clientVars>>

(* checkForInjectionCompletion( All, true ): the outbound counter is       *)
(* polled until it is zero, then the inbound one.                          *)
Drain(s) ==
  LET t == <<s, "event">> IN
  /\ \/ /\ pc[t] = "drainOut"
        /\ numberOfPending[s]["out"] = 0
        /\ pc' = [pc EXCEPT ![t] = "drainIn"]
     \/ /\ pc[t] = "drainIn"
        /\ numberOfPending[s]["in"] = 0
        /\ pc' = [pc EXCEPT ![t] = "done"]
  /\ UNCHANGED <<queueVars, injectVars, listVars, eventVars, localVars, clientVars>>

(* logSocketPostEvent, or the return of FltDetach. *)
EventDone(s) ==
  LET t == <<s, "event">> IN
  /\ pc[t] = "done"
  /\ eventsDone' = [eventsDone EXCEPT ![s] = @ \cup {event[s]}]
  /\ event' = [event EXCEPT ![s] = None]
  /\ pc' = [pc EXCEPT ![t] = "idle"]
  /\ hand' = [hand EXCEPT ![t] = None]
  /\ UNCHANGED <<queueVars, injectVars, listVars, clientVars, call, response, deliverVars,
                 localSocketsList>>

-----------------------------------------------------------------------------
(***************************************************************************)
(* The client, and processServiceResponse.                                 *)
(***************************************************************************)

ClientStart ==
  /\ ~clientPresent
  /\ clientPresent' = TRUE
  /\ UNCHANGED <<queueVars, injectVars, listVars, eventVars, localVars, notified, granted,
                 pc>>

(* A client that goes away takes its unanswered notifications with it. *)
ClientStop ==
  /\ clientPresent
  /\ clientPresent' = FALSE
  /\ notified' = [s \in Socket |-> {}]
  /\ UNCHANGED <<queueVars, injectVars, listVars, eventVars, localVars, granted, pc>>

(* The client answers one notification: the call first releases the buffers *)
(* and delivers waiting notifications.  The answer is kept in hand and call.*)
Respond(c) ==
  /\ pc[c] = "idle"
  /\ clientPresent
  /\ \E s \in Socket : \E i \in notified[s] : \E allow \in BOOLEAN :
       /\ notified' = [notified EXCEPT ![s] = @ \ {i}]
       /\ granted' = [granted EXCEPT ![s] = IF allow THEN @ \cup {i} ELSE @]
       /\ response' = [response EXCEPT ![c] = [socket |-> s, dataIndex |-> i, allow |-> allow]]
  /\ pc' = [pc EXCEPT ![c] = "deliver"]
  /\ UNCHANGED <<queueVars, injectVars, listVars, eventVars, clientPresent, hand, call,
                 deliverVars, localSocketsList>>

(* GetSocketObjectRef: the answer for a socket that is gone is dropped. *)
Lookup(c) ==
  /\ pc[c] = "lookup"
  /\ IF listed[response[c].socket]
     THEN /\ pc' = [pc EXCEPT ![c] = "setProperty"]
          /\ hand' = [hand EXCEPT ![c] = response[c].socket]
          /\ UNCHANGED response
     ELSE /\ pc' = [pc EXCEPT ![c] = "idle"]
          /\ response' = [response EXCEPT ![c] = None]
          /\ UNCHANGED hand
  /\ UNCHANGED <<queueVars, injectVars, listVars, eventVars, clientVars, call, deliverVars,
                 localSocketsList>>

(* The entry with the given index, unless an unreported one is before it. *)
Answered(s, i) ==
  {p \in pendingQueue[s] : p.dataIndex = i /\ \A q \in UpTo(s, p) : ~q.needToBeReported}

SetDeferredDataProperties(c) ==
  LET s == hand[c]
      answered == Answered(s, response[c].dataIndex) IN
  /\ pc[c] = "setProperty"
  /\ pendingQueue' = [pendingQueue EXCEPT ![s] = (@ \ answered) \cup
       {[p EXCEPT !.allowData = response[c].allow, !.responseReceived = TRUE] : p \in answered}]
  /\ response' = [response EXCEPT ![c] = None]
  /\ pc' = [pc EXCEPT ![c] = "reinject"]
  /\ UNCHANGED <<reportVars, allocVars, numberOfPending, injectVars, listVars, eventVars,
                 clientVars, hand, call, deliverVars, localSocketsList>>

-----------------------------------------------------------------------------
(***************************************************************************)
(* InjectionThreadRoutine: reinject the data of every listed socket, then  *)
(* deliver waiting notifications, forever.                                 *)
(***************************************************************************)

CollectSockets ==
  /\ pc[InjectionThread] = "collect"
  /\ localSocketsList' = {s \in Socket : listed[s] /\ pendingQueue[s] # {}}
  /\ pc' = [pc EXCEPT ![InjectionThread] = "walk"]
  /\ UNCHANGED <<queueVars, injectVars, listVars, eventVars, clientVars, hand, call,
                 response, deliverVars>>

NextSocket ==
  /\ pc[InjectionThread] = "walk"
  /\ IF localSocketsList = {}
     THEN /\ pc' = [pc EXCEPT ![InjectionThread] = "deliver"]
          /\ UNCHANGED <<hand, localSocketsList>>
     ELSE \E s \in localSocketsList :
            /\ localSocketsList' = localSocketsList \ {s}
            /\ hand' = [hand EXCEPT ![InjectionThread] = s]
            /\ pc' = [pc EXCEPT ![InjectionThread] = "reinject"]
  /\ UNCHANGED <<queueVars, injectVars, listVars, eventVars, clientVars, call, response,
                 deliverVars>>

-----------------------------------------------------------------------------
Deliver(t) == DeliverPop(t) \/ DeliverScan(t) \/ DeliverReinsert(t)

DataStep(s, d) == FltData(s, d) \/ Enqueue(s, d) \/ Notify(s, d)

EventStep(s) == Purge(s) \/ Unlist(s) \/ Unreport(s) \/ Drain(s) \/ EventDone(s)

ClientStep(c) == Lookup(c) \/ SetDeferredDataProperties(c)

InjectionStep == CollectSockets \/ NextSocket

Next ==
  \/ \E s \in Socket, d \in Direction : DataStep(s, d)
  \/ \E s \in Socket : WakeUp(s) \/ Expire(s) \/ SocketEvent(s) \/ EventStep(s)
  \/ \E t \in Thread : Deliver(t) \/ Reinject(t) \/ Inject(t)
  \/ \E c \in ClientThread : Respond(c) \/ ClientStep(c)
  \/ InjectionStep
  \/ ClientStart
  \/ ClientStop

Spec == Init /\ [][Next]_vars

(***************************************************************************)
(* The scheduler keeps running every thread that can run, and time passes. *)
(* Nothing is assumed of the client, of new data or of new events.         *)
(***************************************************************************)
DataThreadStep(s, d) ==
  Enqueue(s, d) \/ Notify(s, d) \/ Deliver(<<s, d>>) \/ (d = "out" /\ WakeUp(s))

EventThreadStep(s) ==
  LET t == <<s, "event">> IN EventStep(s) \/ Reinject(t) \/ Inject(t)

ClientThreadStep(c) == ClientStep(c) \/ Deliver(c) \/ Reinject(c) \/ Inject(c)

InjectionThreadStep ==
  LET t == InjectionThread IN InjectionStep \/ Deliver(t) \/ Reinject(t) \/ Inject(t)

Fairness ==
  /\ \A s \in Socket, d \in Direction : WF_vars(DataThreadStep(s, d))
  /\ \A s \in Socket : WF_vars(EventThreadStep(s)) /\ WF_vars(Expire(s))
  /\ \A c \in ClientThread : WF_vars(ClientThreadStep(c))
  /\ WF_vars(InjectionThreadStep)

FairSpec == Spec /\ Fairness

-----------------------------------------------------------------------------
ThreadState == {"idle", "enqueue", "notify", "wait", "deliver", "scan", "reinsert",
                "lookup", "setProperty", "reinject", "inject", "collect", "walk",
                "unlist", "unreport", "purge", "drainOut", "drainIn", "done"}

QueueTypes ==
  /\ pendingQueue \in [Socket -> SUBSET PendingPktQueueItem]
  /\ packetsToInject \in [Socket -> SUBSET PendingPktQueueItem]
  /\ packetsWaitingForReporting \in [Socket -> Nat]
  /\ numberOfPending \in [Socket -> [Direction -> Nat]]
  /\ pendingDataNextIndex \in [Socket -> Nat]
  /\ nextPlace \in [Socket -> Nat]

SocketTypes ==
  /\ injectionMutex \in [Socket -> Thread \cup {None}]
  /\ deadlinedPackets \in [Socket -> BOOLEAN]
  /\ receiveBuffer \in [Socket -> {"original", "reserve"}]
  /\ waitEntry \in [Socket -> {"none", "unsatisfied", "satisfied"}]
  /\ listed \in [Socket -> BOOLEAN]
  /\ SocketsListToReport \in Seq(Socket)
  /\ event \in [Socket -> SocketEvents \cup {None}]
  /\ eventsDone \in [Socket -> SUBSET SocketEvents]

ThreadTypes ==
  /\ pc \in [Thread -> ThreadState]
  /\ hand \in [Thread -> Socket \cup {None}]
  /\ call \in [DataThread -> Nat]
  /\ response \in [ClientThread -> [socket: Socket, dataIndex: Nat, allow: BOOLEAN] \cup {None}]
  /\ reinsertInList \in [Thread -> BOOLEAN]
  /\ failed \in [Thread -> BOOLEAN]
  /\ localSocketsList \in SUBSET Socket

ClientTypes ==
  /\ clientPresent \in BOOLEAN
  /\ notified \in [Socket -> SUBSET Nat]
  /\ granted \in [Socket -> SUBSET Nat]

(* Every variable has its type; the counters are never negative. *)
TypeOK == QueueTypes /\ SocketTypes /\ ThreadTypes /\ ClientTypes

-----------------------------------------------------------------------------
(***************************************************************************)
(* The packets that wait to be reported are at the tail of the queue, in   *)
(* any state, although two threads append, several mark packets as         *)
(* reported and others take packets out: what verifyPendingPacketsQueue    *)
(* asserts and what every loop that breaks at such a packet relies on.     *)
(***************************************************************************)
UnreportedAtTail ==
  \A s \in Socket : \A p, q \in pendingQueue[s] :
    p.needToBeReported /\ p.place < q.place => q.needToBeReported

(***************************************************************************)
(* packetsWaitingForReporting is the number of those packets, which FltData *)
(* trusts to decide whether a packet may overtake the queue.                *)
(***************************************************************************)
ReportingCountExact ==
  \A s \in Socket : packetsWaitingForReporting[s] = Cardinality(Unreported(s))

(* A thread in DeliverWaitingNotifications that will still report what waits *)
(* on s, or put s back in the list.                                          *)
InDelivery(s) ==
  \E t \in Thread : /\ hand[t] = s
                    /\ pc[t] = "scan" \/ (pc[t] = "reinsert" /\ reinsertInList[t])

(***************************************************************************)
(* No report is forgotten: as long as a packet of a socket waits to be     *)
(* reported the socket is in SocketsListToReport or in the hands of a      *)
(* thread that delivers its notifications, until FltDetach removes it.     *)
(***************************************************************************)
ReportNeverForgotten ==
  \A s \in Socket :
    Attached(s) /\ Unreported(s) # {} => InsertedInSocketsListToReport(s) \/ InDelivery(s)

(***************************************************************************)
(* A sender asleep in FltData is never abandoned: while its wait entry is  *)
(* unsatisfied its packet is the last outbound one of the queue, not yet   *)
(* reported, and points to that entry; no other packet points to one.      *)
(***************************************************************************)
SleeperHasItsPacket ==
  \A s \in Socket :
    LET waiting == {p \in pendingQueue[s] : p.waiter} IN
    /\ \A p \in waiting : p.dir = "out" /\ p.needToBeReported
    /\ IF waitEntry[s] = "unsatisfied"
       THEN /\ Cardinality(waiting) = 1
            /\ \A p \in waiting : \A q \in pendingQueue[s] : q.dir = "out" => q.place <= p.place
       ELSE waiting = {}

(* A packet FltData has allocated and not queued yet. *)
Allocated(s, d) == IF pc[<<s, d>>] = "enqueue" THEN 1 ELSE 0

(***************************************************************************)
(* numberOfPending...Packets counts every packet the filter still owes a    *)
(* decision: queued, being injected, or with FltData before it is queued.   *)
(* checkForInjectionCompletion waits for it to be zero.                     *)
(***************************************************************************)
PendingCountersExact ==
  \A s \in Socket, d \in Direction :
    numberOfPending[s][d] = Outstanding(s, d) + Allocated(s, d)

(* The packets a step gives to the socket. *)
Given(s) == {p \in packetsToInject[s] \ packetsToInject'[s] : MayInject(s, p)}

(***************************************************************************)
(* Nothing is given to the socket that the client did not allow, whatever  *)
(* expires, is purged or is answered late.                                 *)
(***************************************************************************)
InjectedWithPermission ==
  [][\A s \in Socket : \A p \in Given(s) : p.dataIndex \in granted[s]]_packetsToInject

(***************************************************************************)
(* Once FltDetach has purged the queue the socket is not used any more:    *)
(* nothing is queued or being injected, whoever looked the socket up       *)
(* before.                                                                 *)
(***************************************************************************)
DetachPurged(s) ==
  \/ "detach" \in eventsDone[s]
  \/ event[s] = "detach" /\ pc[<<s, "event">>] \in {"drainOut", "drainIn", "done"}

QuietAfterDetach ==
  \A s \in Socket :
    DetachPurged(s) =>
      /\ pendingQueue[s] = {} /\ packetsToInject[s] = {}
      /\ \A t \in Thread : hand[t] = s => pc[t] # "inject"

(***************************************************************************)
(* The receive window is reduced only while an inbound packet waits to be  *)
(* reported, so that reporting the last one restores it; except when the   *)
(* inbound data was purged.                                                *)
(***************************************************************************)
InboundPurged(s) ==
  (eventsDone[s] \cup {event[s]}) \cap {"closing", "shutdownRDWR", "shutdownRD", "detach"} # {}

WindowRestored ==
  \A s \in Socket :
    receiveBuffer[s] = "reserve" /\ ~InboundPurged(s) =>
      \E p \in Unreported(s) : p.dir = "in"

(***************************************************************************)
(* Data of one direction is given back in the order it came, whichever of  *)
(* the injection thread, the client and FltNotify gives it back.           *)
(***************************************************************************)
InjectionInOrder ==
  [][\A s \in Socket : \A p \in Given(s) : \A q \in pendingQueue[s] \cup packetsToInject[s] :
       q.dir = p.dir => p.dataIndex <= q.dataIndex]_packetsToInject

(***************************************************************************)
(* The client is told of the packets of one direction in their order: when *)
(* it is told of one, it has not been told of a later one in the queue,    *)
(* though reports come from FltData and from any thread that delivers.     *)
(***************************************************************************)
ReportedInOrder ==
  [][\A s \in Socket : \A p, q \in pendingQueue'[s] :
       /\ p.dataIndex \in notified'[s] \ notified[s]
       /\ q.dir = p.dir /\ q.dataIndex > p.dataIndex
       => q.dataIndex \notin notified[s] /\ ~q.responseReceived]_notified

(***************************************************************************)
(* What setDeferredDataProperties asserts in a debug build: as long as the *)
(* socket is neither shut down nor closed and no packet of it has been     *)
(* given up, the packet a response is for is in the queue, reported.       *)
(***************************************************************************)
NotShutDown(s) ==
  (eventsDone[s] \cup {event[s]}) \cap {"closing", "shutdownRDWR", "shutdownWR", "shutdownRD"} = {}

ResponseFindsItsPacket ==
  [][\A c \in ClientThread :
       SetDeferredDataProperties(c) /\ NotShutDown(hand[c]) /\ ~deadlinedPackets[hand[c]]
       => Answered(hand[c], response[c].dataIndex) # {}]_<<pc, pendingQueue>>

(* A sender that FltData put to sleep is woken up, client or no client. *)
SenderWakesUp ==
  \A s \in Socket : pc[<<s, "out">>] = "wait" ~> pc[<<s, "out">>] # "wait"

(* FltNotify( disconnecting ) and FltDetach return. *)
EventReturns == \A s \in Socket : event[s] # None ~> event[s] = None

(* Every packet leaves the queue, injected, denied, expired or purged: once *)
(* no more data comes the queue becomes empty.                              *)
QueueDrains == \A s \in Socket : pendingQueue[s] # {} ~> pendingQueue[s] = {}
====
