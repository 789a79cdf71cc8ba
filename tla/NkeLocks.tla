------------------------------ MODULE NkeLocks ------------------------------
(***************************************************************************)
(* The order in which the driver takes its locks, with the lock of the      *)
(* socket, which the kernel holds in some callbacks and takes in the calls  *)
(* that inject data, read a socket's address or set its receive buffer.     *)
(* A function is the longest path of lock operations it goes along.         *)
(***************************************************************************)
EXTENDS Naturals, Sequences

CONSTANTS
  Socket,
  Thread,
  NoThread,
  HeldInCallbacks     (* The kernel calls for sock_evt_closing and for a detach *)
                      (* with the lock of the socket held, as FltNotify says.    *)

ASSUME ThreadAssumption == NoThread \notin Thread

(* The locks of a socket and those there is one of.  A reader of a lock is  *)
(* taken for a writer, no reader takes another lock; so is a user of the    *)
(* detaching lock, which only the owner of rwLock becomes.                  *)
SocketMutex(s) == <<"socket", s>>
InjectionMutex(s) == <<"injectionMutex", s>>
RwLock(s) == <<"rwLock", s>>
DetachingLock(s) == <<"lockCount", s>>
SocketsListLock == <<"SocketsListLock">>
SocketsListToReportLock == <<"SocketsListToReportLock">>
ClientLock == <<"fLock">>

Lock ==
  {SocketMutex(s) : s \in Socket} \cup {InjectionMutex(s) : s \in Socket}
  \cup {RwLock(s) : s \in Socket} \cup {DetachingLock(s) : s \in Socket}
  \cup {SocketsListLock, SocketsListToReportLock, ClientLock}

Take(l) == [lock |-> l, taken |-> TRUE]
Drop(l) == [lock |-> l, taken |-> FALSE]

Holding(l, path) == <<Take(l)>> \o path \o <<Drop(l)>>
Only(l) == Holding(l, <<>>)

-----------------------------------------------------------------------------
GetSocketObjectRef == Only(SocketsListLock)
InsertInSocketsList(s) == Holding(RwLock(s), Only(SocketsListLock))
RemoveFromSocketsList(s) ==
  Holding(RwLock(s), Only(SocketsListLock)) \o Only(SocketsListToReportLock)

SocketFilterNotification == Only(ClientLock)

(* sock_setsockopt and its like take the lock of the socket themselves. *)
CallOfSocket(s) == Only(SocketMutex(s))

LogEvent(s) == Only(RwLock(s))

(* The receive buffer is set back under the lock that guards the packets. *)
DeliverWaitingNotifications(s) ==
  Only(SocketsListToReportLock)
    \o Holding(RwLock(s), SocketFilterNotification \o CallOfSocket(s))
    \o Only(SocketsListToReportLock)

(* The packets are taken from the queue, then injected through the socket. *)
ReinjectDeferredData(s) ==
  Holding(InjectionMutex(s), Only(RwLock(s)) \o CallOfSocket(s))

PurgeRwLockFirst(s) == Holding(RwLock(s), Only(InjectionMutex(s)))

PurgePendingQueue(s) == Holding(InjectionMutex(s), Only(RwLock(s)))

SetDeferredDataProperties(s) == Only(RwLock(s))

(* FltDetach waits for the users of the detaching lock to leave. *)
Detach(s) ==
  RemoveFromSocketsList(s) \o Only(DetachingLock(s)) \o PurgePendingQueue(s)

InCallback(s, path) == IF HeldInCallbacks THEN Holding(SocketMutex(s), path) ELSE path

FltDetach(s) == InCallback(s, Detach(s))

(* An object left at the address is detached before the new one is made. *)
FltAttach(s) ==
  GetSocketObjectRef \o Detach(s) \o CallOfSocket(s) \o InsertInSocketsList(s)

ReduceWindow(s) == Holding(DetachingLock(s), CallOfSocket(s))

FltData(s, r) ==
  Holding(RwLock(s), ReduceWindow(s) \o Only(SocketsListToReportLock))
    \o SocketFilterNotification \o DeliverWaitingNotifications(r)

Event(s, handler) == GetSocketObjectRef \o LogEvent(s) \o handler \o LogEvent(s)

Closing(s) ==
  InCallback(s, Event(s, PurgePendingQueue(s) \o SocketFilterNotification))

(* sock_evt_connecting, connected and disconnected. *)
Connected(s) == Event(s, CallOfSocket(s) \o SocketFilterNotification)

(* sock_evt_shutdown; sock_evt_disconnecting and cantrecvmore are a part of it. *)
Shutdown(s) == Event(s, ReinjectDeferredData(s) \o PurgePendingQueue(s))

ProcessServiceResponse(s, r) ==
  DeliverWaitingNotifications(r) \o GetSocketObjectRef \o SetDeferredDataProperties(s)
    \o ReinjectDeferredData(s)

InjectionThreadRoutine(s, r) ==
  GetSocketObjectRef \o ReinjectDeferredData(s) \o DeliverWaitingNotifications(r)

Path ==
  (UNION {{FltAttach(s), FltDetach(s), Closing(s), Connected(s), Shutdown(s)} : s \in Socket})
  \cup (UNION {{FltData(s, r), ProcessServiceResponse(s, r), InjectionThreadRoutine(s, r)} :
               s \in Socket, r \in Socket})

-----------------------------------------------------------------------------
VARIABLES
  owner,       (* of every lock                                         *)
  call,        (* the path every thread has begun                       *)
  path         (* what is left of it                                    *)

vars == <<owner, call, path>>

Init ==
  /\ owner = [l \in Lock |-> NoThread]
  /\ call = [t \in Thread |-> <<>>]
  /\ path = [t \in Thread |-> <<>>]

(* The kernel attaches and detaches a filter while it is in no other        *)
(* callback of it, and gives a socket's events to it one after the other.   *)
AttachOrDetach(s) == {FltAttach(s), FltDetach(s)}

EventOf(s) == {Closing(s), Connected(s), Shutdown(s)}

CallbackOf(s) == AttachOrDetach(s) \cup EventOf(s) \cup {FltData(s, r) : r \in Socket}

NotTogether(p, q) ==
  \E s \in Socket :
    \/ p \in AttachOrDetach(s) /\ q \in CallbackOf(s)
    \/ q \in AttachOrDetach(s) /\ p \in CallbackOf(s)
    \/ p \in EventOf(s) /\ q \in EventOf(s)

Call(t) ==
  /\ path[t] = <<>>
  /\ \E p \in Path :
       /\ \A u \in Thread : ~NotTogether(p, call[u])
       /\ call' = [call EXCEPT ![t] = p]
       /\ path' = [path EXCEPT ![t] = p]
  /\ UNCHANGED owner

TakeLock(t) ==
  /\ path[t] # <<>>
  /\ Head(path[t]).taken
  /\ owner[Head(path[t]).lock] = NoThread
  /\ owner' = [owner EXCEPT ![Head(path[t]).lock] = t]
  /\ path' = [path EXCEPT ![t] = Tail(@)]
  /\ UNCHANGED call

DropLock(t) ==
  /\ path[t] # <<>>
  /\ ~ Head(path[t]).taken
  /\ owner' = [owner EXCEPT ![Head(path[t]).lock] = NoThread]
  /\ path' = [path EXCEPT ![t] = Tail(@)]
  /\ call' = [call EXCEPT ![t] = IF Len(path[t]) = 1 THEN <<>> ELSE @]

Next == \E t \in Thread : Call(t) \/ TakeLock(t) \/ DropLock(t)

Spec == Init /\ [][Next]_vars

WaitsFor(t, u) ==
  /\ path[t] # <<>>
  /\ Head(path[t]).taken
  /\ owner[Head(path[t]).lock] = u

(* Every thread of a circle waits for a lock that another of them holds. *)
IsCircle(T) == T # {} /\ \A t \in T : \E u \in T : WaitsFor(t, u)

(***************************************************************************)
(* No threads wait for each other for ever.  Comments of reinjectDeferredData *)
(* give the rules that are to prevent it: "a lock should never be held      *)
(* across system calls since one never knows whether the same lock will be  *)
(* accessed within the system call", and what takes the socket mutex        *)
(* "should not be called under any other lock acquired inside any callback  *)
(* that is called with a socket mutex held".                                *)
(***************************************************************************)
NoCircularWait == \A T \in SUBSET Thread : ~IsCircle(T)

(***************************************************************************)
(* The locks of the driver are always taken in one order: wherever threads  *)
(* wait for each other in a circle, one of them waits for a socket's lock,  *)
(* inside a system call made under a lock of the driver.                    *)
(***************************************************************************)
CirclesNeedTheSocketLock ==
  \A T \in SUBSET Thread : IsCircle(T) =>
    \E t \in T : \E s \in Socket : Head(path[t]).lock = SocketMutex(s)
=============================================================================
