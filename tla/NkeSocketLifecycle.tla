------------------------- MODULE NkeSocketLifecycle -------------------------
(***************************************************************************)
(* The life of the objects that NkeSocketFilter keeps for sockets: the      *)
(* kernel attaches and detaches sockets, whose addresses it uses again;     *)
(* events and responses look an object up by the address; the injection     *)
(* thread and DeliverWaitingNotifications work through lists of objects.    *)
(* What keeps an object alive is its reference count.  Its deferred data,   *)
(* the subject of NkeSocketObject, is two numbers here.                     *)
(***************************************************************************)
EXTENDS Naturals, SequencesExt

CONSTANTS
  Address,           (* socket_t; the kernel thread that attaches and detaches it too *)
  Caller,            (* threads in FltNotify or processServiceResponse                *)
  Deliverer,         (* other threads in DeliverWaitingNotifications                  *)
  InjectionThread,
  None,
  MaxObjects,        (* Bound: the number of sockets attached.                        *)
  MaxPending         (* Bound: the number of packets an object defers at a time.      *)

ASSUME MaxAssumption == MaxObjects \in Nat /\ MaxPending \in Nat
ASSUME ThreadAssumption ==
  /\ Address \cap Caller = {} /\ (Address \cup Caller) \cap Deliverer = {}
  /\ InjectionThread \notin Address \cup Caller \cup Deliverer
  /\ IsFiniteSet(Address \cup Caller \cup Deliverer)

Reporter == Deliverer \cup {InjectionThread}
Injector == Caller \cup {InjectionThread}
Thread == Address \cup Caller \cup Reporter

(* An object is named by its socketSequence. *)
Object == 1 .. MaxObjects
NoObject == 0

VARIABLES
  gSocketSequence,       (* of the next object                                     *)
  socket,                (* the address an object was made for                     *)
  retainCount,
  SocketsList,
  SocketsListToReport,
  packetsWaitingForReporting,
  reported,              (* the packets of an object that wait for a response      *)
  injecting,             (* the packets reinjectDeferredData has taken             *)
  injectionMutex,
  notified,              (* the objects the client has heard of                    *)
  pc,
  obj,                   (* the object a thread works on                           *)
  oldObj,                (* the object FltAttach found at its address              *)
  wasInList, wasInReport,  (* locals of removeFromSocketsList                      *)
  answered,              (* the object a response names                            *)
  localSocketsList,      (* of the injection thread                                *)
  missed                 (* history: objects whose detach callback was not called  *)

data == <<packetsWaitingForReporting, reported, injecting, notified>>
locals == <<oldObj, wasInList, wasInReport, answered, localSocketsList, missed>>
objects == <<gSocketSequence, socket>>
vars == <<objects, retainCount, SocketsList, SocketsListToReport, data, injectionMutex, pc, obj, locals>>

Init ==
  /\ gSocketSequence = 1
  /\ socket = [o \in Object |-> None]
  /\ retainCount = [o \in Object |-> 0]
  /\ SocketsList = {} /\ SocketsListToReport = <<>>
  /\ packetsWaitingForReporting = [o \in Object |-> 0]
  /\ reported = [o \in Object |-> 0]
  /\ injecting = [o \in Object |-> 0]
  /\ injectionMutex = [o \in Object |-> None]
  /\ notified = {}
  /\ pc = [t \in Thread |-> IF t \in Address THEN "closed" ELSE "idle"]
  /\ obj = [t \in Thread |-> NoObject]
  /\ oldObj = [a \in Address |-> NoObject]
  /\ wasInList = [a \in Address |-> FALSE]
  /\ wasInReport = [a \in Address |-> FALSE]
  /\ answered = [t \in Caller |-> NoObject]
  /\ localSocketsList = {}
  /\ missed = {}

Goto(t, label) == pc' = [pc EXCEPT ![t] = label]

Retain(o) == retainCount' = [retainCount EXCEPT ![o] = @ + 1]
Release(o) == retainCount' = [retainCount EXCEPT ![o] = @ - 1]

InReport(o) == \E i \in DOMAIN SocketsListToReport : SocketsListToReport[i] = o

AtAddress(a) == {o \in SocketsList : socket[o] = a}

-----------------------------------------------------------------------------
(***************************************************************************)
(* FltAttach.  An object still in the list for the address of the socket    *)
(* is one whose detach callback was not called: it is detached first.       *)
(***************************************************************************)
NothingLeftAtAddress(a) == {}
LeftAtAddress(a) == AtAddress(a)

Attach(a) ==
  /\ pc[a] = "closed"
  /\ gSocketSequence \in Object
  /\ \/ /\ LeftAtAddress(a) = {}
        /\ Goto(a, "create")
        /\ UNCHANGED <<retainCount, obj, oldObj>>
     \/ \E o \in LeftAtAddress(a) :
          /\ oldObj' = [oldObj EXCEPT ![a] = o]
          /\ obj' = [obj EXCEPT ![a] = o]
          /\ Retain(o)
          /\ Goto(a, "detach")
  /\ UNCHANGED <<objects, SocketsList, SocketsListToReport, data, injectionMutex, wasInList,
                 wasInReport, answered, localSocketsList, missed>>

(* withSocket; the sequence is one no other object has had. *)
Create(a) ==
  LET o == gSocketSequence IN
  /\ pc[a] = "create"
  /\ gSocketSequence \in Object
  /\ gSocketSequence' = gSocketSequence + 1
  /\ socket' = [socket EXCEPT ![o] = a]
  /\ Retain(o)
  /\ obj' = [obj EXCEPT ![a] = o]
  /\ Goto(a, "insert")
  /\ UNCHANGED <<SocketsList, SocketsListToReport, data, injectionMutex, locals>>

InsertInSocketsList(a) ==
  /\ pc[a] = "insert"
  /\ SocketsList' = SocketsList \cup {obj[a]}
  /\ Retain(obj[a])
  /\ Goto(a, "inserted")
  /\ UNCHANGED <<objects, SocketsListToReport, data, injectionMutex, obj, locals>>

ReleaseCreated(a) ==
  /\ pc[a] = "inserted"
  /\ Release(obj[a])
  /\ Goto(a, "attached")
  /\ UNCHANGED <<objects, SocketsList, SocketsListToReport, data, injectionMutex, obj, locals>>

(***************************************************************************)
(* FltData, for its effect on the object: the packet is deferred, reported  *)
(* or to be reported later.  The kernel does not detach a socket while it   *)
(* is in one of its data callbacks.                                         *)
(***************************************************************************)
NumberOfPending(o) == packetsWaitingForReporting[o] + reported[o] + injecting[o]

Report(a) ==
  LET o == obj[a] IN
  /\ pc[a] = "attached"
  /\ NumberOfPending(o) < MaxPending
  /\ packetsWaitingForReporting[o] = 0
  /\ reported' = [reported EXCEPT ![o] = @ + 1]
  /\ notified' = notified \cup {o}
  /\ UNCHANGED <<objects, retainCount, SocketsList, SocketsListToReport,
                 packetsWaitingForReporting, injecting, injectionMutex, pc, obj, locals>>

InsertionNeeded(o) == packetsWaitingForReporting[o] = 0 /\ ~ InReport(o)

(* No buffers, or packets before this one wait for them.  The first to wait *)
(* puts the object in the list, unless it is there already.                 *)
ReportLater(a) ==
  LET o == obj[a] IN
  /\ pc[a] = "attached"
  /\ NumberOfPending(o) < MaxPending
  /\ packetsWaitingForReporting' = [packetsWaitingForReporting EXCEPT ![o] = @ + 1]
  /\ IF InsertionNeeded(o)
     THEN Retain(o) /\ SocketsListToReport' = Append(SocketsListToReport, o)
     ELSE UNCHANGED <<retainCount, SocketsListToReport>>
  /\ UNCHANGED <<objects, SocketsList, reported, injecting, notified, injectionMutex, pc, obj, locals>>

-----------------------------------------------------------------------------
(***************************************************************************)
(* FltDetach, called by the kernel or by FltAttach.                         *)
(***************************************************************************)
InEvent(o) == \E r \in Caller : obj[r] = o /\ answered[r] = NoObject

CloseSocket(a) ==
  /\ pc[a] = "attached"
  /\ ~ InEvent(obj[a])
  /\ Goto(a, "detach")
  /\ UNCHANGED <<objects, retainCount, SocketsList, SocketsListToReport, data, injectionMutex, obj,
                 locals>>

(* "It happened that sometimes the detach callback was not called." *)
MissDetach(a) ==
  /\ pc[a] = "attached"
  /\ ~ InEvent(obj[a])
  /\ missed' = missed \cup {obj[a]}
  /\ obj' = [obj EXCEPT ![a] = NoObject]
  /\ Goto(a, "closed")
  /\ UNCHANGED <<objects, retainCount, SocketsList, SocketsListToReport, data, injectionMutex, oldObj,
                 wasInList, wasInReport, answered, localSocketsList>>

Detach(a) ==
  /\ pc[a] = "detach"
  /\ Retain(obj[a])
  /\ Goto(a, "remove")
  /\ UNCHANGED <<objects, SocketsList, SocketsListToReport, data, injectionMutex, obj, locals>>

RemoveFromSocketsList(a) ==
  /\ pc[a] = "remove"
  /\ wasInList' = [wasInList EXCEPT ![a] = obj[a] \in SocketsList]
  /\ SocketsList' = SocketsList \ {obj[a]}
  /\ Goto(a, "removeReport")
  /\ UNCHANGED <<objects, retainCount, SocketsListToReport, data, injectionMutex, obj, oldObj,
                 wasInReport, answered, localSocketsList, missed>>

RemoveFromSocketsListToReport(a) ==
  /\ pc[a] = "removeReport"
  /\ wasInReport' = [wasInReport EXCEPT ![a] = InReport(obj[a])]
  /\ IF InReport(obj[a])
     THEN \E i \in DOMAIN SocketsListToReport :
            /\ SocketsListToReport[i] = obj[a]
            /\ SocketsListToReport' = RemoveAt(SocketsListToReport, i)
     ELSE UNCHANGED SocketsListToReport
  /\ Goto(a, "releaseList")
  /\ UNCHANGED <<objects, retainCount, SocketsList, data, injectionMutex, obj, oldObj, wasInList,
                 answered, localSocketsList, missed>>

ReleaseAlways(o, wasInserted) == Release(o)
ReleaseNever(o, wasInserted) == UNCHANGED retainCount
ReleaseInserted(o, wasInserted) ==
  IF wasInserted THEN Release(o) ELSE UNCHANGED retainCount

ReleaseFromList(a) ==
  /\ pc[a] = "releaseList"
  /\ ReleaseInserted(obj[a], wasInList[a])
  /\ wasInList' = [wasInList EXCEPT ![a] = FALSE]
  /\ Goto(a, "releaseReport")
  /\ UNCHANGED <<objects, SocketsList, SocketsListToReport, data, injectionMutex, obj, oldObj,
                 wasInReport, answered, localSocketsList, missed>>

ReleaseFromListToReport(a) ==
  /\ pc[a] = "releaseReport"
  /\ ReleaseInserted(obj[a], wasInReport[a])
  /\ wasInReport' = [wasInReport EXCEPT ![a] = FALSE]
  /\ Goto(a, "purge")
  /\ UNCHANGED <<objects, SocketsList, SocketsListToReport, data, injectionMutex, obj, oldObj,
                 wasInList, answered, localSocketsList, missed>>

NotReinjecting(o) == injectionMutex[o] = None

(* purgePendingQueue( All ), under the injection mutex. *)
EmptyQueue(a, label) ==
  /\ pc[a] = "purge"
  /\ packetsWaitingForReporting' = [packetsWaitingForReporting EXCEPT ![obj[a]] = 0]
  /\ reported' = [reported EXCEPT ![obj[a]] = 0]
  /\ Goto(a, label)
  /\ UNCHANGED <<objects, retainCount, SocketsList, SocketsListToReport, injecting, notified,
                 injectionMutex, obj, locals>>

PurgeWithoutWaiting(a) == EmptyQueue(a, "detached")
Purge(a) == EmptyQueue(a, "await") /\ NotReinjecting(obj[a])

PendingQueueEmpty(o) == packetsWaitingForReporting[o] = 0 /\ reported[o] = 0
InjectionCompleted(o) == NumberOfPending(o) = 0

(* checkForInjectionCompletion polls the counters of the pending packets.    *)
AwaitCompletion(a) ==
  /\ pc[a] = "await"
  /\ InjectionCompleted(obj[a])
  /\ Goto(a, "detached")
  /\ UNCHANGED <<objects, retainCount, SocketsList, SocketsListToReport, data, injectionMutex, obj,
                 locals>>

ReleaseDetached(a) ==
  /\ pc[a] = "detached"
  /\ Release(obj[a])
  /\ obj' = [obj EXCEPT ![a] = NoObject]
  /\ missed' = missed \ {obj[a]}
  /\ Goto(a, IF oldObj[a] = NoObject THEN "closed" ELSE "releaseOld")
  /\ UNCHANGED <<objects, SocketsList, SocketsListToReport, data, injectionMutex, oldObj,
                 wasInList, wasInReport, answered, localSocketsList>>

(* FltAttach goes on. *)
ReleaseOld(a) ==
  /\ pc[a] = "releaseOld"
  /\ Release(oldObj[a])
  /\ oldObj' = [oldObj EXCEPT ![a] = NoObject]
  /\ Goto(a, "create")
  /\ UNCHANGED <<objects, SocketsList, SocketsListToReport, data, injectionMutex, obj, wasInList,
                 wasInReport, answered, localSocketsList, missed>>

-----------------------------------------------------------------------------
(***************************************************************************)
(* FltNotify, in a call the kernel makes for an attached socket, and        *)
(* processServiceResponse, for one property of a response.  A response      *)
(* names its object for ever; the object found at the address of that one   *)
(* may be another.  A call that finds no object does nothing.               *)
(***************************************************************************)
GetSocketObject(r, a) ==
  \E o \in AtAddress(a) : UNCHANGED retainCount /\ obj' = [obj EXCEPT ![r] = o]
GetSocketObjectRef(r, a) ==
  \E o \in AtAddress(a) : Retain(o) /\ obj' = [obj EXCEPT ![r] = o]

(* What the events do to the queue: nothing, purge, or inject. *)
FltNotify(r) ==
  \E a \in Address :
    /\ pc[r] = "idle"
    /\ pc[a] = "attached"
    /\ GetSocketObjectRef(r, a)
    /\ \E label \in {"release", "purge", "reinject"} : Goto(r, label)
    /\ UNCHANGED <<objects, SocketsList, SocketsListToReport, data, injectionMutex, locals>>

(* purgePendingQueue( Inbound ): some of the packets. *)
PurgeInbound(r) ==
  LET o == obj[r] IN
  /\ pc[r] = "purge"
  /\ NotReinjecting(o)
  /\ \E n \in 0 .. packetsWaitingForReporting[o] :
       packetsWaitingForReporting' = [packetsWaitingForReporting EXCEPT ![o] = n]
  /\ \E n \in 0 .. reported[o] : reported' = [reported EXCEPT ![o] = n]
  /\ Goto(r, "release")
  /\ UNCHANGED <<objects, retainCount, SocketsList, SocketsListToReport, injecting, notified,
                 injectionMutex, obj, locals>>

(* sock_evt_disconnecting *)
AwaitCompletionOfEvent(r) ==
  /\ pc[r] = "await"
  /\ InjectionCompleted(obj[r])
  /\ Goto(r, "release")
  /\ UNCHANGED <<objects, retainCount, SocketsList, SocketsListToReport, data, injectionMutex,
                 obj, locals>>

StepOfAnyResponse(o, p) == "reinject"
NextStepOfResponse(o, p) == IF o = p THEN "reinject" ELSE "release"

ProcessServiceResponse(r) ==
  \E o \in notified :
    /\ pc[r] = "idle"
    /\ GetSocketObjectRef(r, socket[o])
    /\ answered' = [answered EXCEPT ![r] = o]
    /\ Goto(r, NextStepOfResponse(obj'[r], o))
    /\ UNCHANGED <<objects, SocketsList, SocketsListToReport, data, injectionMutex, oldObj,
                   wasInList, wasInReport, localSocketsList, missed>>

ReleaseFound(r) ==
  /\ pc[r] = "release"
  /\ Release(obj[r])
  /\ obj' = [obj EXCEPT ![r] = NoObject]
  /\ IF r = InjectionThread
     THEN Goto(r, "next") /\ UNCHANGED answered
     ELSE Goto(r, "idle") /\ answered' = [answered EXCEPT ![r] = NoObject]
  /\ UNCHANGED <<objects, SocketsList, SocketsListToReport, data, injectionMutex, oldObj,
                 wasInList, wasInReport, localSocketsList, missed>>

-----------------------------------------------------------------------------
(***************************************************************************)
(* reinjectDeferredData.  It takes some reported packets, those that have   *)
(* their response or whose deadline has passed, and injects one by one,     *)
(* with the injection mutex, through the socket of the object.              *)
(***************************************************************************)
CollectPackets(r) ==
  LET o == obj[r] IN
  /\ pc[r] = "reinject"
  /\ NotReinjecting(o)
  /\ injectionMutex' = [injectionMutex EXCEPT ![o] = r]
  /\ \E n \in 0 .. reported[o] :
       /\ reported' = [reported EXCEPT ![o] = @ - n]
       /\ injecting' = [injecting EXCEPT ![o] = @ + n]
  /\ Goto(r, "inject")
  /\ UNCHANGED <<objects, retainCount, SocketsList, SocketsListToReport,
                 packetsWaitingForReporting, notified, obj, locals>>

Inject(r) ==
  LET o == obj[r] IN
  /\ pc[r] = "inject"
  /\ injecting[o] > 0
  /\ injecting' = [injecting EXCEPT ![o] = @ - 1]
  /\ UNCHANGED <<objects, retainCount, SocketsList, SocketsListToReport,
                 packetsWaitingForReporting, reported, notified, injectionMutex, pc, obj, locals>>

(* sock_evt_shutdown may go on with a purge, sock_evt_disconnecting waits. *)
AfterReinject(r) ==
  IF r # InjectionThread /\ answered[r] = NoObject
  THEN {"purge", "await", "release"} ELSE {"release"}

FinishInjection(r) ==
  LET o == obj[r] IN
  /\ pc[r] = "inject"
  /\ injecting[o] = 0
  /\ injectionMutex' = [injectionMutex EXCEPT ![o] = None]
  /\ \E label \in AfterReinject(r) : Goto(r, label)
  /\ UNCHANGED <<objects, retainCount, SocketsList, SocketsListToReport, data, obj, locals>>

(* A round of InjectionThreadRoutine: the sockets with deferred data. *)
CollectSockets ==
  LET local == {o \in SocketsList : ~ PendingQueueEmpty(o)} IN
  /\ pc[InjectionThread] = "idle"
  /\ localSocketsList' = local
  /\ retainCount' = [o \in Object |-> retainCount[o] + (IF o \in local THEN 1 ELSE 0)]
  /\ Goto(InjectionThread, "next")
  /\ UNCHANGED <<objects, SocketsList, SocketsListToReport, data, injectionMutex, obj, oldObj,
                 wasInList, wasInReport, answered, missed>>

NextSocket ==
  /\ pc[InjectionThread] = "next"
  /\ \E o \in localSocketsList :
       /\ localSocketsList' = localSocketsList \ {o}
       /\ obj' = [obj EXCEPT ![InjectionThread] = o]
  /\ Goto(InjectionThread, "reinject")
  /\ UNCHANGED <<objects, retainCount, SocketsList, SocketsListToReport, data, injectionMutex,
                 oldObj, wasInList, wasInReport, answered, missed>>

EndOfRound ==
  /\ pc[InjectionThread] = "next"
  /\ localSocketsList = {}
  /\ Goto(InjectionThread, "deliver")
  /\ UNCHANGED <<objects, retainCount, SocketsList, SocketsListToReport, data, injectionMutex,
                 obj, locals>>

-----------------------------------------------------------------------------
(***************************************************************************)
(* DeliverWaitingNotifications.  The reference of the list goes to the      *)
(* thread and, when the object goes back to the list, to the list again.    *)
(* The call that releases buffers nests in this function is another caller  *)
(* of it: what it does, a Deliverer can do at the same place.               *)
(***************************************************************************)
DeliverWaitingNotifications(t) ==
  /\ t \in Deliverer
  /\ pc[t] = "idle"
  /\ Goto(t, "deliver")
  /\ UNCHANGED <<objects, retainCount, SocketsList, SocketsListToReport, data, injectionMutex,
                 obj, locals>>

TakeFirst(t) ==
  /\ pc[t] = "deliver"
  /\ IF SocketsListToReport = <<>>
     THEN Goto(t, "idle") /\ UNCHANGED <<obj, SocketsListToReport>>
     ELSE /\ obj' = [obj EXCEPT ![t] = Head(SocketsListToReport)]
          /\ SocketsListToReport' = Tail(SocketsListToReport)
          /\ Goto(t, "report")
  /\ UNCHANGED <<objects, retainCount, SocketsList, data, injectionMutex, locals>>

(***************************************************************************)
(* Under the lock of the object: n packets are reported, or given up after  *)
(* their deadline; all, or those before one that has no buffers.  The last  *)
(* one given up leaves the error set, and the thread goes no further.       *)
(***************************************************************************)
ReportPackets(t) ==
  LET o == obj[t] IN
  /\ pc[t] = "report"
  /\ \E n \in 0 .. packetsWaitingForReporting[o] :
       /\ packetsWaitingForReporting' = [packetsWaitingForReporting EXCEPT ![o] = @ - n]
       /\ reported' = [reported EXCEPT ![o] = @ + n]
       /\ notified' = IF n > 0 THEN notified \cup {o} ELSE notified
       /\ \/ /\ n < packetsWaitingForReporting[o]
             /\ Goto(t, "reinsert")
          \/ /\ n = packetsWaitingForReporting[o]
             /\ Goto(t, "done")
          \/ /\ n = packetsWaitingForReporting[o] /\ n > 0
             /\ Goto(t, "drop")
  /\ UNCHANGED <<objects, retainCount, SocketsList, SocketsListToReport, injecting,
                 injectionMutex, obj, locals>>

ReinsertedAtHead(o) == <<o>> \o SocketsListToReport
ReinsertedInSocketsListToReport(o) == Append(SocketsListToReport, o)

Reinsert(t) ==
  /\ pc[t] = "reinsert"
  /\ IF InReport(obj[t])
     THEN Goto(t, "drop") /\ UNCHANGED <<SocketsListToReport, obj>>
     ELSE /\ SocketsListToReport' = ReinsertedInSocketsListToReport(obj[t])
          /\ obj' = [obj EXCEPT ![t] = NoObject]
          /\ Goto(t, "idle")
  /\ UNCHANGED <<objects, retainCount, SocketsList, data, injectionMutex, locals>>

ReleaseReported(t) ==
  /\ pc[t] \in {"done", "drop"}
  /\ Release(obj[t])
  /\ obj' = [obj EXCEPT ![t] = NoObject]
  /\ Goto(t, IF pc[t] = "done" THEN "deliver" ELSE "idle")
  /\ UNCHANGED <<objects, SocketsList, SocketsListToReport, data, injectionMutex, locals>>

-----------------------------------------------------------------------------
FltAttach(a) == Attach(a) \/ Create(a) \/ InsertInSocketsList(a) \/ ReleaseCreated(a)

FltData(a) == Report(a) \/ ReportLater(a)

FltDetach(a) ==
  \/ Detach(a) \/ RemoveFromSocketsList(a) \/ RemoveFromSocketsListToReport(a)
  \/ ReleaseFromList(a) \/ ReleaseFromListToReport(a) \/ Purge(a) \/ AwaitCompletion(a)
  \/ ReleaseDetached(a) \/ ReleaseOld(a)

Kernel(a) == FltAttach(a) \/ FltData(a) \/ CloseSocket(a) \/ MissDetach(a) \/ FltDetach(a)

ReinjectDeferredData(r) == CollectPackets(r) \/ Inject(r) \/ FinishInjection(r) \/ ReleaseFound(r)

Call(r) ==
  FltNotify(r) \/ PurgeInbound(r) \/ AwaitCompletionOfEvent(r) \/ ProcessServiceResponse(r)

Deliver(t) ==
  DeliverWaitingNotifications(t) \/ TakeFirst(t) \/ ReportPackets(t) \/ Reinsert(t)
  \/ ReleaseReported(t)

InjectionThreadRoutine == CollectSockets \/ NextSocket \/ EndOfRound

Next ==
  \/ \E a \in Address : Kernel(a)
  \/ \E r \in Caller : Call(r)
  \/ \E r \in Injector : ReinjectDeferredData(r)
  \/ \E t \in Reporter : Deliver(t)
  \/ InjectionThreadRoutine

Spec == Init /\ [][Next]_vars

(***************************************************************************)
(* What has begun goes on, and the injection thread makes its rounds.  The  *)
(* kernel need not open a socket or close it, the client need not answer,   *)
(* and buffers may be missing for ever.  A thread that waits for the        *)
(* injection mutex gets it although others take it again and again.         *)
(***************************************************************************)
CallStep(r) == PurgeInbound(r) \/ ReinjectDeferredData(r)

DeliverStep(t) == TakeFirst(t) \/ ReportPackets(t) \/ Reinsert(t) \/ ReleaseReported(t)

InjectionThreadStep ==
  InjectionThreadRoutine \/ ReinjectDeferredData(InjectionThread) \/ DeliverStep(InjectionThread)

Fairness ==
  /\ \A a \in Address : WF_vars(FltDetach(a))
  /\ \A r \in Caller : WF_vars(CallStep(r))
  /\ \A t \in Deliverer : WF_vars(DeliverStep(t))
  /\ WF_vars(InjectionThreadStep)
  /\ \A r \in Injector : SF_vars(CollectPackets(r))

FairSpec == Spec /\ Fairness

-----------------------------------------------------------------------------
TypeOK ==
  /\ gSocketSequence \in 1 .. MaxObjects + 1
  /\ socket \in [Object -> Address \cup {None}]
  /\ retainCount \in [Object -> Nat]
  /\ SocketsList \subseteq Object
  /\ SocketsListToReport \in Seq(Object)
  /\ packetsWaitingForReporting \in [Object -> 0 .. MaxPending]
  /\ reported \in [Object -> 0 .. MaxPending]
  /\ injecting \in [Object -> 0 .. MaxPending]
  /\ injectionMutex \in [Object -> Injector \cup {None}]
  /\ notified \subseteq Object
  /\ pc \in [Thread -> {"closed", "create", "insert", "inserted", "attached", "detach",
                        "remove", "removeReport", "releaseList", "releaseReport", "purge",
                        "await", "detached", "releaseOld", "idle", "reinject", "inject", "release",
                        "next", "deliver", "report", "reinsert", "done", "drop"}]
  /\ obj \in [Thread -> Object \cup {NoObject}]
  /\ oldObj \in [Address -> Object \cup {NoObject}]
  /\ wasInList \in [Address -> BOOLEAN]
  /\ wasInReport \in [Address -> BOOLEAN]
  /\ answered \in [Caller -> Object \cup {NoObject}]
  /\ localSocketsList \subseteq Object
  /\ missed \subseteq Object

(***************************************************************************)
(* The references there are to an object: of the lists, of the threads that *)
(* work on it, of FltAttach to the object it found, and those that          *)
(* removeFromSocketsList took from the lists and has not released.          *)
(***************************************************************************)
Owns(t) == t \in Address => pc[t] \notin {"attached", "detach"}

References(o) ==
  {<<"SocketsList", l>> : l \in SocketsList \cap {o}}
  \cup {<<"localSocketsList", l>> : l \in localSocketsList \cap {o}}
  \cup {<<"SocketsListToReport", i>> : i \in {j \in DOMAIN SocketsListToReport :
                                               SocketsListToReport[j] = o}}
  \cup {<<"obj", t>> : t \in {u \in Thread : obj[u] = o /\ Owns(u)}}
  \cup {<<"oldObj", a>> : a \in {b \in Address : oldObj[b] = o}}
  \cup {<<"wasInList", a>> : a \in {b \in Address : obj[b] = o /\ wasInList[b]}}
  \cup {<<"wasInReport", a>> : a \in {b \in Address : obj[b] = o /\ wasInReport[b]}}

(* No reference is lost or released twice: the count is the number of them.  *)
RetainCountExact == \A o \in Object : retainCount[o] = Cardinality(References(o))

(***************************************************************************)
(* No thread works on a freed object, the kernel's cookie of an attached    *)
(* socket names a live one.                                                 *)
(***************************************************************************)
NoUseAfterFree == \A t \in Thread : obj[t] # NoObject => retainCount[obj[t]] > 0

Freed(o) == o < gSocketSequence /\ retainCount[o] = 0

(* What free() asserts of an object: no deferred data, and in no list.       *)
FreedWithNothingLeft ==
  \A o \in Object : Freed(o) =>
    /\ NumberOfPending(o) = 0
    /\ o \notin SocketsList
    /\ ~ InReport(o)

(***************************************************************************)
(* The data of a socket is gone when FltDetach returns: what DeliverWaiting *)
(* Notifications and reinjectDeferredData do with a socket, they do while   *)
(* it has packets.  (A socket that was not detached keeps them.)            *)
(***************************************************************************)
Attached(o) == o \in missed \/ \E a \in Address : obj[a] = o

NoPacketOutlivesDetach ==
  \A o \in Object : NumberOfPending(o) > 0 => Attached(o)

(* assert( ! NkeIsSocketObjectInList( socket ) ): the lookup is not ambiguous. *)
OneObjectPerSocket ==
  /\ \A o, p \in SocketsList : socket[o] = socket[p] => o = p
  /\ \A a \in Address : pc[a] = "insert" => AtAddress(a) = {}

(***************************************************************************)
(* A response that comes late, when its socket is closed and the address is *)
(* that of another, lets no packet of the other go.                         *)
(***************************************************************************)
ResponseForItsSocket ==
  \A r \in Caller : answered[r] # NoObject /\ pc[r] \in {"reinject", "inject"}
    => obj[r] = answered[r]

(* A freed object stays so.                                                  *)
FreedForEver == [][\A o \in Object : Freed(o) => Freed(o)']_vars

(***************************************************************************)
(* FltDetach returns, not kept waiting for ever for the injection mutex or  *)
(* for packets in injection, and the object is freed, even when threads go  *)
(* on for ever delivering notifications and failing: an object that one of  *)
(* them put back in the list has its turn.                                  *)
(***************************************************************************)
DetachedIsFreed ==
  \A a \in Address : \A o \in Object : (pc[a] = "detach" /\ obj[a] = o) ~> Freed(o)
=============================================================================
