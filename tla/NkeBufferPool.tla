---------------------------- MODULE NkeBufferPool ----------------------------
(***************************************************************************)
(* The pool of the buffers that carry packets to the client, a list linked *)
(* through the array freeBuffers and changed by compare-and-swap only.     *)
(* Threads that report a packet take a buffer for each part of it          *)
(* (copyDataToBuffers) and send their indices with the notification;       *)
(* threads of the client give them back (processServiceResponse).          *)
(*                                                                         *)
(* A step is one load, store or compare-and-swap of the shared words; a    *)
(* local variable is UINT8_MAX out of its scope.                           *)
(* UINT8_MAX in freeBuffers stands both for a buffer that is not in the    *)
(* list and for the last one in it.                                        *)
(***************************************************************************)
EXTENDS Naturals, FiniteSets, Sequences

CONSTANTS
  BuffersNumber,    (* kt_NkeSocketBuffersNumber                                *)
  FltDataThread,    (* Threads in FltData.                                      *)
  DeliverThread,    (* Threads in DeliverWaitingNotifications.                  *)
  ClientThread,     (* Threads that process responses of the client.            *)
  MaxParts,         (* Bound: buffers one packet needs.                         *)
  Client            (* The holder of the buffers of unanswered notifications.   *)

UINT8_MAX == 255

Buffer   == 0 .. BuffersNumber - 1
Reporter == FltDataThread \cup DeliverThread
Thread   == Reporter \cup ClientThread

ASSUME BuffersAssumption == BuffersNumber \in 1 .. 254
ASSUME ThreadAssumption ==
  /\ FltDataThread \cap DeliverThread = {} /\ Reporter \cap ClientThread = {}
  /\ Client \notin Thread
ASSUME PartsAssumption == MaxParts \in 1 .. BuffersNumber

VARIABLES
  freeBuffers,      (* [Buffer -> Buffer or UINT8_MAX]                          *)
  freeBuffersHead,
  pc,
  parts,            (* buffers the packet of a reporter needs                   *)
  bufferIndices,    (* the array of indices, up to its terminator               *)
  cursor,           (* the loop of releaseDataBuffers                           *)
  freeIndex, next,  (* local to the compare-and-swap loops                      *)
  again,            (* FltData will release bufferIndices once more             *)
  notified,         (* the index arrays of the unanswered notifications         *)
  holder,           (* history: who was given the buffer and holds it           *)
  faulted           (* history: a link was stale, or an array released twice    *)

listVars   == <<freeBuffers, freeBuffersHead>>
threadVars == <<parts, bufferIndices, again>>
vars == <<listVars, pc, threadVars, cursor, freeIndex, next, notified, holder, faulted>>

-----------------------------------------------------------------------------
(* withDefault chains the buffers downwards: the last one created is first. *)
LastCreated == BuffersNumber - 1

OnePastLast == BuffersNumber

FirstFree == LastCreated

Init ==
  /\ freeBuffers = [b \in Buffer |-> IF b = 0 THEN UINT8_MAX ELSE b - 1]
  /\ freeBuffersHead = FirstFree
  /\ pc = [t \in Thread |-> "idle"]
  /\ parts = [t \in Reporter |-> 0]
  /\ bufferIndices = [t \in Thread |-> <<>>]
  /\ cursor = [t \in Thread |-> 1]
  /\ freeIndex = [t \in Thread |-> UINT8_MAX]
  /\ next = [t \in Thread |-> UINT8_MAX]
  /\ again = [t \in Thread |-> FALSE]
  /\ notified = {}
  /\ holder = [b \in Buffer |-> {}]
  /\ faulted = FALSE

-----------------------------------------------------------------------------
(***************************************************************************)
(* acquireSocketDataBufferForIO, called by copyDataToBuffers for each part *)
(* of a packet.                                                            *)
(***************************************************************************)
Report(t) ==
  /\ pc[t] = "idle"
  /\ \E n \in 1 .. MaxParts : parts' = [parts EXCEPT ![t] = n]
  /\ pc' = [pc EXCEPT ![t] = "loadHead"]
  /\ UNCHANGED <<listVars, bufferIndices, cursor, freeIndex, next, again, notified, holder, faulted>>

(* The packet could not be copied: copyDataToBuffers releases the buffers  *)
(* it took, and its caller FltData releases the same indices again.        *)
ReleasesAfterError(t) == t \in FltDataThread

LoadHead(t) ==
  /\ pc[t] = "loadHead"
  /\ freeIndex' = [freeIndex EXCEPT ![t] = freeBuffersHead]
  /\ IF freeBuffersHead = UINT8_MAX
     THEN /\ pc' = [pc EXCEPT ![t] = "check"]
          /\ again' = [again EXCEPT ![t] = ReleasesAfterError(t)]
     ELSE /\ pc' = [pc EXCEPT ![t] = "loadNext"]
          /\ UNCHANGED again
  /\ UNCHANGED <<listVars, parts, bufferIndices, cursor, next, notified, holder, faulted>>

(* The new value of the head is loaded before the compare-and-swap. *)
LoadNext(t) ==
  /\ pc[t] = "loadNext"
  /\ next' = [next EXCEPT ![t] = freeBuffers[freeIndex[t]]]
  /\ pc' = [pc EXCEPT ![t] = "swapAcquire"]
  /\ UNCHANGED <<listVars, threadVars, cursor, freeIndex, notified, holder, faulted>>

(* OSCompareAndSwap, and what a plain store would do instead. *)
PlainStore(expected) == TRUE

HeadIs(expected) == freeBuffersHead = expected

(* A thread that lost the race for the head starts from the head again. *)
RetryWithTheOldHead == "loadNext"

RetryAt == "loadHead"

(* The buffer was taken and given back since its link was loaded. *)
StaleLink(t) == next[t] # freeBuffers[freeIndex[t]]

SwapAcquire(t) ==
  /\ pc[t] = "swapAcquire"
  /\ IF HeadIs(freeIndex[t])
     THEN /\ freeBuffersHead' = next[t]
          /\ holder' = [holder EXCEPT ![freeIndex[t]] = @ \cup {t}]
          /\ faulted' = (faulted \/ StaleLink(t))
          /\ pc' = [pc EXCEPT ![t] = "mark"]
     ELSE /\ pc' = [pc EXCEPT ![t] = RetryAt]
          /\ UNCHANGED <<freeBuffersHead, holder, faulted>>
  /\ next' = [next EXCEPT ![t] = UINT8_MAX]
  /\ UNCHANGED <<freeBuffers, threadVars, cursor, freeIndex, notified>>

(* Marked as removed from the list; the part is copied to the buffer. *)
Mark(t) ==
  /\ pc[t] = "mark"
  /\ freeBuffers' = [freeBuffers EXCEPT ![freeIndex[t]] = UINT8_MAX]
  /\ bufferIndices' = [bufferIndices EXCEPT ![t] = Append(@, freeIndex[t])]
  /\ pc' = [pc EXCEPT ![t] = IF Len(bufferIndices'[t]) = parts[t] THEN "notify" ELSE "loadHead"]
  /\ freeIndex' = [freeIndex EXCEPT ![t] = UINT8_MAX]
  /\ UNCHANGED <<freeBuffersHead, parts, cursor, next, again, notified, holder, faulted>>

Own(t) == {bufferIndices[t][i] : i \in DOMAIN bufferIndices[t]}

ReleaseInAnyCase(t) ==
  /\ pc[t] = "notify"
  /\ notified' = notified \cup {bufferIndices[t]}
  /\ holder' = [b \in Buffer |-> IF b \in Own(t) THEN (holder[b] \ {t}) \cup {Client}
                                                 ELSE holder[b]]
  /\ pc' = [pc EXCEPT ![t] = "check"]
  /\ UNCHANGED <<listVars, parts, bufferIndices, cursor, freeIndex, next, again, faulted>>

(* The client is notified, or that fails and the buffers are released. *)
Notify(t) ==
  /\ pc[t] = "notify"
  /\ \/ /\ notified' = notified \cup {bufferIndices[t]}
        /\ holder' = [b \in Buffer |-> IF b \in Own(t) THEN (holder[b] \ {t}) \cup {Client}
                                                       ELSE holder[b]]
        /\ bufferIndices' = [bufferIndices EXCEPT ![t] = <<>>]
        /\ pc' = [pc EXCEPT ![t] = "idle"]
     \/ /\ pc' = [pc EXCEPT ![t] = "check"]
        /\ UNCHANGED <<notified, holder, bufferIndices>>
  /\ UNCHANGED <<listVars, parts, cursor, freeIndex, next, again, faulted>>

-----------------------------------------------------------------------------
(***************************************************************************)
(* releaseDataBuffers, a call of releaseSocketDataBufferFromIO for each    *)
(* index of the array.                                                     *)
(***************************************************************************)

(* The client answers a notification with the indices that came with it. *)
Respond(c) ==
  /\ pc[c] = "idle"
  /\ \E indices \in notified :
       /\ notified' = notified \ {indices}
       /\ bufferIndices' = [bufferIndices EXCEPT ![c] = indices]
       /\ holder' = [b \in Buffer |->
            IF \E i \in DOMAIN indices : indices[i] = b
            THEN (holder[b] \ {Client}) \cup {c} ELSE holder[b]]
  /\ pc' = [pc EXCEPT ![c] = "check"]
  /\ UNCHANGED <<listVars, parts, cursor, freeIndex, next, again, faulted>>

(* FltData is about to release buffers that copyDataToBuffers has released. *)
ReleasesTwice(t) == again[t] /\ bufferIndices[t] # <<>>

(* The end of the array: FltData goes through it once more after an error. *)
Released(t) ==
  /\ pc[t] = "check"
  /\ cursor[t] > Len(bufferIndices[t])
  /\ cursor' = [cursor EXCEPT ![t] = 1]
  /\ again' = [again EXCEPT ![t] = FALSE]
  /\ faulted' = (faulted \/ ReleasesTwice(t))
  /\ IF again[t]
     THEN UNCHANGED <<pc, bufferIndices>>
     ELSE /\ pc' = [pc EXCEPT ![t] = "idle"]
          /\ bufferIndices' = [bufferIndices EXCEPT ![t] = <<>>]
  /\ UNCHANGED <<listVars, parts, freeIndex, next, notified, holder>>

(* An index that seems to be in the list already is skipped. *)
CheckFreed(t) ==
  /\ pc[t] = "check"
  /\ cursor[t] <= Len(bufferIndices[t])
  /\ LET index == bufferIndices[t][cursor[t]] IN
       IF freeBuffers[index] # UINT8_MAX
       THEN /\ cursor' = [cursor EXCEPT ![t] = @ + 1]
            /\ UNCHANGED <<freeIndex, pc>>
       ELSE /\ freeIndex' = [freeIndex EXCEPT ![t] = index]
            /\ pc' = [pc EXCEPT ![t] = "loadLink"]
            /\ UNCHANGED cursor
  /\ UNCHANGED <<listVars, threadVars, next, notified, holder, faulted>>

LoadLink(t) ==
  /\ pc[t] = "loadLink"
  /\ next' = [next EXCEPT ![t] = freeBuffersHead]
  /\ pc' = [pc EXCEPT ![t] = "link"]
  /\ UNCHANGED <<listVars, threadVars, cursor, freeIndex, notified, holder, faulted>>

Link(t) ==
  /\ pc[t] = "link"
  /\ freeBuffers' = [freeBuffers EXCEPT ![freeIndex[t]] = next[t]]
  /\ pc' = [pc EXCEPT ![t] = "swapRelease"]
  /\ next' = [next EXCEPT ![t] = UINT8_MAX]
  /\ UNCHANGED <<freeBuffersHead, threadVars, cursor, freeIndex, notified, holder, faulted>>

SwapRelease(t) ==
  /\ pc[t] = "swapRelease"
  /\ IF HeadIs(freeBuffers[freeIndex[t]])
     THEN /\ freeBuffersHead' = freeIndex[t]
          /\ holder' = [holder EXCEPT ![freeIndex[t]] = @ \ {t}]
          /\ cursor' = [cursor EXCEPT ![t] = @ + 1]
          /\ freeIndex' = [freeIndex EXCEPT ![t] = UINT8_MAX]
          /\ pc' = [pc EXCEPT ![t] = "check"]
     ELSE /\ pc' = [pc EXCEPT ![t] = "loadLink"]
          /\ UNCHANGED <<freeBuffersHead, holder, cursor, freeIndex>>
  /\ UNCHANGED <<freeBuffers, threadVars, next, notified, faulted>>

-----------------------------------------------------------------------------
AcquireStep(t) == LoadHead(t) \/ LoadNext(t) \/ SwapAcquire(t) \/ Mark(t) \/ Notify(t)

ReleaseStep(t) ==
  Released(t) \/ CheckFreed(t) \/ LoadLink(t) \/ Link(t) \/ SwapRelease(t)

Next ==
  \/ \E t \in Reporter : Report(t) \/ AcquireStep(t)
  \/ \E t \in Thread : ReleaseStep(t)
  \/ \E c \in ClientThread : Respond(c)

Spec == Init /\ [][Next]_vars

(* The scheduler runs every thread; nothing is assumed of the client. *)
Fairness ==
  /\ \A t \in Reporter : WF_vars(AcquireStep(t) \/ ReleaseStep(t))
  /\ \A c \in ClientThread : WF_vars(ReleaseStep(c))

FairSpec == Spec /\ Fairness

-----------------------------------------------------------------------------
(* Every variable has its type; the links stay inside the array. *)
TypeOK ==
  /\ freeBuffers \in [Buffer -> Buffer \cup {UINT8_MAX}]
  /\ freeBuffersHead \in Buffer \cup {UINT8_MAX}
  /\ pc \in [Thread -> {"idle", "loadHead", "loadNext", "swapAcquire", "mark", "notify",
                        "check", "loadLink", "link", "swapRelease"}]
  /\ parts \in [Reporter -> 0 .. MaxParts]
  /\ bufferIndices \in [Thread -> Seq(Buffer)]
  /\ cursor \in [Thread -> 1 .. MaxParts + 1]
  /\ freeIndex \in [Thread -> Buffer \cup {UINT8_MAX}]
  /\ next \in [Thread -> Buffer \cup {UINT8_MAX}]
  /\ again \in [Thread -> BOOLEAN]
  /\ notified \subseteq Seq(Buffer)
  /\ holder \in [Buffer -> SUBSET (Thread \cup {Client})]
  /\ faulted \in BOOLEAN

(* The buffers that are reached from one of them along the links: those in  *)
(* every set that contains it and the links of its elements.                *)
ClosedUnder(links, S) == \A b \in S : links[b] \in Buffer => links[b] \in S

ReachedFrom(links, first) ==
  LET closed == {S \in SUBSET Buffer : (first \in Buffer => first \in S) /\ ClosedUnder(links, S)}
  IN  {b \in Buffer : \A S \in closed : b \in S}

FreeList == ReachedFrom(freeBuffers, freeBuffersHead)

(***************************************************************************)
(* A buffer is never given to two packets: it has at most one holder, and  *)
(* none while it is in the list.                                           *)
(***************************************************************************)
BufferNotShared ==
  /\ \A b \in Buffer : Cardinality(holder[b]) <= 1
  /\ \A b \in FreeList : holder[b] = {}

(* A buffer nobody holds can be found again: it is in the list. *)
NoBufferLost == {b \in Buffer : holder[b] = {}} \subseteq FreeList

(* The array the pool is made of implements a set of free buffers. *)
Pool == INSTANCE SocketBuffers WITH
  Holder <- Thread \cup {Client}, free <- FreeList, holder <- holder

(* Constraint of a run of the properties that follow: the first three say    *)
(* nothing of what comes after a fault.                                     *)
UntilFault == ~faulted

(***************************************************************************)
(* Of any number of threads that take and release buffers: what            *)
(* gives a buffer to two packets, or cuts one off the list, begins with a   *)
(* swap of the head for a link that is no longer that of the buffer taken   *)
(* (acquireSocketDataBufferForIO), or with the second release of an array   *)
(* after a failed copy (FltData), and with nothing else.                    *)
(***************************************************************************)
SharedOnlyAfterFault == faulted \/ BufferNotShared

(* No buffer is lost before one of the two has happened. *)
LostOnlyAfterFault == faulted \/ NoBufferLost

(* Until one of them happens the pool is the set of free buffers: every step *)
(* takes or gives back one of them, passes buffers on, or changes nothing.    *)
ImplementsSocketBuffersUntilFault ==
  Pool!Init /\ [][faulted' \/ Pool!Next \/ UNCHANGED Pool!vars]_vars

Returns(t) == pc[t] # "idle" /\ pc'[t] = "idle"

(***************************************************************************)
(* The loops over compare-and-swap end: a report ends with a notification  *)
(* or with the buffers released, whatever the other threads release, or    *)
(* else it is overtaken for ever by other reports that end.                *)
(***************************************************************************)
ReportReturns ==
  \A t \in Reporter :
    \/ pc[t] # "idle" ~> pc[t] = "idle"
    \/ []<><<\E u \in Reporter \ {t} : Returns(u)>>_pc
=============================================================================
