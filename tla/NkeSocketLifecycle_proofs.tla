--------------------- MODULE NkeSocketLifecycle_proofs ---------------------
(***************************************************************************)
(* The life of the objects, for any number of addresses, objects, packets   *)
(* and threads.  The invariant has three layers: what the threads and the   *)
(* lists have to do with each other; the packets; and the references, one   *)
(* for each place that keeps an object.                                     *)
(***************************************************************************)
EXTENDS NkeSocketLifecycle, FiniteSetTheorems, SequenceTheorems, TLAPS

-----------------------------------------------------------------------------
(* The first layer: the threads and the lists.                              *)
Label == {"closed", "create", "insert", "inserted", "attached", "detach",
          "remove", "removeReport", "releaseList", "releaseReport", "purge",
          "await", "detached", "releaseOld", "idle", "reinject", "inject", "release",
          "next", "deliver", "report", "reinsert", "done", "drop"}

Shape ==
  /\ gSocketSequence \in 1 .. MaxObjects + 1
  /\ socket \in [Object -> Address \cup {None}]
  /\ SocketsList \subseteq Object
  /\ SocketsListToReport \in Seq(Object)
  /\ injectionMutex \in [Object -> Injector \cup {None}]
  /\ notified \subseteq Object
  /\ pc \in [Thread -> Label]
  /\ obj \in [Thread -> Object \cup {NoObject}]
  /\ oldObj \in [Address -> Object \cup {NoObject}]
  /\ wasInList \in [Address -> BOOLEAN]
  /\ wasInReport \in [Address -> BOOLEAN]
  /\ answered \in [Caller -> Object \cup {NoObject}]
  /\ localSocketsList \subseteq Object
  /\ missed \subseteq Object

(* Where a thread has an object, and the kernel one it found at its address. *)
Detaching == {"detach", "remove", "removeReport", "releaseList", "releaseReport", "purge",
              "await", "detached"}

Locals ==
  /\ \A t \in Thread :
       obj[t] = NoObject <=>
         pc[t] \in {"closed", "create", "idle", "next", "deliver", "releaseOld"}
  /\ \A a \in Address :
       /\ oldObj[a] # NoObject => pc[a] \in Detaching \cup {"releaseOld"}
       /\ pc[a] = "releaseOld" => oldObj[a] # NoObject
       /\ wasInList[a] => pc[a] \in {"removeReport", "releaseList"}
       /\ wasInReport[a] => pc[a] \in {"releaseList", "releaseReport"}
  /\ localSocketsList # {} =>
       pc[InjectionThread] \in {"next", "reinject", "inject", "release"}

Answers ==
  \A r \in Caller :
    /\ pc[r] = "idle" => answered[r] = NoObject
    /\ answered[r] # NoObject /\ pc[r] \in {"reinject", "inject"} => obj[r] = answered[r]

(* The sequence number of the next object is new. *)
Used ==
  /\ \A o \in SocketsList \cup missed : o < gSocketSequence
  /\ \A a \in Address : obj[a] # NoObject => obj[a] < gSocketSequence

(* What the kernel's thread of an address does is about an object of it.    *)
OfAddress == \A a \in Address : obj[a] # NoObject => socket[obj[a]] = a

Listed ==
  \A a \in Address :
    /\ pc[a] \in {"inserted", "attached", "detach", "remove"} => obj[a] \in SocketsList
    /\ pc[a] \in {"removeReport", "releaseList", "releaseReport", "purge", "await", "detached",
                  "releaseOld", "create", "insert"} => AtAddress(a) = {}

OneListed == \A o, p \in SocketsList : socket[o] = socket[p] => o = p

MissedListed == \A o \in missed : o \in SocketsList \/ \E a \in Address : obj[a] = o

(* In SocketsListToReport an object is once. *)
Once(s) == \A i, j \in DOMAIN s : s[i] = s[j] => i = j

ListedOnce == Once(SocketsListToReport)

Lists == Used /\ OfAddress /\ Listed /\ OneListed /\ MissedListed

SInv == Shape /\ Locals /\ Answers /\ Lists /\ ListedOnce

-----------------------------------------------------------------------------
(* The second layer: the packets. *)
Packets ==
  /\ packetsWaitingForReporting \in [Object -> Nat]
  /\ reported \in [Object -> Nat]
  /\ injecting \in [Object -> Nat]
  /\ \A o \in Object : NumberOfPending(o) <= MaxPending

Gone == \A a \in Address : pc[a] = "detached" => NumberOfPending(obj[a]) = 0

PInv == Packets /\ Gone /\ NoPacketOutlivesDetach

-----------------------------------------------------------------------------
(* The third layer: the references.  A place that keeps an object is one    *)
(* token; an object that is listed for its reports is so once.              *)
OfSocketsList(o) == {<<"SocketsList", l>> : l \in SocketsList \cap {o}}
OfLocalList(o) == {<<"localSocketsList", l>> : l \in localSocketsList \cap {o}}
OfReportList(o) == {<<"SocketsListToReport", l>> : l \in {p \in {o} : InReport(p)}}
OfThreads(o) == {<<"obj", t>> : t \in {u \in Thread : obj[u] = o /\ Owns(u)}}
OfAttach(o) == {<<"oldObj", a>> : a \in {b \in Address : oldObj[b] = o}}
OfRemoval(o) == {<<"wasInList", a>> : a \in {b \in Address : obj[b] = o /\ wasInList[b]}}
OfReportRemoval(o) == {<<"wasInReport", a>> : a \in {b \in Address : obj[b] = o /\ wasInReport[b]}}

Tokens(o) ==
  OfSocketsList(o) \cup OfLocalList(o) \cup OfReportList(o) \cup OfThreads(o)
  \cup OfAttach(o) \cup OfRemoval(o) \cup OfReportRemoval(o)

Counted ==
  /\ retainCount \in [Object -> Int]
  /\ \A o \in Object : IsFiniteSet(Tokens(o)) /\ retainCount[o] = Cardinality(Tokens(o))

IInv == SInv /\ PInv /\ Counted

-----------------------------------------------------------------------------
(* Sequences of objects: an entry is added, taken from the head or removed. *)
Has(s, o) == \E i \in DOMAIN s : s[i] = o

(* An object that was not listed is, behind the others. *)
LEMMA Appended ==
  ASSUME NEW s \in Seq(Object), Once(s), NEW o \in Object, ~ Has(s, o)
  PROVE  /\ Append(s, o) \in Seq(Object) /\ Once(Append(s, o))
         /\ \A p \in Object : Has(Append(s, o), p) <=> Has(s, p) \/ p = o
<1> DEFINE t == Append(s, o)
<1>1. /\ t \in Seq(Object) /\ Len(t) = Len(s) + 1 /\ Len(s) \in Nat
      /\ DOMAIN s = 1 .. Len(s) /\ DOMAIN t = 1 .. Len(t)
      /\ \A i \in 1 .. Len(s) : t[i] = s[i]
      /\ t[Len(s) + 1] = o
  OBVIOUS
<1> HIDE DEF t
<1>2. Once(t)
  BY <1>1 DEF Once, Has
<1>3. ASSUME NEW p \in Object PROVE Has(t, p) <=> Has(s, p) \/ p = o
  BY <1>1 DEF Has
<1>4. QED
  BY <1>1, <1>2, <1>3 DEF t

(* The first entry is taken, and with it all there are of its object. *)
LEMMA Taken ==
  ASSUME NEW s \in Seq(Object), Once(s), s # <<>>
  PROVE  /\ Tail(s) \in Seq(Object) /\ Once(Tail(s)) /\ Head(s) \in Object
         /\ \A p \in Object : Has(Tail(s), p) <=> Has(s, p) /\ p # Head(s)
<1> DEFINE t == Tail(s)
           h == Head(s)
           n == Len(s)
<1>1. /\ t \in Seq(Object) /\ h \in Object /\ n \in Nat \ {0}
      /\ DOMAIN s = 1 .. n /\ DOMAIN t = 1 .. n - 1
      /\ \A i \in 1 .. n - 1 : t[i] = s[i + 1]
      /\ h = s[1]
  OBVIOUS
<1> HIDE DEF t, h, n
<1>2. Once(t)
  <2> SUFFICES ASSUME NEW i \in 1 .. n - 1, NEW j \in 1 .. n - 1, t[i] = t[j] PROVE i = j
    BY <1>1 DEF Once
  <2>1. i + 1 \in 1 .. n /\ j + 1 \in 1 .. n /\ i \in Int /\ j \in Int
    BY <1>1
  <2>2. i + 1 = j + 1
    BY <1>1, <2>1 DEF Once
  <2>3. QED
    BY <2>1, <2>2
<1>3. ASSUME NEW p \in Object, Has(t, p) PROVE Has(s, p) /\ p # h
  <2>1. PICK i \in 1 .. n - 1 : t[i] = p
    BY <1>1, <1>3 DEF Has
  <2>2. i + 1 \in 1 .. n /\ 1 \in 1 .. n /\ i + 1 # 1
    BY <1>1
  <2>3. s[i + 1] = p
    BY <1>1, <2>1
  <2>4. QED
    BY <1>1, <2>2, <2>3 DEF Has, Once
<1>4. ASSUME NEW p \in Object, Has(s, p), p # h PROVE Has(t, p)
  <2>1. PICK i \in 1 .. n : s[i] = p
    BY <1>1, <1>4 DEF Has
  <2>2. i - 1 \in 1 .. n - 1 /\ (i - 1) + 1 = i
    BY <1>1, <1>4, <2>1
  <2>3. QED
    BY <1>1, <2>1, <2>2 DEF Has
<1>5. QED
  BY <1>1, <1>2, <1>3, <1>4 DEF t, h

(* As the one entry of an object that is removed. *)
LEMMA Removed ==
  ASSUME NEW s \in Seq(Object), Once(s), NEW i \in DOMAIN s
  PROVE  /\ RemoveAt(s, i) \in Seq(Object) /\ Once(RemoveAt(s, i))
         /\ \A p \in Object : Has(RemoveAt(s, i), p) <=> Has(s, p) /\ p # s[i]
<1> DEFINE t == RemoveAt(s, i)
           n == Len(s)
           old(j) == IF j < i THEN j ELSE j + 1
<1>1. n \in Nat /\ DOMAIN s = 1 .. n /\ i \in 1 .. n
  OBVIOUS
<1>2. /\ t \in Seq(Object) /\ DOMAIN t = 1 .. n - 1
      /\ \A j \in 1 .. n - 1 : t[j] = s[old(j)]
  <2> DEFINE l == SubSeq(s, 1, i - 1)
             r == SubSeq(s, i + 1, n)
  <2>1. /\ l \in Seq(Object) /\ Len(l) = i - 1
        /\ \A j \in 1 .. i - 1 : l[j] = s[j]
    BY <1>1, SubSeqProperties
  <2>2. /\ r \in Seq(Object) /\ Len(r) = n - i
        /\ \A j \in 1 .. n - i : r[j] = s[i + j]
    BY <1>1, SubSeqProperties
  <2>3. t = l \o r
    BY DEF RemoveAt
  <2> HIDE DEF t, l, r, n
  <2>4. t \in Seq(Object) /\ Len(t) = n - 1
    <3>1. t \in Seq(Object) /\ Len(t) = Len(l) + Len(r)
      BY <2>1, <2>2, <2>3, ConcatProperties
    <3>2. (i - 1) + (n - i) = n - 1
      BY <1>1
    <3>3. QED
      BY <2>1, <2>2, <3>1, <3>2
  <2>5. ASSUME NEW j \in 1 .. n - 1 PROVE t[j] = s[old(j)]
    <3>1. CASE j < i
      <4>1. j \in 1 .. Len(l) + Len(r) /\ j \in 1 .. i - 1 /\ j <= Len(l)
        BY <1>1, <2>1, <2>2, <3>1
      <4>2. t[j] = l[j]
        BY <2>1, <2>2, <2>3, <4>1, ConcatProperties
      <4>3. QED
        BY <2>1, <3>1, <4>1, <4>2
    <3>2. CASE ~ (j < i)
      <4>1. /\ j \in 1 .. Len(l) + Len(r) /\ j - (i - 1) \in 1 .. n - i
            /\ ~ (j <= Len(l)) /\ i + (j - (i - 1)) = j + 1 /\ j - Len(l) = j - (i - 1)
        <5>1. /\ j \in 1 .. (i - 1) + (n - i) /\ j - (i - 1) \in 1 .. n - i
              /\ ~ (j <= i - 1) /\ i + (j - (i - 1)) = j + 1
          BY <1>1, <3>2
        <5>2. QED
          BY <2>1, <2>2, <5>1
      <4>2. t[j] = r[j - Len(l)]
        BY <2>1, <2>2, <2>3, <4>1, ConcatProperties
      <4>3. QED
        BY <2>2, <3>2, <4>1, <4>2
    <3>3. QED
      BY <3>1, <3>2
  <2>6. DOMAIN t = 1 .. n - 1
    BY <2>4
  <2>7. QED
    BY <2>4, <2>5, <2>6
<1> HIDE DEF t, n
<1>3. /\ \A j \in 1 .. n - 1 : old(j) \in 1 .. n /\ old(j) # i
      /\ \A j, k \in 1 .. n - 1 : old(j) = old(k) => j = k
  BY <1>1
<1>4. ASSUME NEW k \in 1 .. n, k # i PROVE \E j \in 1 .. n - 1 : old(j) = k
  <2>1. CASE k < i
    <3>1. k \in 1 .. n - 1 /\ old(k) = k
      BY <1>1, <2>1
    <3>2. QED
      BY <3>1
  <2>2. CASE ~ (k < i)
    <3>1. k - 1 \in 1 .. n - 1 /\ old(k - 1) = k
      BY <1>1, <1>4, <2>2
    <3>2. QED
      BY <3>1
  <2>3. QED
    BY <2>1, <2>2
<1> HIDE DEF old
<1>5. Once(t)
  <2> SUFFICES ASSUME NEW j \in 1 .. n - 1, NEW k \in 1 .. n - 1, t[j] = t[k] PROVE j = k
    BY <1>2 DEF Once
  <2>1. old(j) \in 1 .. n /\ old(k) \in 1 .. n /\ s[old(j)] = s[old(k)]
    BY <1>2, <1>3
  <2>2. old(j) = old(k)
    BY <1>1, <2>1 DEF Once
  <2>3. QED
    BY <1>3, <2>2
<1>6. ASSUME NEW p \in Object, Has(t, p) PROVE Has(s, p) /\ p # s[i]
  BY <1>1, <1>2, <1>3, <1>6 DEF Has, Once
<1>7. ASSUME NEW p \in Object, Has(s, p), p # s[i] PROVE Has(t, p)
  BY <1>1, <1>2, <1>4, <1>7 DEF Has
<1>8. QED
  BY <1>2, <1>5, <1>6, <1>7 DEF t

-----------------------------------------------------------------------------
(* The first layer holds at the start. *)
LEMMA InitSInv == Init => SInv
<1> SUFFICES ASSUME Init PROVE SInv
  OBVIOUS
<1>1. Shape
  BY MaxAssumption DEF Init, Shape, Thread, Injector, Reporter, Label, NoObject, Object
<1>2. Locals /\ Answers
  BY ThreadAssumption DEF Init, Locals, Answers, Thread, Injector, Reporter, Label, NoObject, Detaching
<1>3. Lists /\ ListedOnce
  BY ThreadAssumption DEF Init, Lists, Used, OfAddress, Listed, OneListed, MissedListed, ListedOnce, Once,
    Thread, Reporter, NoObject, Detaching
<1>4. QED
  BY <1>1, <1>2, <1>3 DEF SInv

(* Where a thread works on an object. *)
Idle == {"closed", "create", "idle", "next", "deliver", "releaseOld"}

(* A thread has an object wherever it works on one, and nowhere else. *)
LEMMA Busy ==
  ASSUME Shape, Locals, NEW t \in Thread
  PROVE  /\ pc[t] \notin Idle => obj[t] \in Object
         /\ pc[t] \in Idle => obj[t] = NoObject
BY DEF Shape, Locals, Idle

Moves == Shape' /\ Locals' /\ Answers'

(* FltAttach, with the detach of an object left at the address. *)
LEMMA FltAttachMoves ==
  ASSUME SInv, NEW a \in Address, FltAttach(a)
  PROVE  Moves
<1>1. CASE Attach(a)
  <2>1. CASE LeftAtAddress(a) = {} /\ Goto(a, "create") /\ UNCHANGED <<obj, oldObj>>
    BY <1>1, <2>1, ThreadAssumption DEF SInv, Shape, Locals, Answers, Moves, Attach, Label, Detaching,
      Thread, Reporter, Object, NoObject, Goto, objects, data
  <2>2. ASSUME NEW o \in LeftAtAddress(a), oldObj' = [oldObj EXCEPT ![a] = o],
               obj' = [obj EXCEPT ![a] = o], Goto(a, "detach")
        PROVE  Moves
    <3>1. o \in Object
      BY <2>2 DEF SInv, Shape, LeftAtAddress, AtAddress
    <3>2. Shape'
      BY <1>1, <2>2, <3>1 DEF SInv, Shape, Attach, Label, Thread, Goto, objects, data
    <3>3. Locals'
      BY <1>1, <2>2, <3>1, ThreadAssumption DEF SInv, Shape, Locals, Attach, Label, Detaching, Thread,
        Reporter, Object, NoObject, Goto, objects, data
    <3>4. Answers'
      BY <1>1, <2>2, ThreadAssumption DEF SInv, Shape, Answers, Attach, Thread, Goto, objects, data
    <3>5. QED
      BY <3>2, <3>3, <3>4 DEF Moves
  <2>3. QED
    BY <1>1, <2>1, <2>2 DEF Attach
<1>2. CASE Create(a)
  <2>1. Shape'
    BY <1>2, MaxAssumption DEF SInv, Shape, Create, Label, Thread, Object, Goto, data, locals
  <2>2. Locals'
    BY <1>2, ThreadAssumption DEF SInv, Shape, Locals, Create, Detaching, Thread, Reporter, Object,
      NoObject, Goto, data, locals
  <2>3. Answers'
    BY <1>2, ThreadAssumption DEF SInv, Shape, Answers, Create, Thread, Goto, data, locals
  <2>4. QED
    BY <2>1, <2>2, <2>3 DEF Moves
<1>3. CASE InsertInSocketsList(a)
  <2>1. obj[a] \in Object
    BY <1>3, Busy DEF SInv, InsertInSocketsList, Idle, Thread
  <2>2. Shape'
    BY <1>3, <2>1 DEF SInv, Shape, InsertInSocketsList, Label, Thread, Goto, objects, data, locals
  <2>3. Locals'
    BY <1>3, ThreadAssumption DEF SInv, Shape, Locals, InsertInSocketsList, Detaching, Thread, Reporter,
      NoObject, Goto, objects, data, locals
  <2>4. Answers'
    BY <1>3, ThreadAssumption DEF SInv, Shape, Answers, InsertInSocketsList, Thread, Goto, objects, data,
      locals
  <2>5. QED
    BY <2>2, <2>3, <2>4 DEF Moves
<1>4. CASE ReleaseCreated(a)
  <2>1. Shape'
    BY <1>4 DEF SInv, Shape, ReleaseCreated, Label, Thread, Goto, objects, data, locals
  <2>2. Locals'
    BY <1>4, ThreadAssumption DEF SInv, Shape, Locals, ReleaseCreated, Detaching, Thread, Reporter,
      NoObject, Goto, objects, data, locals
  <2>3. Answers'
    BY <1>4, ThreadAssumption DEF SInv, Shape, Answers, ReleaseCreated, Thread, Goto, objects, data, locals
  <2>4. QED
    BY <2>1, <2>2, <2>3 DEF Moves
<1>5. QED
  BY <1>1, <1>2, <1>3, <1>4 DEF FltAttach

(* FltData moves no thread. *)
LEMMA FltDataMoves ==
  ASSUME SInv, NEW a \in Address, FltData(a)
  PROVE  Moves /\ ListedOnce'
<1>1. obj[a] \in Object /\ UNCHANGED <<pc, obj, oldObj, wasInList, wasInReport, answered, localSocketsList>>
  BY Busy DEF SInv, FltData, Report, ReportLater, Idle, Thread, locals
<1>2. Locals' /\ Answers'
  BY <1>1 DEF SInv, Locals, Answers
<1>3. SocketsListToReport' \in Seq(Object) /\ ListedOnce'
  <2>1. CASE UNCHANGED SocketsListToReport
    BY <2>1 DEF SInv, Shape, ListedOnce, Once
  <2>2. CASE ~ InReport(obj[a]) /\ SocketsListToReport' = Append(SocketsListToReport, obj[a])
    BY <1>1, <2>2, Appended DEF SInv, Shape, ListedOnce, InReport, Has
  <2>3. QED
    BY <2>1, <2>2 DEF FltData, Report, ReportLater, InsertionNeeded
<1>4. notified' \subseteq Object /\ UNCHANGED <<objects, SocketsList, injectionMutex, missed>>
  BY <1>1 DEF SInv, Shape, FltData, Report, ReportLater, locals
<1>5. Shape'
  BY <1>1, <1>3, <1>4 DEF SInv, Shape, objects
<1>6. QED
  BY <1>2, <1>3, <1>5 DEF Moves

(* The kernel closes a socket, and may miss the callback. *)
LEMMA CloseMoves ==
  ASSUME SInv, NEW a \in Address, CloseSocket(a) \/ MissDetach(a)
  PROVE  Moves
<1>1. obj[a] \in Object
  BY Busy DEF SInv, CloseSocket, MissDetach, Idle, Thread
<1>2. CASE CloseSocket(a)
  <2>1. Shape'
    BY <1>2 DEF SInv, Shape, CloseSocket, Label, Thread, Goto, objects, data, locals
  <2>2. Locals'
    BY <1>2, ThreadAssumption DEF SInv, Shape, Locals, CloseSocket, Detaching, Thread, Reporter,
      NoObject, Goto, objects, data, locals
  <2>3. Answers'
    BY <1>2, ThreadAssumption DEF SInv, Shape, Answers, CloseSocket, Thread, Goto, objects, data, locals
  <2>4. QED
    BY <2>1, <2>2, <2>3 DEF Moves
<1>3. CASE MissDetach(a)
  <2>1. Shape'
    BY <1>1, <1>3 DEF SInv, Shape, MissDetach, Label, Thread, Goto, objects, data
  <2>2. Locals'
    BY <1>3, ThreadAssumption DEF SInv, Shape, Locals, MissDetach, Detaching, Thread, Reporter,
      NoObject, Goto, objects, data
  <2>3. Answers'
    BY <1>3, ThreadAssumption DEF SInv, Shape, Answers, MissDetach, Thread, Goto, objects, data
  <2>4. QED
    BY <2>1, <2>2, <2>3 DEF Moves
<1>4. QED
  BY <1>2, <1>3

(* FltDetach, and what FltAttach does after it. *)
LEMMA FltDetachMoves ==
  ASSUME SInv, NEW a \in Address, FltDetach(a)
  PROVE  Moves
<1>1. CASE Detach(a)
  <2>1. Shape'
    BY <1>1 DEF SInv, Shape, Detach, Label, Thread, NoObject, Goto, objects, data, locals
  <2>2. Locals'
    BY <1>1, ThreadAssumption DEF SInv, Shape, Locals, Detach, Detaching, Thread, Reporter,
      NoObject, Goto, objects, data, locals
  <2>3. Answers'
    BY <1>1, ThreadAssumption DEF SInv, Shape, Answers, Detach, Thread, Goto, objects, data, locals
  <2>4. QED
    BY <2>1, <2>2, <2>3 DEF Moves
<1>2. CASE RemoveFromSocketsList(a)
  <2>1. Shape'
    BY <1>2 DEF SInv, Shape, RemoveFromSocketsList, Label, Thread, NoObject, Goto, objects, data
  <2>2. Locals'
    BY <1>2, ThreadAssumption DEF SInv, Shape, Locals, RemoveFromSocketsList, Detaching, Thread,
      Reporter, NoObject, Goto, objects, data
  <2>3. Answers'
    BY <1>2, ThreadAssumption DEF SInv, Shape, Answers, RemoveFromSocketsList, Thread, Goto,
      objects, data
  <2>4. QED
    BY <2>1, <2>2, <2>3 DEF Moves
<1>3. CASE RemoveFromSocketsListToReport(a)
  <2>1. SocketsListToReport' \in Seq(Object) /\ InReport(obj[a]) \in BOOLEAN
    BY <1>3, Removed DEF SInv, Shape, ListedOnce, RemoveFromSocketsListToReport, InReport
  <2>2. Shape'
    BY <1>3, <2>1 DEF SInv, Shape, RemoveFromSocketsListToReport, Label, Thread, NoObject, Goto,
      objects, data
  <2>3. Locals'
    BY <1>3, <2>1, ThreadAssumption DEF SInv, Shape, Locals, RemoveFromSocketsListToReport,
      Detaching, Thread, Reporter, NoObject, Goto, objects, data
  <2>4. Answers'
    BY <1>3, ThreadAssumption DEF SInv, Shape, Answers, RemoveFromSocketsListToReport, Thread, Goto,
      objects, data
  <2>5. QED
    BY <2>2, <2>3, <2>4 DEF Moves
<1>4. CASE ReleaseFromList(a)
  <2>1. Shape'
    BY <1>4 DEF SInv, Shape, ReleaseFromList, Label, Thread, NoObject, Goto, objects, data
  <2>2. Locals'
    BY <1>4, ThreadAssumption DEF SInv, Shape, Locals, ReleaseFromList, Detaching, Thread, Reporter,
      NoObject, Goto, objects, data
  <2>3. Answers'
    BY <1>4, ThreadAssumption DEF SInv, Shape, Answers, ReleaseFromList, Thread, Goto, objects, data
  <2>4. QED
    BY <2>1, <2>2, <2>3 DEF Moves
<1>5. CASE ReleaseFromListToReport(a)
  <2>1. Shape'
    BY <1>5 DEF SInv, Shape, ReleaseFromListToReport, Label, Thread, NoObject, Goto, objects, data
  <2>2. Locals'
    BY <1>5, ThreadAssumption DEF SInv, Shape, Locals, ReleaseFromListToReport, Detaching, Thread,
      Reporter, NoObject, Goto, objects, data
  <2>3. Answers'
    BY <1>5, ThreadAssumption DEF SInv, Shape, Answers, ReleaseFromListToReport, Thread, Goto,
      objects, data
  <2>4. QED
    BY <2>1, <2>2, <2>3 DEF Moves
<1>6. CASE Purge(a)
  <2>1. Shape'
    BY <1>6 DEF SInv, Shape, Purge, EmptyQueue, Label, Thread, NoObject, Goto, objects, locals
  <2>2. Locals'
    BY <1>6, ThreadAssumption DEF SInv, Shape, Locals, Purge, EmptyQueue, Detaching, Thread,
      Reporter, NoObject, Goto, objects, locals
  <2>3. Answers'
    BY <1>6, ThreadAssumption DEF SInv, Shape, Answers, Purge, EmptyQueue, Thread, Goto, objects,
      locals
  <2>4. QED
    BY <2>1, <2>2, <2>3 DEF Moves
<1>7. CASE AwaitCompletion(a)
  <2>1. Shape'
    BY <1>7 DEF SInv, Shape, AwaitCompletion, Label, Thread, NoObject, Goto, objects, data, locals
  <2>2. Locals'
    BY <1>7, ThreadAssumption DEF SInv, Shape, Locals, AwaitCompletion, Detaching, Thread, Reporter,
      NoObject, Goto, objects, data, locals
  <2>3. Answers'
    BY <1>7, ThreadAssumption DEF SInv, Shape, Answers, AwaitCompletion, Thread, Goto, objects,
      data, locals
  <2>4. QED
    BY <2>1, <2>2, <2>3 DEF Moves
<1>8. CASE ReleaseDetached(a)
  <2>1. Shape'
    BY <1>8 DEF SInv, Shape, ReleaseDetached, Label, Thread, NoObject, Goto, objects, data
  <2>2. Locals'
    BY <1>8, ThreadAssumption DEF SInv, Shape, Locals, ReleaseDetached, Detaching, Thread, Reporter,
      NoObject, Goto, objects, data
  <2>3. Answers'
    BY <1>8, ThreadAssumption DEF SInv, Shape, Answers, ReleaseDetached, Thread, Goto, objects, data
  <2>4. QED
    BY <2>1, <2>2, <2>3 DEF Moves
<1>9. CASE ReleaseOld(a)
  <2>1. Shape'
    BY <1>9 DEF SInv, Shape, ReleaseOld, Label, Thread, NoObject, Goto, objects, data
  <2>2. Locals'
    BY <1>9, ThreadAssumption DEF SInv, Shape, Locals, ReleaseOld, Detaching, Thread, Reporter,
      NoObject, Goto, objects, data
  <2>3. Answers'
    BY <1>9, ThreadAssumption DEF SInv, Shape, Answers, ReleaseOld, Thread, Goto, objects, data
  <2>4. QED
    BY <2>1, <2>2, <2>3 DEF Moves
<1>10. QED
  BY <1>1, <1>2, <1>3, <1>4, <1>5, <1>6, <1>7, <1>8, <1>9 DEF FltDetach

(* The threads that are not the kernel's for an address. *)
LEMMA CallMoves ==
  ASSUME SInv, NEW r \in Caller, Call(r)
  PROVE  Moves
<1>1. CASE FltNotify(r)
  <2>1. PICK o \in SocketsList, l \in {"release", "purge", "reinject"} :
          obj' = [obj EXCEPT ![r] = o] /\ Goto(r, l) /\ o \in Object
    BY <1>1 DEF FltNotify, GetSocketObjectRef, AtAddress, SInv, Shape
  <2>2. Shape'
    BY <1>1, <2>1 DEF SInv, Shape, FltNotify, Label, Thread,
      Reporter, Injector, NoObject, Goto, objects, data, locals
  <2>3. Locals'
    BY <1>1, <2>1, ThreadAssumption DEF SInv, Shape, Locals, FltNotify, Detaching, Thread, Reporter,
      Injector, Object, NoObject, Goto, objects, data, locals
  <2>4. Answers'
    BY <1>1, ThreadAssumption DEF SInv, Shape, Answers, FltNotify, GetSocketObjectRef, AtAddress,
      Thread, Reporter, Injector, NoObject, Goto, objects, data, locals
  <2>5. QED
    BY <2>2, <2>3, <2>4 DEF Moves
<1>2. CASE PurgeInbound(r)
  <2>1. Shape'
    BY <1>2 DEF SInv, Shape, PurgeInbound, Label, Thread, Reporter, Injector, NoObject, Goto,
      objects, locals
  <2>2. Locals'
    BY <1>2, ThreadAssumption DEF SInv, Shape, Locals, PurgeInbound, Detaching, Thread, Reporter,
      Injector, NoObject, Goto, objects, locals
  <2>3. Answers'
    BY <1>2, ThreadAssumption DEF SInv, Shape, Answers, PurgeInbound, Thread, Reporter, Injector,
      NoObject, Goto, objects, locals
  <2>4. QED
    BY <2>1, <2>2, <2>3 DEF Moves
<1>3. CASE AwaitCompletionOfEvent(r)
  <2>1. Shape'
    BY <1>3 DEF SInv, Shape, AwaitCompletionOfEvent, Label, Thread, Reporter, Injector, NoObject,
      Goto, objects, data, locals
  <2>2. Locals'
    BY <1>3, ThreadAssumption DEF SInv, Shape, Locals, AwaitCompletionOfEvent, Detaching, Thread,
      Reporter, Injector, NoObject, Goto, objects, data, locals
  <2>3. Answers'
    BY <1>3, ThreadAssumption DEF SInv, Shape, Answers, AwaitCompletionOfEvent, Thread, Reporter,
      Injector, NoObject, Goto, objects, data, locals
  <2>4. QED
    BY <2>1, <2>2, <2>3 DEF Moves
<1>4. CASE ProcessServiceResponse(r)
  <2>1. PICK o \in SocketsList, p \in notified :
          /\ pc[r] = "idle"
          /\ obj' = [obj EXCEPT ![r] = o]
          /\ answered' = [answered EXCEPT ![r] = p]
          /\ Goto(r, NextStepOfResponse(obj'[r], p))
    BY <1>4 DEF ProcessServiceResponse, GetSocketObjectRef, AtAddress
  <2>2. /\ o \in Object /\ p \in Object /\ o # NoObject
        /\ \/ o = p /\ Goto(r, "reinject")
           \/ o # p /\ Goto(r, "release")
    BY <2>1 DEF SInv, Shape, NextStepOfResponse, Thread, Object, NoObject
  <2>3. UNCHANGED <<objects, SocketsList, SocketsListToReport, injectionMutex, notified, oldObj,
                    wasInList, wasInReport, localSocketsList, missed>>
    BY <1>4 DEF ProcessServiceResponse, data
  <2>4. Shape'
    BY <2>1, <2>2, <2>3 DEF SInv, Shape, Label, Thread, Goto, objects
  <2>5. Locals'
    BY <2>1, <2>2, <2>3, ThreadAssumption DEF SInv, Shape, Locals, Detaching, Thread, Reporter, Goto
  <2>6. Answers'
    BY <2>1, <2>2, ThreadAssumption DEF SInv, Shape, Answers, Thread, Goto
  <2>7. QED
    BY <2>4, <2>5, <2>6 DEF Moves
<1>5. QED
  BY <1>1, <1>2, <1>3, <1>4 DEF Call

(* reinjectDeferredData keeps the object of its caller. *)
LEMMA ReinjectMoves ==
  ASSUME SInv, NEW r \in Injector, ReinjectDeferredData(r)
  PROVE  Moves
<1>1. CASE CollectPackets(r)
  <2>1. Shape'
    BY <1>1 DEF SInv, Shape, CollectPackets, Label, Thread, Reporter, Injector, NoObject, Goto,
      objects, locals
  <2>2. Locals'
    BY <1>1, ThreadAssumption DEF SInv, Shape, Locals, CollectPackets, Detaching, Thread, Reporter,
      Injector, NoObject, Goto, objects, locals
  <2>3. Answers'
    BY <1>1, ThreadAssumption DEF SInv, Shape, Answers, CollectPackets, Thread, Reporter, Injector,
      NoObject, Goto, objects, locals
  <2>4. QED
    BY <2>1, <2>2, <2>3 DEF Moves
<1>2. CASE Inject(r)
  <2>1. Shape'
    BY <1>2 DEF SInv, Shape, Inject, Label, Thread, Reporter, Injector, NoObject, Goto, objects,
      locals
  <2>2. Locals'
    BY <1>2, ThreadAssumption DEF SInv, Shape, Locals, Inject, Detaching, Thread, Reporter,
      Injector, NoObject, Goto, objects, locals
  <2>3. Answers'
    BY <1>2, ThreadAssumption DEF SInv, Shape, Answers, Inject, Thread, Reporter, Injector,
      NoObject, Goto, objects, locals
  <2>4. QED
    BY <2>1, <2>2, <2>3 DEF Moves
<1>3. CASE FinishInjection(r)
  <2>1. Shape'
    <3>1. PICK l \in {"purge", "await", "release"} : Goto(r, l)
      BY <1>3 DEF FinishInjection, AfterReinject
    <3>2. QED
      BY <1>3, <3>1 DEF SInv, Shape, FinishInjection, Label, Thread, Reporter, Injector, Goto,
        objects, data, locals
  <2>2. Locals'
    BY <1>3, ThreadAssumption DEF SInv, Shape, Locals, FinishInjection, AfterReinject, Detaching,
      Thread, Reporter, Injector, NoObject, Goto, objects, data, locals
  <2>3. Answers'
    BY <1>3, ThreadAssumption DEF SInv, Shape, Answers, FinishInjection, AfterReinject, Thread,
      Reporter, Injector, NoObject, Goto, objects, data, locals
  <2>4. QED
    BY <2>1, <2>2, <2>3 DEF Moves
<1>4. CASE ReleaseFound(r)
  <2>1. Shape'
    BY <1>4 DEF SInv, Shape, ReleaseFound, Label, Thread, Reporter, Injector, NoObject, Goto,
      objects, data
  <2>2. Locals'
    BY <1>4, ThreadAssumption DEF SInv, Shape, Locals, ReleaseFound, Detaching, Thread, Reporter,
      Injector, NoObject, Goto, objects, data
  <2>3. Answers'
    BY <1>4, ThreadAssumption DEF SInv, Shape, Answers, ReleaseFound, Thread, Reporter, Injector,
      NoObject, Goto, objects, data
  <2>4. QED
    BY <2>1, <2>2, <2>3 DEF Moves
<1>5. QED
  BY <1>1, <1>2, <1>3, <1>4 DEF ReinjectDeferredData

(* A thread moves itself only. *)
OthersStay(t) == \A u \in Thread \ {t} : pc'[u] = pc[u] /\ obj'[u] = obj[u]

(* A step moves one thread and changes the object of no other. *)
LEMMA DeliverAlone ==
  ASSUME Shape, NEW t \in Reporter, Deliver(t)
  PROVE  OthersStay(t)
<1>1. CASE DeliverWaitingNotifications(t)
  BY <1>1 DEF Shape, DeliverWaitingNotifications, Goto, OthersStay
<1>2. CASE TakeFirst(t)
  BY <1>2 DEF Shape, TakeFirst, Goto, OthersStay
<1>3. CASE ReportPackets(t)
  BY <1>3 DEF Shape, ReportPackets, Goto, OthersStay
<1>4. CASE Reinsert(t)
  BY <1>4 DEF Shape, Reinsert, Goto, OthersStay
<1>5. CASE ReleaseReported(t)
  BY <1>5 DEF Shape, ReleaseReported, Goto, OthersStay
<1>6. QED
  BY <1>1, <1>2, <1>3, <1>4, <1>5 DEF Deliver

LEMMA CallAlone ==
  ASSUME Shape, NEW r \in Caller, Call(r)
  PROVE  OthersStay(r)
<1>1. CASE FltNotify(r)
  BY <1>1 DEF Shape, FltNotify, GetSocketObjectRef, Goto, OthersStay
<1>2. CASE PurgeInbound(r) \/ AwaitCompletionOfEvent(r)
  BY <1>2 DEF Shape, PurgeInbound, AwaitCompletionOfEvent, Goto, OthersStay
<1>3. CASE ProcessServiceResponse(r)
  BY <1>3 DEF Shape, ProcessServiceResponse, GetSocketObjectRef, Goto, OthersStay
<1>4. QED
  BY <1>1, <1>2, <1>3 DEF Call

LEMMA ReinjectAlone ==
  ASSUME Shape, NEW r \in Injector, ReinjectDeferredData(r)
  PROVE  OthersStay(r)
<1>1. CASE CollectPackets(r) \/ Inject(r)
  BY <1>1 DEF Shape, CollectPackets, Inject, Goto, OthersStay
<1>2. CASE FinishInjection(r)
  BY <1>2 DEF Shape, FinishInjection, Goto, OthersStay
<1>3. CASE ReleaseFound(r)
  BY <1>3 DEF Shape, ReleaseFound, Goto, OthersStay
<1>4. QED
  BY <1>1, <1>2, <1>3 DEF ReinjectDeferredData

LEMMA CollectAlone ==
  ASSUME Shape, InjectionThreadRoutine
  PROVE  OthersStay(InjectionThread)
BY DEF Shape, InjectionThreadRoutine, CollectSockets, NextSocket, EndOfRound, Goto, OthersStay

(* DeliverWaitingNotifications changes the list of the reports, too. *)
LEMMA DeliverMoves ==
  ASSUME SInv, NEW t \in Reporter, Deliver(t)
  PROVE  Moves /\ ListedOnce'
<1>1. t \in Thread /\ t \notin Address /\ t \notin Caller
  BY ThreadAssumption DEF Thread, Reporter
<1>2. UNCHANGED <<objects, SocketsList, injectionMutex, locals>>
  BY DEF Deliver, DeliverWaitingNotifications, TakeFirst, ReportPackets, Reinsert, ReleaseReported
<1>3. pc[t] \notin Idle => obj[t] \in Object
  BY <1>1, Busy DEF SInv
<1>4. Answers'
  BY <1>1, <1>2, DeliverAlone DEF SInv, Answers, OthersStay, Thread, locals
<1>5. CASE DeliverWaitingNotifications(t)
  <2>1. Shape' /\ ListedOnce'
    BY <1>1, <1>2, <1>5 DEF SInv, Shape, ListedOnce, DeliverWaitingNotifications, Label, Goto, objects,
      locals, data
  <2>2. Locals'
    BY <1>1, <1>2, <1>5, ThreadAssumption DEF SInv, Shape, Locals, DeliverWaitingNotifications, Goto,
      Detaching, locals
  <2>3. QED
    BY <1>4, <2>1, <2>2 DEF Moves
<1>6. CASE TakeFirst(t)
  <2>1. CASE SocketsListToReport = <<>>
    <3>1. Shape' /\ ListedOnce'
      BY <1>1, <1>2, <1>6, <2>1 DEF SInv, Shape, ListedOnce, TakeFirst, Label, Goto, objects, locals, data
    <3>2. pc[t] = "deliver" /\ Goto(t, "idle") /\ UNCHANGED obj
      BY <1>6, <2>1 DEF TakeFirst
    <3>3. Locals'
      BY <1>1, <1>2, <3>2 DEF SInv, Shape, Locals, Goto, Detaching, locals
    <3>4. QED
      BY <1>4, <3>1, <3>3 DEF Moves
  <2>2. CASE SocketsListToReport # <<>>
    <3>1. PICK o \in Object : o = Head(SocketsListToReport)
      BY <2>2, Taken DEF SInv, Shape, ListedOnce
    <3>2. SocketsListToReport' \in Seq(Object) /\ ListedOnce'
      BY <1>6, <2>2, Taken DEF SInv, Shape, ListedOnce, TakeFirst
    <3>3. pc[t] = "deliver" /\ obj' = [obj EXCEPT ![t] = o] /\ Goto(t, "report") /\ UNCHANGED notified
      BY <1>6, <2>2, <3>1 DEF TakeFirst, data
    <3>4. Shape'
      BY <1>1, <1>2, <3>2, <3>3 DEF SInv, Shape, Label, Goto, objects, locals
    <3>5. Locals'
      BY <1>1, <1>2, <3>3, ThreadAssumption DEF SInv, Shape, Locals, Goto, Detaching, Object, NoObject, locals
    <3>6. QED
      BY <1>4, <3>2, <3>4, <3>5 DEF Moves
  <2>3. QED
    BY <2>1, <2>2
<1>7. CASE ReportPackets(t)
  <2>1. PICK l \in {"reinsert", "done", "drop"} : Goto(t, l)
    BY <1>7 DEF ReportPackets
  <2>2. pc[t] = "report" /\ UNCHANGED <<obj, SocketsListToReport>> /\ notified' \subseteq Object
    BY <1>3, <1>7 DEF ReportPackets, Idle, SInv, Shape
  <2>3. Shape' /\ ListedOnce'
    BY <1>1, <1>2, <2>1, <2>2 DEF SInv, Shape, ListedOnce, Label, Goto, objects, locals
  <2>4. Locals'
    BY <1>1, <1>2, <2>1, <2>2 DEF SInv, Shape, Locals, Goto, Detaching, locals
  <2>5. QED
    BY <1>4, <2>3, <2>4 DEF Moves
<1>8. CASE Reinsert(t)
  <2>1. pc[t] = "reinsert" /\ UNCHANGED notified
    BY <1>8 DEF Reinsert, data
  <2>2. CASE InReport(obj[t])
    <3>1. Goto(t, "drop") /\ UNCHANGED <<obj, SocketsListToReport>>
      BY <1>8, <2>2 DEF Reinsert
    <3>2. Shape' /\ ListedOnce'
      BY <1>1, <1>2, <2>1, <3>1 DEF SInv, Shape, ListedOnce, Label, Goto, objects, locals
    <3>3. Locals'
      BY <1>1, <1>2, <2>1, <3>1 DEF SInv, Shape, Locals, Goto, Detaching, locals
    <3>4. QED
      BY <1>4, <3>2, <3>3 DEF Moves
  <2>3. CASE ~ InReport(obj[t])
    <3>1. /\ Goto(t, "idle") /\ obj' = [obj EXCEPT ![t] = NoObject]
          /\ SocketsListToReport' = Append(SocketsListToReport, obj[t])
      BY <1>8, <2>3 DEF Reinsert, ReinsertedInSocketsListToReport
    <3>2. SocketsListToReport' \in Seq(Object) /\ ListedOnce'
      BY <1>3, <2>1, <2>3, <3>1, Appended DEF SInv, Shape, ListedOnce, InReport, Has, Idle
    <3>3. Shape'
      BY <1>1, <1>2, <2>1, <3>1, <3>2 DEF SInv, Shape, Label, Goto, objects, locals
    <3>4. Locals'
      BY <1>1, <1>2, <2>1, <3>1 DEF SInv, Shape, Locals, Goto, Detaching, locals
    <3>5. QED
      BY <1>4, <3>2, <3>3, <3>4 DEF Moves
  <2>4. QED
    BY <2>2, <2>3
<1>9. CASE ReleaseReported(t)
  <2>1. PICK l \in {"deliver", "idle"} : Goto(t, l)
    BY <1>9 DEF ReleaseReported
  <2>2. /\ pc[t] \in {"done", "drop"} /\ obj' = [obj EXCEPT ![t] = NoObject]
        /\ UNCHANGED <<notified, SocketsListToReport>>
    BY <1>9 DEF ReleaseReported, data
  <2>3. Shape' /\ ListedOnce'
    BY <1>1, <1>2, <2>1, <2>2 DEF SInv, Shape, ListedOnce, Label, Goto, objects, locals
  <2>4. Locals'
    BY <1>1, <1>2, <2>1, <2>2 DEF SInv, Shape, Locals, Goto, Detaching, locals
  <2>5. QED
    BY <1>4, <2>3, <2>4 DEF Moves
<1>10. QED
  BY <1>5, <1>6, <1>7, <1>8, <1>9 DEF Deliver

(* The round of the injection thread. *)
LEMMA CollectMoves ==
  ASSUME SInv, InjectionThreadRoutine
  PROVE  Moves
<1>1. InjectionThread \in Thread /\ InjectionThread \notin Address /\ InjectionThread \notin Caller
  BY ThreadAssumption DEF Thread, Reporter
<1>2. CASE CollectSockets
  <2>1. Shape'
    BY <1>1, <1>2 DEF SInv, Shape, CollectSockets, Label, Goto, objects, data
  <2>2. Locals' /\ Answers'
    BY <1>1, <1>2 DEF SInv, Shape, Locals, Answers, CollectSockets, Goto, Detaching, objects
  <2>3. QED
    BY <2>1, <2>2 DEF Moves
<1>3. CASE NextSocket
  <2>1. PICK o \in localSocketsList :
          /\ localSocketsList' = localSocketsList \ {o}
          /\ obj' = [obj EXCEPT ![InjectionThread] = o]
    BY <1>3 DEF NextSocket
  <2>2. o \in Object /\ o # NoObject
    BY DEF SInv, Shape, Object, NoObject
  <2>3. Shape'
    BY <1>1, <1>3, <2>1, <2>2 DEF SInv, Shape, NextSocket, Label, Goto, objects, data
  <2>4. Locals' /\ Answers'
    BY <1>1, <1>3, <2>1, <2>2 DEF SInv, Shape, Locals, Answers, NextSocket, Goto, Detaching, objects
  <2>5. QED
    BY <2>3, <2>4 DEF Moves
<1>4. CASE EndOfRound
  <2>1. Shape'
    BY <1>1, <1>4 DEF SInv, Shape, EndOfRound, Label, Goto, objects, data, locals
  <2>2. Locals' /\ Answers'
    BY <1>1, <1>4 DEF SInv, Shape, Locals, Answers, EndOfRound, Goto, Detaching, objects, locals
  <2>3. QED
    BY <2>1, <2>2 DEF Moves
<1>5. QED
  BY <1>2, <1>3, <1>4 DEF InjectionThreadRoutine

-----------------------------------------------------------------------------
(* The lists and what the kernel's threads have to do with them.            *)
InList == {"inserted", "attached", "detach", "remove"}
OutOfList == {"removeReport", "releaseList", "releaseReport", "purge", "await", "detached",
              "releaseOld", "create", "insert"}

(* Threads that are not the kernel's change none of this. *)
LEMMA OtherThreadKeepsLists ==
  ASSUME SInv, UNCHANGED <<objects, SocketsList, missed>>,
         \A a \in Address : pc'[a] = pc[a] /\ obj'[a] = obj[a]
  PROVE  Lists'
<1>1. Used' /\ OfAddress' /\ OneListed'
  BY DEF SInv, Lists, Used, OfAddress, OneListed, objects
<1>2. \A a \in Address : AtAddress(a)' = AtAddress(a)
  BY DEF AtAddress, objects
<1>3. Listed'
  BY <1>2 DEF SInv, Lists, Listed
<1>4. MissedListed'
  BY DEF SInv, Lists, MissedListed
<1>5. QED
  BY <1>1, <1>3, <1>4 DEF Lists

(* FltAttach takes an object of the list, or the thread keeps its own.      *)
LEMMA MoveKeepsLists ==
  ASSUME SInv, NEW a \in Address, UNCHANGED <<objects, SocketsList, missed>>, OthersStay(a),
         obj'[a] = obj[a] \/ (obj[a] = NoObject /\ obj'[a] \in AtAddress(a)),
         pc'[a] \in InList => obj'[a] \in SocketsList,
         pc'[a] \in OutOfList => AtAddress(a) = {}
  PROVE  Lists'
<1>1. a \in Thread /\ \A b \in Address \ {a} : b \in Thread \ {a} /\ pc'[b] = pc[b] /\ obj'[b] = obj[b]
  BY DEF OthersStay, Thread
<1>2. Used' /\ OneListed'
  BY <1>1 DEF SInv, Lists, Used, OneListed, AtAddress, objects
<1>3. OfAddress'
  BY <1>1 DEF SInv, Lists, OfAddress, AtAddress, objects
<1>4. \A b \in Address : AtAddress(b)' = AtAddress(b)
  BY DEF AtAddress, objects
<1>5. Listed'
  <2> SUFFICES ASSUME NEW b \in Address
               PROVE  /\ pc'[b] \in InList => obj'[b] \in SocketsList
                      /\ pc'[b] \in OutOfList => AtAddress(b) = {}
    BY <1>4 DEF Listed, InList, OutOfList
  <2>1. CASE b = a
    BY <2>1
  <2>2. CASE b # a
    BY <1>1, <2>2 DEF SInv, Lists, Listed, InList, OutOfList
  <2>3. QED
    BY <2>1, <2>2
<1>6. MissedListed'
  <2>1. ASSUME NEW o \in missed PROVE o \in SocketsList \/ \E b \in Address : obj'[b] = o
    <3>1. CASE o \in SocketsList
      BY <3>1
    <3>2. CASE o \notin SocketsList
      <4>1. PICK b \in Address : obj[b] = o
        BY <3>2 DEF SInv, Lists, MissedListed
      <4>2. o # NoObject
        BY DEF SInv, Shape, Object, NoObject
      <4>3. obj'[b] = o
        BY <1>1, <4>1, <4>2
      <4>4. QED
        BY <4>3
    <3>3. QED
      BY <3>1, <3>2
  <2>2. QED
    BY <2>1 DEF MissedListed
<1>7. QED
  BY <1>2, <1>3, <1>5, <1>6 DEF Lists

(* An object is listed for an address only when none is: the one left       *)
(* there was detached before.                                               *)
LEMMA FltAttachKeepsLists ==
  ASSUME SInv, NEW a \in Address, FltAttach(a)
  PROVE  Lists'
<1>1. a \in Thread
  BY DEF Thread
<1>2. CASE Attach(a)
  <2>1. UNCHANGED <<objects, SocketsList, missed>> /\ OthersStay(a) /\ obj[a] = NoObject
    BY <1>1, <1>2, Busy DEF Attach, SInv, Shape, Goto, OthersStay, Idle
  <2>2. \/ obj'[a] = obj[a] /\ pc'[a] = "create" /\ AtAddress(a) = {}
        \/ obj'[a] \in AtAddress(a) /\ pc'[a] = "detach"
    BY <1>1, <1>2 DEF Attach, SInv, Shape, Goto, LeftAtAddress
  <2>3. obj'[a] \in AtAddress(a) => obj'[a] \in SocketsList
    BY DEF AtAddress
  <2>4. QED
    BY <2>1, <2>2, <2>3, MoveKeepsLists DEF InList, OutOfList
<1>3. CASE Create(a)
  <2> DEFINE o == gSocketSequence
  <2>1. /\ o \in Object /\ pc[a] = "create" /\ AtAddress(a) = {} /\ obj[a] = NoObject
        /\ gSocketSequence' = o + 1 /\ socket' = [socket EXCEPT ![o] = a]
        /\ obj' = [obj EXCEPT ![a] = o] /\ pc' = [pc EXCEPT ![a] = "insert"]
        /\ SocketsList' = SocketsList /\ missed' = missed
    BY <1>1, <1>3, Busy DEF Create, Goto, SInv, Lists, Listed, Idle, locals
  <2>2. /\ \A p \in SocketsList : p < o /\ p # o /\ p \in Object /\ socket'[p] = socket[p]
        /\ \A b \in Address : obj[b] # NoObject =>
             obj[b] < o /\ obj[b] # o /\ obj[b] \in Object /\ socket'[obj[b]] = socket[obj[b]]
    <3>1. /\ \A p \in SocketsList : p < o /\ p \in Object
          /\ \A b \in Address : obj[b] # NoObject => obj[b] < o /\ obj[b] \in Object
      BY DEF SInv, Lists, Used, Shape, Thread
    <3>2. \A p \in Object : p < o => p # o
      BY <2>1 DEF Object
    <3>3. \A p \in Object : p # o => socket'[p] = socket[p]
      BY <2>1 DEF SInv, Shape
    <3>4. QED
      BY <3>1, <3>2, <3>3
  <2>3. socket'[o] = a /\ obj'[a] = o /\ \A b \in Address \ {a} : obj'[b] = obj[b] /\ pc'[b] = pc[b]
    BY <1>1, <2>1 DEF SInv, Shape, Thread
  <2>4. Used'
    <3>1. \A p \in SocketsList \cup missed : p \in Object /\ p < o
      BY DEF SInv, Lists, Used, Shape
    <3>2. \A p \in Object : p < o => p < o + 1
      BY <2>1 DEF Object
    <3>3. o < o + 1
      BY <2>1 DEF Object
    <3>4. \A b \in Address : obj'[b] # NoObject => obj'[b] < o + 1
      BY <2>2, <2>3, <3>2, <3>3
    <3>5. QED
      BY <2>1, <3>1, <3>2, <3>4 DEF Used
  <2>5. OfAddress' /\ OneListed'
    BY <2>1, <2>2, <2>3 DEF SInv, Lists, OfAddress, OneListed
  <2>6. \A b \in Address : AtAddress(b)' = AtAddress(b)
    BY <2>1, <2>2 DEF AtAddress
  <2>7. Listed'
    BY <1>1, <2>1, <2>3, <2>6 DEF SInv, Shape, Lists, Listed
  <2>8. MissedListed'
    BY <2>1, <2>3 DEF SInv, Lists, MissedListed, Shape, Object, NoObject
  <2>9. QED
    BY <2>4, <2>5, <2>7, <2>8 DEF Lists
<1>4. CASE InsertInSocketsList(a)
  <2> DEFINE o == obj[a]
  <2>1. /\ pc[a] = "insert" /\ pc' = [pc EXCEPT ![a] = "inserted"] /\ obj' = obj /\ o \in Object
        /\ SocketsList' = SocketsList \cup {o} /\ socket' = socket /\ missed' = missed
        /\ gSocketSequence' = gSocketSequence /\ AtAddress(a) = {} /\ o # NoObject
    BY <1>1, <1>4, Busy DEF InsertInSocketsList, Goto, SInv, Lists, Listed, Idle, objects, locals, Object,
      NoObject
  <2>2. socket[o] = a /\ o < gSocketSequence
    BY <2>1 DEF SInv, Lists, OfAddress, Used
  <2>3. Used' /\ OfAddress' /\ MissedListed'
    BY <2>1, <2>2 DEF SInv, Lists, Used, OfAddress, MissedListed
  <2>4. OneListed'
    <3>1. \A p \in SocketsList : socket[p] # a
      BY <2>1 DEF AtAddress
    <3>2. QED
      BY <2>1, <2>2, <3>1 DEF SInv, Lists, OneListed
  <2>5. Listed'
    <3>1. ASSUME NEW b \in Address, b # a
          PROVE  pc'[b] = pc[b] /\ AtAddress(b)' = AtAddress(b)
      BY <2>1, <2>2, <3>1 DEF AtAddress, SInv, Shape
    <3>2. pc'[a] = "inserted"
      BY <1>1, <2>1 DEF SInv, Shape
    <3>3. QED
      BY <2>1, <3>1, <3>2 DEF SInv, Lists, Listed
  <2>6. QED
    BY <2>3, <2>4, <2>5 DEF Lists
<1>5. CASE ReleaseCreated(a)
  <2>1. UNCHANGED <<objects, SocketsList, missed, obj>> /\ OthersStay(a) /\ pc'[a] = "attached"
    BY <1>1, <1>5 DEF ReleaseCreated, SInv, Shape, Goto, OthersStay, locals
  <2>2. obj[a] \in SocketsList
    BY <1>5 DEF ReleaseCreated, SInv, Lists, Listed
  <2>3. QED
    BY <2>1, <2>2, MoveKeepsLists DEF InList, OutOfList
<1>6. QED
  BY <1>2, <1>3, <1>4, <1>5 DEF FltAttach

(* An object whose callback was missed stays listed. *)
LEMMA CloseKeepsLists ==
  ASSUME SInv, NEW a \in Address, CloseSocket(a) \/ MissDetach(a)
  PROVE  Lists'
<1>1. a \in Thread /\ pc[a] = "attached" /\ obj[a] \in SocketsList
  BY DEF Thread, CloseSocket, MissDetach, SInv, Lists, Listed
<1>2. CASE CloseSocket(a)
  <2>1. UNCHANGED <<objects, SocketsList, missed, obj>> /\ OthersStay(a) /\ pc'[a] = "detach"
    BY <1>1, <1>2 DEF CloseSocket, SInv, Shape, Goto, OthersStay, locals
  <2>2. QED
    BY <1>1, <2>1, MoveKeepsLists DEF InList, OutOfList
<1>3. CASE MissDetach(a)
  <2>1. /\ socket' = socket /\ gSocketSequence' = gSocketSequence /\ SocketsList' = SocketsList
        /\ missed' = missed \cup {obj[a]}
        /\ pc'[a] = "closed" /\ obj'[a] = NoObject
        /\ \A b \in Address \ {a} : pc'[b] = pc[b] /\ obj'[b] = obj[b]
    BY <1>1, <1>3 DEF MissDetach, SInv, Shape, Goto, objects, Thread
  <2>2. Used' /\ OfAddress' /\ OneListed'
    BY <1>1, <2>1 DEF SInv, Lists, Used, OfAddress, OneListed
  <2>3. \A b \in Address : AtAddress(b)' = AtAddress(b)
    BY <2>1 DEF AtAddress
  <2>4. Listed'
    BY <2>1, <2>3 DEF SInv, Lists, Listed
  <2>5. MissedListed'
    BY <1>1, <2>1 DEF SInv, Lists, MissedListed
  <2>6. QED
    BY <2>2, <2>4, <2>5 DEF Lists
<1>4. QED
  BY <1>2, <1>3

(* Removed, the object was the only one of its address. *)
LEMMA FltDetachKeepsLists ==
  ASSUME SInv, NEW a \in Address, FltDetach(a)
  PROVE  Lists'
<1>1. a \in Thread
  BY DEF Thread
<1>2. CASE Detach(a)
  <2>1. UNCHANGED <<objects, SocketsList, missed, obj>> /\ OthersStay(a) /\ pc'[a] = "remove"
    BY <1>1, <1>2 DEF Detach, SInv, Shape, Goto, OthersStay, locals
  <2>2. obj[a] \in SocketsList
    BY <1>2 DEF Detach, SInv, Lists, Listed
  <2>3. QED
    BY <2>1, <2>2, MoveKeepsLists DEF InList, OutOfList
<1>3. CASE RemoveFromSocketsList(a)
  <2> DEFINE o == obj[a]
  <2>1. /\ pc' = [pc EXCEPT ![a] = "removeReport"] /\ obj' = obj /\ socket' = socket /\ missed' = missed
        /\ gSocketSequence' = gSocketSequence /\ SocketsList' = SocketsList \ {o}
        /\ o \in SocketsList /\ o \in Object /\ o # NoObject
    BY <1>1, <1>3, Busy DEF RemoveFromSocketsList, Goto, SInv, Lists, Listed, Idle, objects, Object, NoObject
  <2>2. socket[o] = a
    BY <2>1 DEF SInv, Lists, OfAddress
  <2>3. Used' /\ OfAddress' /\ OneListed' /\ MissedListed'
    BY <2>1 DEF SInv, Lists, Used, OfAddress, OneListed, MissedListed
  <2>4. AtAddress(a)' = {} /\ pc'[a] = "removeReport"
    BY <1>1, <2>1, <2>2 DEF AtAddress, SInv, Lists, OneListed, Shape
  <2>5. ASSUME NEW b \in Address, b # a
        PROVE  /\ pc'[b] = pc[b] /\ AtAddress(b)' = AtAddress(b)
               /\ obj[b] \in SocketsList /\ obj[b] # NoObject => obj[b] \in SocketsList'
    <3>1. pc'[b] = pc[b] /\ AtAddress(b)' = AtAddress(b)
      BY <2>1, <2>2, <2>5 DEF AtAddress, SInv, Shape
    <3>2. obj[b] # NoObject => socket[obj[b]] = b
      BY DEF SInv, Lists, OfAddress
    <3>3. QED
      BY <2>1, <2>2, <2>5, <3>1, <3>2
  <2>6. \A p \in SocketsList : p # NoObject
    BY DEF SInv, Shape, Object, NoObject
  <2>7. Listed'
    BY <2>1, <2>4, <2>5, <2>6 DEF SInv, Lists, Listed
  <2>8. QED
    BY <2>3, <2>7 DEF Lists
<1>4. CASE ReleaseDetached(a)
  <2> DEFINE o == obj[a]
  <2>1. /\ obj' = [obj EXCEPT ![a] = NoObject] /\ socket' = socket /\ missed' = missed \ {o}
        /\ gSocketSequence' = gSocketSequence /\ SocketsList' = SocketsList
        /\ pc'[a] \in {"closed", "releaseOld"} /\ AtAddress(a) = {}
        /\ \A b \in Address \ {a} : pc'[b] = pc[b] /\ obj'[b] = obj[b]
    BY <1>1, <1>4 DEF ReleaseDetached, Goto, SInv, Shape, Lists, Listed, objects, Thread
  <2>2. obj'[a] = NoObject
    BY <1>1, <2>1 DEF SInv, Shape
  <2>3. Used' /\ OfAddress' /\ OneListed'
    BY <2>1, <2>2 DEF SInv, Lists, Used, OfAddress, OneListed
  <2>4. \A b \in Address : AtAddress(b)' = AtAddress(b)
    BY <2>1 DEF AtAddress
  <2>5. Listed'
    BY <2>1, <2>4 DEF SInv, Lists, Listed
  <2>6. MissedListed'
    BY <2>1 DEF SInv, Lists, MissedListed
  <2>7. QED
    BY <2>3, <2>5, <2>6 DEF Lists
<1>5. CASE \/ RemoveFromSocketsListToReport(a) \/ ReleaseFromList(a) \/ ReleaseFromListToReport(a)
           \/ Purge(a) \/ AwaitCompletion(a) \/ ReleaseOld(a)
  <2>1. UNCHANGED <<objects, SocketsList, missed, obj>>
    BY <1>5 DEF RemoveFromSocketsListToReport, ReleaseFromList, ReleaseFromListToReport, Purge, EmptyQueue,
      AwaitCompletion, ReleaseOld, locals
  <2>2. PICK l \in OutOfList : Goto(a, l) /\ pc[a] \in OutOfList
    BY <1>5 DEF RemoveFromSocketsListToReport, ReleaseFromList, ReleaseFromListToReport, Purge, EmptyQueue,
      AwaitCompletion, ReleaseOld, OutOfList
  <2>3. OthersStay(a) /\ pc'[a] = l /\ l \notin InList
    BY <1>1, <2>1, <2>2 DEF SInv, Shape, Goto, OthersStay, InList, OutOfList
  <2>4. AtAddress(a) = {}
    BY <2>2 DEF SInv, Lists, Listed, OutOfList
  <2>5. QED
    BY <2>1, <2>3, <2>4, MoveKeepsLists
<1>6. QED
  BY <1>2, <1>3, <1>4, <1>5 DEF FltDetach

(***************************************************************************)
(* Every step keeps the first layer.                                        *)
(***************************************************************************)
LEMMA NextSInv ==
  ASSUME SInv, [Next]_vars
  PROVE  SInv'
<1>1. Shape
  BY DEF SInv
<1>2. ASSUME Moves, ListedOnce', Lists' PROVE SInv'
  BY <1>2 DEF Moves, SInv
<1>3. ASSUME UNCHANGED SocketsListToReport PROVE ListedOnce'
  BY <1>3 DEF SInv, ListedOnce
<1>4. ASSUME NEW t \in Thread \ Address, OthersStay(t), UNCHANGED <<objects, SocketsList, missed>>
      PROVE  Lists'
  BY <1>4, OtherThreadKeepsLists DEF OthersStay, Thread
<1>5. ASSUME NEW a \in Address, Kernel(a) PROVE SInv'
  <2>1. CASE FltAttach(a)
    <3>1. UNCHANGED SocketsListToReport
      BY <2>1 DEF FltAttach, Attach, Create, InsertInSocketsList, ReleaseCreated
    <3>2. QED
      BY <1>2, <1>3, <2>1, <3>1, FltAttachMoves, FltAttachKeepsLists
  <2>2. CASE FltData(a)
    <3>1. UNCHANGED <<objects, SocketsList, missed, pc, obj>>
      BY <2>2 DEF FltData, Report, ReportLater, locals
    <3>2. QED
      BY <1>2, <2>2, <3>1, FltDataMoves, OtherThreadKeepsLists
  <2>3. CASE CloseSocket(a) \/ MissDetach(a)
    <3>1. UNCHANGED SocketsListToReport
      BY <2>3 DEF CloseSocket, MissDetach
    <3>2. QED
      BY <1>2, <1>3, <2>3, <3>1, CloseMoves, CloseKeepsLists
  <2>4. CASE FltDetach(a)
    <3>1. ListedOnce'
      <4>1. CASE RemoveFromSocketsListToReport(a)
        BY <1>1, <4>1, Removed DEF RemoveFromSocketsListToReport, SInv, Shape, ListedOnce
      <4>2. CASE ~ RemoveFromSocketsListToReport(a)
        BY <1>3, <2>4, <4>2 DEF FltDetach, Detach, RemoveFromSocketsList, ReleaseFromList,
          ReleaseFromListToReport, Purge, EmptyQueue, AwaitCompletion, ReleaseDetached, ReleaseOld
      <4>3. QED
        BY <4>1, <4>2
    <3>2. QED
      BY <1>2, <2>4, <3>1, FltDetachMoves, FltDetachKeepsLists
  <2>5. QED
    BY <1>5, <2>1, <2>2, <2>3, <2>4 DEF Kernel
<1>6. ASSUME NEW r \in Caller, Call(r) PROVE SInv'
  <2>1. UNCHANGED <<objects, SocketsList, SocketsListToReport, missed>> /\ r \in Thread \ Address
    BY <1>6, ThreadAssumption DEF Call, FltNotify, PurgeInbound, AwaitCompletionOfEvent, ProcessServiceResponse,
      locals, Thread
  <2>2. OthersStay(r)
    BY <1>1, <1>6, CallAlone
  <2>3. QED
    BY <1>2, <1>3, <1>4, <1>6, <2>1, <2>2, CallMoves
<1>7. ASSUME NEW r \in Injector, ReinjectDeferredData(r) PROVE SInv'
  <2>1. UNCHANGED <<objects, SocketsList, SocketsListToReport, missed>> /\ r \in Thread \ Address
    BY <1>7, ThreadAssumption DEF ReinjectDeferredData, CollectPackets, Inject, FinishInjection, ReleaseFound,
      locals, Thread, Injector, Reporter
  <2>2. OthersStay(r)
    BY <1>1, <1>7, ReinjectAlone
  <2>3. QED
    BY <1>2, <1>3, <1>4, <1>7, <2>1, <2>2, ReinjectMoves
<1>8. ASSUME NEW t \in Reporter, Deliver(t) PROVE SInv'
  <2>1. UNCHANGED <<objects, SocketsList, missed>> /\ t \in Thread \ Address
    BY <1>8, ThreadAssumption DEF Deliver, DeliverWaitingNotifications, TakeFirst, ReportPackets, Reinsert,
      ReleaseReported, locals, Thread, Reporter
  <2>2. OthersStay(t)
    BY <1>1, <1>8, DeliverAlone
  <2>3. QED
    BY <1>2, <1>4, <1>8, <2>1, <2>2, DeliverMoves
<1>9. ASSUME InjectionThreadRoutine PROVE SInv'
  <2>1. /\ UNCHANGED <<objects, SocketsList, SocketsListToReport, missed>>
        /\ InjectionThread \in Thread \ Address
    BY <1>9, ThreadAssumption DEF InjectionThreadRoutine, CollectSockets, NextSocket, EndOfRound, locals,
      Thread, Reporter
  <2>2. OthersStay(InjectionThread)
    BY <1>1, <1>9, CollectAlone
  <2>3. QED
    BY <1>2, <1>3, <1>4, <1>9, <2>1, <2>2, CollectMoves
<1>10. CASE UNCHANGED vars
  <2>1. Moves /\ ListedOnce'
    BY <1>10 DEF vars, objects, data, locals, SInv, Shape, Locals, Answers, Moves, ListedOnce
  <2>2. Lists'
    BY <1>10, OtherThreadKeepsLists DEF vars, objects, locals
  <2>3. QED
    BY <1>2, <2>1, <2>2
<1>11. QED
  BY <1>5, <1>6, <1>7, <1>8, <1>9, <1>10 DEF Next

-----------------------------------------------------------------------------
(* The packets of an object: only FltData makes them more.                  *)
Fewer ==
  /\ packetsWaitingForReporting' \in [Object -> Nat]
  /\ reported' \in [Object -> Nat]
  /\ injecting' \in [Object -> Nat]
  /\ \A o \in Object : NumberOfPending(o)' <= NumberOfPending(o)

LEMMA Pending ==
  ASSUME Packets, NEW o \in Object
  PROVE  NumberOfPending(o) \in Nat
BY DEF Packets, NumberOfPending

(* Where no packet moves there are not more. *)
LEMMA NoData ==
  ASSUME Packets, UNCHANGED data
  PROVE  Fewer
<1>1. \A o \in Object : NumberOfPending(o)' = NumberOfPending(o)
  BY DEF NumberOfPending, data
<1>2. \A o \in Object : NumberOfPending(o) \in Nat
  BY Pending
<1>3. \A n, m \in Nat : n = m => n <= m
  OBVIOUS
<1>4. QED
  BY <1>1, <1>2, <1>3 DEF Packets, Fewer, data

(* The packets of one object change.                                        *)
LEMMA DataOfOne ==
  ASSUME Packets, NEW p \in Object, NEW w \in Nat, NEW r \in Nat, NEW i \in Nat,
         packetsWaitingForReporting' = [packetsWaitingForReporting EXCEPT ![p] = w],
         reported' = [reported EXCEPT ![p] = r],
         injecting' = [injecting EXCEPT ![p] = i]
  PROVE  /\ packetsWaitingForReporting' \in [Object -> Nat]
         /\ reported' \in [Object -> Nat]
         /\ injecting' \in [Object -> Nat]
         /\ NumberOfPending(p)' = w + r + i
         /\ \A o \in Object \ {p} : NumberOfPending(o)' = NumberOfPending(o)
BY DEF Packets, NumberOfPending

(* A step on the packets of one object that adds none. *)
LEMMA FewerOfOne ==
  ASSUME Packets, NEW p \in Object, NEW w \in Nat, NEW r \in Nat, NEW i \in Nat,
         packetsWaitingForReporting' = [packetsWaitingForReporting EXCEPT ![p] = w],
         reported' = [reported EXCEPT ![p] = r],
         injecting' = [injecting EXCEPT ![p] = i],
         w + r + i <= NumberOfPending(p)
  PROVE  Fewer
<1>1. ASSUME NEW o \in Object PROVE NumberOfPending(o)' <= NumberOfPending(o)
  <2>1. CASE o = p
    BY <2>1 DEF Packets, NumberOfPending
  <2>2. CASE o # p
    BY <2>2 DEF Packets, NumberOfPending
  <2>3. QED
    BY <2>1, <2>2
<1>2. QED
  BY <1>1, DataOfOne DEF Fewer

(* Such a step keeps the layer, if the objects with packets stay            *)
(* attached.                                                                *)
LEMMA FewerKeep ==
  ASSUME SInv, PInv, Fewer, Gone',
         \A o \in Object : NumberOfPending(o) > 0 /\ Attached(o) => Attached(o)'
  PROVE  PInv'
<1>1. \A n, m, k \in Nat : m <= n /\ n <= k => m <= k
  OBVIOUS
<1>2. \A n, m \in Nat : m <= n /\ m > 0 => n > 0
  OBVIOUS
<1>3. \A o \in Object : NumberOfPending(o)' \in Nat /\ NumberOfPending(o) \in Nat
  BY DEF Fewer, PInv, Packets, NumberOfPending
<1>4. Packets'
  BY <1>1, <1>3, MaxAssumption DEF Fewer, PInv, Packets
<1>5. NoPacketOutlivesDetach'
  BY <1>2, <1>3 DEF Fewer, PInv, NoPacketOutlivesDetach
<1>6. QED
  BY <1>4, <1>5 DEF PInv

(* An object without packets has none after such a step. *)
LEMMA StaysEmpty ==
  ASSUME Packets, Fewer, NEW o \in Object, NumberOfPending(o) = 0, NEW a \in Address, obj'[a] = o
  PROVE  NumberOfPending(obj[a])' = 0
<1>1. /\ NumberOfPending(o)' <= 0
      /\ packetsWaitingForReporting'[o] \in Nat /\ reported'[o] \in Nat /\ injecting'[o] \in Nat
  BY DEF Fewer
<1>2. packetsWaitingForReporting'[o] + reported'[o] + injecting'[o] <= 0
  BY <1>1 DEF NumberOfPending
<1>3. packetsWaitingForReporting'[o] + reported'[o] + injecting'[o] = 0
  BY <1>1, <1>2
<1>4. QED
  BY <1>3 DEF NumberOfPending

(* A thread other than the kernel's for an address makes them fewer.        *)
LEMMA FewerElsewhere ==
  ASSUME SInv, PInv, Fewer, NEW t \in Thread \ Address, OthersStay(t), UNCHANGED missed
  PROVE  PInv'
<1>1. \A a \in Address : a \in Thread \ {t} /\ pc'[a] = pc[a] /\ obj'[a] = obj[a]
  BY DEF OthersStay, Thread
<1>2. Gone'
  <2>1. ASSUME NEW a \in Address, pc'[a] = "detached" PROVE NumberOfPending(obj[a])' = 0
    <3>1. pc[a] = "detached" /\ obj[a] \in Object /\ obj'[a] = obj[a]
      BY <1>1, <2>1, Busy DEF SInv, Idle
    <3>2. NumberOfPending(obj[a]) = 0
      BY <3>1 DEF PInv, Gone
    <3>3. QED
      BY <3>1, <3>2, StaysEmpty DEF PInv
  <2>2. QED
    BY <2>1 DEF Gone
<1>3. \A o \in Object : Attached(o) => Attached(o)'
  BY <1>1 DEF Attached
<1>4. QED
  BY <1>2, <1>3, FewerKeep

(* An event purges, reinjectDeferredData moves and injects, a report        *)
(* moves packets.                                                           *)
LEMMA CallFewer ==
  ASSUME SInv, PInv, NEW r \in Caller, Call(r)
  PROVE  Fewer
<1>1. r \in Thread
  BY DEF Thread
<1>2. CASE UNCHANGED data
  BY <1>2, NoData DEF PInv
<1>3. CASE PurgeInbound(r)
  <2> DEFINE o == obj[r]
  <2>1. o \in Object
    BY <1>1, <1>3, Busy DEF PurgeInbound, SInv, Idle
  <2>2. /\ packetsWaitingForReporting[o] \in Nat /\ reported[o] \in Nat /\ injecting[o] \in Nat
        /\ injecting = [injecting EXCEPT ![o] = injecting[o]]
    BY <2>1 DEF PInv, Packets
  <2>3. PICK w \in 0 .. packetsWaitingForReporting[o], m \in 0 .. reported[o] :
          /\ packetsWaitingForReporting' = [packetsWaitingForReporting EXCEPT ![o] = w]
          /\ reported' = [reported EXCEPT ![o] = m]
          /\ injecting' = injecting
    BY <1>3 DEF PurgeInbound
  <2>4. w \in Nat /\ m \in Nat /\ w + m + injecting[o] <= NumberOfPending(o)
    BY <2>2, <2>3 DEF NumberOfPending
  <2> HIDE DEF o
  <2>5. QED
    BY <2>1, <2>2, <2>3, <2>4, FewerOfOne DEF PInv
<1>4. QED
  BY <1>2, <1>3 DEF Call, FltNotify, AwaitCompletionOfEvent, ProcessServiceResponse

LEMMA ReinjectFewer ==
  ASSUME SInv, PInv, NEW r \in Injector, ReinjectDeferredData(r)
  PROVE  Fewer
<1> DEFINE o == obj[r]
<1>1. r \in Thread
  BY DEF Thread, Injector, Reporter
<1>2. CASE UNCHANGED data
  BY <1>2, NoData DEF PInv
<1>3. CASE CollectPackets(r) \/ Inject(r)
  <2>1. o \in Object
    BY <1>1, <1>3, Busy DEF CollectPackets, Inject, SInv, Idle
  <2>2. /\ packetsWaitingForReporting[o] \in Nat /\ reported[o] \in Nat /\ injecting[o] \in Nat
        /\ packetsWaitingForReporting =
             [packetsWaitingForReporting EXCEPT ![o] = packetsWaitingForReporting[o]]
        /\ reported = [reported EXCEPT ![o] = reported[o]]
    BY <2>1 DEF PInv, Packets
  <2>3. CASE CollectPackets(r)
    <3>1. PICK n \in 0 .. reported[o] :
            /\ reported' = [reported EXCEPT ![o] = reported[o] - n]
            /\ injecting' = [injecting EXCEPT ![o] = injecting[o] + n]
            /\ packetsWaitingForReporting' = packetsWaitingForReporting
      BY <2>3 DEF CollectPackets
    <3>2. /\ reported[o] - n \in Nat /\ injecting[o] + n \in Nat
          /\ packetsWaitingForReporting[o] + (reported[o] - n) + (injecting[o] + n) <= NumberOfPending(o)
      BY <2>2, <3>1 DEF NumberOfPending
    <3> HIDE DEF o
    <3>3. QED
      BY <2>1, <2>2, <3>1, <3>2, FewerOfOne DEF PInv
  <2>4. CASE Inject(r)
    <3>1. /\ injecting[o] > 0
          /\ injecting' = [injecting EXCEPT ![o] = injecting[o] - 1]
          /\ reported' = reported
          /\ packetsWaitingForReporting' = packetsWaitingForReporting
      BY <2>4 DEF Inject
    <3>2. /\ injecting[o] - 1 \in Nat
          /\ packetsWaitingForReporting[o] + reported[o] + (injecting[o] - 1) <= NumberOfPending(o)
      BY <2>2, <3>1 DEF NumberOfPending
    <3> HIDE DEF o
    <3>3. QED
      BY <2>1, <2>2, <3>1, <3>2, FewerOfOne DEF PInv
  <2>5. QED
    BY <1>3, <2>3, <2>4
<1>4. QED
  BY <1>2, <1>3 DEF ReinjectDeferredData, FinishInjection, ReleaseFound

LEMMA DeliverFewer ==
  ASSUME SInv, PInv, NEW t \in Reporter, Deliver(t)
  PROVE  Fewer
<1> DEFINE o == obj[t]
<1>1. CASE UNCHANGED data
  BY <1>1, NoData DEF PInv
<1>2. CASE ReportPackets(t)
  <2>1. o \in Object
    BY <1>2, Busy DEF ReportPackets, SInv, Idle, Thread
  <2>2. /\ packetsWaitingForReporting[o] \in Nat /\ reported[o] \in Nat /\ injecting[o] \in Nat
        /\ injecting = [injecting EXCEPT ![o] = injecting[o]]
    BY <2>1 DEF PInv, Packets
  <2>3. PICK n \in 0 .. packetsWaitingForReporting[o] :
          /\ packetsWaitingForReporting' =
               [packetsWaitingForReporting EXCEPT ![o] = packetsWaitingForReporting[o] - n]
          /\ reported' = [reported EXCEPT ![o] = reported[o] + n]
          /\ injecting' = injecting
    BY <1>2 DEF ReportPackets
  <2>4. /\ packetsWaitingForReporting[o] - n \in Nat /\ reported[o] + n \in Nat
        /\ (packetsWaitingForReporting[o] - n) + (reported[o] + n) + injecting[o] <= NumberOfPending(o)
    BY <2>2, <2>3 DEF NumberOfPending
  <2> HIDE DEF o
  <2>5. QED
    BY <2>1, <2>2, <2>3, <2>4, FewerOfOne DEF PInv
<1>3. QED
  BY <1>1, <1>2 DEF Deliver, DeliverWaitingNotifications, TakeFirst, Reinsert, ReleaseReported

(* FltDetach empties the queue, and the rest of the thread's steps leave it. *)
LEMMA DetachFewer ==
  ASSUME SInv, PInv, NEW a \in Address, FltDetach(a)
  PROVE  Fewer
<1> DEFINE o == obj[a]
<1>1. CASE UNCHANGED data
  BY <1>1, NoData DEF PInv
<1>2. CASE Purge(a)
  <2>1. o \in Object
    BY <1>2, Busy DEF Purge, EmptyQueue, SInv, Idle, Thread
  <2>2. /\ packetsWaitingForReporting[o] \in Nat /\ reported[o] \in Nat /\ injecting[o] \in Nat
        /\ injecting = [injecting EXCEPT ![o] = injecting[o]]
    BY <2>1 DEF PInv, Packets
  <2>3. /\ packetsWaitingForReporting' = [packetsWaitingForReporting EXCEPT ![o] = 0]
        /\ reported' = [reported EXCEPT ![o] = 0]
        /\ injecting' = injecting
    BY <1>2 DEF Purge, EmptyQueue
  <2>4. 0 + 0 + injecting[o] <= NumberOfPending(o) /\ 0 \in Nat
    BY <2>2 DEF NumberOfPending
  <2> HIDE DEF o
  <2>5. QED
    BY <2>1, <2>2, <2>3, <2>4, FewerOfOne DEF PInv
<1>3. QED
  BY <1>1, <1>2 DEF FltDetach, Detach, RemoveFromSocketsList, RemoveFromSocketsListToReport, ReleaseFromList,
    ReleaseFromListToReport, AwaitCompletion, ReleaseDetached, ReleaseOld

-----------------------------------------------------------------------------
(* The kernel's thread leaves an object only when it has no packets, or to  *)
(* the sockets whose detach callback is missed.                             *)
LEMMA FewerAtAddress ==
  ASSUME SInv, PInv, Fewer, NEW a \in Address, OthersStay(a),
         pc'[a] = "detached" =>
           pc[a] \notin Idle /\ obj'[a] = obj[a] /\ NumberOfPending(obj[a]) = 0,
         obj[a] # NoObject => \/ obj'[a] = obj[a]
                              \/ obj[a] \in missed'
                              \/ NumberOfPending(obj[a]) = 0,
         \A o \in missed : o \in missed' \/ NumberOfPending(o) = 0
  PROVE  PInv'
<1>1. \A b \in Address \ {a} : b \in Thread \ {a} /\ pc'[b] = pc[b] /\ obj'[b] = obj[b]
  BY DEF OthersStay, Thread
<1>2. Gone'
  <2>1. ASSUME NEW b \in Address, pc'[b] = "detached" PROVE NumberOfPending(obj[b])' = 0
    <3>1. b \in Thread /\ pc[b] \notin Idle /\ obj'[b] = obj[b] /\ NumberOfPending(obj[b]) = 0
      <4>1. CASE b = a
        BY <2>1, <4>1 DEF Thread
      <4>2. CASE b # a
        BY <1>1, <2>1, <4>2 DEF PInv, Gone, Idle
      <4>3. QED
        BY <4>1, <4>2
    <3>2. obj[b] \in Object
      BY <3>1, Busy DEF SInv
    <3>3. QED
      BY <3>1, <3>2, StaysEmpty DEF PInv
  <2>2. QED
    BY <2>1 DEF Gone
<1>3. ASSUME NEW o \in Object, NumberOfPending(o) > 0, Attached(o) PROVE Attached(o)'
  <2>1. NumberOfPending(o) # 0
    <3>1. 0 \in Nat /\ ~ (0 > 0)
      OBVIOUS
    <3>2. QED
      BY <1>3, <3>1
  <2>2. CASE o \in missed
    BY <2>1, <2>2 DEF Attached
  <2>3. ASSUME NEW b \in Address, obj[b] = o PROVE Attached(o)'
    <3>1. CASE b = a
      <4>1. o # NoObject
        BY DEF Object, NoObject
      <4>2. obj'[a] = o \/ o \in missed'
        BY <2>1, <2>3, <3>1, <4>1
      <4>3. QED
        BY <4>2 DEF Attached
    <3>2. CASE b # a
      BY <1>1, <2>3, <3>2 DEF Attached
    <3>3. QED
      BY <3>1, <3>2
  <2>4. QED
    BY <1>3, <2>2, <2>3 DEF Attached
<1>4. QED
  BY <1>2, <1>3, FewerKeep

(* A new object has no packets; the one left at the address keeps its       *)
(* own.                                                                     *)
LEMMA FltAttachPackets ==
  ASSUME SInv, PInv, NEW a \in Address, FltAttach(a)
  PROVE  PInv'
<1>1. a \in Thread /\ Fewer /\ UNCHANGED missed
  BY NoData DEF Thread, PInv, FltAttach, Attach, Create, InsertInSocketsList, ReleaseCreated, locals
<1>2. CASE Attach(a)
  BY <1>1, <1>2, Busy, FewerAtAddress DEF Attach, SInv, Shape, Goto, OthersStay, Idle
<1>3. CASE Create(a)
  BY <1>1, <1>3, Busy, FewerAtAddress DEF Create, SInv, Shape, Goto, OthersStay, Idle
<1>4. CASE InsertInSocketsList(a) \/ ReleaseCreated(a)
  BY <1>1, <1>4, FewerAtAddress DEF InsertInSocketsList, ReleaseCreated, SInv, Shape, Goto, OthersStay
<1>5. QED
  BY <1>2, <1>3, <1>4 DEF FltAttach

(* An object whose detach callback is missed keeps its packets. *)
LEMMA ClosePackets ==
  ASSUME SInv, PInv, NEW a \in Address, CloseSocket(a) \/ MissDetach(a)
  PROVE  PInv'
<1>1. a \in Thread /\ Fewer
  BY NoData DEF Thread, PInv, CloseSocket, MissDetach
<1>2. CASE CloseSocket(a)
  BY <1>1, <1>2, FewerAtAddress DEF CloseSocket, SInv, Shape, Goto, OthersStay, locals
<1>3. CASE MissDetach(a)
  BY <1>1, <1>3, FewerAtAddress DEF MissDetach, SInv, Shape, Goto, OthersStay
<1>4. QED
  BY <1>2, <1>3

(* The purge leaves the packets in injection, which AwaitCompletion waits   *)
(* for.                                                                     *)
LEMMA FltDetachPackets ==
  ASSUME SInv, PInv, NEW a \in Address, FltDetach(a)
  PROVE  PInv'
<1>1. a \in Thread /\ Fewer
  BY DetachFewer DEF Thread
<1>2. CASE AwaitCompletion(a)
  BY <1>1, <1>2, FewerAtAddress DEF AwaitCompletion, InjectionCompleted, SInv, Shape, Goto, OthersStay, Idle,
    locals
<1>3. CASE ReleaseDetached(a)
  <2>1. NumberOfPending(obj[a]) = 0
    BY <1>3 DEF ReleaseDetached, PInv, Gone
  <2>2. /\ missed' = missed \ {obj[a]} /\ pc'[a] \in {"closed", "releaseOld"} /\ OthersStay(a)
    BY <1>1, <1>3 DEF ReleaseDetached, SInv, Shape, Goto, OthersStay
  <2>3. \A o \in missed : o \in missed' \/ NumberOfPending(o) = 0
    BY <2>1, <2>2
  <2>4. QED
    BY <1>1, <2>1, <2>2, <2>3, FewerAtAddress
<1>4. CASE \/ Detach(a) \/ RemoveFromSocketsList(a) \/ RemoveFromSocketsListToReport(a)
           \/ ReleaseFromList(a) \/ ReleaseFromListToReport(a) \/ Purge(a) \/ ReleaseOld(a)
  <2>1. UNCHANGED <<obj, missed>>
    BY <1>4 DEF Detach, RemoveFromSocketsList, RemoveFromSocketsListToReport, ReleaseFromList,
      ReleaseFromListToReport, Purge, EmptyQueue, ReleaseOld, locals
  <2>2. PICK l \in Label \ {"detached"} : Goto(a, l)
    BY <1>4 DEF Detach, RemoveFromSocketsList, RemoveFromSocketsListToReport, ReleaseFromList,
      ReleaseFromListToReport, Purge, EmptyQueue, ReleaseOld, Label
  <2>3. OthersStay(a) /\ pc'[a] # "detached"
    BY <1>1, <2>1, <2>2 DEF SInv, Shape, Goto, OthersStay
  <2>4. QED
    BY <1>1, <2>1, <2>3, FewerAtAddress
<1>5. QED
  BY <1>2, <1>3, <1>4 DEF FltDetach

(* An attached socket defers one packet more. *)
LEMMA FltDataPackets ==
  ASSUME SInv, PInv, NEW a \in Address, FltData(a)
  PROVE  PInv'
<1> DEFINE o == obj[a]
<1>1. /\ a \in Thread /\ pc[a] = "attached" /\ o \in Object /\ o # NoObject
      /\ NumberOfPending(o) < MaxPending /\ UNCHANGED <<pc, obj, missed>>
  BY Busy DEF Thread, FltData, Report, ReportLater, locals, SInv, Idle, Object, NoObject
<1>2. /\ packetsWaitingForReporting[o] \in Nat /\ reported[o] \in Nat /\ injecting[o] \in Nat
      /\ packetsWaitingForReporting = [packetsWaitingForReporting EXCEPT ![o] = packetsWaitingForReporting[o]]
      /\ reported = [reported EXCEPT ![o] = reported[o]]
      /\ injecting = [injecting EXCEPT ![o] = injecting[o]]
  BY <1>1 DEF PInv, Packets
<1>3. \E w, r, i \in Nat :
        /\ packetsWaitingForReporting' = [packetsWaitingForReporting EXCEPT ![o] = w]
        /\ reported' = [reported EXCEPT ![o] = r]
        /\ injecting' = [injecting EXCEPT ![o] = i]
        /\ w + r + i <= MaxPending
  <2>1. CASE Report(a)
    <3>1. /\ packetsWaitingForReporting' = packetsWaitingForReporting /\ injecting' = injecting
          /\ reported' = [reported EXCEPT ![o] = reported[o] + 1]
      BY <2>1 DEF Report
    <3>2. reported[o] + 1 \in Nat /\ packetsWaitingForReporting[o] + (reported[o] + 1) + injecting[o] <= MaxPending
      BY <1>1, <1>2, MaxAssumption DEF NumberOfPending
    <3> HIDE DEF o
    <3>3. QED
      BY <1>2, <3>1, <3>2
  <2>2. CASE ReportLater(a)
    <3>1. /\ reported' = reported /\ injecting' = injecting
          /\ packetsWaitingForReporting' =
               [packetsWaitingForReporting EXCEPT ![o] = packetsWaitingForReporting[o] + 1]
      BY <2>2 DEF ReportLater
    <3>2. /\ packetsWaitingForReporting[o] + 1 \in Nat
          /\ (packetsWaitingForReporting[o] + 1) + reported[o] + injecting[o] <= MaxPending
      BY <1>1, <1>2, MaxAssumption DEF NumberOfPending
    <3> HIDE DEF o
    <3>3. QED
      BY <1>2, <3>1, <3>2
  <2>3. QED
    BY <2>1, <2>2 DEF FltData
<1>4. PICK w, r, i \in Nat :
        /\ packetsWaitingForReporting' = [packetsWaitingForReporting EXCEPT ![o] = w]
        /\ reported' = [reported EXCEPT ![o] = r]
        /\ injecting' = [injecting EXCEPT ![o] = i]
        /\ w + r + i <= MaxPending
  BY <1>3
<1>5. PICK p \in Object : p = o
  BY <1>1
<1> HIDE DEF o
<1>6. /\ packetsWaitingForReporting' \in [Object -> Nat]
      /\ reported' \in [Object -> Nat]
      /\ injecting' \in [Object -> Nat]
  BY <1>4 DEF PInv, Packets
<1>7. ASSUME NEW q \in Object PROVE NumberOfPending(q)' <= MaxPending
  BY <1>4, <1>5, <1>7 DEF PInv, Packets, NumberOfPending
<1>8. Packets'
  BY <1>6, <1>7 DEF Packets
<1>9. ASSUME NEW b \in Address, pc'[b] = "detached" PROVE NumberOfPending(obj[b])' = 0
  <2>1. pc[b] = "detached" /\ NumberOfPending(obj[b]) = 0 /\ b # a /\ obj'[b] = obj[b]
    BY <1>1, <1>9 DEF PInv, Gone
  <2>2. obj[b] \in Object /\ obj[b] # NoObject
    BY <2>1, Busy DEF SInv, Thread, Idle, Object, NoObject
  <2>3. obj[b] # p
    BY <1>1, <1>5, <2>1, <2>2 DEF SInv, Lists, OfAddress, o
  <2>4. QED
    BY <1>4, <1>5, <2>1, <2>2, <2>3 DEF PInv, Packets, NumberOfPending
<1>10. Attached(p)'
  BY <1>1, <1>5 DEF Attached, o
<1>11. ASSUME NEW q \in Object, NumberOfPending(q)' > 0 PROVE Attached(q)'
  <2>1. CASE q = p
    BY <1>1, <1>5, <2>1 DEF Attached, o
  <2>2. CASE q # p
    <3>1. NumberOfPending(q) > 0
      BY <1>4, <1>5, <1>11, <2>2 DEF PInv, Packets, NumberOfPending
    <3>2. QED
      BY <1>1, <3>1 DEF PInv, NoPacketOutlivesDetach, Attached
  <2>3. QED
    BY <2>1, <2>2
<1>12. QED
  BY <1>8, <1>9, <1>11 DEF PInv, Gone, NoPacketOutlivesDetach

(* At the start there is no packet. *)
LEMMA InitPInv == Init => PInv
BY MaxAssumption DEF Init, PInv, Packets, Gone, NoPacketOutlivesDetach, NumberOfPending, Thread

(***************************************************************************)
(* Every step keeps the second layer.                                       *)
(***************************************************************************)
LEMMA NextPInv ==
  ASSUME SInv, PInv, [Next]_vars
  PROVE  PInv'
<1>1. Shape
  BY DEF SInv
<1>2. ASSUME NEW a \in Address, Kernel(a) PROVE PInv'
  BY <1>2, FltAttachPackets, FltDataPackets, ClosePackets, FltDetachPackets DEF Kernel
<1>3. ASSUME NEW r \in Caller, Call(r) PROVE PInv'
  <2>1. UNCHANGED missed /\ r \in Thread \ Address
    BY <1>3, ThreadAssumption DEF Call, FltNotify, PurgeInbound, AwaitCompletionOfEvent,
      ProcessServiceResponse, locals, Thread
  <2>2. QED
    BY <1>1, <1>3, <2>1, CallFewer, CallAlone, FewerElsewhere
<1>4. ASSUME NEW r \in Injector, ReinjectDeferredData(r) PROVE PInv'
  <2>1. UNCHANGED missed /\ r \in Thread \ Address
    BY <1>4, ThreadAssumption DEF ReinjectDeferredData, CollectPackets, Inject, FinishInjection, ReleaseFound,
      locals, Thread, Injector, Reporter
  <2>2. QED
    BY <1>1, <1>4, <2>1, ReinjectFewer, ReinjectAlone, FewerElsewhere
<1>5. ASSUME NEW t \in Reporter, Deliver(t) PROVE PInv'
  <2>1. UNCHANGED missed /\ t \in Thread \ Address
    BY <1>5, ThreadAssumption DEF Deliver, DeliverWaitingNotifications, TakeFirst, ReportPackets, Reinsert,
      ReleaseReported, locals, Thread, Reporter
  <2>2. QED
    BY <1>1, <1>5, <2>1, DeliverFewer, DeliverAlone, FewerElsewhere
<1>6. ASSUME InjectionThreadRoutine PROVE PInv'
  <2>1. UNCHANGED <<data, missed>> /\ InjectionThread \in Thread \ Address
    BY <1>6, ThreadAssumption DEF InjectionThreadRoutine, CollectSockets, NextSocket, EndOfRound, locals,
      Thread, Reporter
  <2>2. QED
    BY <1>1, <1>6, <2>1, NoData, CollectAlone, FewerElsewhere DEF PInv
<1>7. CASE UNCHANGED vars
  <2>1. UNCHANGED <<packetsWaitingForReporting, reported, injecting, missed, pc, obj>>
    BY <1>7 DEF vars, data, locals
  <2>2. QED
    BY <2>1 DEF PInv, Packets, Gone, NoPacketOutlivesDetach, NumberOfPending, Attached
<1>8. QED
  BY <1>2, <1>3, <1>4, <1>5, <1>6, <1>7 DEF Next

-----------------------------------------------------------------------------
(* The count follows the tokens: a step adds one, drops one or puts one in  *)
(* the place of another.                                                    *)
LEMMA SameTokens ==
  ASSUME Counted, UNCHANGED retainCount, \A o \in Object : Tokens(o)' = Tokens(o)
  PROVE  Counted'
BY DEF Counted

(* Two sets that differ in at most one element. *)
LEMMA SameBut ==
  ASSUME NEW S, NEW T, NEW x, T \ {x} = S \ {x}
  PROVE  /\ (x \in S <=> x \in T) => T = S
         /\ x \notin S /\ x \in T => T = S \cup {x}
         /\ x \in S /\ x \notin T => T = S \ {x}
<1>1. CASE x \in S
  BY <1>1
<1>2. CASE x \notin S
  BY <1>2
<1>3. QED
  BY <1>1, <1>2

LEMMA OneToken ==
  ASSUME NEW S, NEW T, NEW x, IsFiniteSet(S), T \ {x} = S \ {x}
  PROVE  /\ IsFiniteSet(T)
         /\ x \notin S /\ x \in T => Cardinality(T) = Cardinality(S) + 1
         /\ x \in S /\ x \notin T => Cardinality(T) = Cardinality(S) - 1
<1>1. IsFiniteSet(S \ {x}) /\ Cardinality(S \ {x}) = IF x \in S THEN Cardinality(S) - 1 ELSE Cardinality(S)
  BY FS_RemoveElement
<1>2. CASE x \in T
  <2>1. T = (S \ {x}) \cup {x}
    BY <1>2
  <2>2. IsFiniteSet(T) /\ Cardinality(T) = Cardinality(S \ {x}) + 1
    BY <1>1, <2>1, FS_AddElement
  <2>3. QED
    BY <1>1, <1>2, <2>2
<1>3. CASE x \notin T
  <2>1. T = S \ {x}
    BY <1>3
  <2>2. QED
    BY <1>1, <1>3, <2>1
<1>4. QED
  BY <1>2, <1>3

(* A token in the place of another. *)
LEMMA TwoTokens ==
  ASSUME NEW S, NEW T, NEW x, NEW y, IsFiniteSet(S), x \in S, y \notin S, T = (S \ {x}) \cup {y}
  PROVE  IsFiniteSet(T) /\ Cardinality(T) = Cardinality(S)
<1>1. IsFiniteSet(S \ {x}) /\ Cardinality(S \ {x}) = Cardinality(S) - 1 /\ y \notin S \ {x}
  BY FS_RemoveElement
<1>2. IsFiniteSet(T) /\ Cardinality(T) = Cardinality(S \ {x}) + 1
  BY <1>1, FS_AddElement
<1>3. Cardinality(S) \in Nat
  BY FS_CardinalityType
<1>4. QED
  BY <1>1, <1>2, <1>3

(* A reference is taken: one token, one count. *)
LEMMA TokenAdded ==
  ASSUME Counted, NEW p \in Object, NEW x, retainCount' = [retainCount EXCEPT ![p] = retainCount[p] + 1],
         x \notin Tokens(p), Tokens(p)' = Tokens(p) \cup {x},
         \A o \in Object \ {p} : Tokens(o)' = Tokens(o)
  PROVE  Counted'
<1>1. IsFiniteSet(Tokens(p)') /\ Cardinality(Tokens(p)') = Cardinality(Tokens(p)) + 1
  BY OneToken DEF Counted
<1>2. retainCount' \in [Object -> Int] /\ retainCount'[p] = Cardinality(Tokens(p)')
  BY <1>1 DEF Counted
<1>3. ASSUME NEW o \in Object PROVE IsFiniteSet(Tokens(o)') /\ retainCount'[o] = Cardinality(Tokens(o)')
  <2>1. CASE o = p
    BY <1>1, <1>2, <2>1
  <2>2. CASE o # p
    BY <2>2 DEF Counted
  <2>3. QED
    BY <2>1, <2>2
<1>4. QED
  BY <1>2, <1>3 DEF Counted

(* A reference is released. *)
LEMMA TokenDropped ==
  ASSUME Counted, NEW p \in Object, NEW x, retainCount' = [retainCount EXCEPT ![p] = retainCount[p] - 1],
         x \in Tokens(p), Tokens(p)' = Tokens(p) \ {x},
         \A o \in Object \ {p} : Tokens(o)' = Tokens(o)
  PROVE  Counted'
<1>1. IsFiniteSet(Tokens(p)') /\ Cardinality(Tokens(p)') = Cardinality(Tokens(p)) - 1
  BY OneToken DEF Counted
<1>2. retainCount' \in [Object -> Int] /\ retainCount'[p] = Cardinality(Tokens(p)')
  BY <1>1 DEF Counted
<1>3. ASSUME NEW o \in Object PROVE IsFiniteSet(Tokens(o)') /\ retainCount'[o] = Cardinality(Tokens(o)')
  <2>1. CASE o = p
    BY <1>1, <1>2, <2>1
  <2>2. CASE o # p
    BY <2>2 DEF Counted
  <2>3. QED
    BY <2>1, <2>2
<1>4. QED
  BY <1>2, <1>3 DEF Counted

(* A reference goes from one place to another, without retain or release. *)
LEMMA TokenMoved ==
  ASSUME Counted, UNCHANGED retainCount, NEW p \in Object, NEW x, NEW y,
         x \in Tokens(p), y \notin Tokens(p), Tokens(p)' = (Tokens(p) \ {x}) \cup {y},
         \A o \in Object \ {p} : Tokens(o)' = Tokens(o)
  PROVE  Counted'
<1>1. IsFiniteSet(Tokens(p)') /\ Cardinality(Tokens(p)') = Cardinality(Tokens(p))
  BY TwoTokens DEF Counted
<1>2. ASSUME NEW o \in Object PROVE IsFiniteSet(Tokens(o)') /\ retainCount'[o] = Cardinality(Tokens(o)')
  <2>1. CASE o = p
    BY <1>1, <2>1 DEF Counted
  <2>2. CASE o # p
    BY <2>2 DEF Counted
  <2>3. QED
    BY <2>1, <2>2
<1>3. QED
  BY <1>2 DEF Counted

-----------------------------------------------------------------------------
(* What the tokens of each kind depend on. *)
LEMMA SameParts ==
  ASSUME NEW o
  PROVE  /\ UNCHANGED SocketsList => OfSocketsList(o)' = OfSocketsList(o)
         /\ UNCHANGED localSocketsList => OfLocalList(o)' = OfLocalList(o)
         /\ UNCHANGED SocketsListToReport => OfReportList(o)' = OfReportList(o)
         /\ UNCHANGED oldObj => OfAttach(o)' = OfAttach(o)
         /\ UNCHANGED <<obj, wasInList>> => OfRemoval(o)' = OfRemoval(o)
         /\ UNCHANGED <<obj, wasInReport>> => OfReportRemoval(o)' = OfReportRemoval(o)
BY DEF OfSocketsList, OfLocalList, OfReportList, InReport, OfAttach, OfRemoval, OfReportRemoval

(* A token tells by its kind where it is. *)
LEMMA Kinds ==
  ASSUME NEW o, NEW t
  PROVE  /\ <<"SocketsList", o>> \in Tokens(o) <=> o \in SocketsList
         /\ <<"localSocketsList", o>> \in Tokens(o) <=> o \in localSocketsList
         /\ <<"SocketsListToReport", o>> \in Tokens(o) <=> InReport(o)
         /\ <<"obj", t>> \in Tokens(o) <=> t \in Thread /\ obj[t] = o /\ Owns(t)
         /\ <<"oldObj", t>> \in Tokens(o) <=> t \in Address /\ oldObj[t] = o
         /\ <<"wasInList", t>> \in Tokens(o) <=> t \in Address /\ obj[t] = o /\ wasInList[t]
         /\ <<"wasInReport", t>> \in Tokens(o) <=> t \in Address /\ obj[t] = o /\ wasInReport[t]
<1>1. <<"SocketsList", o>> \in Tokens(o) <=> o \in SocketsList
  BY DEF Tokens, OfSocketsList, OfLocalList, OfReportList, OfThreads, OfAttach, OfRemoval, OfReportRemoval
<1>2. <<"localSocketsList", o>> \in Tokens(o) <=> o \in localSocketsList
  BY DEF Tokens, OfSocketsList, OfLocalList, OfReportList, OfThreads, OfAttach, OfRemoval, OfReportRemoval
<1>3. <<"SocketsListToReport", o>> \in Tokens(o) <=> InReport(o)
  BY DEF Tokens, OfSocketsList, OfLocalList, OfReportList, OfThreads, OfAttach, OfRemoval, OfReportRemoval
<1>4. <<"obj", t>> \in Tokens(o) <=> t \in Thread /\ obj[t] = o /\ Owns(t)
  BY DEF Tokens, OfSocketsList, OfLocalList, OfReportList, OfThreads, OfAttach, OfRemoval, OfReportRemoval
<1>5. <<"oldObj", t>> \in Tokens(o) <=> t \in Address /\ oldObj[t] = o
  BY DEF Tokens, OfSocketsList, OfLocalList, OfReportList, OfThreads, OfAttach, OfRemoval, OfReportRemoval
<1>6. <<"wasInList", t>> \in Tokens(o) <=> t \in Address /\ obj[t] = o /\ wasInList[t]
  BY DEF Tokens, OfSocketsList, OfLocalList, OfReportList, OfThreads, OfAttach, OfRemoval, OfReportRemoval
<1>7. <<"wasInReport", t>> \in Tokens(o) <=> t \in Address /\ obj[t] = o /\ wasInReport[t]
  BY DEF Tokens, OfSocketsList, OfLocalList, OfReportList, OfThreads, OfAttach, OfRemoval, OfReportRemoval
<1>8. QED
  BY <1>1, <1>2, <1>3, <1>4, <1>5, <1>6, <1>7

(* The same after a step, for the token of a thread. *)
LEMMA NextThreadToken ==
  ASSUME NEW o, NEW t
  PROVE  <<"obj", t>> \in Tokens(o)' <=> t \in Thread /\ obj'[t] = o /\ Owns(t)'
BY DEF Tokens, OfSocketsList, OfLocalList, OfReportList, OfThreads, OfAttach, OfRemoval, OfReportRemoval

(* A step of one thread with nothing but its object. *)
Untouched == UNCHANGED <<SocketsList, localSocketsList, SocketsListToReport, oldObj, wasInList, wasInReport>>

NotRemoving(t) == t \in Address => ~ wasInList[t] /\ ~ wasInReport[t]

(* Such a step touches no token but that of the thread. *)
LEMMA ThreadToken ==
  ASSUME Untouched, NEW t \in Thread, OthersStay(t), obj'[t] = obj[t] \/ NotRemoving(t), NEW o
  PROVE  Tokens(o)' \ {<<"obj", t>>} = Tokens(o) \ {<<"obj", t>>}
<1>1. /\ OfSocketsList(o)' = OfSocketsList(o) /\ OfLocalList(o)' = OfLocalList(o)
      /\ OfReportList(o)' = OfReportList(o) /\ OfAttach(o)' = OfAttach(o)
  BY SameParts DEF Untouched
<1>2. OfRemoval(o)' = OfRemoval(o)
  BY DEF OfRemoval, Untouched, OthersStay, NotRemoving, Thread
<1>3. OfReportRemoval(o)' = OfReportRemoval(o)
  BY DEF OfReportRemoval, Untouched, OthersStay, NotRemoving, Thread
<1>4. OfThreads(o)' \ {<<"obj", t>>} = OfThreads(o) \ {<<"obj", t>>}
  BY DEF OfThreads, OthersStay, Owns
<1>5. QED
  BY <1>1, <1>2, <1>3, <1>4 DEF Tokens

(* The thread keeps what it has, ... *)
LEMMA ThreadKeeps ==
  ASSUME Counted, UNCHANGED retainCount, Untouched, NEW t \in Thread, OthersStay(t),
         obj'[t] = obj[t] \/ NotRemoving(t),
         \A o \in Object : (obj[t] = o /\ Owns(t)) <=> (obj[t] = o /\ Owns(t))'
  PROVE  Counted'
<1>1. ASSUME NEW o \in Object PROVE Tokens(o)' = Tokens(o)
  <2>1. Tokens(o)' \ {<<"obj", t>>} = Tokens(o) \ {<<"obj", t>>}
    BY ThreadToken
  <2>2. (obj[t] = o /\ Owns(t)) <=> (obj'[t] = o /\ Owns(t)')
    OBVIOUS
  <2>3. <<"obj", t>> \in Tokens(o) <=> obj[t] = o /\ Owns(t)
    BY Kinds
  <2>4. <<"obj", t>> \in Tokens(o)' <=> obj'[t] = o /\ Owns(t)'
    BY NextThreadToken
  <2>5. QED
    BY <2>1, <2>2, <2>3, <2>4, SameBut
<1>2. QED
  BY <1>1, SameTokens

(* ... retains an object, ... *)
LEMMA ThreadGains ==
  ASSUME Counted, Untouched, NEW t \in Thread, OthersStay(t), obj'[t] = obj[t] \/ NotRemoving(t),
         NEW p \in Object, retainCount' = [retainCount EXCEPT ![p] = retainCount[p] + 1],
         obj[t] = NoObject \/ ~ Owns(t), obj'[t] = p, Owns(t)'
  PROVE  Counted'
<1>1. ASSUME NEW o \in Object
      PROVE  <<"obj", t>> \notin Tokens(o) /\ (<<"obj", t>> \in Tokens(o)' <=> o = p)
  <2>1. <<"obj", t>> \notin Tokens(o)
    <3>1. o # NoObject
      BY DEF Object, NoObject
    <3>2. QED
      BY <3>1, Kinds
  <2>2. <<"obj", t>> \in Tokens(o)' <=> o = p
    BY NextThreadToken
  <2>3. QED
    BY <2>1, <2>2
<1>2. Tokens(p)' = Tokens(p) \cup {<<"obj", t>>} /\ <<"obj", t>> \notin Tokens(p)
  <2>1. Tokens(p)' \ {<<"obj", t>>} = Tokens(p) \ {<<"obj", t>>}
    BY ThreadToken
  <2>2. QED
    BY <1>1, <2>1, SameBut
<1>3. ASSUME NEW o \in Object \ {p} PROVE Tokens(o)' = Tokens(o)
  <2>1. Tokens(o)' \ {<<"obj", t>>} = Tokens(o) \ {<<"obj", t>>}
    BY ThreadToken
  <2>2. QED
    BY <1>1, <2>1, SameBut
<1>4. QED
  BY <1>2, <1>3, TokenAdded

(* ... or releases the one it had. *)
LEMMA ThreadLoses ==
  ASSUME Counted, Untouched, NEW t \in Thread, OthersStay(t), obj'[t] = obj[t] \/ NotRemoving(t),
         NEW p \in Object, retainCount' = [retainCount EXCEPT ![p] = retainCount[p] - 1],
         obj[t] = p, Owns(t), obj'[t] = NoObject \/ ~ Owns(t)'
  PROVE  Counted'
<1>1. ASSUME NEW o \in Object
      PROVE  <<"obj", t>> \notin Tokens(o)' /\ (<<"obj", t>> \in Tokens(o) <=> o = p)
  <2>1. <<"obj", t>> \notin Tokens(o)'
    BY NextThreadToken DEF Object, NoObject
  <2>2. <<"obj", t>> \in Tokens(o) <=> o = p
    BY Kinds
  <2>3. QED
    BY <2>1, <2>2
<1>2. Tokens(p)' = Tokens(p) \ {<<"obj", t>>} /\ <<"obj", t>> \in Tokens(p)
  <2>1. Tokens(p)' \ {<<"obj", t>>} = Tokens(p) \ {<<"obj", t>>}
    BY ThreadToken
  <2>2. QED
    BY <1>1, <2>1, SameBut
<1>3. ASSUME NEW o \in Object \ {p} PROVE Tokens(o)' = Tokens(o)
  <2>1. Tokens(o)' \ {<<"obj", t>>} = Tokens(o) \ {<<"obj", t>>}
    BY ThreadToken
  <2>2. QED
    BY <1>1, <2>1, SameBut
<1>4. QED
  BY <1>2, <1>3, TokenDropped

-----------------------------------------------------------------------------
(* The steps of the kernel's thread. *)
Owned == Label \ {"attached", "detach"}

(* At attached and detach the kernel's thread has no reference of its       *)
(* own.                                                                     *)
LEMMA OwnsAt ==
  ASSUME Shape, NEW t \in Thread
  PROVE  /\ t \notin Address => Owns(t) /\ Owns(t)'
         /\ pc[t] \in Owned => Owns(t)
         /\ pc'[t] \in Owned => Owns(t)'
         /\ t \in Address /\ pc[t] \in {"attached", "detach"} => ~ Owns(t)
         /\ t \in Address /\ pc'[t] \in {"attached", "detach"} => ~ Owns(t)'
BY DEF Owns, Owned

(* The tokens of the threads are the same if that of the one that moved     *)
(* is.                                                                      *)
LEMMA SameThreads ==
  ASSUME NEW t \in Thread, OthersStay(t), NEW o,
         (obj[t] = o /\ Owns(t)) <=> (obj'[t] = o /\ Owns(t)')
  PROVE  OfThreads(o)' = OfThreads(o)
<1>1. \A u \in Thread \ {t} : obj'[u] = obj[u] /\ (Owns(u)' <=> Owns(u))
  BY DEF OthersStay, Owns
<1>2. \A u \in Thread : (obj'[u] = o /\ Owns(u)') <=> (obj[u] = o /\ Owns(u))
  BY <1>1
<1>3. QED
  BY <1>2 DEF OfThreads

(* The same for those of removeFromSocketsList. *)
LEMMA SameRemovals ==
  ASSUME NEW t \in Thread, OthersStay(t), obj'[t] = obj[t] \/ NotRemoving(t), NEW o
  PROVE  /\ UNCHANGED wasInList => OfRemoval(o)' = OfRemoval(o)
         /\ UNCHANGED wasInReport => OfReportRemoval(o)' = OfReportRemoval(o)
BY DEF OfRemoval, OfReportRemoval, OthersStay, NotRemoving, Thread

(* FltAttach retains what it finds, and the list what it makes. *)
LEMMA FltAttachCounts ==
  ASSUME SInv, Counted, NEW a \in Address, FltAttach(a)
  PROVE  Counted'
<1>1. a \in Thread /\ Shape
  BY DEF Thread, SInv
<1>2. CASE Attach(a)
  <2>1. /\ pc[a] = "closed" /\ obj[a] = NoObject /\ OthersStay(a) /\ NotRemoving(a) /\ oldObj[a] = NoObject
        /\ UNCHANGED <<SocketsList, localSocketsList, SocketsListToReport, wasInList, wasInReport>>
    BY <1>1, <1>2, Busy DEF Attach, SInv, Shape, Goto, OthersStay, Idle, Locals, NotRemoving, Detaching
  <2>2. CASE UNCHANGED <<retainCount, obj, oldObj>>
    <3>1. \A o \in Object : obj'[a] # o /\ obj[a] # o
      BY <2>1, <2>2 DEF Object, NoObject
    <3>2. QED
      BY <1>1, <2>1, <2>2, <3>1, ThreadKeeps DEF Untouched
  <2>3. ASSUME NEW p \in LeftAtAddress(a), oldObj' = [oldObj EXCEPT ![a] = p],
               obj' = [obj EXCEPT ![a] = p], Retain(p), Goto(a, "detach")
        PROVE  Counted'
    <3>1. p \in Object
      BY DEF LeftAtAddress, AtAddress, SInv, Shape
    <3>2. pc'[a] = "detach" /\ ~ Owns(a)' /\ oldObj'[a] = p
          /\ \A b \in Address \ {a} : oldObj'[b] = oldObj[b]
      BY <1>1, <2>3, OwnsAt DEF SInv, Shape, Goto
    <3>3. ASSUME NEW o \in Object
          PROVE  /\ OfSocketsList(o)' = OfSocketsList(o) /\ OfLocalList(o)' = OfLocalList(o)
                 /\ OfReportList(o)' = OfReportList(o) /\ OfThreads(o)' = OfThreads(o)
                 /\ OfRemoval(o)' = OfRemoval(o) /\ OfReportRemoval(o)' = OfReportRemoval(o)
      <4>1. obj[a] # o
        BY <2>1 DEF Object, NoObject
      <4>2. OfThreads(o)' = OfThreads(o)
        BY <1>1, <2>1, <3>2, <4>1, SameThreads
      <4>3. OfRemoval(o)' = OfRemoval(o) /\ OfReportRemoval(o)' = OfReportRemoval(o)
        BY <1>1, <2>1, SameRemovals
      <4>4. QED
        BY <2>1, <4>2, <4>3, SameParts
    <3>4. OfAttach(p)' = OfAttach(p) \cup {<<"oldObj", a>>}
      BY <3>2 DEF OfAttach
    <3>5. <<"oldObj", a>> \notin Tokens(p)
      <4>1. p # NoObject
        BY <3>1 DEF Object, NoObject
      <4>2. QED
        BY <2>1, <4>1, Kinds
    <3>6. Tokens(p)' = Tokens(p) \cup {<<"oldObj", a>>}
      BY <3>1, <3>3, <3>4 DEF Tokens
    <3>7. ASSUME NEW o \in Object \ {p} PROVE Tokens(o)' = Tokens(o)
      <4>1. OfAttach(o)' = OfAttach(o)
        <5>1. o # NoObject
          BY DEF Object, NoObject
        <5>2. QED
          BY <2>1, <3>2, <5>1 DEF OfAttach
      <4>2. QED
        BY <3>3, <4>1 DEF Tokens
    <3>8. QED
      BY <2>3, <3>1, <3>5, <3>6, <3>7, TokenAdded DEF Retain
  <2>4. QED
    BY <1>2, <2>2, <2>3 DEF Attach
<1>3. CASE Create(a)
  <2>1. /\ pc[a] = "create" /\ obj[a] = NoObject /\ OthersStay(a) /\ NotRemoving(a)
        /\ gSocketSequence \in Object /\ obj'[a] = gSocketSequence /\ pc'[a] = "insert"
        /\ retainCount' = [retainCount EXCEPT ![gSocketSequence] = retainCount[gSocketSequence] + 1]
    BY <1>1, <1>3, Busy DEF Create, SInv, Shape, Goto, OthersStay, Idle, Locals, NotRemoving, Detaching, Retain
  <2>2. Untouched /\ Owns(a)'
    BY <1>1, <1>3, <2>1, OwnsAt DEF Create, locals, Untouched, Owned, Label
  <2>3. QED
    BY <1>1, <2>1, <2>2, ThreadGains
<1>4. CASE InsertInSocketsList(a)
  <2> DEFINE p == obj[a]
  <2>1. /\ pc[a] = "insert" /\ pc'[a] = "inserted" /\ p \in Object /\ OthersStay(a)
        /\ UNCHANGED <<obj, localSocketsList, SocketsListToReport, oldObj, wasInList, wasInReport>>
        /\ SocketsList' = SocketsList \cup {p} /\ p \notin SocketsList
        /\ retainCount' = [retainCount EXCEPT ![p] = retainCount[p] + 1]
    <3>1. pc[a] = "insert" /\ p \in Object /\ AtAddress(a) = {} /\ socket[p] = a
      BY <1>1, <1>4, Busy DEF InsertInSocketsList, SInv, Idle, Lists, Listed, OfAddress, Object, NoObject
    <3>2. p \notin SocketsList
      BY <3>1 DEF AtAddress
    <3>3. QED
      BY <1>1, <1>4, <3>1, <3>2 DEF InsertInSocketsList, Shape, Goto, OthersStay, Retain, locals
  <2>2. Owns(a) /\ Owns(a)'
    BY <1>1, <2>1, OwnsAt DEF Owned, Label
  <2>3. ASSUME NEW o \in Object
        PROVE  /\ OfLocalList(o)' = OfLocalList(o) /\ OfAttach(o)' = OfAttach(o)
               /\ OfReportList(o)' = OfReportList(o) /\ OfThreads(o)' = OfThreads(o)
               /\ OfRemoval(o)' = OfRemoval(o) /\ OfReportRemoval(o)' = OfReportRemoval(o)
    <3>1. OfThreads(o)' = OfThreads(o)
      BY <1>1, <2>1, <2>2, SameThreads
    <3>2. QED
      BY <2>1, <3>1, SameParts
  <2>4. PICK q \in Object : q = p
    BY <2>1
  <2>5. <<"SocketsList", q>> \notin Tokens(q)
    BY <2>1, <2>4, Kinds
  <2>6. OfSocketsList(q)' = OfSocketsList(q) \cup {<<"SocketsList", q>>}
    BY <2>1, <2>4 DEF OfSocketsList
  <2>7. Tokens(q)' = Tokens(q) \cup {<<"SocketsList", q>>}
    BY <2>3, <2>6 DEF Tokens
  <2>8. ASSUME NEW o \in Object \ {q} PROVE Tokens(o)' = Tokens(o)
    <3>1. OfSocketsList(o)' = OfSocketsList(o)
      BY <2>1, <2>4 DEF OfSocketsList
    <3>2. QED
      BY <2>3, <3>1 DEF Tokens
  <2>9. retainCount' = [retainCount EXCEPT ![q] = retainCount[q] + 1]
    BY <2>1, <2>4
  <2>10. QED
    BY <2>5, <2>7, <2>8, <2>9, TokenAdded
<1>5. CASE ReleaseCreated(a)
  <2>1. /\ pc[a] = "inserted" /\ pc'[a] = "attached" /\ obj[a] \in Object /\ OthersStay(a) /\ obj' = obj
        /\ retainCount' = [retainCount EXCEPT ![obj[a]] = retainCount[obj[a]] - 1]
    BY <1>1, <1>5, Busy DEF ReleaseCreated, SInv, Shape, Idle, Goto, OthersStay, Release
  <2>2. Untouched /\ Owns(a) /\ ~ Owns(a)'
    BY <1>1, <1>5, <2>1, OwnsAt DEF ReleaseCreated, locals, Untouched, Owned, Label
  <2>3. QED
    BY <1>1, <2>1, <2>2, ThreadLoses
<1>6. QED
  BY <1>2, <1>3, <1>4, <1>5 DEF FltAttach

(* The first packet that waits puts the object in the list, with a          *)
(* reference.                                                               *)
LEMMA FltDataCounts ==
  ASSUME SInv, Counted, NEW a \in Address, FltData(a)
  PROVE  Counted'
<1> DEFINE p == obj[a]
<1>1. /\ a \in Thread /\ Shape /\ p \in Object
      /\ UNCHANGED <<SocketsList, pc, obj, localSocketsList, oldObj, wasInList, wasInReport>>
  BY Busy DEF Thread, FltData, Report, ReportLater, SInv, Idle, locals
<1>2. ASSUME NEW o \in Object
      PROVE  /\ OfLocalList(o)' = OfLocalList(o) /\ OfAttach(o)' = OfAttach(o)
             /\ OfSocketsList(o)' = OfSocketsList(o) /\ OfThreads(o)' = OfThreads(o)
             /\ OfRemoval(o)' = OfRemoval(o) /\ OfReportRemoval(o)' = OfReportRemoval(o)
  <2>1. OfThreads(o)' = OfThreads(o)
    BY <1>1 DEF OfThreads, Owns
  <2>2. QED
    BY <1>1, <2>1, SameParts
<1>3. CASE UNCHANGED <<retainCount, SocketsListToReport>>
  <2>1. ASSUME NEW o \in Object PROVE Tokens(o)' = Tokens(o)
    BY <1>2, <1>3, SameParts DEF Tokens
  <2>2. QED
    BY <1>3, <2>1, SameTokens
<1>4. CASE ~ InReport(p) /\ Retain(p) /\ SocketsListToReport' = Append(SocketsListToReport, p)
  <2>1. PICK q \in Object : q = p
    BY <1>1
  <2>2. ~ InReport(q) /\ \A o \in Object : InReport(o)' <=> InReport(o) \/ o = q
    BY <1>1, <1>4, <2>1, Appended DEF SInv, Shape, ListedOnce, InReport, Has
  <2>3. <<"SocketsListToReport", q>> \notin Tokens(q)
    BY <2>2, Kinds
  <2>4. OfReportList(q)' = OfReportList(q) \cup {<<"SocketsListToReport", q>>}
    BY <2>2 DEF OfReportList
  <2>5. Tokens(q)' = Tokens(q) \cup {<<"SocketsListToReport", q>>}
    BY <1>2, <2>4 DEF Tokens
  <2>6. ASSUME NEW o \in Object \ {q} PROVE Tokens(o)' = Tokens(o)
    <3>1. OfReportList(o)' = OfReportList(o)
      BY <2>2 DEF OfReportList
    <3>2. QED
      BY <1>2, <3>1 DEF Tokens
  <2>7. retainCount' = [retainCount EXCEPT ![q] = retainCount[q] + 1]
    BY <1>4, <2>1 DEF Retain
  <2>8. QED
    BY <2>3, <2>5, <2>6, <2>7, TokenAdded
<1>5. QED
  BY <1>3, <1>4 DEF FltData, Report, ReportLater, InsertionNeeded

(* The kernel's cookie has no reference, before the callback and in it. *)
LEMMA CloseCounts ==
  ASSUME SInv, Counted, NEW a \in Address, CloseSocket(a) \/ MissDetach(a)
  PROVE  Counted'
<1>1. /\ a \in Thread /\ Shape /\ pc[a] = "attached" /\ OthersStay(a) /\ Untouched /\ UNCHANGED retainCount
      /\ NotRemoving(a)
  BY DEF Thread, SInv, CloseSocket, MissDetach, Shape, Goto, OthersStay, Untouched, locals, Locals, NotRemoving
<1>2. (obj'[a] = obj[a] /\ pc'[a] = "detach") \/ obj'[a] = NoObject
  BY <1>1 DEF CloseSocket, MissDetach, Shape, Goto
<1>3. ~ Owns(a) /\ (~ Owns(a)' \/ obj'[a] = NoObject)
  BY <1>1, <1>2, OwnsAt
<1>4. \A o \in Object : ~ (obj[a] = o /\ Owns(a)) /\ ~ (obj[a] = o /\ Owns(a))'
  BY <1>3 DEF Object, NoObject
<1>5. QED
  BY <1>1, <1>4, ThreadKeeps

(* removeFromSocketsList takes an object from a list with its reference.    *)
LEMMA RemoveCounts ==
  ASSUME SInv, Counted, NEW a \in Address,
         RemoveFromSocketsList(a) \/ RemoveFromSocketsListToReport(a)
  PROVE  Counted'
<1>1. /\ a \in Thread /\ Shape /\ obj[a] \in Object /\ OthersStay(a)
      /\ UNCHANGED <<retainCount, obj, localSocketsList, oldObj>>
  BY Busy DEF Thread, SInv, Shape, RemoveFromSocketsList, RemoveFromSocketsListToReport, Idle, Goto, OthersStay
<1>2. Owns(a) /\ Owns(a)'
  <2>1. pc[a] \in Owned /\ pc'[a] \in Owned
    BY <1>1 DEF RemoveFromSocketsList, RemoveFromSocketsListToReport, Owned, Label, Goto, Shape
  <2>2. QED
    BY <1>1, <2>1, OwnsAt
<1>3. PICK q \in Object : q = obj[a]
  BY <1>1
<1>4. ASSUME NEW o \in Object
      PROVE  /\ OfLocalList(o)' = OfLocalList(o) /\ OfAttach(o)' = OfAttach(o) /\ OfThreads(o)' = OfThreads(o)
  <2>1. OfThreads(o)' = OfThreads(o)
    BY <1>1, <1>2, SameThreads
  <2>2. QED
    BY <1>1, <2>1, SameParts
<1>5. CASE RemoveFromSocketsList(a)
  <2>1. /\ q \in SocketsList /\ SocketsList' = SocketsList \ {q}
        /\ wasInList' = [wasInList EXCEPT ![a] = TRUE] /\ ~ wasInList[a]
        /\ UNCHANGED <<wasInReport, SocketsListToReport>>
    <3>1. q \in SocketsList /\ pc[a] = "remove"
      BY <1>3, <1>5 DEF RemoveFromSocketsList, SInv, Lists, Listed
    <3>2. QED
      BY <1>3, <1>5, <3>1 DEF RemoveFromSocketsList, SInv, Locals
  <2>2. wasInList'[a] /\ \A b \in Address \ {a} : wasInList'[b] = wasInList[b]
    BY <2>1 DEF SInv, Shape
  <2>3. ASSUME NEW o \in Object
        PROVE  OfReportList(o)' = OfReportList(o) /\ OfReportRemoval(o)' = OfReportRemoval(o)
    BY <1>1, <2>1, SameParts
  <2>4. /\ OfSocketsList(q)' = OfSocketsList(q) \ {<<"SocketsList", q>>}
        /\ OfRemoval(q)' = OfRemoval(q) \cup {<<"wasInList", a>>}
    <3>1. OfSocketsList(q)' = {} /\ OfSocketsList(q) = {<<"SocketsList", q>>}
      BY <2>1 DEF OfSocketsList
    <3>2. OfRemoval(q)' = OfRemoval(q) \cup {<<"wasInList", a>>}
      BY <1>1, <1>3, <2>2 DEF OfRemoval
    <3>3. QED
      BY <3>1, <3>2
  <2>5. <<"SocketsList", q>> \in Tokens(q) /\ <<"wasInList", a>> \notin Tokens(q)
    BY <2>1, Kinds
  <2>6. /\ <<"SocketsList", q>> \notin OfLocalList(q) \cup OfReportList(q) \cup OfThreads(q) \cup OfAttach(q)
        /\ <<"SocketsList", q>> \notin OfRemoval(q) \cup OfReportRemoval(q)
    BY DEF OfLocalList, OfReportList, OfThreads, OfAttach, OfRemoval, OfReportRemoval
  <2>7. Tokens(q)' = (Tokens(q) \ {<<"SocketsList", q>>}) \cup {<<"wasInList", a>>}
    BY <1>4, <2>3, <2>4, <2>6 DEF Tokens
  <2>8. ASSUME NEW o \in Object \ {q} PROVE Tokens(o)' = Tokens(o)
    <3>1. OfSocketsList(o)' = OfSocketsList(o)
      BY <2>1 DEF OfSocketsList
    <3>2. OfRemoval(o)' = OfRemoval(o)
      BY <1>1, <1>3, <2>2 DEF OfRemoval
    <3>3. QED
      BY <1>4, <2>3, <3>1, <3>2 DEF Tokens
  <2>9. QED
    BY <1>1, <2>5, <2>7, <2>8, TokenMoved
<1>6. CASE RemoveFromSocketsListToReport(a)
  <2>1. /\ wasInReport' = [wasInReport EXCEPT ![a] = InReport(q)] /\ ~ wasInReport[a]
        /\ UNCHANGED <<wasInList, SocketsList>>
    BY <1>3, <1>6 DEF RemoveFromSocketsListToReport, SInv, Locals
  <2>2. ASSUME NEW o \in Object
        PROVE  OfSocketsList(o)' = OfSocketsList(o) /\ OfRemoval(o)' = OfRemoval(o)
    BY <1>1, <2>1, SameParts
  <2>3. CASE ~ InReport(q)
    <3>1. wasInReport' = wasInReport
      <4>1. wasInReport[a] = FALSE /\ InReport(q) = FALSE
        BY <1>1, <2>1, <2>3 DEF Shape, InReport
      <4>2. wasInReport' = [wasInReport EXCEPT ![a] = wasInReport[a]]
        BY <2>1, <4>1
      <4>3. QED
        BY <1>1, <4>2 DEF Shape
    <3>4. SocketsListToReport' = SocketsListToReport
      BY <1>3, <1>6, <2>3 DEF RemoveFromSocketsListToReport
    <3>2. ASSUME NEW o \in Object PROVE Tokens(o)' = Tokens(o)
      BY <1>1, <1>4, <2>2, <3>1, <3>4, SameParts DEF Tokens
    <3>3. QED
      BY <1>1, <3>2, SameTokens
  <2>4. CASE InReport(q)
    <3>1. \A o \in Object : InReport(o)' <=> InReport(o) /\ o # q
      <4>1. PICK i \in DOMAIN SocketsListToReport :
              /\ SocketsListToReport[i] = q
              /\ SocketsListToReport' = RemoveAt(SocketsListToReport, i)
        BY <1>3, <1>6, <2>4 DEF RemoveFromSocketsListToReport
      <4>2. SocketsListToReport \in Seq(Object) /\ Once(SocketsListToReport)
        BY DEF SInv, Shape, ListedOnce
      <4>3. \A o \in Object : Has(SocketsListToReport', o) <=> Has(SocketsListToReport, o) /\ o # q
        BY <4>1, <4>2, Removed
      <4>4. QED
        BY <4>3 DEF InReport, Has
    <3>2. wasInReport'[a] /\ \A b \in Address \ {a} : wasInReport'[b] = wasInReport[b]
      BY <1>1, <2>1, <2>4 DEF Shape
    <3>3. /\ OfReportList(q)' = OfReportList(q) \ {<<"SocketsListToReport", q>>}
          /\ OfReportRemoval(q)' = OfReportRemoval(q) \cup {<<"wasInReport", a>>}
      <4>1. OfReportList(q)' = {} /\ OfReportList(q) = {<<"SocketsListToReport", q>>}
        BY <2>4, <3>1 DEF OfReportList
      <4>2. OfReportRemoval(q)' = OfReportRemoval(q) \cup {<<"wasInReport", a>>}
        BY <1>1, <1>3, <3>2 DEF OfReportRemoval
      <4>3. QED
        BY <4>1, <4>2
    <3>4. <<"SocketsListToReport", q>> \in Tokens(q) /\ <<"wasInReport", a>> \notin Tokens(q)
      BY <2>1, <2>4, Kinds
    <3>5. /\ <<"SocketsListToReport", q>> \notin
               OfSocketsList(q) \cup OfLocalList(q) \cup OfThreads(q) \cup OfAttach(q)
          /\ <<"SocketsListToReport", q>> \notin OfRemoval(q) \cup OfReportRemoval(q)
      BY DEF OfSocketsList, OfLocalList, OfThreads, OfAttach, OfRemoval, OfReportRemoval
    <3>6. Tokens(q)' = (Tokens(q) \ {<<"SocketsListToReport", q>>}) \cup {<<"wasInReport", a>>}
      BY <1>4, <2>2, <3>3, <3>5 DEF Tokens
    <3>7. ASSUME NEW o \in Object \ {q} PROVE Tokens(o)' = Tokens(o)
      <4>1. OfReportList(o)' = OfReportList(o)
        BY <3>1 DEF OfReportList
      <4>2. OfReportRemoval(o)' = OfReportRemoval(o)
        BY <1>1, <1>3, <3>2 DEF OfReportRemoval
      <4>3. QED
        BY <1>4, <2>2, <4>1, <4>2 DEF Tokens
    <3>8. QED
      BY <1>1, <3>4, <3>6, <3>7, TokenMoved
  <2>5. QED
    BY <2>3, <2>4
<1>7. QED
  BY <1>5, <1>6

(* ... and releases what it took.                                           *)
LEMMA ReleaseCounts ==
  ASSUME SInv, Counted, NEW a \in Address, ReleaseFromList(a) \/ ReleaseFromListToReport(a) \/ ReleaseOld(a)
  PROVE  Counted'
<1>1. /\ a \in Thread /\ Shape /\ OthersStay(a)
      /\ UNCHANGED <<obj, localSocketsList, SocketsList, SocketsListToReport>>
  BY DEF Thread, SInv, Shape, ReleaseFromList, ReleaseFromListToReport, ReleaseOld, Goto, OthersStay
<1>2. Owns(a) /\ Owns(a)'
  <2>1. pc[a] \in Owned /\ pc'[a] \in Owned
    BY <1>1 DEF ReleaseFromList, ReleaseFromListToReport, ReleaseOld, Owned, Label, Goto, Shape
  <2>2. QED
    BY <1>1, <2>1, OwnsAt
<1>3. ASSUME NEW o \in Object
      PROVE  /\ OfLocalList(o)' = OfLocalList(o) /\ OfSocketsList(o)' = OfSocketsList(o)
             /\ OfReportList(o)' = OfReportList(o) /\ OfThreads(o)' = OfThreads(o)
  <2>1. OfThreads(o)' = OfThreads(o)
    BY <1>1, <1>2, SameThreads
  <2>2. QED
    BY <1>1, <2>1, SameParts
<1>4. CASE ReleaseFromList(a)
  <2>1. /\ obj[a] \in Object /\ UNCHANGED <<oldObj, wasInReport>>
        /\ wasInList' = [wasInList EXCEPT ![a] = FALSE]
        /\ IF wasInList[a] THEN Release(obj[a]) ELSE UNCHANGED retainCount
    BY <1>1, <1>4, Busy DEF ReleaseFromList, ReleaseInserted, SInv, Idle
  <2>2. ASSUME NEW o \in Object
        PROVE  OfAttach(o)' = OfAttach(o) /\ OfReportRemoval(o)' = OfReportRemoval(o)
    BY <1>1, <2>1, SameParts
  <2>3. CASE ~ wasInList[a]
    <3>1. wasInList' = wasInList
      BY <1>1, <2>1, <2>3 DEF Shape
    <3>2. ASSUME NEW o \in Object PROVE Tokens(o)' = Tokens(o)
      BY <1>1, <1>3, <2>2, <3>1, SameParts DEF Tokens
    <3>3. QED
      BY <2>1, <2>3, <3>2, SameTokens
  <2>4. CASE wasInList[a]
    <3>1. PICK q \in Object : q = obj[a]
      BY <2>1
    <3>2. ~ wasInList'[a] /\ \A b \in Address \ {a} : wasInList'[b] = wasInList[b]
      BY <1>1, <2>1 DEF Shape
    <3>3. OfRemoval(q)' = OfRemoval(q) \ {<<"wasInList", a>>}
      BY <1>1, <3>2 DEF OfRemoval
    <3>4. <<"wasInList", a>> \in Tokens(q)
      BY <2>4, <3>1, Kinds
    <3>5. /\ <<"wasInList", a>> \notin OfSocketsList(q) \cup OfLocalList(q) \cup OfReportList(q)
          /\ <<"wasInList", a>> \notin OfThreads(q) \cup OfAttach(q) \cup OfReportRemoval(q)
      BY DEF OfSocketsList, OfLocalList, OfReportList, OfThreads, OfAttach, OfReportRemoval
    <3>6. Tokens(q)' = Tokens(q) \ {<<"wasInList", a>>}
      BY <1>3, <2>2, <3>3, <3>5 DEF Tokens
    <3>7. ASSUME NEW o \in Object \ {q} PROVE Tokens(o)' = Tokens(o)
      <4>1. OfRemoval(o)' = OfRemoval(o)
        BY <1>1, <3>1, <3>2 DEF OfRemoval
      <4>2. QED
        BY <1>3, <2>2, <4>1 DEF Tokens
    <3>8. retainCount' = [retainCount EXCEPT ![q] = retainCount[q] - 1]
      BY <2>1, <2>4, <3>1 DEF Release
    <3>9. QED
      BY <3>4, <3>6, <3>7, <3>8, TokenDropped
  <2>5. QED
    BY <2>3, <2>4
<1>5. CASE ReleaseFromListToReport(a)
  <2>1. /\ obj[a] \in Object /\ UNCHANGED <<oldObj, wasInList>>
        /\ wasInReport' = [wasInReport EXCEPT ![a] = FALSE]
        /\ IF wasInReport[a] THEN Release(obj[a]) ELSE UNCHANGED retainCount
    BY <1>1, <1>5, Busy DEF ReleaseFromListToReport, ReleaseInserted, SInv, Idle
  <2>2. ASSUME NEW o \in Object
        PROVE  OfAttach(o)' = OfAttach(o) /\ OfRemoval(o)' = OfRemoval(o)
    BY <1>1, <2>1, SameParts
  <2>3. CASE ~ wasInReport[a]
    <3>1. wasInReport' = wasInReport
      BY <1>1, <2>1, <2>3 DEF Shape
    <3>2. ASSUME NEW o \in Object PROVE Tokens(o)' = Tokens(o)
      BY <1>1, <1>3, <2>2, <3>1, SameParts DEF Tokens
    <3>3. QED
      BY <2>1, <2>3, <3>2, SameTokens
  <2>4. CASE wasInReport[a]
    <3>1. PICK q \in Object : q = obj[a]
      BY <2>1
    <3>2. ~ wasInReport'[a] /\ \A b \in Address \ {a} : wasInReport'[b] = wasInReport[b]
      BY <1>1, <2>1 DEF Shape
    <3>3. OfReportRemoval(q)' = OfReportRemoval(q) \ {<<"wasInReport", a>>}
      BY <1>1, <3>2 DEF OfReportRemoval
    <3>4. <<"wasInReport", a>> \in Tokens(q)
      BY <2>4, <3>1, Kinds
    <3>5. /\ <<"wasInReport", a>> \notin OfSocketsList(q) \cup OfLocalList(q) \cup OfReportList(q)
          /\ <<"wasInReport", a>> \notin OfThreads(q) \cup OfAttach(q) \cup OfRemoval(q)
      BY DEF OfSocketsList, OfLocalList, OfReportList, OfThreads, OfAttach, OfRemoval
    <3>6. Tokens(q)' = Tokens(q) \ {<<"wasInReport", a>>}
      BY <1>3, <2>2, <3>3, <3>5 DEF Tokens
    <3>7. ASSUME NEW o \in Object \ {q} PROVE Tokens(o)' = Tokens(o)
      <4>1. OfReportRemoval(o)' = OfReportRemoval(o)
        BY <1>1, <3>1, <3>2 DEF OfReportRemoval
      <4>2. QED
        BY <1>3, <2>2, <4>1 DEF Tokens
    <3>8. retainCount' = [retainCount EXCEPT ![q] = retainCount[q] - 1]
      BY <2>1, <2>4, <3>1 DEF Release
    <3>9. QED
      BY <3>4, <3>6, <3>7, <3>8, TokenDropped
  <2>5. QED
    BY <2>3, <2>4
<1>6. CASE ReleaseOld(a)
  <2>1. /\ oldObj[a] \in Object /\ UNCHANGED <<wasInList, wasInReport>>
        /\ oldObj' = [oldObj EXCEPT ![a] = NoObject] /\ Release(oldObj[a])
    BY <1>1, <1>6 DEF ReleaseOld, SInv, Shape, Locals
  <2>2. ASSUME NEW o \in Object
        PROVE  OfReportRemoval(o)' = OfReportRemoval(o) /\ OfRemoval(o)' = OfRemoval(o)
    BY <1>1, <2>1, SameParts
  <2>3. PICK q \in Object : q = oldObj[a]
    BY <2>1
  <2>4. oldObj'[a] = NoObject /\ \A b \in Address \ {a} : oldObj'[b] = oldObj[b]
    BY <1>1, <2>1 DEF Shape
  <2>5. \A o \in Object : o # NoObject
    BY DEF Object, NoObject
  <2>6. OfAttach(q)' = OfAttach(q) \ {<<"oldObj", a>>}
    BY <2>4, <2>5 DEF OfAttach
  <2>7. <<"oldObj", a>> \in Tokens(q)
    BY <2>3, Kinds
  <2>8. /\ <<"oldObj", a>> \notin OfSocketsList(q) \cup OfLocalList(q) \cup OfReportList(q)
        /\ <<"oldObj", a>> \notin OfThreads(q) \cup OfRemoval(q) \cup OfReportRemoval(q)
    BY DEF OfSocketsList, OfLocalList, OfReportList, OfThreads, OfRemoval, OfReportRemoval
  <2>9. Tokens(q)' = Tokens(q) \ {<<"oldObj", a>>}
    BY <1>3, <2>2, <2>6, <2>8 DEF Tokens
  <2>10. ASSUME NEW o \in Object \ {q} PROVE Tokens(o)' = Tokens(o)
    <3>1. OfAttach(o)' = OfAttach(o)
      BY <2>3, <2>4, <2>5 DEF OfAttach
    <3>2. QED
      BY <1>3, <2>2, <3>1 DEF Tokens
  <2>11. retainCount' = [retainCount EXCEPT ![q] = retainCount[q] - 1]
    BY <2>1, <2>3 DEF Release
  <2>12. QED
    BY <2>7, <2>9, <2>10, <2>11, TokenDropped
<1>7. QED
  BY <1>4, <1>5, <1>6

(* FltDetach takes a reference for itself and gives it back. *)
LEMMA FltDetachCounts ==
  ASSUME SInv, Counted, NEW a \in Address, FltDetach(a)
  PROVE  Counted'
<1>1. a \in Thread /\ Shape
  BY DEF Thread, SInv
<1>2. CASE Detach(a)
  <2>1. /\ pc[a] = "detach" /\ pc'[a] = "remove" /\ obj[a] \in Object /\ OthersStay(a) /\ obj' = obj
        /\ retainCount' = [retainCount EXCEPT ![obj[a]] = retainCount[obj[a]] + 1]
    BY <1>1, <1>2, Busy DEF Detach, SInv, Shape, Idle, Goto, OthersStay, Retain
  <2>2. Untouched /\ ~ Owns(a) /\ Owns(a)'
    BY <1>1, <1>2, <2>1, OwnsAt DEF Detach, locals, Untouched, Owned, Label
  <2>3. QED
    BY <1>1, <2>1, <2>2, ThreadGains
<1>3. CASE Purge(a) \/ AwaitCompletion(a)
  <2>1. /\ pc[a] \in Owned /\ pc'[a] \in Owned /\ OthersStay(a) /\ UNCHANGED <<obj, retainCount>> /\ Untouched
    BY <1>1, <1>3 DEF Purge, EmptyQueue, AwaitCompletion, Shape, Owned, Label, Goto, OthersStay, Untouched,
      locals
  <2>2. Owns(a) /\ Owns(a)'
    BY <1>1, <2>1, OwnsAt
  <2>3. QED
    BY <1>1, <2>1, <2>2, ThreadKeeps
<1>4. CASE ReleaseDetached(a)
  <2>1. /\ pc[a] = "detached" /\ obj[a] \in Object /\ OthersStay(a) /\ obj'[a] = NoObject
        /\ NotRemoving(a) /\ Untouched
        /\ retainCount' = [retainCount EXCEPT ![obj[a]] = retainCount[obj[a]] - 1]
    BY <1>1, <1>4, Busy DEF ReleaseDetached, SInv, Shape, Idle, Goto, OthersStay, Release, Locals, NotRemoving,
      Untouched
  <2>2. Owns(a)
    BY <1>1, <2>1, OwnsAt DEF Owned, Label
  <2>3. QED
    BY <1>1, <2>1, <2>2, ThreadLoses
<1>5. QED
  BY <1>2, <1>3, <1>4, RemoveCounts, ReleaseCounts DEF FltDetach


-----------------------------------------------------------------------------
(* The steps of the other threads, which own what they work on.             *)
LEMMA OtherThread ==
  ASSUME Shape, NEW t \in Thread \ Address
  PROVE  t \in Thread /\ Owns(t) /\ Owns(t)' /\ NotRemoving(t)
BY OwnsAt DEF NotRemoving

LEMMA OtherThreadKeeps ==
  ASSUME Shape, Counted, NEW t \in Thread \ Address, OthersStay(t), Untouched, UNCHANGED retainCount,
         obj'[t] = obj[t]
  PROVE  Counted'
<1>1. t \in Thread /\ Owns(t) /\ Owns(t)' /\ NotRemoving(t)
  BY OtherThread
<1>2. QED
  BY <1>1, ThreadKeeps

LEMMA OtherThreadGains ==
  ASSUME Shape, Counted, NEW t \in Thread \ Address, OthersStay(t), Untouched, NEW p \in Object,
         Retain(p), obj[t] = NoObject, obj' = [obj EXCEPT ![t] = p]
  PROVE  Counted'
<1>1. t \in Thread /\ Owns(t)' /\ NotRemoving(t) /\ obj'[t] = p
  BY OtherThread DEF Shape
<1>2. QED
  BY <1>1, ThreadGains DEF Retain

LEMMA OtherThreadLoses ==
  ASSUME Shape, Counted, NEW t \in Thread \ Address, OthersStay(t), Untouched, obj[t] \in Object,
         Release(obj[t]), obj' = [obj EXCEPT ![t] = NoObject]
  PROVE  Counted'
<1>1. PICK p \in Object : p = obj[t]
  OBVIOUS
<1>2. t \in Thread /\ Owns(t) /\ NotRemoving(t) /\ obj'[t] = NoObject
  BY OtherThread DEF Shape
<1>3. retainCount' = [retainCount EXCEPT ![p] = retainCount[p] - 1]
  BY <1>1 DEF Release
<1>4. QED
  BY <1>1, <1>2, <1>3, ThreadLoses

(* A lookup retains the object it finds, under the lock of the list. *)
LEMMA CallCounts ==
  ASSUME SInv, Counted, NEW r \in Caller, Call(r)
  PROVE  Counted'
<1>1. Shape /\ r \in Thread \ Address /\ OthersStay(r)
  BY CallAlone, ThreadAssumption DEF SInv, Thread
<1>2. Untouched
  BY DEF Call, FltNotify, PurgeInbound, AwaitCompletionOfEvent, ProcessServiceResponse, locals, Untouched
<1>3. CASE PurgeInbound(r) \/ AwaitCompletionOfEvent(r)
  <2>1. UNCHANGED <<retainCount, obj>>
    BY <1>3 DEF PurgeInbound, AwaitCompletionOfEvent
  <2>2. QED
    BY <1>1, <1>2, <2>1, OtherThreadKeeps
<1>4. ASSUME NEW a, pc[r] = "idle", GetSocketObjectRef(r, a) PROVE Counted'
  <2>1. PICK o \in AtAddress(a) : Retain(o) /\ obj' = [obj EXCEPT ![r] = o]
    BY <1>4 DEF GetSocketObjectRef
  <2>2. o \in Object
    BY <1>1 DEF Shape, AtAddress
  <2>3. obj[r] = NoObject
    BY <1>1, <1>4, Busy DEF SInv, Idle
  <2>4. QED
    BY <1>1, <1>2, <2>1, <2>2, <2>3, OtherThreadGains
<1>5. CASE FltNotify(r)
  BY <1>4, <1>5 DEF FltNotify
<1>6. CASE ProcessServiceResponse(r)
  BY <1>4, <1>6 DEF ProcessServiceResponse
<1>7. QED
  BY <1>3, <1>5, <1>6 DEF Call

(* reinjectDeferredData needs the reference of its caller, who releases     *)
(* it.                                                                      *)
LEMMA ReinjectCounts ==
  ASSUME SInv, Counted, NEW r \in Injector, ReinjectDeferredData(r)
  PROVE  Counted'
<1>1. Shape /\ r \in Thread \ Address /\ OthersStay(r)
  BY ReinjectAlone, ThreadAssumption DEF SInv, Thread, Injector, Reporter
<1>2. Untouched
  BY DEF ReinjectDeferredData, CollectPackets, Inject, FinishInjection, ReleaseFound, locals, Untouched
<1>3. CASE CollectPackets(r) \/ Inject(r) \/ FinishInjection(r)
  <2>1. UNCHANGED <<retainCount, obj>>
    BY <1>3 DEF CollectPackets, Inject, FinishInjection
  <2>2. QED
    BY <1>1, <1>2, <2>1, OtherThreadKeeps
<1>4. CASE ReleaseFound(r)
  <2>1. obj[r] \in Object /\ Release(obj[r]) /\ obj' = [obj EXCEPT ![r] = NoObject]
    BY <1>1, <1>4, Busy DEF SInv, ReleaseFound, Idle
  <2>2. QED
    BY <1>1, <1>2, <2>1, OtherThreadLoses
<1>5. QED
  BY <1>3, <1>4 DEF ReinjectDeferredData

(* The reference of the list goes to the thread, and to the list again.     *)
LEMMA FirstMoves ==
  ASSUME Shape, Counted, ListedOnce, NEW t \in Thread \ Address, OthersStay(t), UNCHANGED <<retainCount,
         SocketsList, localSocketsList, oldObj, wasInList, wasInReport>>, SocketsListToReport # <<>>,
         obj[t] = NoObject, obj' = [obj EXCEPT ![t] = Head(SocketsListToReport)],
         SocketsListToReport' = Tail(SocketsListToReport)
  PROVE  Counted'
<1>1. Head(SocketsListToReport) \in Object /\ \A o \in Object :
        Has(SocketsListToReport', o) <=> Has(SocketsListToReport, o) /\ o # Head(SocketsListToReport)
  BY Taken DEF Shape, ListedOnce
<1>2. PICK q \in Object : q = Head(SocketsListToReport)
  BY <1>1
<1>3. \A o \in Object : InReport(o)' <=> InReport(o) /\ o # q
  BY <1>1, <1>2 DEF InReport, Has
<1>4. InReport(q)
  <2>1. 1 \in DOMAIN SocketsListToReport /\ SocketsListToReport[1] = q
    BY <1>2 DEF Shape
  <2>2. QED
    BY <2>1 DEF InReport
<1>5. t \in Thread /\ Owns(t) /\ Owns(t)' /\ NotRemoving(t) /\ obj'[t] = q
  BY <1>2, OtherThread DEF Shape
<1>6. ASSUME NEW o \in Object
      PROVE  /\ OfSocketsList(o)' = OfSocketsList(o) /\ OfLocalList(o)' = OfLocalList(o)
             /\ OfAttach(o)' = OfAttach(o)
             /\ OfRemoval(o)' = OfRemoval(o) /\ OfReportRemoval(o)' = OfReportRemoval(o)
  <2>1. OfRemoval(o)' = OfRemoval(o) /\ OfReportRemoval(o)' = OfReportRemoval(o)
    BY <1>5, SameRemovals
  <2>2. QED
    BY <2>1, SameParts
<1>7. OfThreads(q)' = OfThreads(q) \cup {<<"obj", t>>}
  BY <1>5 DEF OfThreads, OthersStay, Owns
<1>8. OfReportList(q)' = OfReportList(q) \ {<<"SocketsListToReport", q>>}
  <2>1. OfReportList(q)' = {} /\ OfReportList(q) = {<<"SocketsListToReport", q>>}
    BY <1>3, <1>4 DEF OfReportList
  <2>2. QED
    BY <2>1
<1>9. <<"SocketsListToReport", q>> \in Tokens(q) /\ <<"obj", t>> \notin Tokens(q)
  <2>1. q # NoObject
    BY DEF Object, NoObject
  <2>2. QED
    BY <1>4, <2>1, Kinds
<1>10. /\ <<"SocketsListToReport", q>> \notin
            OfSocketsList(q) \cup OfLocalList(q) \cup OfThreads(q) \cup OfAttach(q)
       /\ <<"SocketsListToReport", q>> \notin OfRemoval(q) \cup OfReportRemoval(q)
  BY DEF OfSocketsList, OfLocalList, OfThreads, OfAttach, OfRemoval, OfReportRemoval
<1>11. Tokens(q)' = (Tokens(q) \ {<<"SocketsListToReport", q>>}) \cup {<<"obj", t>>}
  BY <1>6, <1>7, <1>8, <1>10 DEF Tokens
<1>12. ASSUME NEW o \in Object \ {q} PROVE Tokens(o)' = Tokens(o)
  <2>1. OfReportList(o)' = OfReportList(o)
    BY <1>3 DEF OfReportList
  <2>2. obj[t] # o /\ obj'[t] # o
    BY <1>5 DEF Object, NoObject
  <2>3. OfThreads(o)' = OfThreads(o)
    BY <1>5, <2>2, SameThreads
  <2>4. QED
    BY <1>6, <2>1, <2>3 DEF Tokens
<1>13. QED
  BY <1>9, <1>11, <1>12, TokenMoved

(* ... and back. *)
LEMMA LastMoves ==
  ASSUME Shape, Counted, ListedOnce, NEW t \in Thread \ Address, OthersStay(t), UNCHANGED <<retainCount,
         SocketsList, localSocketsList, oldObj, wasInList, wasInReport>>, obj[t] \in Object,
         ~ InReport(obj[t]), obj' = [obj EXCEPT ![t] = NoObject],
         SocketsListToReport' = Append(SocketsListToReport, obj[t])
  PROVE  Counted'
<1>1. PICK q \in Object : q = obj[t]
  OBVIOUS
<1>2. \A o \in Object : InReport(o)' <=> InReport(o) \/ o = q
  <2>1. \A o \in Object : Has(SocketsListToReport', o) <=> Has(SocketsListToReport, o) \/ o = q
    <3>1. /\ SocketsListToReport \in Seq(Object) /\ Once(SocketsListToReport)
          /\ ~ Has(SocketsListToReport, q) /\ SocketsListToReport' = Append(SocketsListToReport, q)
      BY <1>1 DEF Shape, ListedOnce, InReport, Has
    <3>2. QED
      BY <3>1, Appended
  <2>2. QED
    BY <2>1 DEF InReport, Has
<1>3. ~ InReport(q)
  BY <1>1 DEF InReport
<1>4. t \in Thread /\ Owns(t) /\ Owns(t)' /\ NotRemoving(t) /\ obj'[t] = NoObject
  BY OtherThread DEF Shape
<1>5. ASSUME NEW o \in Object
      PROVE  /\ OfSocketsList(o)' = OfSocketsList(o) /\ OfLocalList(o)' = OfLocalList(o)
             /\ OfAttach(o)' = OfAttach(o)
             /\ OfRemoval(o)' = OfRemoval(o) /\ OfReportRemoval(o)' = OfReportRemoval(o)
  <2>1. OfRemoval(o)' = OfRemoval(o) /\ OfReportRemoval(o)' = OfReportRemoval(o)
    BY <1>4, SameRemovals
  <2>2. QED
    BY <2>1, SameParts
<1>6. \A o \in Object : obj'[t] # o
  BY <1>4 DEF Object, NoObject
<1>7. OfThreads(q)' = OfThreads(q) \ {<<"obj", t>>}
  BY <1>4, <1>6 DEF OfThreads, OthersStay, Owns
<1>8. OfReportList(q)' = OfReportList(q) \cup {<<"SocketsListToReport", q>>}
  BY <1>2 DEF OfReportList
<1>9. <<"obj", t>> \in Tokens(q) /\ <<"SocketsListToReport", q>> \notin Tokens(q)
  BY <1>1, <1>3, <1>4, Kinds
<1>10. /\ <<"obj", t>> \notin
            OfSocketsList(q) \cup OfLocalList(q) \cup OfReportList(q) \cup OfAttach(q)
       /\ <<"obj", t>> \notin OfRemoval(q) \cup OfReportRemoval(q)
  BY DEF OfSocketsList, OfLocalList, OfReportList, OfAttach, OfRemoval, OfReportRemoval
<1>11. Tokens(q)' = (Tokens(q) \ {<<"obj", t>>}) \cup {<<"SocketsListToReport", q>>}
  BY <1>5, <1>7, <1>8, <1>10 DEF Tokens
<1>12. ASSUME NEW o \in Object \ {q} PROVE Tokens(o)' = Tokens(o)
  <2>1. OfReportList(o)' = OfReportList(o)
    BY <1>2 DEF OfReportList
  <2>2. OfThreads(o)' = OfThreads(o)
    BY <1>1, <1>4, <1>6, SameThreads
  <2>3. QED
    BY <1>5, <2>1, <2>2 DEF Tokens
<1>13. QED
  BY <1>9, <1>11, <1>12, TokenMoved

(* DeliverWaitingNotifications moves a reference or releases it. *)
LEMMA DeliverCounts ==
  ASSUME SInv, Counted, NEW t \in Reporter, Deliver(t)
  PROVE  Counted'
<1>1. Shape /\ ListedOnce /\ t \in Thread \ Address /\ OthersStay(t)
  BY DeliverAlone, ThreadAssumption DEF SInv, Thread, Reporter
<1>2. UNCHANGED <<SocketsList, localSocketsList, oldObj, wasInList, wasInReport>>
  BY DEF Deliver, DeliverWaitingNotifications, TakeFirst, ReportPackets, Reinsert, ReleaseReported, locals
<1>3. CASE UNCHANGED <<retainCount, obj, SocketsListToReport>>
  BY <1>1, <1>2, <1>3, OtherThreadKeeps DEF Untouched
<1>4. CASE DeliverWaitingNotifications(t) \/ ReportPackets(t)
  BY <1>3, <1>4 DEF DeliverWaitingNotifications, ReportPackets
<1>5. CASE TakeFirst(t)
  <2>1. CASE SocketsListToReport = <<>>
    BY <1>3, <1>5, <2>1 DEF TakeFirst
  <2>2. CASE SocketsListToReport # <<>>
    <3>1. /\ obj' = [obj EXCEPT ![t] = Head(SocketsListToReport)] /\ UNCHANGED retainCount
          /\ SocketsListToReport' = Tail(SocketsListToReport)
      BY <1>5, <2>2 DEF TakeFirst
    <3>2. obj[t] = NoObject
      BY <1>1, <1>5, Busy DEF TakeFirst, SInv, Idle
    <3>3. QED
      BY <1>1, <1>2, <2>2, <3>1, <3>2, FirstMoves
  <2>3. QED
    BY <2>1, <2>2
<1>6. CASE Reinsert(t)
  <2>1. CASE InReport(obj[t])
    BY <1>3, <1>6, <2>1 DEF Reinsert
  <2>2. CASE ~ InReport(obj[t])
    <3>1. /\ obj' = [obj EXCEPT ![t] = NoObject] /\ UNCHANGED retainCount
          /\ SocketsListToReport' = Append(SocketsListToReport, obj[t])
      BY <1>6, <2>2 DEF Reinsert, ReinsertedInSocketsListToReport
    <3>2. obj[t] \in Object
      BY <1>1, <1>6, Busy DEF Reinsert, SInv, Idle
    <3>3. QED
      BY <1>1, <1>2, <2>2, <3>1, <3>2, LastMoves
  <2>3. QED
    BY <2>1, <2>2
<1>7. CASE ReleaseReported(t)
  <2>1. obj[t] \in Object /\ Release(obj[t]) /\ obj' = [obj EXCEPT ![t] = NoObject]
        /\ UNCHANGED SocketsListToReport
    <3>1. pc[t] \in {"done", "drop"} /\ Release(obj[t]) /\ obj' = [obj EXCEPT ![t] = NoObject]
          /\ UNCHANGED SocketsListToReport
      BY <1>7 DEF ReleaseReported
    <3>2. obj[t] \in Object
      BY <1>1, <3>1, Busy DEF SInv, Idle
    <3>3. QED
      BY <3>1, <3>2
  <2>2. QED
    BY <1>1, <1>2, <2>1, OtherThreadLoses DEF Untouched
<1>8. QED
  BY <1>4, <1>5, <1>6, <1>7 DEF Deliver

(* A round of the injection thread: it takes a reference to each object.    *)
LEMMA CollectCounts ==
  ASSUME SInv, Counted, InjectionThreadRoutine
  PROVE  Counted'
<1> DEFINE T == InjectionThread
<1>1. Shape /\ T \in Thread \ Address /\ OthersStay(T) /\ T \in Thread
  BY CollectAlone, ThreadAssumption DEF SInv, Thread, Reporter
<1>2. UNCHANGED <<SocketsList, SocketsListToReport, oldObj, wasInList, wasInReport>>
  BY DEF InjectionThreadRoutine, CollectSockets, NextSocket, EndOfRound, locals
<1>3. T \in Thread /\ Owns(T) /\ Owns(T)' /\ NotRemoving(T)
  BY <1>1, OtherThread
<1>4. ASSUME NEW o \in Object
      PROVE  /\ OfSocketsList(o)' = OfSocketsList(o) /\ OfReportList(o)' = OfReportList(o)
             /\ OfAttach(o)' = OfAttach(o)
             /\ OfRemoval(o)' = OfRemoval(o) /\ OfReportRemoval(o)' = OfReportRemoval(o)
  BY <1>1, <1>2, <1>3, SameParts, SameRemovals
<1>5. CASE EndOfRound
  <2>1. UNCHANGED <<retainCount, obj>> /\ Untouched
    BY <1>2, <1>5 DEF EndOfRound, locals, Untouched
  <2>2. QED
    BY <1>1, <2>1, OtherThreadKeeps
<1>6. CASE NextSocket
  <2>1. PICK q \in localSocketsList :
          localSocketsList' = localSocketsList \ {q} /\ obj' = [obj EXCEPT ![T] = q]
    BY <1>6 DEF NextSocket
  <2>2. q \in Object /\ obj'[T] = q /\ UNCHANGED retainCount /\ q # NoObject
    BY <1>1, <1>6, <2>1 DEF Shape, NextSocket, Object, NoObject
  <2>3. obj[T] = NoObject
    BY <1>1, <1>6, Busy DEF NextSocket, SInv, Idle
  <2>4. OfThreads(q)' = OfThreads(q) \cup {<<"obj", T>>}
    BY <1>1, <1>3, <2>2 DEF OfThreads, OthersStay, Owns
  <2>5. OfLocalList(q)' = OfLocalList(q) \ {<<"localSocketsList", q>>}
    <3>1. OfLocalList(q)' = {} /\ OfLocalList(q) = {<<"localSocketsList", q>>}
      BY <2>1 DEF OfLocalList
    <3>2. QED
      BY <3>1
  <2>6. <<"localSocketsList", q>> \in Tokens(q) /\ <<"obj", T>> \notin Tokens(q)
    BY <2>1, <2>2, <2>3, Kinds
  <2>7. /\ <<"localSocketsList", q>> \notin
             OfSocketsList(q) \cup OfReportList(q) \cup OfThreads(q) \cup OfAttach(q)
        /\ <<"localSocketsList", q>> \notin OfRemoval(q) \cup OfReportRemoval(q)
    BY DEF OfSocketsList, OfReportList, OfThreads, OfAttach, OfRemoval, OfReportRemoval
  <2>8. Tokens(q)' = (Tokens(q) \ {<<"localSocketsList", q>>}) \cup {<<"obj", T>>}
    BY <1>4, <2>2, <2>4, <2>5, <2>7 DEF Tokens
  <2>9. ASSUME NEW o \in Object \ {q} PROVE Tokens(o)' = Tokens(o)
    <3>1. OfLocalList(o)' = OfLocalList(o)
      BY <2>1 DEF OfLocalList
    <3>2. obj[T] # o /\ obj'[T] # o
      BY <2>2, <2>3 DEF Object, NoObject
    <3>3. OfThreads(o)' = OfThreads(o)
      BY <1>1, <3>2, SameThreads
    <3>4. QED
      BY <1>4, <3>1, <3>3 DEF Tokens
  <2>10. QED
    BY <2>2, <2>6, <2>8, <2>9, TokenMoved
<1>7. CASE CollectSockets
  <2>1. PICK local \in SUBSET Object :
          /\ localSocketsList' = local
          /\ retainCount' = [o \in Object |-> retainCount[o] + (IF o \in local THEN 1 ELSE 0)]
    <3>1. {o \in SocketsList : ~ PendingQueueEmpty(o)} \in SUBSET Object
      BY <1>1 DEF Shape
    <3>2. QED
      BY <1>7, <3>1 DEF CollectSockets
  <2>2. localSocketsList = {} /\ pc[T] = "idle" /\ UNCHANGED obj
    BY <1>7 DEF SInv, Locals, CollectSockets
  <2>3. retainCount' \in [Object -> Int]
    BY <2>1 DEF Counted
  <2>4. ASSUME NEW o \in Object PROVE IsFiniteSet(Tokens(o)') /\ retainCount'[o] = Cardinality(Tokens(o)')
    <3>1. OfThreads(o)' = OfThreads(o)
      BY <1>1, <1>3, <2>2, SameThreads
    <3>2. IsFiniteSet(Tokens(o)) /\ retainCount[o] = Cardinality(Tokens(o)) /\ Cardinality(Tokens(o)) \in Nat
      BY FS_CardinalityType DEF Counted
    <3>3. OfLocalList(o) = {}
      BY <2>2 DEF OfLocalList
    <3>4. CASE o \notin local
      <4>1. OfLocalList(o)' = {}
        BY <2>1, <3>4 DEF OfLocalList
      <4>2. Tokens(o)' = Tokens(o)
        BY <1>4, <3>1, <3>3, <4>1 DEF Tokens
      <4>3. retainCount'[o] = retainCount[o]
        BY <2>1, <3>2, <3>4
      <4>4. QED
        BY <3>2, <4>2, <4>3
    <3>5. CASE o \in local
      <4>1. OfLocalList(o)' = {<<"localSocketsList", o>>}
        BY <2>1, <3>5 DEF OfLocalList
      <4>2. Tokens(o)' = Tokens(o) \cup {<<"localSocketsList", o>>}
        BY <1>4, <3>1, <3>3, <4>1 DEF Tokens
      <4>3. <<"localSocketsList", o>> \notin Tokens(o)
        BY <2>2, Kinds
      <4>4. retainCount'[o] = retainCount[o] + 1
        BY <2>1, <3>5
      <4>5. IsFiniteSet(Tokens(o)') /\ Cardinality(Tokens(o)') = Cardinality(Tokens(o)) + 1
        BY <3>2, <4>2, <4>3, FS_AddElement
      <4>6. QED
        BY <3>2, <4>4, <4>5
    <3>6. QED
      BY <3>4, <3>5
  <2>5. QED
    BY <2>3, <2>4 DEF Counted
<1>8. QED
  BY <1>5, <1>6, <1>7 DEF InjectionThreadRoutine

-----------------------------------------------------------------------------
(* At the start there is no object. *)
LEMMA InitCounted == Init => Counted
<1> SUFFICES ASSUME Init PROVE Counted
  OBVIOUS
<1>1. retainCount \in [Object -> Int] /\ \A o \in Object : retainCount[o] = 0
  BY DEF Init
<1>2. ASSUME NEW o \in Object PROVE Tokens(o) = {}
  <2>1. OfSocketsList(o) = {} /\ OfLocalList(o) = {} /\ OfReportList(o) = {}
    BY DEF Init, OfSocketsList, OfLocalList, OfReportList, InReport
  <2>2. OfThreads(o) = {} /\ OfAttach(o) = {} /\ OfRemoval(o) = {} /\ OfReportRemoval(o) = {}
    BY DEF Init, OfThreads, OfAttach, OfRemoval, OfReportRemoval, Object, NoObject
  <2>3. QED
    BY <2>1, <2>2 DEF Tokens
<1>3. QED
  BY <1>1, <1>2, FS_EmptySet DEF Counted

(* Every step keeps the count. *)
LEMMA NextCounted ==
  ASSUME SInv, Counted, [Next]_vars
  PROVE  Counted'
<1>1. ASSUME NEW a \in Address, Kernel(a) PROVE Counted'
  BY <1>1, FltAttachCounts, FltDataCounts, CloseCounts, FltDetachCounts DEF Kernel
<1>2. CASE UNCHANGED vars
  <2>1. UNCHANGED <<SocketsList, localSocketsList, SocketsListToReport, oldObj, obj, wasInList, wasInReport, pc,
                    retainCount>>
    BY <1>2 DEF vars, locals
  <2>2. ASSUME NEW o \in Object PROVE Tokens(o)' = Tokens(o)
    <3>1. OfThreads(o)' = OfThreads(o)
      BY <2>1 DEF OfThreads, Owns
    <3>2. QED
      BY <2>1, <3>1, SameParts DEF Tokens
  <2>3. QED
    BY <2>1, <2>2, SameTokens
<1>3. QED
  BY <1>1, <1>2, CallCounts, ReinjectCounts, DeliverCounts, CollectCounts DEF Next

(* The three layers hold of every behaviour. *)
THEOREM Invariant == Spec => []IInv
<1>1. Init => IInv
  BY InitSInv, InitPInv, InitCounted DEF IInv
<1>2. IInv /\ [Next]_vars => IInv'
  BY NextSInv, NextPInv, NextCounted DEF IInv
<1>3. QED
  BY <1>1, <1>2, PTL DEF Spec

-----------------------------------------------------------------------------
(* Every variable has its type; a reference count is never negative, and an *)
(* object defers no more packets than the bound.                            *)
THEOREM TypeCorrect == Spec => []TypeOK
<1>1. IInv => TypeOK
  <2> SUFFICES ASSUME IInv PROVE TypeOK
    OBVIOUS
  <2>1. Shape
    BY DEF IInv, SInv
  <2>2. retainCount \in [Object -> Nat]
    <3>1. ASSUME NEW o \in Object PROVE retainCount[o] \in Nat
      BY FS_CardinalityType DEF IInv, Counted
    <3>2. QED
      BY <3>1 DEF IInv, Counted
  <2>3. /\ packetsWaitingForReporting \in [Object -> 0 .. MaxPending]
        /\ reported \in [Object -> 0 .. MaxPending]
        /\ injecting \in [Object -> 0 .. MaxPending]
    <3>1. ASSUME NEW o \in Object
          PROVE  /\ packetsWaitingForReporting[o] \in 0 .. MaxPending
                 /\ reported[o] \in 0 .. MaxPending /\ injecting[o] \in 0 .. MaxPending
      <4>1. /\ packetsWaitingForReporting[o] \in Nat /\ reported[o] \in Nat /\ injecting[o] \in Nat
            /\ packetsWaitingForReporting[o] + reported[o] + injecting[o] <= MaxPending
        BY DEF IInv, PInv, Packets, NumberOfPending
      <4>2. QED
        BY <4>1, MaxAssumption
    <3>2. QED
      BY <3>1 DEF IInv, PInv, Packets
  <2>4. QED
    BY <2>1, <2>2, <2>3 DEF Shape, TypeOK, Label
<1>2. QED
  BY <1>1, Invariant, PTL

(* The tokens are as many as the references: they differ in how they name   *)
(* the one place the object has in SocketsListToReport.                     *)
LEMMA AsManyTokens ==
  ASSUME IInv, NEW o \in Object
  PROVE  Cardinality(References(o)) = Cardinality(Tokens(o))
<1> DEFINE Others == OfSocketsList(o) \cup OfLocalList(o) \cup OfThreads(o) \cup OfAttach(o)
                     \cup OfRemoval(o) \cup OfReportRemoval(o)
           Places == {<<"SocketsListToReport", i>> : i \in {j \in DOMAIN SocketsListToReport :
                                                            SocketsListToReport[j] = o}}
<1>1. References(o) = Others \cup Places
  BY DEF References, OfSocketsList, OfLocalList, OfThreads, OfAttach, OfRemoval, OfReportRemoval
<1>2. Tokens(o) = Others \cup OfReportList(o)
  BY DEF Tokens
<1>3. \A x : <<"SocketsListToReport", x>> \notin Others
  BY DEF OfSocketsList, OfLocalList, OfThreads, OfAttach, OfRemoval, OfReportRemoval
<1>4. CASE ~ InReport(o)
  <2>1. Places = {} /\ OfReportList(o) = {}
    BY <1>4 DEF InReport, OfReportList
  <2>2. QED
    BY <1>1, <1>2, <2>1
<1>5. CASE InReport(o)
  <2>1. PICK i \in DOMAIN SocketsListToReport : SocketsListToReport[i] = o
    BY <1>5 DEF InReport
  <2>2. {j \in DOMAIN SocketsListToReport : SocketsListToReport[j] = o} = {i}
    BY <2>1 DEF IInv, SInv, ListedOnce, Once
  <2>3. Places = {<<"SocketsListToReport", i>>} /\ OfReportList(o) = {<<"SocketsListToReport", o>>}
    BY <1>5, <2>2 DEF OfReportList
  <2> HIDE DEF Others, Places
  <2>4. CASE i = o
    BY <1>1, <1>2, <2>3, <2>4
  <2>5. CASE i # o
    <3>1. <<"SocketsListToReport", o>> \in Tokens(o) /\ <<"SocketsListToReport", i>> \notin Tokens(o)
      BY <1>2, <1>3, <2>3, <2>5
    <3>2. References(o) = (Tokens(o) \ {<<"SocketsListToReport", o>>})
                          \cup {<<"SocketsListToReport", i>>}
      BY <1>1, <1>2, <1>3, <2>3
    <3>3. IsFiniteSet(Tokens(o))
      BY DEF IInv, Counted
    <3>4. QED
      BY <3>1, <3>2, <3>3, TwoTokens
  <2>6. QED
    BY <2>4, <2>5
<1>6. QED
  BY <1>4, <1>5

(* No step loses a reference to an object or releases one twice: its count  *)
(* is at any time the number of the places that keep it.                    *)
THEOREM ReferencesCounted == Spec => []RetainCountExact
<1>1. IInv => RetainCountExact
  BY AsManyTokens DEF RetainCountExact, IInv, Counted
<1>2. QED
  BY <1>1, Invariant, PTL

(* What has a token has a reference. *)
LEMMA Referenced ==
  ASSUME IInv, NEW o \in Object, NEW x \in Tokens(o)
  PROVE  retainCount[o] > 0
<1>1. IsFiniteSet(Tokens(o)) /\ retainCount[o] = Cardinality(Tokens(o)) /\ Cardinality(Tokens(o)) \in Nat
  BY FS_CardinalityType DEF IInv, Counted
<1>2. Cardinality(Tokens(o)) # 0
  BY <1>1, FS_EmptySet
<1>3. QED
  BY <1>1, <1>2

(* An object a thread has is alive. *)
LEMMA InUse ==
  ASSUME IInv, NEW t \in Thread, obj[t] # NoObject
  PROVE  obj[t] \in Object /\ retainCount[obj[t]] > 0
<1>1. PICK o \in Object : o = obj[t]
  BY DEF IInv, SInv, Shape
<1>2. CASE Owns(t)
  <2>1. <<"obj", t>> \in Tokens(o)
    BY <1>1, <1>2, Kinds
  <2>2. QED
    BY <1>1, <2>1, Referenced
<1>3. CASE ~ Owns(t)
  <2>1. t \in Address /\ pc[t] \in {"attached", "detach"}
    BY <1>3 DEF Owns
  <2>2. o \in SocketsList
    BY <1>1, <2>1 DEF IInv, SInv, Lists, Listed
  <2>3. <<"SocketsList", o>> \in Tokens(o)
    BY <2>2, Kinds
  <2>4. QED
    BY <1>1, <2>3, Referenced
<1>4. QED
  BY <1>2, <1>3

(* A thread works on an object that has references: the event, the response *)
(* and the delivery on one they retain, the callbacks of an attached socket *)
(* on the one of SocketsList.                                               *)
THEOREM NoneUsedAfterFree == Spec => []NoUseAfterFree
<1>1. IInv => NoUseAfterFree
  BY InUse DEF NoUseAfterFree
<1>2. QED
  BY <1>1, Invariant, PTL

(* What free() asserts: an object has no deferred packet and is in no list. *)
THEOREM NothingLeft == Spec => []FreedWithNothingLeft
<1>1. ASSUME IInv, NEW o \in Object, Freed(o)
      PROVE  NumberOfPending(o) = 0 /\ o \notin SocketsList /\ ~ InReport(o)
  <2>1. retainCount[o] = 0
    BY <1>1 DEF Freed
  <2>2. Tokens(o) = {}
    BY <1>1, <2>1, Referenced
  <2>3. o \notin SocketsList /\ ~ InReport(o)
    BY <2>2, Kinds
  <2>4. \A t \in Thread : obj[t] # o
    <3>1. o # NoObject
      BY DEF Object, NoObject
    <3>2. QED
      BY <1>1, <2>1, <3>1, InUse
  <2>5. ~ Attached(o)
    BY <1>1, <2>3, <2>4 DEF Attached, IInv, SInv, Lists, MissedListed, Thread
  <2>6. ~ (NumberOfPending(o) > 0)
    BY <1>1, <2>5 DEF IInv, PInv, NoPacketOutlivesDetach
  <2>7. NumberOfPending(o) \in Nat
    BY <1>1 DEF IInv, PInv, Packets, NumberOfPending
  <2>8. QED
    BY <2>3, <2>6, <2>7
<1>2. IInv => FreedWithNothingLeft
  BY <1>1 DEF FreedWithNothingLeft
<1>3. QED
  BY <1>2, Invariant, PTL

(* When FltDetach returns the socket has no packet, whatever other threads  *)
(* deliver, inject and purge meanwhile.                                     *)
THEOREM PacketsEndWithDetach == Spec => []NoPacketOutlivesDetach
<1>1. IInv => NoPacketOutlivesDetach
  BY DEF IInv, PInv
<1>2. QED
  BY <1>1, Invariant, PTL

(* At most one object is listed for an address, and none when FltAttach     *)
(* lists another, although detach callbacks may be missed.                  *)
THEOREM LookupIsUnambiguous == Spec => []OneObjectPerSocket
<1>1. IInv => OneObjectPerSocket
  BY DEF IInv, SInv, Lists, OneListed, Listed, OneObjectPerSocket
<1>2. QED
  BY <1>1, Invariant, PTL

(* A late response injects nothing of the socket that has its address now.  *)
THEOREM ResponsesReachTheirSocket == Spec => []ResponseForItsSocket
<1>1. IInv => ResponseForItsSocket
  BY DEF IInv, SInv, Answers, ResponseForItsSocket
<1>2. QED
  BY <1>1, Invariant, PTL

(* A step retains or releases a new object, one that is listed or one that  *)
(* a thread has.                                                            *)
LEMMA OnlyReferenced ==
  ASSUME Next, NEW o \in Object, retainCount \in [Object -> Int], Shape,
         o # gSocketSequence, o \notin SocketsList,
         \A t \in Thread : obj[t] # o, \A a \in Address : oldObj[a] # o
  PROVE  retainCount'[o] = retainCount[o]
<1>1. ASSUME NEW a \in Address, Kernel(a) PROVE retainCount'[o] = retainCount[o]
  <2>1. a \in Thread
    BY DEF Thread
  <2>2. CASE FltAttach(a)
    BY <2>1, <2>2 DEF FltAttach, Attach, Create, InsertInSocketsList, ReleaseCreated, LeftAtAddress, AtAddress,
      Retain, Release
  <2>3. CASE FltData(a) \/ CloseSocket(a) \/ MissDetach(a)
    BY <2>1, <2>3 DEF FltData, Report, ReportLater, CloseSocket, MissDetach, Retain
  <2>4. CASE FltDetach(a)
    BY <2>1, <2>4 DEF FltDetach, Detach, RemoveFromSocketsList, RemoveFromSocketsListToReport,
      ReleaseFromList, ReleaseFromListToReport, ReleaseInserted, Purge, EmptyQueue, AwaitCompletion,
      ReleaseDetached, ReleaseOld, Retain, Release
  <2>5. QED
    BY <1>1, <2>2, <2>3, <2>4 DEF Kernel
<1>2. ASSUME NEW r \in Caller, Call(r) PROVE retainCount'[o] = retainCount[o]
  BY <1>2 DEF Call, FltNotify, PurgeInbound, AwaitCompletionOfEvent, ProcessServiceResponse,
    GetSocketObjectRef, AtAddress, Retain
<1>3. ASSUME NEW r \in Injector, ReinjectDeferredData(r) PROVE retainCount'[o] = retainCount[o]
  BY <1>3 DEF ReinjectDeferredData, CollectPackets, Inject, FinishInjection, ReleaseFound, Release, Thread,
    Injector, Reporter
<1>4. ASSUME NEW t \in Reporter, Deliver(t) PROVE retainCount'[o] = retainCount[o]
  BY <1>4 DEF Deliver, DeliverWaitingNotifications, TakeFirst, ReportPackets, Reinsert, ReleaseReported,
    Release, Thread
<1>5. CASE InjectionThreadRoutine
  BY <1>5 DEF InjectionThreadRoutine, CollectSockets, NextSocket, EndOfRound
<1>6. QED
  BY <1>1, <1>2, <1>3, <1>4, <1>5 DEF Next

(* A freed object has no reference ever after: no lookup, list or thread    *)
(* brings it back.                                                          *)
THEOREM FreedStayFreed == Spec => FreedForEver
<1>1. ASSUME IInv, IInv', [Next]_vars, NEW o \in Object, Freed(o) PROVE Freed(o)'
  <2>1. /\ retainCount[o] = 0 /\ o < gSocketSequence /\ retainCount \in [Object -> Int] /\ Shape
        /\ gSocketSequence \in Nat
    BY <1>1, MaxAssumption DEF Freed, IInv, SInv, Shape, Counted
  <2>2. Tokens(o) = {}
    BY <1>1, <2>1, Referenced
  <2>3. o \notin SocketsList /\ \A a \in Address : oldObj[a] # o
    BY <2>2, Kinds
  <2>4. \A t \in Thread : obj[t] # o
    <3>1. o # NoObject
      BY DEF Object, NoObject
    <3>2. QED
      BY <1>1, <2>1, <3>1, InUse
  <2>5. o # gSocketSequence
    BY <2>1 DEF Object
  <2>6. retainCount'[o] = retainCount[o]
    <3>1. CASE Next
      BY <2>1, <2>3, <2>4, <2>5, <3>1, OnlyReferenced
    <3>2. CASE UNCHANGED vars
      BY <3>2 DEF vars
    <3>3. QED
      BY <1>1, <3>1, <3>2
  <2>7. gSocketSequence' = gSocketSequence \/ gSocketSequence' = gSocketSequence + 1
    BY <1>1 DEF Next, Kernel, FltAttach, Attach, Create, InsertInSocketsList, ReleaseCreated, FltData, Report,
      ReportLater, CloseSocket, MissDetach, FltDetach, Detach, RemoveFromSocketsList,
      RemoveFromSocketsListToReport, ReleaseFromList, ReleaseFromListToReport, Purge, EmptyQueue,
      AwaitCompletion, ReleaseDetached, ReleaseOld, Call, FltNotify, PurgeInbound, AwaitCompletionOfEvent,
      ProcessServiceResponse, ReinjectDeferredData, CollectPackets, Inject, FinishInjection, ReleaseFound,
      Deliver, DeliverWaitingNotifications, TakeFirst, ReportPackets, Reinsert, ReleaseReported,
      InjectionThreadRoutine, CollectSockets, NextSocket, EndOfRound, objects, vars
  <2>8. o < gSocketSequence'
    BY <2>1, <2>7 DEF Object
  <2>9. QED
    BY <2>1, <2>6, <2>8 DEF Freed
<1>2. IInv /\ IInv' /\ [Next]_vars => [\A o \in Object : Freed(o) => Freed(o)']_vars
  BY <1>1
<1>3. QED
  BY <1>2, Invariant, PTL DEF Spec, FreedForEver
=============================================================================
