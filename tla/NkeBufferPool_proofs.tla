------------------------- MODULE NkeBufferPool_proofs -------------------------
(***************************************************************************)
(* The pool of buffers takes the steps of SocketBuffers, for any number of  *)
(* buffers, of threads that take them and of threads of the client, and no  *)
(* buffer is given to two packets and none is lost, until the code goes     *)
(* wrong in one of two ways: it swaps the head for a link that has changed  *)
(* since it was loaded, or releases an array twice after a failed copy.     *)
(* The run pool_shared shows the first.                                     *)
(*                                                                          *)
(* The argument has three parts.  The list is the least set closed under    *)
(* the links that has the head: a link matters only where it is reached.    *)
(* Each buffer outside the list has one holder, which finds it at one place *)
(* of one array.  And a swap that finds the head it loaded, and whose link  *)
(* is still that of the head, is right whatever happened to the list since. *)
(***************************************************************************)
EXTENDS NkeBufferPool, FiniteSetTheorems, SequenceTheorems, WellFoundedInduction, TLAPS

(* The places of a thread that takes buffers, and of one that releases them. *)
Acquiring == {"loadHead", "loadNext", "swapAcquire", "mark"}
Releasing == {"check", "loadLink", "link", "swapRelease"}
Linking == {"loadLink", "link", "swapRelease"}

(* Where a thread is, and how many buffers it has then. *)
Places ==
  /\ \A s \in notified : Len(s) <= MaxParts
  /\ \A t \in Thread :
       /\ Len(bufferIndices[t]) <= MaxParts
       /\ cursor[t] <= Len(bufferIndices[t]) + 1
       /\ pc[t] \notin Releasing => cursor[t] = 1
       /\ pc[t] = "idle" => bufferIndices[t] = <<>>
       /\ pc[t] \in Acquiring => t \in Reporter /\ Len(bufferIndices[t]) < parts[t]
       /\ pc[t] \in {"loadNext", "swapAcquire", "mark"} => freeIndex[t] \in Buffer
       /\ pc[t] = "notify" => t \in Reporter
       /\ pc[t] \in Linking =>
            cursor[t] <= Len(bufferIndices[t]) /\ freeIndex[t] = bufferIndices[t][cursor[t]]

TInv == TypeOK /\ Places

(* A thread works on one buffer outside the list, whose link it may write. *)
Working == {"mark", "loadLink", "link", "swapRelease"}

(* A buffer is held by the thread in whose array it is, where the thread    *)
(* has not come by releasing, or which has just taken it; or by the client. *)
ThreadHolds(t, b) ==
  \/ \E i \in 1 .. Len(bufferIndices[t]) : cursor[t] <= i /\ bufferIndices[t][i] = b
  \/ pc[t] = "mark" /\ freeIndex[t] = b

ClientHolds(b) == \E s \in notified : \E i \in 1 .. Len(s) : s[i] = b

Holders ==
  \A b \in Buffer :
    /\ \A t \in Thread : t \in holder[b] <=> ThreadHolds(t, b)
    /\ Client \in holder[b] <=> ClientHolds(b)
    /\ \A g, h \in holder[b] : g = h

(* ... and it is there once. *)
HeldOnce ==
  /\ \A t \in Thread :
       /\ \A i, j \in 1 .. Len(bufferIndices[t]) :
            cursor[t] <= i /\ cursor[t] <= j /\ bufferIndices[t][i] = bufferIndices[t][j] => i = j
       /\ pc[t] = "mark" => \A i \in 1 .. Len(bufferIndices[t]) : bufferIndices[t][i] # freeIndex[t]
  /\ \A r, s \in notified : \A i \in 1 .. Len(r), j \in 1 .. Len(s) :
       r[i] = s[j] => r = s /\ i = j

(* A buffer that is held has the mark of one outside the list, but for the  *)
(* time a thread works on it.                                               *)
Marked ==
  \A b \in Buffer :
    holder[b] # {} /\ (\A t \in Thread : pc[t] \in Working => freeIndex[t] # b)
      => freeBuffers[b] = UINT8_MAX

FreeInList == \A b \in Buffer : b \in FreeList <=> holder[b] = {}

(* The list does not come back to one of its buffers. *)
Acyclic == \A b \in FreeList : b \notin ReachedFrom(freeBuffers, freeBuffers[b])

(* The pool before a fault. *)
IInv == TInv /\ Holders /\ HeldOnce /\ Marked /\ FreeInList /\ Acyclic

UntilFaultInv == TInv /\ (faulted \/ IInv)

-----------------------------------------------------------------------------
(* The end of the list is no buffer. *)
LEMMA NoBufferIsLast == UINT8_MAX \notin Buffer /\ BuffersNumber \in Nat \ {0}
BY BuffersAssumption DEF UINT8_MAX, Buffer

(* What is reached is closed, and the least of the closed sets. *)
LEMMA Reach ==
  ASSUME NEW links, NEW x
  PROVE  /\ ReachedFrom(links, x) \subseteq Buffer
         /\ x \in Buffer => x \in ReachedFrom(links, x)
         /\ ClosedUnder(links, ReachedFrom(links, x))
         /\ \A S \in SUBSET Buffer :
              (x \in Buffer => x \in S) /\ ClosedUnder(links, S) => ReachedFrom(links, x) \subseteq S
BY DEF ReachedFrom, ClosedUnder

(* Nothing is reached from the end of the list. *)
LEMMA ReachNothing ==
  ASSUME NEW links, NEW x, x \notin Buffer
  PROVE  ReachedFrom(links, x) = {}
<1>1. {} \in SUBSET Buffer /\ ClosedUnder(links, {})
  BY DEF ClosedUnder
<1>2. QED
  BY <1>1, Reach

(* A buffer reaches itself and what its link reaches. *)
LEMMA ReachFirst ==
  ASSUME NEW links, NEW x \in Buffer
  PROVE  ReachedFrom(links, x) = {x} \cup ReachedFrom(links, links[x])
<1> DEFINE R == ReachedFrom(links, x)
           T == ReachedFrom(links, links[x])
<1>1. /\ R \subseteq Buffer /\ T \subseteq Buffer
      /\ x \in R /\ (links[x] \in Buffer => links[x] \in T)
      /\ ClosedUnder(links, R) /\ ClosedUnder(links, T)
      /\ \A S \in SUBSET Buffer : x \in S /\ ClosedUnder(links, S) => R \subseteq S
      /\ \A S \in SUBSET Buffer :
           (links[x] \in Buffer => links[x] \in S) /\ ClosedUnder(links, S) => T \subseteq S
  BY Reach
<1> HIDE DEF R, T
<1>2. ClosedUnder(links, {x} \cup T)
  BY <1>1 DEF ClosedUnder
<1>3. links[x] \in Buffer => links[x] \in R
  BY <1>1 DEF ClosedUnder
<1>4. R \subseteq {x} \cup T
  BY <1>1, <1>2
<1>5. T \subseteq R
  BY <1>1, <1>3
<1>6. QED
  BY <1>1, <1>4, <1>5 DEF R, T

(* From a buffer of the list, no other is reached than from its first. *)
LEMMA ReachTransitive ==
  ASSUME NEW links, NEW x, NEW b \in ReachedFrom(links, x)
  PROVE  /\ ReachedFrom(links, b) \subseteq ReachedFrom(links, x)
         /\ ReachedFrom(links, links[b]) \subseteq ReachedFrom(links, x)
<1> DEFINE R == ReachedFrom(links, x)
<1>1. R \subseteq Buffer /\ ClosedUnder(links, R) /\ b \in R
  BY Reach
<1> HIDE DEF R
<1>2. ReachedFrom(links, b) \subseteq R
  BY <1>1, Reach
<1>3. links[b] \in Buffer => links[b] \in R
  BY <1>1 DEF ClosedUnder
<1>4. ReachedFrom(links, links[b]) \subseteq R
  BY <1>1, <1>3, Reach
<1>5. QED
  BY <1>2, <1>4 DEF R

(* The link of a buffer that is not reached does not matter. *)
LEMMA ReachUnlinked ==
  ASSUME NEW links, NEW other, NEW x, NEW b,
         b \notin ReachedFrom(links, x),
         \A c \in Buffer : c # b => other[c] = links[c]
  PROVE  ReachedFrom(other, x) = ReachedFrom(links, x)
<1> DEFINE R == ReachedFrom(links, x)
           T == ReachedFrom(other, x)
<1>1. /\ R \subseteq Buffer /\ T \subseteq Buffer /\ b \notin R
      /\ x \in Buffer => x \in R /\ x \in T
      /\ ClosedUnder(links, R) /\ ClosedUnder(other, T)
      /\ \A S \in SUBSET Buffer :
           (x \in Buffer => x \in S) /\ ClosedUnder(links, S) => R \subseteq S
      /\ \A S \in SUBSET Buffer :
           (x \in Buffer => x \in S) /\ ClosedUnder(other, S) => T \subseteq S
  BY Reach
<1> HIDE DEF R, T
<1>2. ClosedUnder(other, R)
  BY <1>1 DEF ClosedUnder
<1>3. T \subseteq R
  BY <1>1, <1>2
<1>4. ClosedUnder(links, T)
  BY <1>1, <1>3 DEF ClosedUnder
<1>5. R \subseteq T
  BY <1>1, <1>4
<1>6. QED
  BY <1>3, <1>5 DEF R, T

-----------------------------------------------------------------------------
(* withDefault: every buffer is in the list, and none twice. *)
InitialLinks == [b \in Buffer |-> IF b = 0 THEN UINT8_MAX ELSE b - 1]

(* A set of buffers has a last one: the buffers above it are the fewest.    *)
LEMMA LastOfBuffers ==
  ASSUME NEW S \in SUBSET Buffer, S # {}
  PROVE  \E b \in S : \A c \in S : c <= b
<1> DEFINE Above(b) == {c \in Buffer : c > b}
           T == {Above(b) : b \in S}
<1>1. Buffer = 0 .. BuffersNumber - 1 /\ BuffersNumber \in Nat /\ Buffer \subseteq Nat
  BY BuffersAssumption DEF Buffer
<1>2. IsFiniteSet(Buffer)
  BY <1>1, FS_Interval
<1>3. T \subseteq FiniteSubsetsOf(Buffer) /\ T # {}
  <2>1. T \subseteq SUBSET Buffer
    OBVIOUS
  <2>2. FiniteSubsetsOf(Buffer) = SUBSET Buffer
    BY <1>2, FS_FiniteSubsetsOfFinite
  <2>3. PICK b \in S : TRUE
    OBVIOUS
  <2>4. Above(b) \in T
    OBVIOUS
  <2> HIDE DEF T
  <2>5. QED
    BY <2>1, <2>2, <2>4
<1>4. IsWellFoundedOn(StrictSubsetOrdering(Buffer), FiniteSubsetsOf(Buffer))
  BY FS_StrictSubsetOrderingWellFounded
<1>5. \E U \in T : \A V \in T : <<V, U>> \notin StrictSubsetOrdering(Buffer)
  <2> HIDE DEF T
  <2>1. QED
    BY <1>3, <1>4, WFMin
<1>6. PICK b \in S : \A c \in S : <<Above(c), Above(b)>> \notin StrictSubsetOrdering(Buffer)
  BY <1>5
<1>7. ASSUME NEW c \in S, c > b PROVE FALSE
  <2>1. b \in Nat /\ c \in Buffer /\ c \in Nat
    BY <1>1
  <2>2. Above(c) \subseteq Above(b) /\ c \in Above(b) /\ c \notin Above(c)
    BY <1>1, <1>7, <2>1
  <2>3. Above(c) \in SUBSET Buffer /\ Above(b) \in SUBSET Buffer
    OBVIOUS
  <2> HIDE DEF Above
  <2>4. <<Above(c), Above(b)>> \in StrictSubsetOrdering(Buffer)
    BY <2>2, <2>3 DEF StrictSubsetOrdering
  <2>5. QED
    BY <1>6, <2>4
<1>8. QED
  BY <1>1, <1>7

(* withDefault links all buffers. *)
LEMMA AllReached == ReachedFrom(InitialLinks, LastCreated) = Buffer
<1> DEFINE R == ReachedFrom(InitialLinks, LastCreated)
<1>1. /\ LastCreated \in Nat /\ Buffer = 0 .. LastCreated
      /\ R \subseteq Buffer /\ LastCreated \in R /\ ClosedUnder(InitialLinks, R)
  BY BuffersAssumption, Reach DEF LastCreated, Buffer
<1>2. SUFFICES ASSUME Buffer \ R # {} PROVE FALSE
  BY <1>1
<1>3. PICK b \in Buffer \ R : \A c \in Buffer \ R : c <= b
  BY <1>2, LastOfBuffers
<1>4. b + 1 \in Buffer /\ b + 1 # 0 /\ (b + 1) - 1 = b /\ ~ (b + 1 <= b)
  BY <1>1
<1>5. InitialLinks[b + 1] = b
  BY <1>4 DEF InitialLinks
<1>6. b + 1 \in R
  BY <1>3, <1>4
<1>7. QED
  BY <1>1, <1>3, <1>5, <1>6 DEF ClosedUnder

(* ... and none of them twice. *)
LEMMA NoneReachedAgain ==
  ASSUME NEW b \in Buffer
  PROVE  b \notin ReachedFrom(InitialLinks, InitialLinks[b])
<1> DEFINE S == {c \in Buffer : c < b}
<1>1. Buffer \subseteq Nat /\ UINT8_MAX \notin Buffer
  BY NoBufferIsLast DEF Buffer
<1>2. \A c \in Buffer : InitialLinks[c] \in Buffer => InitialLinks[c] < c
  BY <1>1 DEF InitialLinks
<1>3. ClosedUnder(InitialLinks, S)
  <2>1. ASSUME NEW c \in S, InitialLinks[c] \in Buffer PROVE InitialLinks[c] < b
    <3>1. InitialLinks[c] < c /\ c < b
      BY <1>2, <2>1
    <3>2. \A k, m, n \in Nat : k < m /\ m < n => k < n
      OBVIOUS
    <3>3. c \in Nat /\ b \in Nat /\ InitialLinks[c] \in Nat
      BY <1>1, <2>1
    <3>4. QED
      BY <3>1, <3>2, <3>3
  <2>2. QED
    BY <2>1 DEF ClosedUnder
<1>4. InitialLinks[b] \in Buffer => InitialLinks[b] \in S
  BY <1>2
<1>5. ReachedFrom(InitialLinks, InitialLinks[b]) \subseteq S
  BY <1>3, <1>4, Reach
<1>6. QED
  BY <1>1, <1>5

-----------------------------------------------------------------------------
(* Types. *)
PcState == {"idle", "loadHead", "loadNext", "swapAcquire", "mark", "notify",
            "check", "loadLink", "link", "swapRelease"}

(* What a thread has taken fits into its array. *)
LEMMA Indices ==
  ASSUME TInv, NEW t \in Thread
  PROVE  /\ bufferIndices[t] \in Seq(Buffer)
         /\ Len(bufferIndices[t]) \in Nat
         /\ cursor[t] \in Nat \ {0}
         /\ \A i \in 1 .. Len(bufferIndices[t]) : bufferIndices[t][i] \in Buffer
         /\ cursor[t] <= Len(bufferIndices[t]) => bufferIndices[t][cursor[t]] \in Buffer
<1>1. bufferIndices[t] \in Seq(Buffer) /\ cursor[t] \in 1 .. MaxParts + 1
  BY DEF TInv, TypeOK
<1>2. Len(bufferIndices[t]) \in Nat /\ cursor[t] \in Nat \ {0}
  BY <1>1, PartsAssumption
<1>3. \A i \in 1 .. Len(bufferIndices[t]) : bufferIndices[t][i] \in Buffer
  BY <1>1, ElementOfSeq
<1>4. QED
  BY <1>1, <1>2, <1>3

(* The types and places hold at the start and are kept by every step. *)
LEMMA InitTInv == Init => TInv
<1> SUFFICES ASSUME Init PROVE TInv
  OBVIOUS
<1>1. BuffersNumber \in 1 .. 254 /\ MaxParts \in Nat \ {0}
  BY BuffersAssumption, PartsAssumption
<1>2. <<>> \in Seq(Buffer) /\ Len(<<>>) = 0
  OBVIOUS
<1>3. freeBuffers \in [Buffer -> Buffer \cup {UINT8_MAX}] /\ freeBuffersHead \in Buffer
  BY <1>1 DEF Init, Buffer, FirstFree, LastCreated
<1>4. TypeOK
  <2>1. faulted \in BOOLEAN
    BY DEF Init
  <2>2. /\ pc = [t \in Thread |-> "idle"] /\ parts = [t \in Reporter |-> 0]
        /\ bufferIndices = [t \in Thread |-> <<>>] /\ cursor = [t \in Thread |-> 1]
        /\ freeIndex = [t \in Thread |-> UINT8_MAX] /\ next = [t \in Thread |-> UINT8_MAX]
        /\ again = [t \in Thread |-> FALSE] /\ notified = {} /\ holder = [b \in Buffer |-> {}]
    BY DEF Init
  <2>3. QED
    BY <1>1, <1>2, <1>3, <2>1, <2>2 DEF TypeOK
<1>5. Places
  BY <1>1, <1>2 DEF Init, Places, Acquiring, Releasing, Linking
<1>6. QED
  BY <1>4, <1>5 DEF TInv

(* A fault is never forgotten. *)
LEMMA FaultStays ==
  ASSUME faulted \in BOOLEAN, [Next]_vars
  PROVE  faulted' \in BOOLEAN /\ (faulted => faulted')
<1>1. ASSUME NEW t \in Reporter, Report(t) \/ LoadHead(t) \/ LoadNext(t) \/ Mark(t) \/ Notify(t)
      PROVE  faulted' = faulted
  BY <1>1 DEF Report, LoadHead, LoadNext, Mark, Notify
<1>2. ASSUME NEW t \in Reporter, SwapAcquire(t)
      PROVE  faulted' = faulted \/ faulted' = (faulted \/ StaleLink(t))
  BY <1>2 DEF SwapAcquire
<1>3. ASSUME NEW t \in Thread, CheckFreed(t) \/ LoadLink(t) \/ Link(t) \/ SwapRelease(t)
      PROVE  faulted' = faulted
  BY <1>3 DEF CheckFreed, LoadLink, Link, SwapRelease
<1>4. ASSUME NEW t \in Thread, Released(t)
      PROVE  faulted' = (faulted \/ ReleasesTwice(t))
  BY <1>4 DEF Released
<1>5. ASSUME NEW t \in ClientThread, Respond(t)
      PROVE  faulted' = faulted
  BY <1>5 DEF Respond
<1>6. CASE UNCHANGED vars
  BY <1>6 DEF vars
<1>7. \A t : StaleLink(t) \in BOOLEAN /\ ReleasesTwice(t) \in BOOLEAN
  BY DEF StaleLink, ReleasesTwice
<1>8. QED
  BY <1>1, <1>2, <1>3, <1>4, <1>5, <1>6, <1>7 DEF Next, AcquireStep, ReleaseStep

(* Every step keeps the types and the places, one action after the other. *)
LEMMA NextTInv == TInv /\ [Next]_vars => TInv'
<1> SUFFICES ASSUME TInv, [Next]_vars PROVE TInv'
  OBVIOUS
<1>1. /\ TypeOK /\ Places /\ MaxParts \in Nat \ {0}
      /\ pc \in [Thread -> PcState] /\ Reporter \subseteq Thread /\ ClientThread \subseteq Thread
      /\ \A s \in Seq(Buffer) : Len(s) \in Nat
      /\ <<>> \in Seq(Buffer) /\ Len(<<>>) = 0 /\ faulted' \in BOOLEAN
  BY PartsAssumption, BuffersAssumption, FaultStays DEF TInv, TypeOK, PcState, Thread
<1> USE DEF listVars, threadVars
<1>2. ASSUME NEW t \in Reporter, Report(t) PROVE TInv'
  <2>1. TypeOK'
    BY <1>1, <1>2 DEF TypeOK, Report
  <2>2. Places'
    BY <1>1, <1>2 DEF TypeOK, Places, Report, Acquiring, Releasing, Linking
  <2>3. QED
    BY <2>1, <2>2 DEF TInv
<1>3. ASSUME NEW t \in Reporter, LoadHead(t) PROVE TInv'
  <2>1. /\ again' \in [Thread -> BOOLEAN]
        /\ freeIndex' = [freeIndex EXCEPT ![t] = freeBuffersHead]
        /\ UNCHANGED <<listVars, parts, bufferIndices, cursor, next, notified, holder>>
    <3>1. again' = again \/ again' = [again EXCEPT ![t] = ReleasesAfterError(t)]
      BY <1>3 DEF LoadHead
    <3>2. ReleasesAfterError(t) \in BOOLEAN
      BY DEF ReleasesAfterError
    <3>3. QED
      BY <1>1, <1>3, <3>1, <3>2 DEF TypeOK, LoadHead
  <2>2. CASE freeBuffersHead = UINT8_MAX
    <3>1. pc[t] = "loadHead" /\ pc' = [pc EXCEPT ![t] = "check"]
      BY <1>3, <2>2 DEF LoadHead
    <3>2. TypeOK'
      BY <1>1, <2>1, <3>1 DEF TypeOK
    <3>3. Places'
      BY <1>1, <2>1, <3>1, <2>2 DEF TypeOK, Places, Acquiring, Releasing, Linking
    <3>4. QED
      BY <3>2, <3>3 DEF TInv
  <2>3. CASE freeBuffersHead # UINT8_MAX
    <3>1. /\ pc[t] = "loadHead" /\ pc' = [pc EXCEPT ![t] = "loadNext"]
          /\ freeBuffersHead \in Buffer
      BY <1>1, <1>3, <2>3 DEF LoadHead, TypeOK
    <3>2. TypeOK'
      BY <1>1, <2>1, <3>1 DEF TypeOK
    <3>3. Places'
      BY <1>1, <2>1, <3>1 DEF TypeOK, Places, Acquiring, Releasing, Linking
    <3>4. QED
      BY <3>2, <3>3 DEF TInv
  <2>4. QED
    BY <2>2, <2>3
<1>4. ASSUME NEW t \in Reporter, LoadNext(t) PROVE TInv'
  <2>1. freeIndex[t] \in Buffer
    BY <1>1, <1>4 DEF Places, LoadNext
  <2>2. TypeOK'
    BY <1>1, <1>4, <2>1 DEF TypeOK, LoadNext
  <2>3. Places'
    BY <1>1, <1>4 DEF TypeOK, Places, LoadNext, Acquiring, Releasing, Linking
  <2>4. QED
    BY <2>2, <2>3 DEF TInv
<1>5. ASSUME NEW t \in Reporter, SwapAcquire(t) PROVE TInv'
  <2>1. freeIndex[t] \in Buffer
    BY <1>1, <1>5 DEF Places, SwapAcquire
  <2>2. TypeOK'
    <3>1. pc' \in [Thread -> PcState] /\ next' \in [Thread -> Buffer \cup {UINT8_MAX}]
      BY <1>1, <1>5 DEF TypeOK, SwapAcquire, PcState, RetryAt
    <3>2. freeBuffersHead' \in Buffer \cup {UINT8_MAX}
      BY <1>1, <1>5 DEF TypeOK, SwapAcquire
    <3>3. holder' \in [Buffer -> SUBSET (Thread \cup {Client})]
      <4>1. holder' = holder \/ holder' = [holder EXCEPT ![freeIndex[t]] = @ \cup {t}]
        BY <1>5 DEF SwapAcquire
      <4>2. holder \in [Buffer -> SUBSET (Thread \cup {Client})] /\ t \in Thread
        BY <1>1 DEF TypeOK
      <4>3. QED
        BY <2>1, <4>1, <4>2
    <3>4. QED
      BY <1>1, <1>5, <3>1, <3>2, <3>3 DEF TypeOK, SwapAcquire, PcState
  <2>3. Places'
    BY <1>1, <1>5 DEF TypeOK, Places, SwapAcquire, RetryAt, Acquiring, Releasing, Linking
  <2>4. QED
    BY <2>2, <2>3 DEF TInv
<1>6. ASSUME NEW t \in Reporter, Mark(t) PROVE TInv'
  <2> DEFINE s == bufferIndices[t]
             r == Append(s, freeIndex[t])
  <2>1. /\ freeIndex[t] \in Buffer /\ s \in Seq(Buffer) /\ Len(s) < parts[t]
        /\ parts[t] \in 0 .. MaxParts /\ cursor[t] = 1
    BY <1>1, <1>6 DEF TypeOK, Places, Mark, Acquiring, Releasing
  <2>2. /\ r \in Seq(Buffer) /\ Len(r) = Len(s) + 1 /\ Len(r) \in Nat
        /\ bufferIndices' = [bufferIndices EXCEPT ![t] = r]
    BY <1>6, <2>1 DEF Mark
  <2>3. Len(r) <= MaxParts /\ (Len(r) # parts[t] => Len(r) < parts[t])
    BY <1>1, <2>1, <2>2
  <2>4. pc' = [pc EXCEPT ![t] = IF Len(r) = parts[t] THEN "notify" ELSE "loadHead"]
    BY <1>1, <1>6, <2>2 DEF TypeOK, Mark
  <2> HIDE DEF r
  <2>5. TypeOK'
    BY <1>1, <1>6, <2>1, <2>2, <2>4 DEF TypeOK, Mark
  <2>7. Places'
    BY <1>1, <1>6, <2>1, <2>2, <2>3, <2>4 DEF TypeOK, Places, Mark, Acquiring, Releasing, Linking
  <2>8. QED
    BY <2>5, <2>7 DEF TInv
<1>7. ASSUME NEW t \in Reporter, Notify(t) PROVE TInv'
  <2>1. pc[t] = "notify" /\ UNCHANGED <<listVars, parts, cursor, freeIndex, next, again>>
    BY <1>7 DEF Notify
  <2>2. CASE /\ notified' = notified \cup {bufferIndices[t]}
             /\ holder' = [b \in Buffer |-> IF b \in Own(t) THEN (holder[b] \ {t}) \cup {Client}
                                                            ELSE holder[b]]
             /\ bufferIndices' = [bufferIndices EXCEPT ![t] = <<>>]
             /\ pc' = [pc EXCEPT ![t] = "idle"]
    <3>1. holder' \in [Buffer -> SUBSET (Thread \cup {Client})]
      BY <1>1, <2>2 DEF TypeOK
    <3>2. bufferIndices' \in [Thread -> Seq(Buffer)] /\ notified' \subseteq Seq(Buffer)
      BY <1>1, <2>2 DEF TypeOK
    <3>3. TypeOK'
      BY <1>1, <2>1, <2>2, <3>1, <3>2 DEF TypeOK
    <3>4. /\ pc'[t] = "idle" /\ bufferIndices'[t] = <<>> /\ cursor'[t] = cursor[t]
          /\ \A u \in Thread : u # t => pc'[u] = pc[u] /\ bufferIndices'[u] = bufferIndices[u]
          /\ cursor[t] = 1 /\ Len(bufferIndices[t]) <= MaxParts
      BY <1>1, <2>1, <2>2 DEF TypeOK, Places, Releasing
    <3>5. Places'
      BY <1>1, <2>1, <2>2, <3>4 DEF Places, Acquiring, Releasing, Linking
    <3>6. QED
      BY <3>3, <3>5 DEF TInv
  <2>3. CASE pc' = [pc EXCEPT ![t] = "check"] /\ UNCHANGED <<notified, holder, bufferIndices>>
    <3>1. TypeOK'
      BY <1>1, <2>1, <2>3 DEF TypeOK
    <3>2. Places'
      BY <1>1, <2>1, <2>3 DEF TypeOK, Places, Acquiring, Releasing, Linking
    <3>3. QED
      BY <3>1, <3>2 DEF TInv
  <2>4. QED
    BY <1>7, <2>2, <2>3 DEF Notify
<1>8. ASSUME NEW c \in ClientThread, Respond(c) PROVE TInv'
  <2>1. TypeOK'
    BY <1>1, <1>8 DEF TypeOK, Respond
  <2>2. Places'
    BY <1>1, <1>8 DEF TypeOK, Places, Respond, Acquiring, Releasing, Linking
  <2>3. QED
    BY <2>1, <2>2 DEF TInv
<1>9. ASSUME NEW t \in Thread, Released(t) PROVE TInv'
  <2>1. TypeOK'
    <3>1. pc' \in [Thread -> PcState] /\ bufferIndices' \in [Thread -> Seq(Buffer)]
      BY <1>1, <1>9 DEF TypeOK, Released, PcState
    <3>2. cursor' \in [Thread -> 1 .. MaxParts + 1]
      BY <1>1, <1>9 DEF TypeOK, Released
    <3>3. again' \in [Thread -> BOOLEAN]
      BY <1>1, <1>9 DEF TypeOK, Released
    <3>4. QED
      BY <1>1, <1>9, <3>1, <3>2, <3>3 DEF TypeOK, Released, PcState
  <2>2. Places'
    BY <1>1, <1>9 DEF TypeOK, Places, Released, Acquiring, Releasing, Linking
  <2>3. QED
    BY <2>1, <2>2 DEF TInv
<1>10. ASSUME NEW t \in Thread, CheckFreed(t) PROVE TInv'
  <2>1. /\ cursor[t] \in Nat \ {0} /\ bufferIndices[t] \in Seq(Buffer)
        /\ Len(bufferIndices[t]) \in Nat /\ Len(bufferIndices[t]) <= MaxParts
        /\ cursor[t] <= Len(bufferIndices[t]) /\ bufferIndices[t][cursor[t]] \in Buffer
    BY <1>1, <1>10, Indices DEF Places, CheckFreed
  <2>2. cursor[t] + 1 \in 1 .. MaxParts + 1
    BY <1>1, <2>1
  <2> DEFINE index == bufferIndices[t][cursor[t]]
  <2>3. pc[t] = "check" /\ UNCHANGED <<listVars, threadVars, next, notified, holder>>
    BY <1>10 DEF CheckFreed
  <2>4. CASE freeBuffers[index] # UINT8_MAX
    <3>1. cursor' = [cursor EXCEPT ![t] = @ + 1] /\ UNCHANGED <<freeIndex, pc>>
      BY <1>10, <2>4 DEF CheckFreed
    <3>2. TypeOK'
      BY <1>1, <2>2, <2>3, <3>1 DEF TypeOK
    <3>3. Places'
      BY <1>1, <2>1, <2>3, <3>1 DEF TypeOK, Places, Acquiring, Releasing, Linking
    <3>4. QED
      BY <3>2, <3>3 DEF TInv
  <2>5. CASE freeBuffers[index] = UINT8_MAX
    <3>1. /\ freeIndex' = [freeIndex EXCEPT ![t] = index]
          /\ pc' = [pc EXCEPT ![t] = "loadLink"] /\ UNCHANGED cursor
      BY <1>10, <2>5 DEF CheckFreed
    <3>2. index \in Buffer
      BY <2>1
    <3> HIDE DEF index
    <3>3. TypeOK'
      BY <1>1, <2>3, <3>1, <3>2 DEF TypeOK
    <3>4. \A u \in Thread : u # t => /\ pc'[u] = pc[u] /\ freeIndex'[u] = freeIndex[u]
      BY <1>1, <3>1 DEF TypeOK
    <3>5. pc'[t] = "loadLink" /\ freeIndex'[t] = index
      BY <1>1, <3>1 DEF TypeOK
    <3>6. index = bufferIndices[t][cursor[t]]
      BY DEF index
    <3>7. Places'
      BY <1>1, <2>1, <2>3, <3>1, <3>4, <3>5, <3>6 DEF Places, Acquiring, Releasing, Linking
    <3>8. QED
      BY <3>3, <3>7 DEF TInv
  <2>6. QED
    BY <2>4, <2>5
<1>11. ASSUME NEW t \in Thread, LoadLink(t) PROVE TInv'
  <2>1. TypeOK'
    BY <1>1, <1>11 DEF TypeOK, LoadLink
  <2>2. Places'
    BY <1>1, <1>11 DEF TypeOK, Places, LoadLink, Acquiring, Releasing, Linking
  <2>3. QED
    BY <2>1, <2>2 DEF TInv
<1>12. ASSUME NEW t \in Thread, Link(t) PROVE TInv'
  <2>1. TypeOK'
    <3>1. next[t] \in Buffer \cup {UINT8_MAX}
      BY <1>1 DEF TypeOK
    <3>2. freeBuffers' \in [Buffer -> Buffer \cup {UINT8_MAX}]
      BY <1>1, <1>12, <3>1 DEF TypeOK, Link
    <3>3. QED
      BY <1>1, <1>12, <3>2 DEF TypeOK, Link
  <2>2. Places'
    BY <1>1, <1>12 DEF TypeOK, Places, Link, Acquiring, Releasing, Linking
  <2>3. QED
    BY <2>1, <2>2 DEF TInv
<1>13. ASSUME NEW t \in Thread, SwapRelease(t) PROVE TInv'
  <2>1. /\ cursor[t] \in Nat \ {0} /\ bufferIndices[t] \in Seq(Buffer)
        /\ Len(bufferIndices[t]) \in Nat /\ Len(bufferIndices[t]) <= MaxParts
        /\ cursor[t] <= Len(bufferIndices[t]) /\ freeIndex[t] \in Buffer
    BY <1>1, <1>13, Indices DEF Places, SwapRelease, Linking
  <2>2. cursor[t] + 1 \in 1 .. MaxParts + 1
    BY <1>1, <2>1
  <2>3. TypeOK'
    <3>1. pc' \in [Thread -> PcState] /\ cursor' \in [Thread -> 1 .. MaxParts + 1]
      BY <1>1, <1>13, <2>2 DEF TypeOK, SwapRelease, PcState
    <3>2. freeBuffersHead' \in Buffer \cup {UINT8_MAX}
      BY <1>1, <1>13, <2>1 DEF TypeOK, SwapRelease
    <3>3. freeIndex' \in [Thread -> Buffer \cup {UINT8_MAX}]
      <4>1. freeIndex' = freeIndex \/ freeIndex' = [freeIndex EXCEPT ![t] = UINT8_MAX]
        BY <1>13 DEF SwapRelease
      <4>2. freeIndex \in [Thread -> Buffer \cup {UINT8_MAX}]
        BY <1>1 DEF TypeOK
      <4>3. QED
        BY <4>1, <4>2
    <3>4. holder' \in [Buffer -> SUBSET (Thread \cup {Client})]
      <4>1. holder' = holder \/ holder' = [holder EXCEPT ![freeIndex[t]] = @ \ {t}]
        BY <1>13 DEF SwapRelease
      <4>2. holder \in [Buffer -> SUBSET (Thread \cup {Client})] /\ t \in Thread
        BY <1>1 DEF TypeOK
      <4>3. QED
        BY <2>1, <4>1, <4>2
    <3>5. UNCHANGED <<freeBuffers, parts, bufferIndices, again, next, notified>>
      BY <1>13 DEF SwapRelease
    <3>6. QED
      BY <1>1, <3>1, <3>2, <3>3, <3>4, <3>5 DEF TypeOK, PcState
  <2>4. Places'
    <3>1. pc[t] = "swapRelease" /\ UNCHANGED <<parts, bufferIndices, next, notified>>
      BY <1>13 DEF SwapRelease
    <3>2. CASE pc' = [pc EXCEPT ![t] = "loadLink"] /\ UNCHANGED <<cursor, freeIndex>>
      BY <1>1, <2>1, <3>1, <3>2 DEF TypeOK, Places, Acquiring, Releasing, Linking
    <3>3. CASE /\ pc' = [pc EXCEPT ![t] = "check"] /\ cursor' = [cursor EXCEPT ![t] = @ + 1]
               /\ freeIndex' = [freeIndex EXCEPT ![t] = UINT8_MAX]
      <4>1. /\ pc'[t] = "check" /\ cursor'[t] = cursor[t] + 1
            /\ \A u \in Thread : u # t => /\ pc'[u] = pc[u] /\ cursor'[u] = cursor[u]
                                          /\ freeIndex'[u] = freeIndex[u]
        BY <1>1, <3>3 DEF TypeOK
      <4>2. cursor[t] <= Len(bufferIndices[t])
        BY <1>1, <3>1 DEF Places, Linking
      <4>3. QED
        BY <1>1, <2>1, <3>1, <4>1, <4>2 DEF Places, Acquiring, Releasing, Linking
    <3>4. QED
      BY <1>13, <3>2, <3>3 DEF SwapRelease
  <2>5. QED
    BY <2>3, <2>4 DEF TInv
<1>14. CASE UNCHANGED vars
  <2>1. TypeOK'
    BY <1>1, <1>14 DEF TypeOK, vars
  <2>2. Places'
    BY <1>1, <1>14 DEF Places, vars
  <2>3. QED
    BY <2>1, <2>2 DEF TInv
<1>15. QED
  BY <1>2, <1>3, <1>4, <1>5, <1>6, <1>7, <1>8, <1>9, <1>10, <1>11, <1>12, <1>13, <1>14
     DEF Next, AcquireStep, ReleaseStep

(* Every variable of the pool keeps its type, whoever takes and releases. *)
THEOREM TypeCorrect == Spec => []TypeOK
<1>1. TInv => TypeOK
  BY DEF TInv
<1>2. QED
  BY InitTInv, NextTInv, <1>1, PTL DEF Spec

-----------------------------------------------------------------------------
(* What a thread holds changes only with its array and its place in it.     *)
LEMMA HoldsTheSame ==
  ASSUME NEW u, NEW b,
         bufferIndices'[u] = bufferIndices[u], cursor'[u] = cursor[u],
         (pc'[u] = "mark" /\ freeIndex'[u] = b) <=> (pc[u] = "mark" /\ freeIndex[u] = b)
  PROVE  ThreadHolds(u, b)' <=> ThreadHolds(u, b)
BY DEF ThreadHolds

(* The list is read off the array and the head. *)
LEMMA SameList ==
  ASSUME UNCHANGED listVars
  PROVE  /\ FreeList' = FreeList
         /\ Acyclic => Acyclic'
BY DEF listVars, FreeList, Acyclic

(* A thread takes or releases no buffer, and may forget the empty end of its array. *)
LEMMA QuietStep ==
  ASSUME IInv, TInv', NEW t \in Thread,
         UNCHANGED <<listVars, notified, holder>>,
         \A u \in Thread : u # t =>
           /\ pc'[u] = pc[u] /\ freeIndex'[u] = freeIndex[u] /\ next'[u] = next[u]
           /\ cursor'[u] = cursor[u] /\ bufferIndices'[u] = bufferIndices[u],
         \/ bufferIndices'[t] = bufferIndices[t] /\ cursor'[t] = cursor[t]
         \/ bufferIndices'[t] = <<>> /\ cursor[t] > Len(bufferIndices[t]),
         pc[t] # "mark" /\ pc'[t] # "mark",
         pc[t] \in Working => pc'[t] \in Working /\ freeIndex'[t] = freeIndex[t]
  PROVE  IInv'
<1>1. /\ TInv /\ Holders /\ HeldOnce /\ Marked /\ FreeInList /\ Acyclic
      /\ freeBuffers' = freeBuffers /\ notified' = notified /\ holder' = holder
      /\ FreeList' = FreeList /\ Acyclic'
  BY SameList DEF IInv, listVars
<1>2. FreeInList'
  BY <1>1 DEF FreeInList
<1>3. ASSUME NEW u \in Thread, NEW b \in Buffer PROVE ThreadHolds(u, b)' <=> ThreadHolds(u, b)
  <2>1. CASE u # t \/ (bufferIndices'[t] = bufferIndices[t] /\ cursor'[t] = cursor[t])
    BY <2>1, HoldsTheSame
  <2>2. CASE u = t /\ bufferIndices'[t] = <<>> /\ cursor[t] > Len(bufferIndices[t])
    <3>1. Len(bufferIndices'[t]) = 0
      BY <2>2
    <3>2. ~ ThreadHolds(t, b)'
      BY <3>1 DEF ThreadHolds
    <3>3. Len(bufferIndices[t]) \in Nat /\ cursor[t] \in Nat
      BY <1>1, Indices
    <3>4. ~ ThreadHolds(t, b)
      BY <2>2, <3>3 DEF ThreadHolds
    <3>5. QED
      BY <2>2, <3>2, <3>4
  <2>3. \/ u # t \/ (bufferIndices'[t] = bufferIndices[t] /\ cursor'[t] = cursor[t])
        \/ u = t /\ bufferIndices'[t] = <<>> /\ cursor[t] > Len(bufferIndices[t])
    OBVIOUS
  <2>4. QED
    BY <2>1, <2>2, <2>3
<1>4. Holders'
  BY <1>1, <1>3 DEF Holders, ClientHolds
<1>5. HeldOnce'
  <2>1. ASSUME NEW u \in Thread, NEW i \in 1 .. Len(bufferIndices'[u]),
               NEW j \in 1 .. Len(bufferIndices'[u]),
               cursor'[u] <= i, cursor'[u] <= j, bufferIndices'[u][i] = bufferIndices'[u][j]
        PROVE  i = j
    <3>1. CASE bufferIndices'[u] = bufferIndices[u] /\ cursor'[u] = cursor[u]
      BY <1>1, <2>1, <3>1 DEF HeldOnce
    <3>2. CASE bufferIndices'[u] = <<>>
      BY <2>1, <3>2
    <3>3. QED
      BY <3>1, <3>2
  <2>2. ASSUME NEW u \in Thread, pc'[u] = "mark"
        PROVE  \A i \in 1 .. Len(bufferIndices'[u]) : bufferIndices'[u][i] # freeIndex'[u]
    BY <1>1, <2>2 DEF HeldOnce
  <2>3. QED
    BY <1>1, <2>1, <2>2 DEF HeldOnce
<1>6. Marked'
  BY <1>1 DEF Marked
<1>7. QED
  BY <1>1, <1>2, <1>4, <1>5, <1>6 DEF IInv

(* The link of a buffer outside the list does not matter to the list.       *)
LEMMA UnlinkedList ==
  ASSUME Acyclic, NEW b \in Buffer, b \notin FreeList,
         freeBuffersHead' = freeBuffersHead,
         \A c \in Buffer : c # b => freeBuffers'[c] = freeBuffers[c]
  PROVE  /\ FreeList' = FreeList
         /\ \A c \in FreeList : freeBuffers'[c] = freeBuffers[c]
         /\ Acyclic'
<1>1. FreeList \subseteq Buffer
  BY Reach DEF FreeList
<1>2. ReachedFrom(freeBuffers', freeBuffersHead) = ReachedFrom(freeBuffers, freeBuffersHead)
  BY ReachUnlinked DEF FreeList
<1>3. FreeList' = FreeList
  BY <1>2 DEF FreeList
<1>4. \A c \in FreeList : freeBuffers'[c] = freeBuffers[c]
  BY <1>1
<1>5. ASSUME NEW c \in FreeList PROVE c \notin ReachedFrom(freeBuffers', freeBuffers'[c])
  <2>1. b \notin ReachedFrom(freeBuffers, freeBuffers[c])
    BY ReachTransitive DEF FreeList
  <2>2. ReachedFrom(freeBuffers', freeBuffers[c]) = ReachedFrom(freeBuffers, freeBuffers[c])
    BY <2>1, ReachUnlinked
  <2>3. QED
    BY <1>4, <2>2 DEF Acyclic
<1>6. QED
  BY <1>3, <1>4, <1>5 DEF Acyclic

(* The first buffer is taken off the list. *)
LEMMA TakenList ==
  ASSUME TInv, Acyclic, NEW b \in Buffer, freeBuffersHead = b,
         freeBuffersHead' = freeBuffers[b], freeBuffers' = freeBuffers
  PROVE  b \in FreeList /\ FreeList' = FreeList \ {b} /\ Acyclic'
<1> DEFINE R == ReachedFrom(freeBuffers, freeBuffers[b])
<1>1. FreeList = {b} \cup R
  BY ReachFirst DEF FreeList
<1>2. FreeList' = R
  BY DEF FreeList
<1>3. b \notin R
  BY <1>1 DEF Acyclic
<1> HIDE DEF R
<1>4. Acyclic'
  BY <1>1, <1>2 DEF Acyclic
<1>5. QED
  BY <1>1, <1>2, <1>3, <1>4

(* A buffer that links to the first of the list becomes the first. *)
LEMMA GivenList ==
  ASSUME Acyclic, NEW b \in Buffer, b \notin FreeList, freeBuffers[b] = freeBuffersHead,
         freeBuffersHead' = b, freeBuffers' = freeBuffers
  PROVE  FreeList' = FreeList \cup {b} /\ Acyclic'
<1>1. ReachedFrom(freeBuffers, b) = {b} \cup ReachedFrom(freeBuffers, freeBuffers[b])
  BY ReachFirst
<1>2. FreeList' = {b} \cup FreeList /\ ReachedFrom(freeBuffers, freeBuffers[b]) = FreeList
  BY <1>1 DEF FreeList
<1>3. Acyclic'
  BY <1>2 DEF Acyclic
<1>4. QED
  BY <1>2, <1>3

-----------------------------------------------------------------------------
(* A thread takes the buffer it saw at the head, with the link it has there: *)
(* the list may have been without it meanwhile.                             *)
LEMMA AcquireKeeps ==
  ASSUME IInv, TInv', NEW t \in Reporter, SwapAcquire(t), ~ StaleLink(t),
         NEW b, b = freeIndex[t], b = freeBuffersHead
  PROVE  /\ IInv'
         /\ b \in FreeList /\ FreeList' = FreeList \ {b} /\ holder' = [holder EXCEPT ![b] = {t}]
<1>1. /\ TInv /\ Holders /\ HeldOnce /\ Marked /\ FreeInList /\ Acyclic
      /\ pc \in [Thread -> PcState] /\ t \in Thread /\ next \in [Thread -> Buffer \cup {UINT8_MAX}]
      /\ holder \in [Buffer -> SUBSET (Thread \cup {Client})] /\ Client \notin Thread
  BY ThreadAssumption DEF IInv, TInv, TypeOK, PcState, Thread
<1>2. /\ pc[t] = "swapAcquire" /\ freeBuffersHead' = next[t] /\ pc' = [pc EXCEPT ![t] = "mark"]
      /\ holder' = [holder EXCEPT ![b] = @ \cup {t}] /\ freeBuffers' = freeBuffers
      /\ UNCHANGED <<bufferIndices, again, cursor, freeIndex, notified>>
  BY DEF SwapAcquire, HeadIs, threadVars
<1>3. b \in Buffer /\ b \in FreeList /\ next[t] = freeBuffers[b] /\ cursor[t] = 1
  <2>1. b \in Buffer /\ cursor[t] = 1
    BY <1>1, <1>2 DEF TInv, Places, Releasing
  <2>2. b \in FreeList
    BY <2>1, Reach DEF FreeList
  <2>3. QED
    BY <2>1, <2>2 DEF StaleLink
<1>4. FreeList' = FreeList \ {b} /\ Acyclic'
  BY <1>1, <1>2, <1>3, TakenList
<1>5. holder[b] = {}
  BY <1>1, <1>3 DEF FreeInList
<1>6. holder' = [holder EXCEPT ![b] = {t}]
  BY <1>2, <1>5
<1>7. /\ holder'[b] = {t}
      /\ \A c \in Buffer : c # b => holder'[c] = holder[c]
      /\ pc'[t] = "mark" /\ freeIndex'[t] = b /\ \A u \in Thread : u # t => pc'[u] = pc[u]
  BY <1>1, <1>2, <1>3, <1>6
<1>8. FreeInList'
  BY <1>1, <1>4, <1>7 DEF FreeInList
<1>9. ASSUME NEW u \in Thread PROVE ~ ThreadHolds(u, b)
  BY <1>1, <1>3, <1>5 DEF Holders
<1>10. ASSUME NEW u \in Thread, NEW c \in Buffer, u # t \/ c # b
       PROVE  ThreadHolds(u, c)' <=> ThreadHolds(u, c)
  <2>1. (pc'[u] = "mark" /\ freeIndex'[u] = c) <=> (pc[u] = "mark" /\ freeIndex[u] = c)
    BY <1>1, <1>2, <1>7, <1>10
  <2>2. QED
    BY <1>2, <2>1, HoldsTheSame
<1>11. ThreadHolds(t, b)'
  BY <1>7 DEF ThreadHolds
<1>12. Holders'
  <2>1. ASSUME NEW c \in Buffer
        PROVE  /\ \A u \in Thread : u \in holder'[c] <=> ThreadHolds(u, c)'
               /\ Client \in holder'[c] <=> ClientHolds(c)'
               /\ \A g, h \in holder'[c] : g = h
    <3>1. ClientHolds(c)' <=> ClientHolds(c)
      BY <1>2 DEF ClientHolds
    <3>2. CASE c = b
      BY <1>1, <1>3, <1>5, <1>7, <1>9, <1>10, <1>11, <3>1, <3>2 DEF Holders
    <3>3. CASE c # b
      BY <1>1, <1>7, <1>10, <3>1, <3>3 DEF Holders
    <3>4. QED
      BY <3>2, <3>3
  <2>2. QED
    BY <2>1 DEF Holders
<1>13. HeldOnce'
  <2>1. \A i \in 1 .. Len(bufferIndices[t]) : bufferIndices[t][i] # b
    <3>1. \A i \in 1 .. Len(bufferIndices[t]) : cursor[t] <= i
      BY <1>3
    <3>2. QED
      BY <1>1, <1>9, <3>1 DEF ThreadHolds
  <2>2. ASSUME NEW u \in Thread, pc'[u] = "mark"
        PROVE  \A i \in 1 .. Len(bufferIndices'[u]) : bufferIndices'[u][i] # freeIndex'[u]
    BY <1>1, <1>2, <1>7, <2>1, <2>2 DEF HeldOnce
  <2>3. QED
    BY <1>1, <1>2, <2>2 DEF HeldOnce
<1>14. Marked'
  <2>1. ASSUME NEW c \in Buffer, holder'[c] # {},
               \A u \in Thread : pc'[u] \in Working => freeIndex'[u] # c
        PROVE  freeBuffers'[c] = UINT8_MAX
    <3>1. c # b
      BY <1>1, <1>7, <2>1 DEF Working
    <3>2. \A u \in Thread : pc[u] \in Working => freeIndex[u] # c
      BY <1>2, <1>7, <2>1 DEF Working
    <3>3. QED
      BY <1>1, <1>2, <1>7, <2>1, <3>1, <3>2 DEF Marked
  <2>2. QED
    BY <2>1 DEF Marked
<1>15. IInv'
  BY <1>1, <1>2, <1>4, <1>8, <1>12, <1>13, <1>14 DEF IInv
<1>16. QED
  BY <1>3, <1>4, <1>6, <1>15

(* The buffer taken is marked, and its index noted. *)
LEMMA MarkKeeps ==
  ASSUME IInv, TInv', NEW t \in Reporter, Mark(t), NEW b, b = freeIndex[t]
  PROVE  IInv' /\ FreeList' = FreeList
<1> DEFINE s == bufferIndices[t]
           n == Len(s)
<1>1. /\ TInv /\ Holders /\ HeldOnce /\ Marked /\ FreeInList /\ Acyclic
      /\ pc \in [Thread -> PcState] /\ t \in Thread
      /\ bufferIndices \in [Thread -> Seq(Buffer)] /\ freeBuffers \in [Buffer -> Buffer \cup {UINT8_MAX}]
  BY DEF IInv, TInv, TypeOK, PcState, Thread
<1>2. /\ pc[t] = "mark" /\ freeBuffers' = [freeBuffers EXCEPT ![b] = UINT8_MAX]
      /\ bufferIndices' = [bufferIndices EXCEPT ![t] = Append(@, b)]
      /\ \A u \in Thread : u # t => pc'[u] = pc[u] /\ freeIndex'[u] = freeIndex[u]
      /\ pc'[t] \in {"notify", "loadHead"}
      /\ UNCHANGED <<freeBuffersHead, cursor, next, again, notified, holder>>
  BY <1>1 DEF Mark, TInv, TypeOK
<1>3. b \in Buffer /\ cursor[t] = 1 /\ s \in Seq(Buffer) /\ n \in Nat
  <2>1. freeIndex[t] \in Buffer /\ cursor[t] = 1
    BY <1>1, <1>2 DEF TInv, Places, Releasing
  <2>2. s \in Seq(Buffer) /\ n \in Nat
    BY <1>1
  <2>3. QED
    BY <2>1, <2>2
<1>4. /\ Len(bufferIndices'[t]) = n + 1 /\ bufferIndices'[t][n + 1] = b
      /\ \A i \in 1 .. n : bufferIndices'[t][i] = s[i]
      /\ \A u \in Thread : u # t => bufferIndices'[u] = bufferIndices[u]
  BY <1>1, <1>2, <1>3
<1>5. t \in holder[b] /\ holder[b] # {} /\ b \notin FreeList
  BY <1>1, <1>2, <1>3 DEF Holders, ThreadHolds, FreeInList
<1>6. /\ FreeList' = FreeList /\ Acyclic' /\ \A c \in FreeList : freeBuffers'[c] = freeBuffers[c]
      /\ \A c \in Buffer : c # b => freeBuffers'[c] = freeBuffers[c]
      /\ freeBuffers'[b] = UINT8_MAX
  <2>1. /\ \A c \in Buffer : c # b => freeBuffers'[c] = freeBuffers[c]
        /\ freeBuffers'[b] = UINT8_MAX
    BY <1>1, <1>2, <1>3
  <2>2. QED
    BY <1>1, <1>2, <1>3, <1>5, <2>1, UnlinkedList
<1>7. FreeInList'
  BY <1>1, <1>2, <1>6 DEF FreeInList
<1> HIDE DEF s
<1>8. ASSUME NEW u \in Thread, NEW c \in Buffer PROVE ThreadHolds(u, c)' <=> ThreadHolds(u, c)
  <2>1. CASE u # t
    BY <1>2, <1>4, <2>1, HoldsTheSame
  <2>2. CASE u = t
    <3> DEFINE H == \E i \in 1 .. n : s[i] = c
    <3>1. ThreadHolds(t, c) <=> H \/ b = c
      BY <1>2, <1>3 DEF ThreadHolds, s
    <3>2. ThreadHolds(t, c)' <=> \E i \in 1 .. n + 1 : bufferIndices'[t][i] = c
      BY <1>2, <1>3, <1>4 DEF ThreadHolds
    <3>3. (\E i \in 1 .. n + 1 : bufferIndices'[t][i] = c) <=> H \/ b = c
      <4> HIDE DEF n
      <4>1. \A i \in 1 .. n + 1 : i \in 1 .. n \/ i = n + 1
        BY <1>3
      <4>2. n + 1 \in 1 .. n + 1 /\ \A i \in 1 .. n : i \in 1 .. n + 1
        BY <1>3
      <4>3. QED
        BY <1>4, <4>1, <4>2
    <3>4. QED
      BY <2>2, <3>1, <3>2, <3>3
  <2>3. QED
    BY <2>1, <2>2
<1>9. Holders'
  BY <1>1, <1>2, <1>8 DEF Holders, ClientHolds
<1>10. HeldOnce'
  <2>1. ASSUME NEW u \in Thread, NEW i \in 1 .. Len(bufferIndices'[u]),
               NEW j \in 1 .. Len(bufferIndices'[u]),
               cursor'[u] <= i, cursor'[u] <= j, bufferIndices'[u][i] = bufferIndices'[u][j]
        PROVE  i = j
    <3>1. CASE u # t
      BY <1>1, <1>2, <1>4, <2>1, <3>1 DEF HeldOnce
    <3>2. CASE u = t
      <4>1. \A k \in 1 .. n : s[k] # b /\ cursor[t] <= k
        BY <1>1, <1>2, <1>3 DEF HeldOnce, s
      <4>2. \A k, m \in 1 .. n : s[k] = s[m] => k = m
        BY <1>1, <4>1 DEF HeldOnce, s
      <4> HIDE DEF n
      <4>3. \A k \in 1 .. n + 1 : k \in 1 .. n \/ k = n + 1
        BY <1>3
      <4>4. i \in 1 .. n + 1 /\ j \in 1 .. n + 1
        BY <1>4, <2>1, <3>2
      <4>5. QED
        BY <1>4, <2>1, <3>2, <4>1, <4>2, <4>3, <4>4
    <3>3. QED
      BY <3>1, <3>2
  <2>2. ASSUME NEW u \in Thread, pc'[u] = "mark"
        PROVE  \A i \in 1 .. Len(bufferIndices'[u]) : bufferIndices'[u][i] # freeIndex'[u]
    BY <1>1, <1>2, <1>4, <2>2 DEF HeldOnce
  <2>3. QED
    BY <1>1, <1>2, <2>1, <2>2 DEF HeldOnce
<1>11. Marked'
  <2>1. ASSUME NEW c \in Buffer, holder'[c] # {},
               \A u \in Thread : pc'[u] \in Working => freeIndex'[u] # c
        PROVE  freeBuffers'[c] = UINT8_MAX
    <3>1. ASSUME c # b PROVE \A u \in Thread : pc[u] \in Working => freeIndex[u] # c
      BY <1>1, <1>2, <2>1, <3>1 DEF Working
    <3>2. QED
      BY <1>1, <1>2, <1>6, <2>1, <3>1 DEF Marked
  <2>2. QED
    BY <2>1 DEF Marked
<1>12. QED
  BY <1>1, <1>2, <1>6, <1>7, <1>9, <1>10, <1>11 DEF IInv

(* The link of a buffer that is held is written. *)
LEMMA LinkKeeps ==
  ASSUME IInv, TInv', NEW t \in Thread, Link(t), NEW b, b = freeIndex[t]
  PROVE  IInv' /\ FreeList' = FreeList
<1>1. /\ TInv /\ Holders /\ HeldOnce /\ Marked /\ FreeInList /\ Acyclic
      /\ pc \in [Thread -> PcState] /\ freeBuffers \in [Buffer -> Buffer \cup {UINT8_MAX}]
  BY DEF IInv, TInv, TypeOK, PcState
<1>2. /\ pc[t] = "link" /\ freeBuffers' = [freeBuffers EXCEPT ![b] = next[t]]
      /\ pc' = [pc EXCEPT ![t] = "swapRelease"] /\ next' = [next EXCEPT ![t] = UINT8_MAX]
      /\ UNCHANGED <<freeBuffersHead, bufferIndices, again, cursor, freeIndex, notified, holder>>
  BY DEF Link, threadVars
<1>3. /\ \A u \in Thread : u # t => pc'[u] = pc[u] /\ next'[u] = next[u]
      /\ pc'[t] = "swapRelease"
  BY <1>1, <1>2 DEF TInv, TypeOK
<1>4. b \in Buffer /\ cursor[t] \in 1 .. Len(bufferIndices[t]) /\ bufferIndices[t][cursor[t]] = b
  BY <1>1, <1>2, Indices DEF TInv, Places, Linking
<1>5. holder[b] # {} /\ b \notin FreeList
  <2>1. ThreadHolds(t, b)
    BY <1>4 DEF ThreadHolds
  <2>2. QED
    BY <1>1, <1>4, <2>1 DEF Holders, FreeInList
<1>6. \A c \in Buffer : c # b => freeBuffers'[c] = freeBuffers[c]
  BY <1>1, <1>2, <1>4
<1>7. /\ FreeList' = FreeList /\ Acyclic' /\ \A c \in FreeList : freeBuffers'[c] = freeBuffers[c]
  BY <1>1, <1>2, <1>4, <1>5, <1>6, UnlinkedList
<1>8. FreeInList'
  BY <1>1, <1>2, <1>7 DEF FreeInList
<1>9. ASSUME NEW u \in Thread, NEW c \in Buffer PROVE ThreadHolds(u, c)' <=> ThreadHolds(u, c)
  BY <1>2, <1>3, HoldsTheSame
<1>10. Holders'
  BY <1>1, <1>2, <1>9 DEF Holders, ClientHolds
<1>11. HeldOnce'
  BY <1>1, <1>2, <1>3 DEF HeldOnce
<1>12. Marked'
  <2>1. ASSUME NEW c \in Buffer, holder'[c] # {},
               \A u \in Thread : pc'[u] \in Working => freeIndex'[u] # c
        PROVE  freeBuffers'[c] = UINT8_MAX
    <3>1. c # b /\ \A u \in Thread : pc[u] \in Working => freeIndex[u] # c
      BY <1>2, <1>3, <2>1 DEF Working
    <3>2. QED
      BY <1>1, <1>2, <1>6, <2>1, <3>1 DEF Marked
  <2>2. QED
    BY <2>1 DEF Marked
<1>13. QED
  BY <1>1, <1>2, <1>7, <1>8, <1>10, <1>11, <1>12 DEF IInv

(* A buffer goes back to the list, before the one that was first when it    *)
(* was linked.                                                              *)
LEMMA ReleaseKeeps ==
  ASSUME IInv, TInv', NEW t \in Thread, SwapRelease(t),
         NEW b, b = freeIndex[t], freeBuffersHead = freeBuffers[b]
  PROVE  /\ IInv'
         /\ b \in Buffer /\ holder[b] = {t}
         /\ FreeList' = FreeList \cup {b} /\ holder' = [holder EXCEPT ![b] = {}]
<1> DEFINE k == cursor[t]
<1>1. /\ TInv /\ Holders /\ HeldOnce /\ Marked /\ FreeInList /\ Acyclic
      /\ pc \in [Thread -> PcState]
      /\ holder \in [Buffer -> SUBSET (Thread \cup {Client})] /\ Client \notin Thread
  BY ThreadAssumption DEF IInv, TInv, TypeOK, PcState
<1>2. /\ pc[t] = "swapRelease" /\ freeBuffersHead' = b
      /\ holder' = [holder EXCEPT ![b] = @ \ {t}] /\ freeBuffers' = freeBuffers
      /\ \A u \in Thread : u # t => /\ pc'[u] = pc[u] /\ cursor'[u] = cursor[u]
                                    /\ freeIndex'[u] = freeIndex[u]
      /\ pc'[t] = "check" /\ cursor'[t] = cursor[t] + 1
      /\ UNCHANGED <<bufferIndices, again, next, notified>>
  BY <1>1 DEF SwapRelease, HeadIs, threadVars, TInv, TypeOK
<1>3. /\ b \in Buffer /\ k \in 1 .. Len(bufferIndices[t]) /\ bufferIndices[t][k] = b
      /\ Len(bufferIndices[t]) \in Nat
  BY <1>1, <1>2, Indices DEF TInv, Places, Linking
<1>4. ThreadHolds(t, b)
  BY <1>3 DEF ThreadHolds
<1>5. t \in holder[b] /\ \A g \in holder[b] : g = t
  BY <1>1, <1>3, <1>4 DEF Holders
<1>6. holder[b] = {t} /\ b \notin FreeList
  BY <1>1, <1>3, <1>5 DEF FreeInList
<1>7. holder' = [holder EXCEPT ![b] = {}]
  BY <1>2, <1>6
<1>8. holder'[b] = {} /\ \A c \in Buffer : c # b => holder'[c] = holder[c]
  BY <1>1, <1>3, <1>7
<1>9. FreeList' = FreeList \cup {b} /\ Acyclic'
  BY <1>1, <1>2, <1>3, <1>6, GivenList
<1>10. FreeInList'
  BY <1>1, <1>8, <1>9 DEF FreeInList
<1> HIDE DEF k
<1>11. /\ \A i \in 1 .. Len(bufferIndices[t]) : k + 1 <= i <=> k <= i /\ i # k
       /\ k \in Nat
  BY <1>3
<1>12. ASSUME NEW i \in 1 .. Len(bufferIndices[t]), k <= i, bufferIndices[t][i] = b PROVE i = k
  BY <1>1, <1>3, <1>11, <1>12 DEF HeldOnce, k
<1>13. ~ ThreadHolds(t, b)'
  BY <1>2, <1>11, <1>12 DEF ThreadHolds, k
<1>14. ASSUME NEW u \in Thread, NEW c \in Buffer, u # t \/ c # b
       PROVE  ThreadHolds(u, c)' <=> ThreadHolds(u, c)
  <2>1. CASE u # t
    BY <1>2, <2>1, HoldsTheSame
  <2>2. CASE u = t /\ c # b
    BY <1>2, <1>3, <1>11, <2>2 DEF ThreadHolds, k
  <2>3. QED
    BY <1>14, <2>1, <2>2
<1>15. Holders'
  <2>1. ASSUME NEW c \in Buffer
        PROVE  /\ \A u \in Thread : u \in holder'[c] <=> ThreadHolds(u, c)'
               /\ Client \in holder'[c] <=> ClientHolds(c)'
               /\ \A g, h \in holder'[c] : g = h
    <3>1. ClientHolds(c)' <=> ClientHolds(c)
      BY <1>2 DEF ClientHolds
    <3>2. CASE c # b
      BY <1>1, <1>8, <1>14, <3>1, <3>2 DEF Holders
    <3>3. CASE c = b
      <4>1. \A u \in Thread : u # t => ~ ThreadHolds(u, b)'
        BY <1>1, <1>3, <1>5, <1>14 DEF Holders
      <4>2. ~ ClientHolds(b)'
        BY <1>1, <1>5, <3>1, <3>3 DEF Holders
      <4>3. QED
        BY <1>8, <1>13, <3>3, <4>1, <4>2
    <3>4. QED
      BY <3>2, <3>3
  <2>2. QED
    BY <2>1 DEF Holders
<1>16. HeldOnce'
  <2>1. ASSUME NEW u \in Thread, NEW i \in 1 .. Len(bufferIndices'[u]),
               NEW j \in 1 .. Len(bufferIndices'[u]),
               cursor'[u] <= i, cursor'[u] <= j, bufferIndices'[u][i] = bufferIndices'[u][j]
        PROVE  i = j
    <3>1. cursor[u] <= i /\ cursor[u] <= j
      BY <1>2, <1>11, <2>1 DEF k
    <3>2. QED
      BY <1>1, <1>2, <2>1, <3>1 DEF HeldOnce
  <2>2. ASSUME NEW u \in Thread, pc'[u] = "mark"
        PROVE  \A i \in 1 .. Len(bufferIndices'[u]) : bufferIndices'[u][i] # freeIndex'[u]
    BY <1>1, <1>2, <2>2 DEF HeldOnce
  <2>3. QED
    BY <1>1, <1>2, <2>1, <2>2 DEF HeldOnce
<1>17. Marked'
  <2>1. ASSUME NEW c \in Buffer, holder'[c] # {},
               \A u \in Thread : pc'[u] \in Working => freeIndex'[u] # c
        PROVE  freeBuffers'[c] = UINT8_MAX
    <3>1. c # b /\ \A u \in Thread : pc[u] \in Working => freeIndex[u] # c
      BY <1>2, <1>8, <2>1 DEF Working
    <3>2. QED
      BY <1>1, <1>2, <1>8, <2>1, <3>1 DEF Marked
  <2>2. QED
    BY <2>1 DEF Marked
<1>18. QED
  BY <1>1, <1>2, <1>3, <1>6, <1>7, <1>9, <1>10, <1>15, <1>16, <1>17 DEF IInv

(* The client is told of the buffers of a packet, and holds them then. *)
LEMMA NotifyKeeps ==
  ASSUME IInv, TInv', NEW t \in Reporter, Notify(t), pc'[t] = "idle"
  PROVE  /\ IInv' /\ FreeList' = FreeList
         /\ \A b \in Own(t) : b \in Buffer /\ holder[b] = {t}
         /\ holder' = [b \in Buffer |-> IF b \in Own(t) THEN {Client} ELSE holder[b]]
<1> DEFINE s == bufferIndices[t]
<1>1. /\ TInv /\ Holders /\ HeldOnce /\ Marked /\ FreeInList /\ Acyclic
      /\ pc \in [Thread -> PcState] /\ bufferIndices \in [Thread -> Seq(Buffer)]
      /\ holder \in [Buffer -> SUBSET (Thread \cup {Client})] /\ Client \notin Thread
      /\ t \in Thread
  BY ThreadAssumption DEF IInv, TInv, TypeOK, PcState, Thread
<1>2. /\ pc[t] = "notify" /\ notified' = notified \cup {s}
      /\ holder' = [b \in Buffer |-> IF b \in Own(t) THEN (holder[b] \ {t}) \cup {Client}
                                                     ELSE holder[b]]
      /\ bufferIndices' = [bufferIndices EXCEPT ![t] = <<>>]
      /\ pc' = [pc EXCEPT ![t] = "idle"]
      /\ UNCHANGED <<listVars, parts, cursor, freeIndex, next, again>>
  BY <1>1 DEF Notify
<1>3. /\ \A u \in Thread : u # t => pc'[u] = pc[u] /\ bufferIndices'[u] = bufferIndices[u]
      /\ bufferIndices'[t] = <<>> /\ pc'[t] = "idle"
      /\ freeBuffers' = freeBuffers /\ freeBuffersHead' = freeBuffersHead
      /\ FreeList' = FreeList /\ Acyclic' /\ cursor[t] = 1 /\ s \in Seq(Buffer) /\ Len(s) \in Nat
  BY <1>1, <1>2, SameList DEF listVars, TInv, Places, Releasing
<1>4. \A i \in 1 .. Len(s) : s[i] \in Buffer /\ s[i] \in Own(t)
  BY <1>3, ElementOfSeq DEF Own
<1>5. \A b \in Own(t) : b \in Buffer /\ \E i \in 1 .. Len(s) : s[i] = b
  BY <1>3, <1>4 DEF Own
<1> HIDE DEF s
<1>6. \A b \in Buffer : ThreadHolds(t, b) <=> b \in Own(t)
  BY <1>2, <1>3, <1>4, <1>5 DEF ThreadHolds, s
<1>7. ASSUME NEW b \in Own(t) PROVE holder[b] = {t}
  BY <1>1, <1>5, <1>6, <1>7 DEF Holders
<1>8. holder' = [b \in Buffer |-> IF b \in Own(t) THEN {Client} ELSE holder[b]]
  BY <1>2, <1>5, <1>7
<1>9. FreeInList'
  BY <1>1, <1>3, <1>5, <1>7, <1>8 DEF FreeInList
<1>10. ASSUME NEW u \in Thread, NEW c \in Buffer, u # t
       PROVE  ThreadHolds(u, c)' <=> ThreadHolds(u, c)
  BY <1>2, <1>3, <1>10, HoldsTheSame
<1>11. ASSUME NEW c \in Buffer PROVE ~ ThreadHolds(t, c)'
  <2>1. Len(bufferIndices'[t]) = 0
    BY <1>3
  <2>2. QED
    BY <1>3, <2>1 DEF ThreadHolds
<1>12. ASSUME NEW c \in Buffer PROVE ClientHolds(c)' <=> ClientHolds(c) \/ c \in Own(t)
  BY <1>2, <1>4, <1>5 DEF ClientHolds
<1>13. Holders'
  <2>1. ASSUME NEW c \in Buffer
        PROVE  /\ \A u \in Thread : u \in holder'[c] <=> ThreadHolds(u, c)'
               /\ Client \in holder'[c] <=> ClientHolds(c)'
               /\ \A g, h \in holder'[c] : g = h
    <3>1. CASE c \in Own(t)
      <4>1. holder'[c] = {Client} /\ holder[c] = {t}
        BY <1>7, <1>8, <3>1
      <4>2. \A u \in Thread : ~ ThreadHolds(u, c)'
        BY <1>1, <1>10, <1>11, <4>1 DEF Holders
      <4>3. QED
        BY <1>1, <1>12, <3>1, <4>1, <4>2
    <3>2. CASE c \notin Own(t)
      <4>1. holder'[c] = holder[c]
        BY <1>8, <3>2
      <4>2. \A u \in Thread : ThreadHolds(u, c)' <=> ThreadHolds(u, c)
        BY <1>6, <1>10, <1>11, <3>2
      <4>3. QED
        BY <1>1, <1>12, <3>2, <4>1, <4>2 DEF Holders
    <3>3. QED
      BY <3>1, <3>2
  <2>2. QED
    BY <2>1 DEF Holders
<1>14. HeldOnce'
  <2>1. ASSUME NEW u \in Thread, NEW i \in 1 .. Len(bufferIndices'[u]),
               NEW j \in 1 .. Len(bufferIndices'[u]),
               cursor'[u] <= i, cursor'[u] <= j, bufferIndices'[u][i] = bufferIndices'[u][j]
        PROVE  i = j
    <3>1. u # t
      BY <1>3, <2>1
    <3>2. QED
      BY <1>1, <1>2, <1>3, <2>1, <3>1 DEF HeldOnce
  <2>2. ASSUME NEW u \in Thread, pc'[u] = "mark"
        PROVE  \A i \in 1 .. Len(bufferIndices'[u]) : bufferIndices'[u][i] # freeIndex'[u]
    BY <1>1, <1>2, <1>3, <2>2 DEF HeldOnce
  <2>3. \A i, j \in 1 .. Len(s) : s[i] = s[j] => i = j
    BY <1>1, <1>3 DEF HeldOnce, s
  <2>4. ASSUME NEW r \in notified, NEW i \in 1 .. Len(r), NEW j \in 1 .. Len(s)
        PROVE  r[i] # s[j]
    <3>1. holder[s[j]] = {t} /\ s[j] \in Buffer
      BY <1>4, <1>7
    <3>2. ~ ClientHolds(s[j])
      BY <1>1, <3>1 DEF Holders
    <3>3. QED
      BY <3>2 DEF ClientHolds
  <2>5. ASSUME NEW q \in notified', NEW r \in notified',
               NEW i \in 1 .. Len(q), NEW j \in 1 .. Len(r), q[i] = r[j]
        PROVE  q = r /\ i = j
    <3>1. CASE q \in notified /\ r \in notified
      BY <1>1, <2>5, <3>1 DEF HeldOnce
    <3>2. CASE q = s /\ r = s
      BY <2>3, <2>5, <3>2
    <3>3. CASE q = s /\ r \in notified
      BY <2>4, <2>5, <3>3
    <3>4. CASE q \in notified /\ r = s
      BY <2>4, <2>5, <3>4
    <3>5. QED
      BY <1>2, <3>1, <3>2, <3>3, <3>4
  <2>6. QED
    BY <2>1, <2>2, <2>5 DEF HeldOnce
<1>15. Marked'
  <2>1. ASSUME NEW c \in Buffer, holder'[c] # {},
               \A u \in Thread : pc'[u] \in Working => freeIndex'[u] # c
        PROVE  freeBuffers'[c] = UINT8_MAX
    <3>1. holder[c] # {}
      BY <1>7, <1>8, <2>1
    <3>2. \A u \in Thread : pc[u] \in Working => freeIndex[u] # c
      BY <1>2, <1>3, <2>1 DEF Working
    <3>3. QED
      BY <1>1, <1>3, <3>1, <3>2 DEF Marked
  <2>2. QED
    BY <2>1 DEF Marked
<1>16. QED
  BY <1>1, <1>2, <1>3, <1>5, <1>7, <1>8, <1>9, <1>13, <1>14, <1>15 DEF IInv

(* The client gives the indices of one notification back: its thread holds  *)
(* the buffers.                                                             *)
LEMMA RespondKeeps ==
  ASSUME IInv, TInv', NEW t \in ClientThread, Respond(t)
  PROVE  /\ IInv' /\ FreeList' = FreeList
         /\ \E passed \in SUBSET {b \in Buffer : holder[b] = {Client}} :
              holder' = [b \in Buffer |-> IF b \in passed THEN {t} ELSE holder[b]]
<1>1. PICK s \in notified :
        /\ notified' = notified \ {s}
        /\ bufferIndices' = [bufferIndices EXCEPT ![t] = s]
        /\ holder' = [b \in Buffer |-> IF \E i \in DOMAIN s : s[i] = b
                                       THEN (holder[b] \ {Client}) \cup {t} ELSE holder[b]]
  BY DEF Respond
<1>2. /\ pc[t] = "idle" /\ pc' = [pc EXCEPT ![t] = "check"]
      /\ UNCHANGED <<listVars, parts, cursor, freeIndex, next, again>>
  BY DEF Respond
<1>3. PICK passed : passed = {b \in Buffer : \E i \in DOMAIN s : s[i] = b}
  OBVIOUS
<1>4. /\ TInv /\ Holders /\ HeldOnce /\ Marked /\ FreeInList /\ Acyclic
      /\ pc \in [Thread -> PcState] /\ bufferIndices \in [Thread -> Seq(Buffer)]
      /\ holder \in [Buffer -> SUBSET (Thread \cup {Client})] /\ Client \notin Thread
      /\ t \in Thread /\ s \in Seq(Buffer) /\ Len(s) \in Nat
  BY <1>1, ThreadAssumption DEF IInv, TInv, TypeOK, PcState, Thread
<1>5. /\ \A u \in Thread : u # t => pc'[u] = pc[u] /\ bufferIndices'[u] = bufferIndices[u]
      /\ bufferIndices'[t] = s /\ pc'[t] = "check"
      /\ freeBuffers' = freeBuffers /\ freeBuffersHead' = freeBuffersHead
      /\ FreeList' = FreeList /\ Acyclic' /\ cursor[t] = 1 /\ bufferIndices[t] = <<>>
  BY <1>4, <1>1, <1>2, SameList DEF listVars, TInv, Places, Releasing
<1>6. \A i \in 1 .. Len(s) : s[i] \in Buffer /\ s[i] \in passed
  BY <1>4, <1>3, ElementOfSeq
<1>7. \A b \in passed : b \in Buffer /\ \E i \in 1 .. Len(s) : s[i] = b
  <2>1. DOMAIN s = 1 .. Len(s)
    BY <1>4
  <2>2. QED
    BY <1>3, <2>1
<1>8. ASSUME NEW b \in passed PROVE holder[b] = {Client}
  <2>1. ClientHolds(b)
    BY <1>7 DEF ClientHolds
  <2>2. QED
    BY <1>4, <1>7, <2>1 DEF Holders
<1>9. holder' = [b \in Buffer |-> IF b \in passed THEN {t} ELSE holder[b]]
  <2>1. ASSUME NEW b \in Buffer
        PROVE  holder'[b] = IF b \in passed THEN {t} ELSE holder[b]
    <3>1. (\E i \in DOMAIN s : s[i] = b) <=> b \in passed
      BY <1>3
    <3>2. holder'[b] = IF b \in passed THEN (holder[b] \ {Client}) \cup {t} ELSE holder[b]
      BY <1>1, <3>1
    <3>3. QED
      BY <1>8, <3>2
  <2>2. QED
    BY <1>1, <2>1
<1>10. FreeInList'
  <2>1. ASSUME NEW b \in Buffer PROVE holder'[b] = {} <=> holder[b] = {}
    <3>1. CASE b \in passed
      BY <1>8, <1>9, <3>1
    <3>2. CASE b \notin passed
      BY <1>9, <3>2
    <3>3. QED
      BY <3>1, <3>2
  <2>2. QED
    BY <1>4, <1>5, <2>1 DEF FreeInList
<1>11. ASSUME NEW u \in Thread, NEW c \in Buffer, u # t
      PROVE  ThreadHolds(u, c)' <=> ThreadHolds(u, c)
  BY <1>2, <1>5, <1>11, HoldsTheSame
<1>12. ASSUME NEW c \in Buffer PROVE ~ ThreadHolds(t, c)
  <2>1. Len(bufferIndices[t]) = 0 /\ pc[t] = "idle"
    BY <1>2, <1>5
  <2>2. QED
    BY <2>1 DEF ThreadHolds
<1>13. ASSUME NEW c \in Buffer PROVE ThreadHolds(t, c)' <=> c \in passed
  BY <1>2, <1>5, <1>6, <1>7 DEF ThreadHolds
<1>14. ASSUME NEW c \in Buffer PROVE ClientHolds(c)' <=> ClientHolds(c) /\ c \notin passed
  <2>1. ASSUME NEW r \in notified, NEW i \in 1 .. Len(r), r[i] = c, c \in passed PROVE r = s
    BY <1>4, <1>7, <2>1 DEF HeldOnce
  <2>2. ASSUME NEW i \in 1 .. Len(s), s[i] = c PROVE c \in passed
    BY <1>6, <2>2
  <2>3. QED
    BY <1>1, <2>1, <2>2 DEF ClientHolds
<1>15. Holders'
  <2>1. ASSUME NEW c \in Buffer
        PROVE  /\ \A u \in Thread : u \in holder'[c] <=> ThreadHolds(u, c)'
               /\ Client \in holder'[c] <=> ClientHolds(c)'
               /\ \A g, h \in holder'[c] : g = h
    <3>1. CASE c \in passed
      <4>1. holder'[c] = {t} /\ holder[c] = {Client}
        BY <1>8, <1>9, <3>1
      <4>2. \A u \in Thread : u # t => ~ ThreadHolds(u, c)'
        BY <1>4, <1>11, <4>1 DEF Holders
      <4>3. QED
        BY <1>4, <1>13, <1>14, <3>1, <4>1, <4>2
    <3>2. CASE c \notin passed
      <4>1. holder'[c] = holder[c]
        BY <1>9, <3>2
      <4>2. \A u \in Thread : ThreadHolds(u, c)' <=> ThreadHolds(u, c)
        BY <1>11, <1>12, <1>13, <3>2
      <4>3. QED
        BY <1>4, <1>14, <3>2, <4>1, <4>2 DEF Holders
    <3>3. QED
      BY <3>1, <3>2
  <2>2. QED
    BY <2>1 DEF Holders
<1>16. HeldOnce'
  <2>1. ASSUME NEW u \in Thread, NEW i \in 1 .. Len(bufferIndices'[u]),
               NEW j \in 1 .. Len(bufferIndices'[u]),
               cursor'[u] <= i, cursor'[u] <= j, bufferIndices'[u][i] = bufferIndices'[u][j]
        PROVE  i = j
    <3>1. CASE u # t
      BY <1>4, <1>2, <1>5, <2>1, <3>1 DEF HeldOnce
    <3>2. CASE u = t
      BY <1>4, <1>1, <1>2, <1>5, <2>1, <3>2 DEF HeldOnce
    <3>3. QED
      BY <3>1, <3>2
  <2>2. ASSUME NEW u \in Thread, pc'[u] = "mark"
        PROVE  \A i \in 1 .. Len(bufferIndices'[u]) : bufferIndices'[u][i] # freeIndex'[u]
    BY <1>4, <1>2, <1>5, <2>2 DEF HeldOnce
  <2>3. QED
    BY <1>4, <1>1, <2>1, <2>2 DEF HeldOnce
<1>17. Marked'
  <2>1. ASSUME NEW c \in Buffer, holder'[c] # {},
               \A u \in Thread : pc'[u] \in Working => freeIndex'[u] # c
        PROVE  freeBuffers'[c] = UINT8_MAX
    <3>1. holder[c] # {}
      BY <1>8, <1>9, <2>1
    <3>2. \A u \in Thread : pc[u] \in Working => freeIndex[u] # c
      BY <1>2, <1>5, <2>1 DEF Working
    <3>3. QED
      BY <1>4, <1>5, <3>1, <3>2 DEF Marked
  <2>2. QED
    BY <2>1 DEF Marked
<1>18. passed \in SUBSET {b \in Buffer : holder[b] = {Client}}
  BY <1>7, <1>8
<1>19. IInv'
  BY <1>4, <1>2, <1>5, <1>10, <1>15, <1>16, <1>17 DEF IInv
<1>20. QED
  BY <1>5, <1>9, <1>18, <1>19

-----------------------------------------------------------------------------
(* At the start all buffers are in the list and nobody holds one. *)
LEMMA InitIInv == Init => IInv
<1> SUFFICES ASSUME Init PROVE IInv
  OBVIOUS
<1>1. /\ freeBuffers = InitialLinks /\ freeBuffersHead = LastCreated /\ notified = {}
      /\ \A t \in Thread : /\ pc[t] = "idle" /\ Len(bufferIndices[t]) = 0
                           /\ bufferIndices[t] = <<>>
      /\ \A b \in Buffer : holder[b] = {}
  BY DEF Init, InitialLinks, FirstFree
<1>2. TInv
  BY InitTInv
<1>3. FreeList = Buffer
  BY <1>1, AllReached DEF FreeList
<1>4. FreeInList
  BY <1>1, <1>3 DEF FreeInList
<1>5. Acyclic
  BY <1>1, <1>3, NoneReachedAgain DEF Acyclic
<1>6. Holders
  BY <1>1 DEF Holders, ThreadHolds, ClientHolds
<1>7. HeldOnce
  BY <1>1 DEF HeldOnce
<1>8. Marked
  BY <1>1 DEF Marked
<1>9. QED
  BY <1>1, <1>2, <1>4, <1>5, <1>6, <1>7, <1>8 DEF IInv

(* The steps that take or release no buffer. *)
LEMMA OtherStepsKeep ==
  ASSUME IInv, TInv', NEW t \in Thread,
         \/ t \in Reporter /\ (Report(t) \/ LoadHead(t) \/ LoadNext(t))
         \/ t \in Reporter /\ SwapAcquire(t) /\ freeBuffersHead # freeIndex[t]
         \/ t \in Reporter /\ Notify(t) /\ pc'[t] # "idle"
         \/ Released(t) /\ ~ ReleasesTwice(t)
         \/ CheckFreed(t) \/ LoadLink(t)
         \/ SwapRelease(t) /\ freeBuffersHead # freeBuffers[freeIndex[t]]
  PROVE  IInv' /\ UNCHANGED <<FreeList, holder>>
<1>1. /\ TInv /\ TypeOK /\ Holders /\ Marked /\ FreeInList
      /\ pc \in [Thread -> PcState] /\ again \in [Thread -> BOOLEAN]
      /\ freeIndex \in [Thread -> Buffer \cup {UINT8_MAX}]
      /\ next \in [Thread -> Buffer \cup {UINT8_MAX}]
      /\ bufferIndices \in [Thread -> Seq(Buffer)] /\ cursor \in [Thread -> 1 .. MaxParts + 1]
      /\ freeBuffersHead \in Buffer \cup {UINT8_MAX}
  BY DEF IInv, TInv, TypeOK, PcState
<1> USE DEF Working
<1>2. CASE t \in Reporter /\ Report(t)
  BY <1>1, <1>2, QuietStep, SameList DEF Report
<1>3. CASE t \in Reporter /\ LoadHead(t)
  <2>1. /\ UNCHANGED <<listVars, notified, holder, bufferIndices, cursor, next>>
        /\ freeIndex' = [freeIndex EXCEPT ![t] = freeBuffersHead]
        /\ pc[t] = "loadHead"
        /\ \/ pc' = [pc EXCEPT ![t] = "check"]
           \/ pc' = [pc EXCEPT ![t] = "loadNext"] /\ freeBuffersHead # UINT8_MAX
    BY <1>3 DEF LoadHead
  <2>2. QED
    BY <1>1, <2>1, QuietStep, SameList
<1>4. CASE t \in Reporter /\ LoadNext(t)
  BY <1>1, <1>4, QuietStep, SameList DEF LoadNext, threadVars
<1>5. CASE t \in Reporter /\ SwapAcquire(t) /\ freeBuffersHead # freeIndex[t]
  BY <1>1, <1>5, QuietStep, SameList DEF SwapAcquire, HeadIs, RetryAt, threadVars, listVars
<1>6. CASE t \in Reporter /\ Notify(t) /\ pc'[t] # "idle"
  <2>1. /\ UNCHANGED <<listVars, parts, cursor, freeIndex, next, again, notified, holder, bufferIndices>>
        /\ pc[t] = "notify" /\ pc' = [pc EXCEPT ![t] = "check"]
    BY <1>1, <1>6 DEF Notify
  <2>2. QED
    BY <1>1, <2>1, QuietStep, SameList
<1>7. CASE Released(t) /\ ~ ReleasesTwice(t)
  <2>1. /\ UNCHANGED <<listVars, parts, freeIndex, next, notified, holder>>
        /\ pc[t] = "check" /\ cursor[t] > Len(bufferIndices[t])
        /\ cursor' = [cursor EXCEPT ![t] = 1]
        /\ \/ UNCHANGED <<pc, bufferIndices>> /\ bufferIndices[t] = <<>>
           \/ /\ pc' = [pc EXCEPT ![t] = "idle"]
              /\ bufferIndices' = [bufferIndices EXCEPT ![t] = <<>>]
    BY <1>7 DEF Released, ReleasesTwice
  <2>2. QED
    BY <1>1, <2>1, QuietStep, SameList
<1>8. CASE CheckFreed(t)
  <2> DEFINE b == bufferIndices[t][cursor[t]]
  <2>1. b \in Buffer /\ cursor[t] \in 1 .. Len(bufferIndices[t]) /\ pc[t] = "check"
    BY <1>1, <1>8, Indices DEF CheckFreed
  <2>2. ThreadHolds(t, b)
    BY <2>1 DEF ThreadHolds
  <2>3. t \in holder[b]
    BY <1>1, <2>1, <2>2 DEF Holders
  <2>4. ASSUME NEW u \in Thread, pc[u] \in Working, freeIndex[u] = b PROVE FALSE
    <3>1. ThreadHolds(u, b)
      <4>1. CASE pc[u] = "mark"
        BY <2>4, <4>1 DEF ThreadHolds
      <4>2. CASE pc[u] \in Linking
        <5>1. cursor[u] \in 1 .. Len(bufferIndices[u]) /\ bufferIndices[u][cursor[u]] = b
          BY <1>1, <2>4, <4>2, Indices DEF TInv, Places
        <5>2. QED
          BY <5>1 DEF ThreadHolds
      <4>3. QED
        BY <2>4, <4>1, <4>2 DEF Linking
    <3>2. u \in holder[b]
      BY <1>1, <2>1, <3>1 DEF Holders
    <3>3. u = t
      BY <1>1, <2>1, <2>3, <3>2 DEF Holders
    <3>4. QED
      BY <2>1, <2>4, <3>3
  <2>5. freeBuffers[b] = UINT8_MAX
    BY <1>1, <2>1, <2>3, <2>4 DEF Marked
  <2>6. /\ UNCHANGED <<listVars, threadVars, next, notified, holder, cursor>>
        /\ freeIndex' = [freeIndex EXCEPT ![t] = b] /\ pc' = [pc EXCEPT ![t] = "loadLink"]
    BY <1>8, <2>5 DEF CheckFreed
  <2>7. QED
    BY <1>1, <2>1, <2>6, QuietStep, SameList DEF threadVars
<1>9. CASE LoadLink(t)
  BY <1>1, <1>9, QuietStep, SameList DEF LoadLink, threadVars
<1>10. CASE SwapRelease(t) /\ freeBuffersHead # freeBuffers[freeIndex[t]]
  <2>1. /\ UNCHANGED <<listVars, threadVars, next, notified, holder, cursor, freeIndex>>
        /\ pc[t] = "swapRelease" /\ pc' = [pc EXCEPT ![t] = "loadLink"]
    BY <1>10 DEF SwapRelease, HeadIs, listVars
  <2>2. QED
    BY <1>1, <2>1, QuietStep, SameList DEF threadVars
<1>11. QED
  BY <1>2, <1>3, <1>4, <1>5, <1>6, <1>7, <1>8, <1>9, <1>10

-----------------------------------------------------------------------------
(***************************************************************************)
(* Every step keeps the invariant, unless it is a fault, and is a step of   *)
(* the abstract pool: the compare-and-swaps that succeed take and give back a buffer, and the      *)
(* notifications and responses pass buffers on.                             *)
(***************************************************************************)
LEMMA NextIInv ==
  ASSUME IInv, [Next]_vars, ~ faulted'
  PROVE  IInv' /\ [Pool!Next]_<<FreeList, holder>>
<1>1. TInv /\ TInv' /\ holder \in [Buffer -> SUBSET (Thread \cup {Client})]
  BY NextTInv DEF IInv, TInv, TypeOK
<1>2. ASSUME NEW t \in Reporter, SwapAcquire(t), freeBuffersHead = freeIndex[t]
      PROVE  IInv' /\ Pool!Next
  <2>1. PICK b : b = freeIndex[t]
    OBVIOUS
  <2>2. ~ StaleLink(t)
    BY <1>2 DEF SwapAcquire, HeadIs
  <2>3. /\ IInv' /\ b \in FreeList /\ FreeList' = FreeList \ {b}
        /\ holder' = [holder EXCEPT ![b] = {t}]
    BY <1>1, <1>2, <2>1, <2>2, AcquireKeeps
  <2>4. Pool!Acquire(t)
    BY <2>3 DEF Pool!Acquire
  <2>5. QED
    BY <2>3, <2>4 DEF Pool!Next, Thread
<1>3. ASSUME NEW t \in Reporter, Notify(t), pc'[t] = "idle"
      PROVE  IInv' /\ Pool!Next
  <2>1. /\ IInv' /\ FreeList' = FreeList
        /\ \A b \in Own(t) : b \in Buffer /\ holder[b] = {t}
        /\ holder' = [b \in Buffer |-> IF b \in Own(t) THEN {Client} ELSE holder[b]]
    BY <1>1, <1>3, NotifyKeeps
  <2>2. Own(t) \in SUBSET {b \in Buffer : holder[b] = {t}}
    BY <2>1
  <2>3. Pool!PassOn(t, Client)
    BY <2>1, <2>2 DEF Pool!PassOn
  <2>4. QED
    BY <2>1, <2>3 DEF Pool!Next, Thread
<1>4. ASSUME NEW t \in ClientThread, Respond(t) PROVE IInv' /\ Pool!Next
  <2>1. /\ IInv' /\ FreeList' = FreeList
        /\ \E passed \in SUBSET {b \in Buffer : holder[b] = {Client}} :
             holder' = [b \in Buffer |-> IF b \in passed THEN {t} ELSE holder[b]]
    BY <1>1, <1>4, RespondKeeps
  <2>2. Pool!PassOn(Client, t)
    BY <2>1 DEF Pool!PassOn
  <2>3. QED
    BY <2>1, <2>2 DEF Pool!Next, Thread
<1>5. ASSUME NEW t \in Reporter, Mark(t) PROVE IInv' /\ UNCHANGED <<FreeList, holder>>
  <2>1. PICK b : b = freeIndex[t]
    OBVIOUS
  <2>2. IInv' /\ FreeList' = FreeList
    BY <1>1, <1>5, <2>1, MarkKeeps
  <2>3. holder' = holder
    BY <1>5 DEF Mark
  <2>4. QED
    BY <2>2, <2>3
<1>6. ASSUME NEW t \in Thread, Link(t) PROVE IInv' /\ UNCHANGED <<FreeList, holder>>
  <2>1. PICK b : b = freeIndex[t]
    OBVIOUS
  <2>2. QED
    BY <1>1, <1>6, <2>1, LinkKeeps DEF Link
<1>7. ASSUME NEW t \in Thread, SwapRelease(t), freeBuffersHead = freeBuffers[freeIndex[t]]
      PROVE  IInv' /\ Pool!Next
  <2>1. PICK b : b = freeIndex[t]
    OBVIOUS
  <2>2. /\ IInv' /\ b \in Buffer /\ holder[b] = {t}
        /\ FreeList' = FreeList \cup {b} /\ holder' = [holder EXCEPT ![b] = {}]
    BY <1>1, <1>7, <2>1, ReleaseKeeps
  <2>3. Pool!Release(t)
    BY <2>2 DEF Pool!Release
  <2>4. QED
    BY <2>2, <2>3 DEF Pool!Next
<1>8. CASE UNCHANGED vars
  <2>1. TInv' /\ UNCHANGED <<listVars, notified, holder>> /\ FreeList' = FreeList /\ Acyclic'
    BY <1>1, <1>8, SameList DEF vars, IInv
  <2>2. /\ UNCHANGED <<pc, bufferIndices, cursor, freeIndex, next, again, freeBuffers>>
    BY <1>8 DEF vars, listVars, threadVars
  <2>3. Holders'
    BY <2>1, <2>2 DEF Holders, ThreadHolds, ClientHolds, IInv
  <2>4. HeldOnce' /\ Marked' /\ FreeInList'
    BY <2>1, <2>2 DEF IInv, HeldOnce, Marked, FreeInList
  <2>5. QED
    BY <2>1, <2>2, <2>3, <2>4 DEF IInv
<1>9. ASSUME NEW t \in Thread,
             \/ t \in Reporter /\ (Report(t) \/ LoadHead(t) \/ LoadNext(t))
             \/ t \in Reporter /\ SwapAcquire(t) /\ freeBuffersHead # freeIndex[t]
             \/ t \in Reporter /\ Notify(t) /\ pc'[t] # "idle"
             \/ Released(t) /\ ~ ReleasesTwice(t)
             \/ CheckFreed(t) \/ LoadLink(t)
             \/ SwapRelease(t) /\ freeBuffersHead # freeBuffers[freeIndex[t]]
      PROVE  IInv' /\ UNCHANGED <<FreeList, holder>>
  BY <1>1, <1>9, OtherStepsKeep
<1>10. ASSUME NEW t \in Reporter, Report(t) \/ AcquireStep(t)
       PROVE  IInv' /\ [Pool!Next]_<<FreeList, holder>>
  <2>1. t \in Thread
    BY DEF Thread
  <2>2. QED
    BY <1>2, <1>3, <1>5, <1>9, <1>10, <2>1 DEF AcquireStep
<1>11. ASSUME NEW t \in Thread, ReleaseStep(t)
       PROVE  IInv' /\ [Pool!Next]_<<FreeList, holder>>
  <2>1. Released(t) => ~ ReleasesTwice(t)
    BY DEF Released
  <2>2. QED
    BY <1>6, <1>7, <1>9, <1>11, <2>1 DEF ReleaseStep
<1>12. QED
  BY <1>4, <1>8, <1>10, <1>11 DEF Next

(* The pool is sound until a fault. *)
LEMMA Invariant == Spec => []UntilFaultInv
<1>1. Init => UntilFaultInv
  BY InitIInv DEF UntilFaultInv, IInv
<1>2. UntilFaultInv /\ [Next]_vars => UntilFaultInv'
  <2> SUFFICES ASSUME UntilFaultInv, [Next]_vars PROVE UntilFaultInv'
    OBVIOUS
  <2>1. TInv /\ TInv'
    BY NextTInv DEF UntilFaultInv
  <2>2. CASE faulted'
    BY <2>1, <2>2 DEF UntilFaultInv
  <2>3. CASE ~ faulted'
    <3>1. ~ faulted
      BY <2>1, <2>3, FaultStays DEF TInv, TypeOK
    <3>2. IInv'
      BY <2>3, <3>1, NextIInv DEF UntilFaultInv
    <3>3. QED
      BY <2>1, <3>2 DEF UntilFaultInv
  <2>4. QED
    BY <2>2, <2>3
<1>3. QED
  BY <1>1, <1>2, PTL DEF Spec

(***************************************************************************)
(* Whatever threads take and release buffers, none is given to two packets  *)
(* before a link was stale in a swap, or an array released twice.           *)
(***************************************************************************)
THEOREM Separation == Spec => []SharedOnlyAfterFault
<1>1. ASSUME IInv PROVE BufferNotShared
  <2>1. ASSUME NEW b \in Buffer PROVE Cardinality(holder[b]) <= 1
    <3>1. \A g, h \in holder[b] : g = h
      BY <1>1 DEF IInv, Holders
    <3>2. holder[b] = {} \/ \E h : holder[b] = {h}
      BY <3>1
    <3>3. CASE holder[b] = {}
      <4>1. Cardinality({}) = 0
        BY FS_EmptySet
      <4>2. QED
        BY <3>3, <4>1
    <3>4. ASSUME NEW h, holder[b] = {h} PROVE Cardinality(holder[b]) <= 1
      <4>1. Cardinality({h}) = 1
        BY FS_Singleton
      <4>2. QED
        BY <3>4, <4>1
    <3>5. QED
      BY <3>2, <3>3, <3>4
  <2>2. \A b \in FreeList : b \in Buffer /\ holder[b] = {}
    BY <1>1, Reach DEF FreeList, FreeInList, IInv
  <2>3. QED
    BY <2>1, <2>2 DEF BufferNotShared
<1>2. UntilFaultInv => SharedOnlyAfterFault
  BY <1>1 DEF UntilFaultInv, SharedOnlyAfterFault
<1>3. QED
  BY Invariant, <1>2, PTL

(* ... and none is lost. *)
THEOREM Conservation == Spec => []LostOnlyAfterFault
<1>1. UntilFaultInv => LostOnlyAfterFault
  BY DEF UntilFaultInv, LostOnlyAfterFault, IInv, FreeInList, NoBufferLost
<1>2. QED
  BY Invariant, <1>1, PTL

(* The array and its head implement a set of free buffers until then. *)
THEOREM Refinement == Spec => ImplementsSocketBuffersUntilFault
<1>1. Init => Pool!Init
  <2> SUFFICES ASSUME Init PROVE Pool!Init
    OBVIOUS
  <2>1. FreeList = Buffer
    BY AllReached DEF Init, FreeList, FirstFree, InitialLinks
  <2>2. QED
    BY <2>1 DEF Init, Pool!Init
<1>2. UntilFaultInv /\ [Next]_vars => faulted' \/ Pool!Next \/ UNCHANGED Pool!vars
  <2> SUFFICES ASSUME UntilFaultInv, [Next]_vars, ~ faulted' PROVE Pool!Next \/ UNCHANGED Pool!vars
    OBVIOUS
  <2>1. ~ faulted
    BY FaultStays DEF UntilFaultInv, TInv, TypeOK
  <2>2. [Pool!Next]_<<FreeList, holder>>
    BY <2>1, NextIInv DEF UntilFaultInv
  <2>3. QED
    BY <2>2 DEF Pool!vars
<1>3. QED
  BY Invariant, <1>1, <1>2, PTL DEF Spec, ImplementsSocketBuffersUntilFault
=============================================================================
