--------------------------- MODULE NkeLocks_proofs ---------------------------
(***************************************************************************)
(* The driver takes its own locks in one order, for any number of sockets   *)
(* and threads and whatever locks the kernel holds in callbacks: along      *)
(* every path a lock is taken only while locks of a lower rank are held,    *)
(* the lock of a socket excepted.  So a circle of waiting threads is closed *)
(* by a call that takes the lock of a socket and by nothing else.           *)
(***************************************************************************)
EXTENDS NkeLocks, SequenceTheorems, TLAPS

Step == [lock: Lock, taken: BOOLEAN]

Kind(l) == l[1]

(* The order of the locks; the lock of a socket has no place in it. *)
Rank(l) == IF Kind(l) = "injectionMutex" THEN 1 ELSE IF Kind(l) = "rwLock" THEN 2 ELSE 3

Below(k, l) == Kind(k) = "socket" \/ Kind(l) = "socket" \/ Rank(k) < Rank(l)

Takes(p, k, l) == p[k].taken /\ p[k].lock = l

(* Every lock a path drops it has taken before. *)
Closed(p) ==
  \A j \in 1 .. Len(p) : ~p[j].taken => \E k \in 1 .. j - 1 : Takes(p, k, p[j].lock)

(* A lock that is dropped at j and not taken between i and j is held at i. *)
Ordered(p) ==
  \A i \in 1 .. Len(p), j \in 1 .. Len(p) :
    /\ i < j /\ p[i].taken /\ ~p[j].taken
    /\ \A k \in i .. j - 1 : ~Takes(p, k, p[j].lock)
    => Below(p[j].lock, p[i].lock)

(* Every lock a path takes it drops before it takes it again. *)
Released(p) ==
  \A i \in 1 .. Len(p) : p[i].taken =>
    \E j \in i + 1 .. Len(p) :
      /\ ~p[j].taken /\ p[j].lock = p[i].lock
      /\ \A k \in i + 1 .. j - 1 : ~Takes(p, k, p[i].lock)

Proper(p) == p \in Seq(Step) /\ Closed(p) /\ Ordered(p) /\ Released(p)

(* What may be taken under l. *)
Above(p, l) ==
  \A i \in 1 .. Len(p) : Kind(p[i].lock) # Kind(l) /\ Below(l, p[i].lock)

-----------------------------------------------------------------------------
(* Paths are put together from proper ones.                                *)

LEMMA Concat ==
  ASSUME NEW p, NEW q, Proper(p), Proper(q)
  PROVE  Proper(p \o q)
<1> DEFINE r == p \o q
           m == Len(p)
<1>0. p \in Seq(Step) /\ q \in Seq(Step) /\ m \in Nat /\ Len(q) \in Nat
  BY DEF Proper
<1>1. /\ r \in Seq(Step) /\ Len(r) = m + Len(q)
      /\ \A i \in 1 .. m : r[i] = p[i]
      /\ \A i \in 1 .. Len(q) : r[m + i] = q[i]
  BY <1>0, ConcatProperties
<1> HIDE DEF r, m
<1>2. \A i \in 1 .. Len(r) :
        \/ i \in 1 .. m /\ r[i] = p[i]
        \/ i - m \in 1 .. Len(q) /\ r[i] = q[i - m]
  <2>1. \A i \in 1 .. Len(r) : i \notin 1 .. m => i - m \in 1 .. Len(q) /\ i = m + (i - m)
    BY <1>0, <1>1
  <2>2. QED
    BY <1>1, <2>1
<1>3. ASSUME NEW j \in 1 .. Len(r), ~r[j].taken
      PROVE  /\ \E k \in 1 .. j - 1 : Takes(r, k, r[j].lock)
             /\ j - m \in 1 .. Len(q) => \E k \in m + 1 .. j - 1 : Takes(r, k, r[j].lock)
  <2>1. CASE j \in 1 .. m /\ r[j] = p[j]
    <3>1. PICK k \in 1 .. j - 1 : Takes(p, k, p[j].lock)
      BY <1>0, <1>3, <2>1 DEF Proper, Closed, m
    <3>2. k \in 1 .. m /\ r[k] = p[k]
      BY <1>0, <1>1, <2>1
    <3>3. Takes(r, k, r[j].lock)
      BY <2>1, <3>1, <3>2 DEF Takes
    <3>4. QED
      BY <1>0, <2>1, <3>3
  <2>2. CASE j - m \in 1 .. Len(q) /\ r[j] = q[j - m]
    <3>1. PICK k \in 1 .. j - m - 1 : Takes(q, k, q[j - m].lock)
      BY <1>0, <1>3, <2>2 DEF Proper, Closed
    <3>2. k \in 1 .. Len(q) /\ r[m + k] = q[k]
      BY <1>0, <1>1, <2>2
    <3>3. Takes(r, m + k, r[j].lock)
      BY <2>2, <3>1, <3>2 DEF Takes
    <3>4. m + k \in m + 1 .. j - 1 /\ m + k \in 1 .. j - 1
      BY <1>0, <2>2
    <3>5. QED
      BY <3>3, <3>4
  <2>3. QED
    BY <1>2, <2>1, <2>2
<1>4. Closed(r)
  BY <1>3 DEF Closed
<1>5. ASSUME NEW i \in 1 .. Len(r), NEW j \in 1 .. Len(r),
             i < j, r[i].taken, ~r[j].taken,
             \A k \in i .. j - 1 : ~Takes(r, k, r[j].lock)
      PROVE  Below(r[j].lock, r[i].lock)
  <2>1. CASE j \in 1 .. m /\ r[j] = p[j]
    <3>1. i \in 1 .. m /\ r[i] = p[i]
      BY <1>0, <1>1, <1>5, <2>1
    <3>2. \A k \in i .. j - 1 : ~Takes(p, k, p[j].lock)
      <4>1. \A k \in i .. j - 1 : k \in 1 .. m /\ r[k] = p[k]
        BY <1>0, <1>1, <2>1, <3>1
      <4>2. QED
        BY <1>5, <2>1, <4>1 DEF Takes
    <3>3. QED
      BY <1>5, <2>1, <3>1, <3>2 DEF Proper, Ordered, m
  <2>2. CASE j - m \in 1 .. Len(q) /\ r[j] = q[j - m]
    <3>1. i \notin 1 .. m
      <4>1. PICK k \in m + 1 .. j - 1 : Takes(r, k, r[j].lock)
        BY <1>3, <1>5, <2>2
      <4>2. QED
        BY <1>0, <1>5, <4>1
    <3>2. i - m \in 1 .. Len(q) /\ r[i] = q[i - m]
      BY <1>2, <3>1
    <3>3. ASSUME NEW k \in i - m .. j - m - 1
          PROVE  ~Takes(q, k, q[j - m].lock)
      <4>1. k \in 1 .. Len(q) /\ m + k \in i .. j - 1
        BY <1>0, <1>1, <2>2, <3>2
      <4>2. r[m + k] = q[k]
        BY <1>1, <4>1
      <4>3. QED
        BY <1>5, <2>2, <4>1, <4>2 DEF Takes
    <3>4. i - m < j - m
      BY <1>0, <1>1, <1>5
    <3>5. QED
      BY <1>5, <2>2, <3>2, <3>3, <3>4 DEF Proper, Ordered
  <2>3. QED
    BY <1>2, <2>1, <2>2
<1>6. Ordered(r)
  BY <1>5 DEF Ordered
<1>7. ASSUME NEW i \in 1 .. Len(r), r[i].taken
      PROVE  \E j \in i + 1 .. Len(r) :
               /\ ~r[j].taken /\ r[j].lock = r[i].lock
               /\ \A k \in i + 1 .. j - 1 : ~Takes(r, k, r[i].lock)
  <2>1. CASE i \in 1 .. m /\ r[i] = p[i]
    <3>1. PICK j \in i + 1 .. m :
            /\ ~p[j].taken /\ p[j].lock = p[i].lock
            /\ \A k \in i + 1 .. j - 1 : ~Takes(p, k, p[i].lock)
      BY <1>7, <2>1 DEF Proper, Released, m
    <3>2. \A k \in i + 1 .. j : k \in 1 .. m /\ r[k] = p[k]
      BY <1>0, <1>1, <2>1
    <3>3. \A k \in i + 1 .. j - 1 : ~Takes(r, k, r[i].lock)
      BY <1>0, <2>1, <3>1, <3>2 DEF Takes
    <3>4. j \in i + 1 .. Len(r) /\ r[j] = p[j]
      BY <1>0, <1>1, <2>1, <3>2
    <3>5. QED
      BY <2>1, <3>1, <3>3, <3>4
  <2>2. CASE i - m \in 1 .. Len(q) /\ r[i] = q[i - m]
    <3>1. PICK j \in i - m + 1 .. Len(q) :
            /\ ~q[j].taken /\ q[j].lock = q[i - m].lock
            /\ \A k \in i - m + 1 .. j - 1 : ~Takes(q, k, q[i - m].lock)
      BY <1>7, <2>2 DEF Proper, Released
    <3>2. m + j \in i + 1 .. Len(r) /\ r[m + j] = q[j]
      BY <1>0, <1>1, <2>2
    <3>3. ASSUME NEW k \in i + 1 .. m + j - 1
          PROVE  ~Takes(r, k, r[i].lock)
      <4>1. k - m \in i - m + 1 .. j - 1 /\ k - m \in 1 .. Len(q) /\ k = m + (k - m)
        BY <1>0, <2>2
      <4>2. r[k] = q[k - m]
        BY <1>1, <4>1
      <4>3. QED
        BY <2>2, <3>1, <4>1, <4>2 DEF Takes
    <3>4. ~r[m + j].taken /\ r[m + j].lock = r[i].lock
      BY <2>2, <3>1, <3>2
    <3>5. \E h \in i + 1 .. Len(r) :
            /\ ~r[h].taken /\ r[h].lock = r[i].lock
            /\ \A k \in i + 1 .. h - 1 : ~Takes(r, k, r[i].lock)
      <4> DEFINE h == m + j
      <4>1. h \in i + 1 .. Len(r)
        BY <3>2
      <4>2. ~r[h].taken /\ r[h].lock = r[i].lock
        BY <3>4
      <4>3. \A k \in i + 1 .. h - 1 : ~Takes(r, k, r[i].lock)
        BY <1>0, <3>3
      <4> HIDE DEF h
      <4>4. QED
        BY <4>1, <4>2, <4>3
    <3>6. QED
      BY <3>5
  <2>3. QED
    BY <1>2, <2>1, <2>2
<1>8. Released(r)
  BY <1>7 DEF Released
<1>9. QED
  BY <1>1, <1>4, <1>6, <1>8 DEF Proper, r

(* A lock held along a proper path above it. *)
LEMMA Held ==
  ASSUME NEW l \in Lock, NEW p, Proper(p), Above(p, l)
  PROVE  Proper(Holding(l, p))
<1> DEFINE r == Holding(l, p)
           n == Len(p)
<1>0. p \in Seq(Step) /\ n \in Nat
  BY DEF Proper
<1>1. /\ r \in Seq(Step) /\ Len(r) = n + 2
      /\ r[1] = Take(l) /\ r[n + 2] = Drop(l)
      /\ \A i \in 1 .. n : r[i + 1] = p[i]
  <2>1. Take(l) \in Step /\ Drop(l) \in Step
    BY DEF Take, Drop, Step
  <2> DEFINE a == <<Take(l)>>
             b == <<Drop(l)>>
  <2>2. /\ a \in Seq(Step) /\ Len(a) = 1 /\ a[1] = Take(l)
        /\ b \in Seq(Step) /\ Len(b) = 1 /\ b[1] = Drop(l)
    BY <2>1
  <2> HIDE DEF a, b
  <2>3. /\ a \o p \in Seq(Step) /\ Len(a \o p) = n + 1
        /\ \A i \in 1 .. n + 1 : (a \o p)[i] = IF i <= 1 THEN a[i] ELSE p[i - 1]
    <3>1. /\ a \o p \in Seq(Step) /\ Len(a \o p) = Len(a) + Len(p)
          /\ \A i \in 1 .. Len(a) + Len(p) :
               (a \o p)[i] = IF i <= Len(a) THEN a[i] ELSE p[i - Len(a)]
      BY <1>0, <2>2, ConcatProperties
    <3>2. Len(a) + Len(p) = n + 1
      BY <1>0, <2>2
    <3>3. QED
      BY <2>2, <3>1, <3>2
  <2> DEFINE ap == a \o p
  <2> HIDE DEF ap
  <2>4. /\ ap \o b \in Seq(Step) /\ Len(ap \o b) = n + 2
        /\ \A i \in 1 .. n + 2 : (ap \o b)[i] = IF i <= n + 1 THEN ap[i] ELSE b[i - (n + 1)]
    <3>1. ap \in Seq(Step) /\ Len(ap) = n + 1
      BY <2>3 DEF ap
    <3>2. /\ ap \o b \in Seq(Step) /\ Len(ap \o b) = Len(ap) + Len(b)
          /\ \A i \in 1 .. Len(ap) + Len(b) :
               (ap \o b)[i] = IF i <= Len(ap) THEN ap[i] ELSE b[i - Len(ap)]
      BY <2>2, <3>1, ConcatProperties
    <3>3. Len(ap) + Len(b) = n + 2
      BY <1>0, <2>2, <3>1
    <3>4. QED
      BY <3>1, <3>2, <3>3
  <2>5. r = ap \o b
    BY DEF Holding, ap, a, b
  <2>6. ap[1] = Take(l) /\ \A i \in 1 .. n : ap[i + 1] = p[i]
    <3>1. \A i \in 1 .. n : i + 1 \in 1 .. n + 1 /\ ~(i + 1 <= 1) /\ i + 1 - 1 = i
      BY <1>0
    <3>2. 1 \in 1 .. n + 1
      BY <1>0
    <3>3. QED
      BY <2>2, <2>3, <3>1, <3>2 DEF ap
  <2>7. (ap \o b)[1] = ap[1] /\ (ap \o b)[n + 2] = b[1]
    BY <1>0, <2>4
  <2>8. \A i \in 1 .. n : (ap \o b)[i + 1] = ap[i + 1]
    BY <1>0, <2>4
  <2>9. QED
    BY <2>2, <2>4, <2>5, <2>6, <2>7, <2>8
<1> HIDE DEF r, n
<1>2. /\ r[1].taken /\ r[1].lock = l /\ ~r[n + 2].taken /\ r[n + 2].lock = l
  BY <1>1 DEF Take, Drop
<1>3. \A i \in 1 .. Len(r) :
        \/ i = 1
        \/ i = n + 2
        \/ i - 1 \in 1 .. n /\ r[i] = p[i - 1]
  <2>1. \A i \in 1 .. Len(r) : i # 1 /\ i # n + 2 => i - 1 \in 1 .. n /\ i = (i - 1) + 1
    BY <1>0, <1>1
  <2>2. QED
    BY <1>1, <2>1
<1>4. \A i \in 1 .. n : Below(l, p[i].lock) /\ p[i].lock # l
  BY DEF Above, n
<1>5. ASSUME NEW j \in 1 .. n, ~p[j].taken
      PROVE  \E k \in 2 .. j : Takes(r, k, p[j].lock)
  <2>1. PICK k \in 1 .. j - 1 : Takes(p, k, p[j].lock)
    BY <1>0, <1>5 DEF Proper, Closed, n
  <2>2. k + 1 \in 2 .. j /\ r[k + 1] = p[k]
    BY <1>0, <1>1
  <2>3. QED
    BY <2>1, <2>2 DEF Takes
<1>6. ASSUME NEW j \in 1 .. Len(r), ~r[j].taken
      PROVE  \E k \in 1 .. j - 1 : Takes(r, k, r[j].lock)
  <2>1. CASE j = n + 2
    <3>1. Takes(r, 1, r[j].lock) /\ 1 \in 1 .. j - 1
      BY <1>0, <1>2, <2>1 DEF Takes
    <3>2. QED
      BY <3>1
  <2>2. CASE j - 1 \in 1 .. n /\ r[j] = p[j - 1]
    <3>1. PICK k \in 2 .. j - 1 : Takes(r, k, p[j - 1].lock)
      BY <1>5, <1>6, <2>2
    <3>2. k \in 1 .. j - 1
      BY <3>1
    <3>3. QED
      BY <2>2, <3>1, <3>2
  <2>3. QED
    BY <1>2, <1>3, <1>6, <2>1, <2>2
<1>7. Closed(r)
  BY <1>6 DEF Closed
<1>8. ASSUME NEW i \in 1 .. Len(r), NEW j \in 1 .. Len(r),
             i < j, r[i].taken, ~r[j].taken,
             \A k \in i .. j - 1 : ~Takes(r, k, r[j].lock)
      PROVE  Below(r[j].lock, r[i].lock)
  <2>1. i # 1
    <3>1. ASSUME i = 1
          PROVE  FALSE
      <4>1. PICK k \in 1 .. j - 1 : Takes(r, k, r[j].lock)
        BY <1>6, <1>8
      <4>2. QED
        BY <1>8, <3>1, <4>1
    <3>2. QED
      BY <3>1
  <2>2. i - 1 \in 1 .. n /\ r[i] = p[i - 1]
    BY <1>2, <1>3, <1>8, <2>1
  <2>3. CASE j = n + 2
    BY <1>2, <1>4, <2>2, <2>3
  <2>4. CASE j - 1 \in 1 .. n /\ r[j] = p[j - 1]
    <3>1. ASSUME NEW k \in i - 1 .. j - 1 - 1
          PROVE  ~Takes(p, k, p[j - 1].lock)
      <4>1. k \in 1 .. n /\ k + 1 \in i .. j - 1
        BY <1>0, <2>2, <2>4
      <4>2. r[k + 1] = p[k]
        BY <1>1, <4>1
      <4>3. QED
        BY <1>8, <2>4, <4>1, <4>2 DEF Takes
    <3>2. i - 1 < j - 1
      BY <1>0, <1>1, <1>8
    <3>3. QED
      BY <1>8, <2>2, <2>4, <3>1, <3>2 DEF Proper, Ordered, n
  <2>5. QED
    BY <1>0, <1>2, <1>3, <1>8, <2>1, <2>3, <2>4
<1>9. Ordered(r)
  BY <1>8 DEF Ordered
<1>10. ASSUME NEW i \in 1 .. Len(r), r[i].taken
       PROVE  \E j \in i + 1 .. Len(r) :
                /\ ~r[j].taken /\ r[j].lock = r[i].lock
                /\ \A k \in i + 1 .. j - 1 : ~Takes(r, k, r[i].lock)
  <2>1. CASE i = 1
    <3>1. \A k \in 2 .. n + 1 : ~Takes(r, k, l)
      <4>1. \A k \in 2 .. n + 1 : k - 1 \in 1 .. n /\ r[k] = p[k - 1]
        <5>1. \A k \in 2 .. n + 1 : k \in 1 .. Len(r) /\ k # 1 /\ k # n + 2
          BY <1>0, <1>1
        <5>2. QED
          BY <1>3, <5>1
      <4>2. QED
        BY <1>4, <4>1 DEF Takes
    <3> DEFINE h == n + 2
    <3>2. h \in i + 1 .. Len(r) /\ i + 1 = 2 /\ h - 1 = n + 1
      BY <1>0, <1>1, <2>1
    <3>3. \A k \in i + 1 .. h - 1 : ~Takes(r, k, r[i].lock)
      BY <1>2, <2>1, <3>1, <3>2
    <3>4. ~r[h].taken /\ r[h].lock = r[i].lock
      BY <1>2, <2>1
    <3> HIDE DEF h
    <3>5. QED
      BY <3>2, <3>3, <3>4
  <2>2. CASE i - 1 \in 1 .. n /\ r[i] = p[i - 1]
    <3>1. PICK j \in i - 1 + 1 .. n :
            /\ ~p[j].taken /\ p[j].lock = p[i - 1].lock
            /\ \A k \in i - 1 + 1 .. j - 1 : ~Takes(p, k, p[i - 1].lock)
      BY <1>10, <2>2 DEF Proper, Released, n
    <3> DEFINE h == j + 1
    <3>2. h \in i + 1 .. Len(r) /\ r[h] = p[j]
      BY <1>0, <1>1, <2>2
    <3>3. ASSUME NEW k \in i + 1 .. h - 1
          PROVE  ~Takes(r, k, r[i].lock)
      <4>1. k - 1 \in i - 1 + 1 .. j - 1 /\ k - 1 \in 1 .. n /\ k = (k - 1) + 1
        BY <1>0, <2>2
      <4>2. r[k] = p[k - 1]
        BY <1>1, <4>1
      <4>3. QED
        BY <2>2, <3>1, <4>1, <4>2 DEF Takes
    <3>4. ~r[h].taken /\ r[h].lock = r[i].lock
      BY <2>2, <3>1, <3>2
    <3> HIDE DEF h
    <3>5. QED
      BY <3>2, <3>3, <3>4
  <2>3. QED
    BY <1>2, <1>3, <1>10, <2>1, <2>2
<1>11. Released(r)
  BY <1>10 DEF Released
<1>12. QED
  BY <1>1, <1>7, <1>9, <1>11 DEF Proper, r

LEMMA ConcatAbove ==
  ASSUME NEW l, NEW p, NEW q, Proper(p), Proper(q), Above(p, l), Above(q, l)
  PROVE  Above(p \o q, l)
<1>1. p \in Seq(Step) /\ q \in Seq(Step) /\ Len(p) \in Nat /\ Len(q) \in Nat
  BY DEF Proper
<1> DEFINE r == p \o q
<1>2. /\ Len(r) = Len(p) + Len(q)
      /\ \A i \in 1 .. Len(p) + Len(q) : r[i] = IF i <= Len(p) THEN p[i] ELSE q[i - Len(p)]
  BY <1>1, ConcatProperties
<1> HIDE DEF r
<1>3. ASSUME NEW i \in 1 .. Len(r)
      PROVE  Kind(r[i].lock) # Kind(l) /\ Below(l, r[i].lock)
  <2>1. CASE i <= Len(p)
    <3>1. i \in 1 .. Len(p) /\ r[i] = p[i]
      BY <1>1, <1>2, <2>1
    <3>2. QED
      BY <3>1 DEF Above
  <2>2. CASE ~(i <= Len(p))
    <3>1. i - Len(p) \in 1 .. Len(q) /\ r[i] = q[i - Len(p)]
      BY <1>1, <1>2, <2>2
    <3>2. QED
      BY <3>1 DEF Above
  <2>3. QED
    BY <2>1, <2>2
<1>4. QED
  BY <1>3 DEF Above, r

LEMMA EmptyProper == Proper(<<>>) /\ \A l : Above(<<>>, l)
<1>1. <<>> \in Seq(Step) /\ Len(<<>>) = 0
  BY EmptySeq
<1>2. QED
  BY <1>1 DEF Proper, Closed, Ordered, Released, Above

LEMMA RankRange == \A l : Rank(l) \in 1 .. 3
BY DEF Rank

(* A lock that may be taken under k, with a path that may. *)
LEMMA HeldAbove ==
  ASSUME NEW k, NEW l \in Lock, NEW p, Proper(p), Above(p, k), Kind(l) # Kind(k), Below(k, l)
  PROVE  Above(Holding(l, p), k)
<1>1. p \in Seq(Step) /\ Len(p) \in Nat
  BY DEF Proper
<1> DEFINE a == <<Take(l)>>
           b == <<Drop(l)>>
           r == a \o p \o b
<1>2. /\ a \in Seq(Step) /\ Len(a) = 1 /\ a[1].lock = l
      /\ b \in Seq(Step) /\ Len(b) = 1 /\ b[1].lock = l
  BY DEF Take, Drop, Step
<1> HIDE DEF a, b
<1>3. /\ a \o p \in Seq(Step) /\ Len(a \o p) = 1 + Len(p)
      /\ \A i \in 1 .. 1 + Len(p) : (a \o p)[i] = IF i <= 1 THEN a[i] ELSE p[i - 1]
  <2>1. /\ a \o p \in Seq(Step) /\ Len(a \o p) = Len(a) + Len(p)
        /\ \A i \in 1 .. Len(a) + Len(p) :
             (a \o p)[i] = IF i <= Len(a) THEN a[i] ELSE p[i - Len(a)]
    BY <1>1, <1>2, ConcatProperties
  <2>2. QED
    BY <1>2, <2>1
<1> DEFINE ap == a \o p
<1> HIDE DEF ap
<1>4. /\ Len(ap \o b) = 1 + Len(p) + 1
      /\ \A i \in 1 .. 1 + Len(p) + 1 :
           (ap \o b)[i] = IF i <= 1 + Len(p) THEN ap[i] ELSE b[i - (1 + Len(p))]
  <2>1. ap \in Seq(Step) /\ Len(ap) = 1 + Len(p)
    BY <1>3 DEF ap
  <2>2. /\ Len(ap \o b) = Len(ap) + Len(b)
        /\ \A i \in 1 .. Len(ap) + Len(b) :
             (ap \o b)[i] = IF i <= Len(ap) THEN ap[i] ELSE b[i - Len(ap)]
    BY <1>2, <2>1, ConcatProperties
  <2>3. QED
    BY <1>2, <2>1, <2>2
<1>5. r = ap \o b
  BY DEF ap
<1> HIDE DEF r
<1>6. ASSUME NEW i \in 1 .. Len(r)
      PROVE  Kind(r[i].lock) # Kind(k) /\ Below(k, r[i].lock)
  <2>1. CASE i = 1
    <3>1. r[1] = a[1]
      BY <1>1, <1>3, <1>4, <1>5 DEF ap
    <3>2. QED
      BY <1>2, <2>1, <3>1
  <2>2. CASE i = 1 + Len(p) + 1
    <3>1. r[i] = b[1]
      BY <1>1, <1>4, <1>5, <2>2
    <3>2. QED
      BY <1>2, <3>1
  <2>3. CASE i # 1 /\ i # 1 + Len(p) + 1
    <3>1. i - 1 \in 1 .. Len(p) /\ i <= 1 + Len(p) /\ ~(i <= 1) /\ i \in 1 .. 1 + Len(p)
      BY <1>1, <1>4, <1>5, <2>3
    <3>2. r[i] = p[i - 1]
      BY <1>1, <1>3, <1>4, <1>5, <3>1 DEF ap
    <3>3. QED
      BY <3>1, <3>2 DEF Above
  <2>4. QED
    BY <2>1, <2>2, <2>3
<1>7. r = Holding(l, p)
  BY DEF r, a, b, Holding
<1>8. QED
  BY <1>6, <1>7 DEF Above

LEMMA OnlyProper ==
  ASSUME NEW l \in Lock
  PROVE  /\ Proper(Only(l))
         /\ \A k : Kind(l) # Kind(k) /\ Below(k, l) => Above(Only(l), k)
BY EmptyProper, Held, HeldAbove DEF Only

-----------------------------------------------------------------------------
(* The paths of the driver are proper.                                     *)

LEMMA LockKinds ==
  ASSUME NEW s \in Socket
  PROVE  /\ SocketMutex(s) \in Lock /\ Kind(SocketMutex(s)) = "socket"
         /\ InjectionMutex(s) \in Lock /\ Kind(InjectionMutex(s)) = "injectionMutex"
         /\ RwLock(s) \in Lock /\ Kind(RwLock(s)) = "rwLock"
         /\ DetachingLock(s) \in Lock /\ Kind(DetachingLock(s)) = "lockCount"
         /\ SocketsListLock \in Lock /\ Kind(SocketsListLock) = "SocketsListLock"
         /\ SocketsListToReportLock \in Lock
         /\ Kind(SocketsListToReportLock) = "SocketsListToReportLock"
         /\ ClientLock \in Lock /\ Kind(ClientLock) = "fLock"
BY DEF Lock, Kind, SocketMutex, InjectionMutex, RwLock, DetachingLock, SocketsListLock,
       SocketsListToReportLock, ClientLock

LEMMA LeavesProper ==
  ASSUME NEW s \in Socket
  PROVE  /\ Proper(Only(SocketsListLock)) /\ Above(Only(SocketsListLock), RwLock(s))
         /\ Above(Only(SocketsListLock), SocketMutex(s))
         /\ Proper(Only(SocketsListToReportLock))
         /\ Above(Only(SocketsListToReportLock), RwLock(s))
         /\ Above(Only(SocketsListToReportLock), SocketMutex(s))
         /\ Proper(Only(ClientLock)) /\ Above(Only(ClientLock), RwLock(s))
         /\ Above(Only(ClientLock), SocketMutex(s))
         /\ Proper(Only(SocketMutex(s))) /\ Above(Only(SocketMutex(s)), RwLock(s))
         /\ Above(Only(SocketMutex(s)), InjectionMutex(s))
         /\ Above(Only(SocketMutex(s)), DetachingLock(s))
         /\ Proper(Only(DetachingLock(s))) /\ Above(Only(DetachingLock(s)), SocketMutex(s))
         /\ Proper(Only(RwLock(s))) /\ Above(Only(RwLock(s)), InjectionMutex(s))
         /\ Above(Only(RwLock(s)), SocketMutex(s))
<1>1. /\ Below(RwLock(s), SocketsListLock) /\ Below(SocketMutex(s), SocketsListLock)
      /\ Below(RwLock(s), SocketsListToReportLock)
      /\ Below(SocketMutex(s), SocketsListToReportLock)
      /\ Below(RwLock(s), ClientLock) /\ Below(SocketMutex(s), ClientLock)
      /\ Below(RwLock(s), SocketMutex(s)) /\ Below(InjectionMutex(s), SocketMutex(s))
      /\ Below(DetachingLock(s), SocketMutex(s)) /\ Below(SocketMutex(s), DetachingLock(s))
      /\ Below(InjectionMutex(s), RwLock(s)) /\ Below(SocketMutex(s), RwLock(s))
  BY LockKinds DEF Below, Rank
<1>2. QED
  BY <1>1, LockKinds, OnlyProper

LEMMA UnderRwLock ==
  ASSUME NEW s \in Socket, NEW p, Proper(p), Above(p, RwLock(s))
  PROVE  Proper(Holding(RwLock(s), p)) /\
         (Above(p, SocketMutex(s)) => Above(Holding(RwLock(s), p), SocketMutex(s)))
<1>1. Below(SocketMutex(s), RwLock(s))
  BY LockKinds DEF Below
<1>2. QED
  BY <1>1, LockKinds, Held, HeldAbove

LEMMA UnderInjectionMutex ==
  ASSUME NEW s \in Socket, NEW p, Proper(p), Above(p, InjectionMutex(s))
  PROVE  Proper(Holding(InjectionMutex(s), p)) /\
         (Above(p, SocketMutex(s)) => Above(Holding(InjectionMutex(s), p), SocketMutex(s)))
<1>1. Below(SocketMutex(s), InjectionMutex(s))
  BY LockKinds DEF Below
<1>2. QED
  BY <1>1, LockKinds, Held, HeldAbove

(* The functions that are called with the lock of the socket do not take it. *)
CalledUnderSocketMutex(s, p) == Proper(p) /\ Above(p, SocketMutex(s))

LEMMA ConcatCalled ==
  ASSUME NEW s \in Socket, NEW p, NEW q,
         CalledUnderSocketMutex(s, p), CalledUnderSocketMutex(s, q)
  PROVE  CalledUnderSocketMutex(s, p \o q)
BY Concat, ConcatAbove DEF CalledUnderSocketMutex

LEMMA FunctionsProper ==
  ASSUME NEW s \in Socket
  PROVE  /\ CalledUnderSocketMutex(s, GetSocketObjectRef)
         /\ CalledUnderSocketMutex(s, SocketFilterNotification)
         /\ CalledUnderSocketMutex(s, LogEvent(s))
         /\ CalledUnderSocketMutex(s, Detach(s))
         /\ CalledUnderSocketMutex(s, PurgePendingQueue(s))
         /\ Proper(GetSocketObjectRef) /\ Proper(SocketFilterNotification)
         /\ Proper(LogEvent(s)) /\ Proper(Detach(s)) /\ Proper(PurgePendingQueue(s))
         /\ Proper(CallOfSocket(s)) /\ Proper(InsertInSocketsList(s))
         /\ Proper(DeliverWaitingNotifications(s)) /\ Proper(ReinjectDeferredData(s))
         /\ Proper(SetDeferredDataProperties(s))
         /\ Proper(Holding(RwLock(s), ReduceWindow(s) \o Only(SocketsListToReportLock)))
<1>1. /\ CalledUnderSocketMutex(s, GetSocketObjectRef)
      /\ CalledUnderSocketMutex(s, SocketFilterNotification)
      /\ CalledUnderSocketMutex(s, LogEvent(s))
      /\ CalledUnderSocketMutex(s, Only(SocketsListToReportLock))
      /\ CalledUnderSocketMutex(s, Only(DetachingLock(s)))
  BY LeavesProper
  DEF CalledUnderSocketMutex, GetSocketObjectRef, SocketFilterNotification, LogEvent
<1>2. CalledUnderSocketMutex(s, InsertInSocketsList(s))
  BY LeavesProper, UnderRwLock DEF CalledUnderSocketMutex, InsertInSocketsList
<1>3. CalledUnderSocketMutex(s, PurgePendingQueue(s))
  BY LeavesProper, UnderInjectionMutex DEF CalledUnderSocketMutex, PurgePendingQueue
<1>4. CalledUnderSocketMutex(s, Detach(s))
  <2>1. CalledUnderSocketMutex(s, RemoveFromSocketsList(s))
    BY <1>1, <1>2, ConcatCalled DEF RemoveFromSocketsList, InsertInSocketsList
  <2>2. CalledUnderSocketMutex(s, RemoveFromSocketsList(s) \o Only(DetachingLock(s)))
    BY <1>1, <2>1, ConcatCalled
  <2>3. QED
    BY <1>3, <2>2, ConcatCalled DEF Detach
<1>5. Proper(CallOfSocket(s)) /\ Proper(SetDeferredDataProperties(s))
  BY LeavesProper DEF CallOfSocket, SetDeferredDataProperties
<1>6. Proper(DeliverWaitingNotifications(s))
  <2>1. Proper(Holding(RwLock(s), SocketFilterNotification \o CallOfSocket(s)))
    BY LeavesProper, UnderRwLock, Concat, ConcatAbove DEF SocketFilterNotification, CallOfSocket
  <2>2. Proper(Only(SocketsListToReportLock)
                 \o Holding(RwLock(s), SocketFilterNotification \o CallOfSocket(s)))
    BY <2>1, LeavesProper, Concat
  <2>3. QED
    BY <2>2, LeavesProper, Concat DEF DeliverWaitingNotifications
<1>7. Proper(ReinjectDeferredData(s))
  BY LeavesProper, Concat, ConcatAbove, UnderInjectionMutex DEF ReinjectDeferredData, CallOfSocket
<1>8. Proper(Holding(RwLock(s), ReduceWindow(s) \o Only(SocketsListToReportLock)))
  <2>1. Below(RwLock(s), DetachingLock(s))
    BY LockKinds DEF Below, Rank
  <2>2. Proper(ReduceWindow(s)) /\ Above(ReduceWindow(s), RwLock(s))
    BY <2>1, LeavesProper, LockKinds, Held, HeldAbove DEF ReduceWindow, CallOfSocket
  <2>3. QED
    BY <2>2, LeavesProper, Concat, ConcatAbove, UnderRwLock
<1>9. QED
  BY <1>1, <1>2, <1>3, <1>4, <1>5, <1>6, <1>7, <1>8 DEF CalledUnderSocketMutex

LEMMA InCallbackProper ==
  ASSUME NEW s \in Socket, NEW p, CalledUnderSocketMutex(s, p)
  PROVE  Proper(InCallback(s, p))
BY LockKinds, Held DEF InCallback, CalledUnderSocketMutex

LEMMA EventProper ==
  ASSUME NEW s \in Socket, NEW p, Proper(p)
  PROVE  /\ Proper(Event(s, p))
         /\ CalledUnderSocketMutex(s, p) => CalledUnderSocketMutex(s, Event(s, p))
<1>1. /\ Proper(GetSocketObjectRef \o LogEvent(s))
      /\ CalledUnderSocketMutex(s, GetSocketObjectRef \o LogEvent(s))
  BY FunctionsProper, Concat, ConcatCalled
<1>2. /\ Proper((GetSocketObjectRef \o LogEvent(s)) \o p)
      /\ CalledUnderSocketMutex(s, p)
           => CalledUnderSocketMutex(s, (GetSocketObjectRef \o LogEvent(s)) \o p)
  BY <1>1, Concat, ConcatCalled
<1>3. QED
  BY <1>2, FunctionsProper, Concat, ConcatCalled DEF Event

LEMMA PathsProper ==
  ASSUME NEW p \in Path
  PROVE  Proper(p)
<1>1. ASSUME NEW s \in Socket
      PROVE  /\ Proper(FltAttach(s)) /\ Proper(FltDetach(s))
             /\ Proper(Closing(s)) /\ Proper(Connected(s)) /\ Proper(Shutdown(s))
  <2>1. Proper(FltAttach(s))
    <3>1. Proper(GetSocketObjectRef \o Detach(s))
      BY FunctionsProper, Concat
    <3>2. Proper((GetSocketObjectRef \o Detach(s)) \o CallOfSocket(s))
      BY <3>1, FunctionsProper, Concat
    <3>3. QED
      BY <3>2, FunctionsProper, Concat DEF FltAttach
  <2>2. Proper(FltDetach(s))
    BY FunctionsProper, InCallbackProper DEF FltDetach
  <2>3. Proper(Closing(s))
    <3>1. CalledUnderSocketMutex(s, PurgePendingQueue(s) \o SocketFilterNotification)
      BY FunctionsProper, ConcatCalled
    <3>2. CalledUnderSocketMutex(s, Event(s, PurgePendingQueue(s) \o SocketFilterNotification))
      BY <3>1, EventProper DEF CalledUnderSocketMutex
    <3>3. QED
      BY <3>2, InCallbackProper DEF Closing
  <2>4. Proper(Connected(s)) /\ Proper(Shutdown(s))
    BY FunctionsProper, Concat, EventProper DEF Connected, Shutdown
  <2>5. QED
    BY <2>1, <2>2, <2>3, <2>4
<1>2. ASSUME NEW s \in Socket, NEW r \in Socket
      PROVE  /\ Proper(FltData(s, r)) /\ Proper(ProcessServiceResponse(s, r))
             /\ Proper(InjectionThreadRoutine(s, r))
  <2>1. Proper(FltData(s, r))
    <3> DEFINE queued == Holding(RwLock(s), ReduceWindow(s) \o Only(SocketsListToReportLock))
    <3>1. Proper(queued)
      BY FunctionsProper
    <3>2. FltData(s, r) = queued \o SocketFilterNotification \o DeliverWaitingNotifications(r)
      BY DEF FltData
    <3> HIDE DEF queued
    <3>3. Proper(queued \o SocketFilterNotification)
      BY <3>1, FunctionsProper, Concat
    <3>4. QED
      BY <3>2, <3>3, FunctionsProper, Concat
  <2>2. Proper(ProcessServiceResponse(s, r))
    <3>1. Proper(DeliverWaitingNotifications(r) \o GetSocketObjectRef)
      BY FunctionsProper, Concat
    <3>2. Proper((DeliverWaitingNotifications(r) \o GetSocketObjectRef)
                   \o SetDeferredDataProperties(s))
      BY <3>1, FunctionsProper, Concat
    <3>3. QED
      BY <3>2, FunctionsProper, Concat DEF ProcessServiceResponse
  <2>3. Proper(InjectionThreadRoutine(s, r))
    <3>1. Proper(GetSocketObjectRef \o ReinjectDeferredData(s))
      BY FunctionsProper, Concat
    <3>2. QED
      BY <3>1, FunctionsProper, Concat DEF InjectionThreadRoutine
  <2>4. QED
    BY <2>1, <2>2, <2>3
<1>3. QED
  BY <1>1, <1>2 DEF Path

-----------------------------------------------------------------------------
(* A thread drops every lock it owns before it takes it again.              *)

WillDrop(p, l) ==
  \E j \in 1 .. Len(p) :
    /\ ~p[j].taken /\ p[j].lock = l
    /\ \A k \in 1 .. j - 1 : ~Takes(p, k, l)

LInv ==
  /\ owner \in [Lock -> Thread \cup {NoThread}]
  /\ path \in [Thread -> Seq(Step)]
  /\ \A t \in Thread : Ordered(path[t]) /\ Released(path[t])
  /\ \A l \in Lock, t \in Thread : owner[l] = t => WillDrop(path[t], l)

LEMMA RestOfPath ==
  ASSUME NEW p \in Seq(Step), p # <<>>
  PROVE  /\ Head(p) = p[1] /\ p[1] \in Step /\ Len(p) \in Nat /\ 1 \in 1 .. Len(p)
         /\ Tail(p) \in Seq(Step) /\ Len(Tail(p)) = Len(p) - 1
         /\ \A i \in 1 .. Len(p) - 1 : Tail(p)[i] = p[i + 1]
BY HeadTailProperties, ElementOfSeq, LenProperties

LEMMA RestOrdered ==
  ASSUME NEW p \in Seq(Step), p # <<>>, Ordered(p), Released(p)
  PROVE  Ordered(Tail(p)) /\ Released(Tail(p))
<1> DEFINE q == Tail(p)
           n == Len(q)
<1>1. /\ Len(p) = n + 1 /\ n \in Nat
      /\ \A i \in 1 .. n : q[i] = p[i + 1] /\ i + 1 \in 1 .. Len(p)
  BY RestOfPath, LenProperties
<1> HIDE DEF q, n
<1>2. ASSUME NEW i \in 1 .. n, NEW j \in 1 .. n, i < j, q[i].taken, ~q[j].taken,
             \A k \in i .. j - 1 : ~Takes(q, k, q[j].lock)
      PROVE  Below(q[j].lock, q[i].lock)
  <2>1. ASSUME NEW k \in i + 1 .. j + 1 - 1
        PROVE  ~Takes(p, k, p[j + 1].lock)
    <3>1. k - 1 \in i .. j - 1 /\ k - 1 \in 1 .. n /\ k = (k - 1) + 1
      BY <1>1
    <3>2. q[k - 1] = p[k]
      BY <1>1, <3>1
    <3>3. QED
      BY <1>1, <1>2, <3>1, <3>2 DEF Takes
  <2>2. i + 1 < j + 1
    BY <1>1, <1>2
  <2>3. QED
    BY <1>1, <1>2, <2>1, <2>2 DEF Ordered
<1>3. ASSUME NEW i \in 1 .. n, q[i].taken
      PROVE  \E j \in i + 1 .. n :
               /\ ~q[j].taken /\ q[j].lock = q[i].lock
               /\ \A k \in i + 1 .. j - 1 : ~Takes(q, k, q[i].lock)
  <2>1. PICK j \in i + 1 + 1 .. Len(p) :
          /\ ~p[j].taken /\ p[j].lock = p[i + 1].lock
          /\ \A k \in i + 1 + 1 .. j - 1 : ~Takes(p, k, p[i + 1].lock)
    BY <1>1, <1>3 DEF Released
  <2> DEFINE h == j - 1
  <2>2. h \in i + 1 .. n /\ h \in 1 .. n /\ j = h + 1
    BY <1>1
  <2>3. q[h] = p[j]
    BY <1>1, <2>2
  <2>4. ASSUME NEW k \in i + 1 .. h - 1
        PROVE  ~Takes(q, k, q[i].lock)
    <3>1. k \in 1 .. n /\ k + 1 \in i + 1 + 1 .. j - 1
      BY <1>1, <2>2
    <3>2. QED
      BY <1>1, <2>1, <3>1 DEF Takes
  <2>5. ~q[h].taken /\ q[h].lock = q[i].lock
    BY <1>1, <2>1, <2>3
  <2> HIDE DEF h
  <2>6. QED
    BY <2>2, <2>4, <2>5
<1>4. QED
  BY <1>2, <1>3 DEF Ordered, Released, q, n

(* A step along the path leaves the drops of other locks before the thread. *)
LEMMA RestDrops ==
  ASSUME NEW p \in Seq(Step), p # <<>>, NEW l, WillDrop(p, l), p[1].taken \/ p[1].lock # l
  PROVE  WillDrop(Tail(p), l)
<1> DEFINE q == Tail(p)
           n == Len(q)
<1>1. /\ Len(p) = n + 1 /\ n \in Nat
      /\ \A i \in 1 .. n : q[i] = p[i + 1] /\ i + 1 \in 1 .. Len(p)
  BY RestOfPath, LenProperties
<1> HIDE DEF q, n
<1>2. PICK j \in 1 .. Len(p) :
        /\ ~p[j].taken /\ p[j].lock = l
        /\ \A k \in 1 .. j - 1 : ~Takes(p, k, l)
  BY DEF WillDrop
<1> DEFINE h == j - 1
<1>3. j # 1
  BY <1>2
<1>4. h \in 1 .. n /\ j = h + 1
  BY <1>1, <1>3
<1>5. ~q[h].taken /\ q[h].lock = l
  BY <1>1, <1>2, <1>4
<1>6. ASSUME NEW k \in 1 .. h - 1
      PROVE  ~Takes(q, k, l)
  <2>1. k \in 1 .. n /\ k + 1 \in 1 .. j - 1
    BY <1>1, <1>4
  <2>2. QED
    BY <1>1, <1>2, <2>1 DEF Takes
<1> HIDE DEF h
<1>7. QED
  BY <1>4, <1>5, <1>6 DEF WillDrop, q, n

LEMMA TakenIsDropped ==
  ASSUME NEW p \in Seq(Step), p # <<>>, Released(p), p[1].taken
  PROVE  WillDrop(Tail(p), p[1].lock)
<1> DEFINE q == Tail(p)
           n == Len(q)
<1>1. /\ Len(p) = n + 1 /\ n \in Nat /\ 1 \in 1 .. Len(p)
      /\ \A i \in 1 .. n : q[i] = p[i + 1] /\ i + 1 \in 1 .. Len(p)
  BY RestOfPath, LenProperties
<1> HIDE DEF q, n
<1>2. PICK j \in 1 + 1 .. Len(p) :
        /\ ~p[j].taken /\ p[j].lock = p[1].lock
        /\ \A k \in 1 + 1 .. j - 1 : ~Takes(p, k, p[1].lock)
  BY <1>1 DEF Released
<1> DEFINE h == j - 1
<1>3. h \in 1 .. n /\ j = h + 1
  BY <1>1
<1>4. ~q[h].taken /\ q[h].lock = p[1].lock
  BY <1>1, <1>2, <1>3
<1>5. ASSUME NEW k \in 1 .. h - 1
      PROVE  ~Takes(q, k, p[1].lock)
  <2>1. k \in 1 .. n /\ k + 1 \in 1 + 1 .. j - 1
    BY <1>1, <1>3
  <2>2. QED
    BY <1>1, <1>2, <2>1 DEF Takes
<1> HIDE DEF h
<1>6. QED
  BY <1>3, <1>4, <1>5 DEF WillDrop, q, n

LEMMA LInitially ==
  ASSUME Init
  PROVE  LInv
<1>1. \A t \in Thread : path[t] = <<>> /\ Ordered(path[t]) /\ Released(path[t])
  BY EmptyProper DEF Init, Proper
<1>2. path \in [Thread -> Seq(Step)]
  BY EmptySeq DEF Init
<1>3. QED
  BY ThreadAssumption, <1>1, <1>2 DEF Init, LInv

LEMMA LStep ==
  ASSUME LInv, [Next]_vars
  PROVE  LInv'
<1>1. CASE UNCHANGED vars
  BY <1>1 DEF LInv, vars, Ordered, Released, WillDrop, Takes
<1>2. ASSUME NEW t \in Thread, Call(t)
      PROVE  LInv'
  <2>1. PICK p \in Path : path' = [path EXCEPT ![t] = p]
    BY <1>2 DEF Call
  <2>2. p \in Seq(Step) /\ Ordered(p) /\ Released(p)
    BY <2>1, PathsProper DEF Proper
  <2>3. path[t] = <<>> /\ owner' = owner
    BY <1>2 DEF Call
  <2>4. \A l \in Lock : owner[l] # t
    <3>1. \A l : ~WillDrop(<<>>, l)
      BY EmptySeq DEF WillDrop
    <3>2. QED
      BY <2>3, <3>1 DEF LInv
  <2>5. /\ path' \in [Thread -> Seq(Step)]
        /\ path'[t] = p /\ \A u \in Thread : u # t => path'[u] = path[u]
    BY <2>1, <2>2 DEF LInv
  <2>6. \A u \in Thread : Ordered(path'[u]) /\ Released(path'[u])
    BY <2>2, <2>5 DEF LInv
  <2>7. \A l \in Lock, u \in Thread : owner'[l] = u => WillDrop(path'[u], l)
    BY <2>3, <2>4, <2>5 DEF LInv
  <2>8. QED
    BY <2>3, <2>5, <2>6, <2>7 DEF LInv
<1>3. ASSUME NEW t \in Thread, TakeLock(t) \/ DropLock(t)
      PROVE  LInv'
  <2> DEFINE p == path[t]
             l == p[1].lock
  <2>1. /\ p \in Seq(Step) /\ p # <<>> /\ Ordered(p) /\ Released(p)
        /\ Head(p) = p[1] /\ l \in Lock
    BY <1>3, RestOfPath DEF TakeLock, DropLock, LInv, Step
  <2>2. path' = [path EXCEPT ![t] = Tail(p)]
    BY <1>3 DEF TakeLock, DropLock
  <2>3. /\ path' \in [Thread -> Seq(Step)]
        /\ path'[t] = Tail(p) /\ \A u \in Thread : u # t => path'[u] = path[u]
    BY <2>1, <2>2, RestOfPath DEF LInv
  <2>4. \A u \in Thread : Ordered(path'[u]) /\ Released(path'[u])
    BY <2>1, <2>3, RestOrdered DEF LInv
  <2>5. CASE TakeLock(t)
    <3>1. /\ p[1].taken /\ owner[l] = NoThread
          /\ owner' = [owner EXCEPT ![l] = t]
      BY <2>1, <2>5 DEF TakeLock
    <3>2. WillDrop(Tail(p), l)
      BY <2>1, <3>1, TakenIsDropped
    <3>3. \A x : WillDrop(p, x) => WillDrop(Tail(p), x)
      BY <2>1, <3>1, RestDrops
    <3>4. owner' \in [Lock -> Thread \cup {NoThread}]
      BY <3>1 DEF LInv
    <3>5. \A x \in Lock, u \in Thread : owner'[x] = u =>
            (x = l /\ u = t) \/ (owner[x] = u)
      BY <2>1, <3>1 DEF LInv
    <3> HIDE DEF l
    <3>6. ASSUME NEW x \in Lock, NEW u \in Thread, owner'[x] = u
          PROVE  WillDrop(path'[u], x)
      <4>1. CASE u = t
        <5>1. WillDrop(Tail(p), x)
          BY <3>2, <3>3, <3>5, <3>6, <4>1 DEF LInv
        <5>2. QED
          BY <2>3, <4>1, <5>1
      <4>2. CASE u # t
        <5>1. WillDrop(path[u], x)
          BY <3>2, <3>3, <3>5, <3>6, <4>2 DEF LInv
        <5>2. QED
          BY <2>3, <4>2, <5>1
      <4>3. QED
        BY <4>1, <4>2
    <3>7. QED
      BY <2>3, <2>4, <3>4, <3>6 DEF LInv
  <2>6. CASE DropLock(t)
    <3>1. owner' = [owner EXCEPT ![l] = NoThread]
      BY <2>1, <2>6 DEF DropLock
    <3>2. \A x : x # l /\ WillDrop(p, x) => WillDrop(Tail(p), x)
      BY <2>1, RestDrops
    <3>3. owner' \in [Lock -> Thread \cup {NoThread}]
      BY <3>1 DEF LInv
    <3>4. \A x \in Lock, u \in Thread : owner'[x] = u => x # l /\ owner[x] = u
      BY ThreadAssumption, <2>1, <3>1 DEF LInv
    <3> HIDE DEF l
    <3>5. ASSUME NEW x \in Lock, NEW u \in Thread, owner'[x] = u
          PROVE  WillDrop(path'[u], x)
      <4>1. CASE u = t
        <5>1. WillDrop(Tail(p), x)
          BY <3>2, <3>4, <3>5, <4>1 DEF LInv
        <5>2. QED
          BY <2>3, <4>1, <5>1
      <4>2. CASE u # t
        <5>1. WillDrop(path[u], x)
          BY <3>2, <3>4, <3>5, <4>2 DEF LInv
        <5>2. QED
          BY <2>3, <4>2, <5>1
      <4>3. QED
        BY <4>1, <4>2
    <3>6. QED
      BY <2>3, <2>4, <3>3, <3>5 DEF LInv
  <2>7. QED
    BY <1>3, <2>5, <2>6
<1>4. QED
  BY <1>1, <1>2, <1>3 DEF Next

(* A thread that waits for one that waits itself waits for a lock below. *)
WaitLock(t) == Head(path[t]).lock

LEMMA WaitsForLower ==
  ASSUME LInv, NEW t \in Thread, NEW u \in Thread, NEW v \in Thread,
         WaitsFor(t, u), WaitsFor(u, v)
  PROVE  Below(WaitLock(t), WaitLock(u))
<1> DEFINE l == Head(path[t]).lock
           p == path[u]
<1>1. l \in Lock
  BY RestOfPath DEF LInv, WaitsFor, Step
<1>2. p \in Seq(Step) /\ p # <<>> /\ p[1].taken /\ Head(p) = p[1] /\ Len(p) \in Nat
  BY RestOfPath DEF LInv, WaitsFor
<1>3. PICK j \in 1 .. Len(p) :
        /\ ~p[j].taken /\ p[j].lock = l
        /\ \A k \in 1 .. j - 1 : ~Takes(p, k, l)
  BY <1>1 DEF LInv, WaitsFor, WillDrop
<1>4. 1 < j /\ 1 \in 1 .. Len(p)
  BY <1>2, <1>3
<1>5. Ordered(p)
  BY DEF LInv
<1> HIDE DEF l, p
<1>6. Below(p[j].lock, p[1].lock)
  BY <1>2, <1>3, <1>4, <1>5 DEF Ordered
<1>7. QED
  BY <1>2, <1>3, <1>6 DEF WaitLock, l, p

(* Only the lock of a socket is of its kind. *)
LEMMA SocketKind ==
  ASSUME NEW l \in Lock, Kind(l) = "socket"
  PROVE  \E s \in Socket : l = SocketMutex(s)
BY DEF Lock, Kind, SocketMutex, InjectionMutex, RwLock, DetachingLock, SocketsListLock,
       SocketsListToReportLock, ClientLock

LEMMA LInvCircles ==
  ASSUME LInv
  PROVE  CirclesNeedTheSocketLock
<1>1. ASSUME NEW T \in SUBSET Thread, NEW t0 \in T, \A t \in T : \E u \in T : WaitsFor(t, u),
             \A t \in T : Kind(WaitLock(t)) # "socket"
      PROVE  FALSE
  <2>1. PICK t1 \in T : WaitsFor(t0, t1)
    BY <1>1
  <2>2. PICK t2 \in T : WaitsFor(t1, t2)
    BY <1>1
  <2>3. PICK t3 \in T : WaitsFor(t2, t3)
    BY <1>1
  <2>4. PICK t4 \in T : WaitsFor(t3, t4)
    BY <1>1
  <2>5. /\ Below(WaitLock(t0), WaitLock(t1)) /\ Below(WaitLock(t1), WaitLock(t2))
        /\ Below(WaitLock(t2), WaitLock(t3))
    BY <2>1, <2>2, <2>3, <2>4, WaitsForLower
  <2>6. /\ Rank(WaitLock(t0)) < Rank(WaitLock(t1)) /\ Rank(WaitLock(t1)) < Rank(WaitLock(t2))
        /\ Rank(WaitLock(t2)) < Rank(WaitLock(t3))
    BY <1>1, <2>5 DEF Below
  <2>7. /\ Rank(WaitLock(t0)) \in 1 .. 3 /\ Rank(WaitLock(t1)) \in 1 .. 3
        /\ Rank(WaitLock(t2)) \in 1 .. 3 /\ Rank(WaitLock(t3)) \in 1 .. 3
    BY RankRange
  <2>8. QED
    BY <2>6, <2>7
<1>2. ASSUME NEW T \in SUBSET Thread, IsCircle(T)
      PROVE  \E t \in T : \E s \in Socket : Head(path[t]).lock = SocketMutex(s)
  <2>1. PICK t \in T : Kind(WaitLock(t)) = "socket"
    BY <1>1, <1>2 DEF IsCircle
  <2>2. PICK u \in T : WaitsFor(t, u)
    BY <1>2 DEF IsCircle
  <2>3. WaitLock(t) \in Lock
    BY <2>2, RestOfPath DEF LInv, WaitsFor, WaitLock, Step
  <2>4. QED
    BY <2>1, <2>3, SocketKind DEF WaitLock
<1>3. QED
  BY <1>2 DEF CirclesNeedTheSocketLock

(***************************************************************************)
(* The driver's own locks are always taken in the order of Rank: wherever   *)
(* threads wait for each other for ever, however many there are and         *)
(* whichever callbacks are called with the lock of their socket, one of     *)
(* them waits for the lock of a socket in a call made under other locks.    *)
(***************************************************************************)
THEOREM OwnLocksAreOrdered == Spec => []CirclesNeedTheSocketLock
<1>1. Init => LInv
  BY LInitially
<1>2. LInv /\ [Next]_vars => LInv'
  BY LStep
<1>3. LInv => CirclesNeedTheSocketLock
  BY LInvCircles
<1>4. QED
  BY <1>1, <1>2, <1>3, PTL DEF Spec
=============================================================================
