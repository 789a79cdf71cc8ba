---------------------------- MODULE SocketBuffers ----------------------------
(***************************************************************************)
(* What the pool of communication buffers promises: a buffer is free, or   *)
(* it has one holder, which got it from the pool or from the holder before *)
(* and gives it on or back.  NkeBufferPool implements it.                  *)
(***************************************************************************)
CONSTANTS Buffer, Holder

VARIABLES free, holder

vars == <<free, holder>>

Init ==
  /\ free = Buffer
  /\ holder = [b \in Buffer |-> {}]

Acquire(h) ==
  \E b \in free :
    /\ free' = free \ {b}
    /\ holder' = [holder EXCEPT ![b] = {h}]

(* A notification carries the buffers of a packet to the client, and a      *)
(* response back.                                                           *)
PassOn(h, receiver) ==
  /\ \E passed \in SUBSET {b \in Buffer : holder[b] = {h}} :
       holder' = [b \in Buffer |-> IF b \in passed THEN {receiver} ELSE holder[b]]
  /\ UNCHANGED free

Release(h) ==
  \E b \in Buffer :
    /\ holder[b] = {h}
    /\ free' = free \cup {b}
    /\ holder' = [holder EXCEPT ![b] = {}]

Next == \E h \in Holder : Acquire(h) \/ Release(h) \/ \E r \in Holder : PassOn(h, r)

Spec == Init /\ [][Next]_vars
=============================================================================
