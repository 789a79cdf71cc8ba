---------------------- MODULE NkeIOUserClientRef_proofs ----------------------
(***************************************************************************)
(* Theorems about NkeIOUserClientRef, for any number of clients and any    *)
(* finite number of callers: the type invariant, the exact counter, and    *)
(* that no client is released while a caller uses it.                      *)
(***************************************************************************)
EXTENDS NkeIOUserClientRef, FiniteSetTheorems, TLAPS

(* The registered client is the one whose thread is in one of these states. *)
RegisteredClient ==
  \A c \in UserClient :
    /\ userClient = c =>
         pc[c] \in {"retain", "registered", "terminating", "setPending", "unregister"}
    /\ pc[c] \in {"retain", "registered", "setPending", "unregister"} => userClient = c

(* A client that is or was registered is retained until it is released. *)
RetainedClient ==
  \A c \in UserClient :
    /\ userClient = c => c \in retained \/ pc[c] = "retain"
    /\ pc[c] = "drain" => c \in retained

(* A client a counted caller has loaded is registered, or being drained. *)
LoadedClient ==
  \A t \in Caller :
    /\ pc[t] \in {"confirm", "confirmNotNull", "using"} => currentClient[t] \in UserClient
    /\ pc[t] \in {"confirm", "confirmNotNull", "giveUp", "using"} =>
         \A c \in UserClient : currentClient[t] = c => userClient = c \/ pc[c] = "drain"

(* The inductive invariant. *)
IInv ==
  /\ TypeOK
  /\ InvocationsExact
  /\ RegisteredClient
  /\ RetainedClient
  /\ LoadedClient

USE DEF ClientState, CallerState

-----------------------------------------------------------------------------
(* The initial states satisfy the inductive invariant. *)
LEMMA InitIInv == Init => IInv
<1> SUFFICES ASSUME Init PROVE IInv
  OBVIOUS
<1> USE UserClientAssumption DEF Init
<1>1. TypeOK
  BY DEF TypeOK
<1>2. InvocationsExact
  <2>1. Invoking = {}
    BY DEF Invoking
  <2>2. QED
    BY <2>1, FS_EmptySet DEF InvocationsExact
<1>3. RegisteredClient /\ RetainedClient /\ LoadedClient
  BY DEF RegisteredClient, RetainedClient, LoadedClient
<1>4. QED
  BY <1>1, <1>2, <1>3 DEF IInv

(* Every step keeps the types: no decrement finds the counter at zero. *)
LEMMA TypeStep == IInv /\ [Next]_vars => TypeOK'
<1> SUFFICES ASSUME IInv, [Next]_vars PROVE TypeOK'
  OBVIOUS
<1> USE UserClientAssumption DEF IInv, TypeOK, Goto
<1>1. ASSUME NEW c \in UserClient, Open(c) \/ Terminate(c) \/ ClientStep(c)
      PROVE  TypeOK'
  <2>1. CASE Open(c) \/ CheckPending(c) \/ Register(c) \/ Retain(c) \/ Terminate(c)
    BY <2>1 DEF Open, CheckPending, Register, Retain, Terminate
  <2>2. CASE CheckRegistered(c)
    BY <2>2 DEF CheckRegistered
  <2>3. CASE SetPending(c) \/ Drain(c)
    BY <2>3 DEF SetPending, Drain
  <2>4. CASE Unregister(c)
    BY <2>4 DEF Unregister
  <2>5. CASE Release(c) \/ ClearPending(c)
    BY <2>5 DEF Release, ClearPending, PendingCleared
  <2>6. QED
    BY <1>1, <2>1, <2>2, <2>3, <2>4, <2>5 DEF ClientStep
<1>2. ASSUME NEW t \in Caller,
             GetUserClient(t) \/ GetPending(t) \/ Increment(t) \/ Load(t) \/ Confirm(t)
               \/ ConfirmNotNull(t)
      PROVE  TypeOK'
  BY <1>2 DEF GetUserClient, GetPending, Increment, Counted, Load, Confirm, ConfirmNotNull
<1>3. ASSUME NEW t \in Caller, GiveUp(t) \/ ReleaseUserClient(t)
      PROVE  TypeOK'
  <2>1. t \in Invoking
    BY <1>3 DEF Invoking, GiveUp, ReleaseUserClient
  <2>2. IsFiniteSet(Invoking)
    BY CallerAssumption, FS_Subset DEF Invoking
  <2>3. clientInvocations # 0
    BY <2>1, <2>2, FS_EmptySet DEF InvocationsExact
  <2>4. QED
    BY <1>3, <2>3 DEF GiveUp, ReleaseUserClient, GivenBack
<1>4. CASE UNCHANGED vars
  BY <1>4 DEF vars
<1>5. QED
  BY <1>1, <1>2, <1>3, <1>4 DEF Next, CallerStep

(* Every step keeps the counter exact. *)
LEMMA CounterStep == IInv /\ [Next]_vars => InvocationsExact'
<1> SUFFICES ASSUME IInv, [Next]_vars PROVE InvocationsExact'
  OBVIOUS
<1> USE UserClientAssumption DEF IInv, TypeOK, Goto
<1>f. IsFiniteSet(Invoking)
  BY CallerAssumption, FS_Subset DEF Invoking
<1>1. ASSUME NEW c \in UserClient, Open(c) \/ Terminate(c) \/ ClientStep(c)
      PROVE  InvocationsExact'
  <2>1. clientInvocations' = clientInvocations /\ \A t \in Caller : pc'[t] = pc[t]
    BY <1>1 DEF Open, Terminate, ClientStep, CheckPending, Register, Retain,
      CheckRegistered, SetPending, Unregister, Drain, Release, ClearPending
  <2>2. QED
    BY <2>1 DEF Invoking, InvocationsExact
<1>2. ASSUME NEW t \in Caller,
             GetUserClient(t) \/ GetPending(t) \/ Load(t) \/ Confirm(t) \/ ConfirmNotNull(t)
      PROVE  InvocationsExact'
  <2>1. clientInvocations' = clientInvocations /\ Invoking' = Invoking
    BY <1>2 DEF GetUserClient, GetPending, Load, Confirm, ConfirmNotNull, Invoking
  <2>2. QED
    BY <2>1 DEF InvocationsExact
<1>3. ASSUME NEW t \in Caller, Increment(t)
      PROVE  InvocationsExact'
  <2>1. t \notin Invoking /\ Invoking' = Invoking \cup {t}
    BY <1>3 DEF Increment, Invoking
  <2>2. QED
    BY <1>3, <1>f, <2>1, FS_AddElement DEF Increment, Counted, InvocationsExact
<1>4. ASSUME NEW t \in Caller, GiveUp(t) \/ ReleaseUserClient(t)
      PROVE  InvocationsExact'
  <2>1. t \in Invoking /\ Invoking' = Invoking \ {t}
    BY <1>4 DEF GiveUp, ReleaseUserClient, Invoking
  <2>2. QED
    BY <1>4, <1>f, <2>1, FS_RemoveElement
    DEF GiveUp, GivenBack, ReleaseUserClient, InvocationsExact
<1>5. CASE UNCHANGED vars
  BY <1>5 DEF vars, Invoking, InvocationsExact
<1>6. QED
  BY <1>1, <1>2, <1>3, <1>4, <1>5 DEF Next, CallerStep

(* Every step keeps what is known of the registered client. *)
LEMMA RegisteredStep == IInv /\ [Next]_vars => RegisteredClient' /\ RetainedClient'
<1> SUFFICES ASSUME IInv, [Next]_vars PROVE RegisteredClient' /\ RetainedClient'
  OBVIOUS
<1> USE UserClientAssumption DEF IInv, TypeOK, Goto, RegisteredClient, RetainedClient
<1>1. ASSUME NEW c \in UserClient,
             Open(c) \/ Terminate(c) \/ CheckPending(c) \/ Register(c) \/ Retain(c)
      PROVE  RegisteredClient' /\ RetainedClient'
  BY <1>1 DEF Open, Terminate, CheckPending, Register, Retain
<1>2. ASSUME NEW c \in UserClient,
             CheckRegistered(c) \/ SetPending(c) \/ Unregister(c) \/ Drain(c) \/ Release(c)
               \/ ClearPending(c)
      PROVE  RegisteredClient' /\ RetainedClient'
  BY <1>2 DEF CheckRegistered, SetPending, Unregister, Drain, Release, ClearPending
<1>3. ASSUME NEW t \in Caller, GetUserClient(t) \/ CallerStep(t)
      PROVE  RegisteredClient' /\ RetainedClient'
  <2>1. UNCHANGED <<userClient, retained>> /\ \A c \in UserClient : pc'[c] = pc[c]
    BY <1>3 DEF GetUserClient, CallerStep, GetPending, Increment, Load, Confirm,
      ConfirmNotNull, GiveUp, ReleaseUserClient
  <2>2. QED
    BY <2>1
<1>4. CASE UNCHANGED vars
  BY <1>4 DEF vars
<1>5. QED
  BY <1>1, <1>2, <1>3, <1>4 DEF Next, ClientStep

(* Every step keeps what is known of the clients the callers have loaded:   *)
(* a client leaves the drain only when no caller is counted.                *)
LEMMA LoadedStep == IInv /\ [Next]_vars => LoadedClient'
<1> SUFFICES ASSUME IInv, [Next]_vars PROVE LoadedClient'
  OBVIOUS
<1> USE UserClientAssumption DEF IInv, TypeOK, Goto, LoadedClient, RegisteredClient
<1>1. ASSUME NEW c \in UserClient, Drain(c)
      PROVE  LoadedClient'
  <2>1. IsFiniteSet(Invoking)
    BY CallerAssumption, FS_Subset DEF Invoking
  <2>2. Invoking = {}
    BY <1>1, <2>1, FS_EmptySet DEF Drain, Drained, InvocationsExact
  <2>3. \A t \in Caller : pc'[t] \notin {"confirm", "confirmNotNull", "giveUp", "using"}
    BY <1>1, <2>2 DEF Drain, Invoking
  <2>4. QED
    BY <2>3
<1>2. ASSUME NEW c \in UserClient,
             Open(c) \/ Terminate(c) \/ CheckPending(c) \/ Register(c) \/ Retain(c)
               \/ CheckRegistered(c) \/ SetPending(c) \/ Unregister(c) \/ Release(c)
               \/ ClearPending(c)
      PROVE  LoadedClient'
  BY <1>2 DEF Open, Terminate, CheckPending, Register, Retain, CheckRegistered,
    SetPending, Unregister, Release, ClearPending
<1>3. ASSUME NEW t \in Caller, GetUserClient(t) \/ CallerStep(t)
      PROVE  LoadedClient'
  BY <1>3 DEF GetUserClient, CallerStep, GetPending, Increment, Load, Confirm,
    ConfirmNotNull, GiveUp, ReleaseUserClient
<1>4. CASE UNCHANGED vars
  BY <1>4 DEF vars
<1>5. QED
  BY <1>1, <1>2, <1>3, <1>4 DEF Next, ClientStep

(***************************************************************************)
(* The inductive invariant holds in every reachable state.                 *)
(***************************************************************************)
THEOREM Invariance == Spec => []IInv
<1>1. IInv /\ [Next]_vars => IInv'
  BY TypeStep, CounterStep, RegisteredStep, LoadedStep DEF IInv
<1>2. QED
  BY InitIInv, <1>1, PTL DEF Spec

(* Every variable keeps its type; the counter never becomes negative. *)
THEOREM TypeCorrect == Spec => []TypeOK
<1>1. IInv => TypeOK
  BY DEF IInv
<1>2. QED
  BY Invariance, <1>1, PTL

(* clientInvocations counts the callers between their two changes of it. *)
THEOREM InvocationsCounted == Spec => []InvocationsExact
<1>1. IInv => InvocationsExact
  BY DEF IInv
<1>2. QED
  BY Invariance, <1>1, PTL

(***************************************************************************)
(* No client is released by unregisterUserClient while a caller uses it,   *)
(* whatever clients come and go meanwhile.                                 *)
(***************************************************************************)
THEOREM UseIsSafe == Spec => []NoUseAfterRelease
<1>1. IInv => NoUseAfterRelease
  BY DEF IInv, LoadedClient, RetainedClient, NoUseAfterRelease
<1>2. QED
  BY Invariance, <1>1, PTL

(***************************************************************************)
(* pendingUnregistration does not outlive the unregistrations that set it. *)
(***************************************************************************)
THEOREM PendingEnds == Spec => []PendingIsTemporary
<1>1. Init => PendingIsTemporary
  BY DEF Init, PendingIsTemporary
<1>2. ASSUME TypeOK, PendingIsTemporary, [Next]_vars PROVE PendingIsTemporary'
  <2> USE UserClientAssumption DEF TypeOK, PendingIsTemporary, Goto
  <2>1. ASSUME NEW c \in UserClient, Open(c) \/ Terminate(c) \/ ClientStep(c)
        PROVE  PendingIsTemporary'
    BY <1>2, <2>1 DEF Open, Terminate, ClientStep, CheckPending, Register, Retain,
      CheckRegistered, SetPending, Unregister, Drain, Release, ClearPending, PendingCleared
  <2>2. ASSUME NEW t \in Caller, GetUserClient(t) \/ CallerStep(t)
        PROVE  PendingIsTemporary'
    <3>1. UNCHANGED pendingUnregistration /\ \A c \in UserClient : pc'[c] = pc[c]
      BY <1>2, <2>2 DEF GetUserClient, CallerStep, GetPending, Increment, Load, Confirm,
        ConfirmNotNull, GiveUp, ReleaseUserClient
    <3>2. QED
      BY <1>2, <3>1
  <2>3. CASE UNCHANGED vars
    BY <1>2, <2>3 DEF vars
  <2>4. QED
    BY <1>2, <2>1, <2>2, <2>3 DEF Next
<1>3. QED
  BY <1>1, <1>2, TypeCorrect, PTL DEF Spec
=============================================================================
