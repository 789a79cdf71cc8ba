------------------------- MODULE NkeIOUserClientRef -------------------------
(***************************************************************************)
(* The reference the socket filter keeps to the user client it notifies.   *)
(* User clients open the driver, register, and unregister when they are    *)
(* terminated; kernel threads take the registered client, use it and let   *)
(* it go, without a lock: a client is released when clientInvocations is   *)
(* zero.  A step is one load, store or atomic operation.                   *)
(***************************************************************************)
EXTENDS Naturals, FiniteSets

CONSTANTS
  UserClient,   (* The NkeIOUserClient objects, each opened once.               *)
  Caller,       (* The kernel threads that call getUserClient.                  *)
  None

ASSUME CallerAssumption == IsFiniteSet(Caller)
ASSUME UserClientAssumption == None \notin UserClient /\ UserClient \cap Caller = {}

VARIABLES
  openedBy,               (* who has the provider open, one at a time (IOService) *)
  userClient,             (* the registered client or None                      *)
  pendingUnregistration,
  clientInvocations,
  retained,               (* the clients the reference has retained             *)
  pc,                     (* of the clients' threads and of the callers         *)
  currentClient           (* the local variable of getUserClient                *)

vars == <<openedBy, userClient, pendingUnregistration, clientInvocations, retained, pc,
          currentClient>>

Init ==
  /\ openedBy = None
  /\ userClient = None
  /\ pendingUnregistration = FALSE
  /\ clientInvocations = 0
  /\ retained = {}
  /\ pc = [t \in UserClient \cup Caller |-> IF t \in UserClient THEN "new" ELSE "idle"]
  /\ currentClient = [t \in Caller |-> None]

Goto(t, label) == pc' = [pc EXCEPT ![t] = label]

-----------------------------------------------------------------------------
(***************************************************************************)
(* A user client: open and startLogging.                                   *)
(***************************************************************************)
Open(c) ==
  /\ pc[c] = "new"
  /\ openedBy = None
  /\ openedBy' = c
  /\ Goto(c, "checkPending")
  /\ UNCHANGED <<userClient, pendingUnregistration, clientInvocations, retained,
                 currentClient>>

(* registerUserClient: not while another client is being unregistered. *)
CheckPending(c) ==
  /\ pc[c] = "checkPending"
  /\ Goto(c, IF pendingUnregistration THEN "refused" ELSE "register")
  /\ UNCHANGED <<openedBy, userClient, pendingUnregistration, clientInvocations, retained,
                 currentClient>>

(* OSCompareAndSwapPtr( NULL, client, &userClient ). *)
Register(c) ==
  /\ pc[c] = "register"
  /\ IF userClient = None
     THEN userClient' = c /\ Goto(c, "retain")
     ELSE Goto(c, "refused") /\ UNCHANGED userClient
  /\ UNCHANGED <<openedBy, pendingUnregistration, clientInvocations, retained,
                 currentClient>>

Retain(c) ==
  /\ pc[c] = "retain"
  /\ retained' = retained \cup {c}
  /\ Goto(c, "registered")
  /\ UNCHANGED <<openedBy, userClient, pendingUnregistration, clientInvocations,
                 currentClient>>

(* terminate closes the provider before it calls stopLogging; a client      *)
(* whose registration was refused is closed as well.                        *)
Terminate(c) ==
  /\ pc[c] \in {"registered", "open"}
  /\ openedBy' = IF openedBy = c THEN None ELSE openedBy
  /\ Goto(c, "terminating")
  /\ UNCHANGED <<userClient, pendingUnregistration, clientInvocations, retained,
                 currentClient>>

-----------------------------------------------------------------------------
(***************************************************************************)
(* unregisterUserClient, called by stopLogging, and by startLogging when   *)
(* the registration was refused.                                           *)
(***************************************************************************)
CheckRegistered(c) ==
  /\ pc[c] \in {"terminating", "refused"}
  /\ Goto(c, IF userClient = c THEN "setPending"
             ELSE IF pc[c] = "refused" THEN "open" ELSE "terminated")
  /\ UNCHANGED <<openedBy, userClient, pendingUnregistration, clientInvocations, retained,
                 currentClient>>

SetPending(c) ==
  /\ pc[c] = "setPending"
  /\ pendingUnregistration' = TRUE
  /\ Goto(c, "unregister")
  /\ UNCHANGED <<openedBy, userClient, clientInvocations, retained, currentClient>>

(* OSCompareAndSwapPtr( currentClient, NULL, &userClient ). *)
Unregister(c) ==
  /\ pc[c] = "unregister"
  /\ IF userClient = c
     THEN /\ userClient' = None
          /\ Goto(c, "drain")
          /\ UNCHANGED pendingUnregistration
     ELSE /\ pendingUnregistration' = FALSE
          /\ Goto(c, "terminated")
          /\ UNCHANGED userClient
  /\ UNCHANGED <<openedBy, clientInvocations, retained, currentClient>>

DrainedButOne == clientInvocations <= 1

Drained == clientInvocations = 0

(* The invocations are polled every second, so no wake-up can be lost. *)
Drain(c) ==
  /\ pc[c] = "drain"
  /\ Drained
  /\ Goto(c, "release")
  /\ UNCHANGED <<openedBy, userClient, pendingUnregistration, clientInvocations, retained,
                 currentClient>>

Release(c) ==
  /\ pc[c] = "release"
  /\ retained' = retained \ {c}
  /\ Goto(c, "clearPending")
  /\ UNCHANGED <<openedBy, userClient, pendingUnregistration, clientInvocations,
                 currentClient>>

PendingNotCleared == pendingUnregistration

PendingCleared == FALSE

ClearPending(c) ==
  /\ pc[c] = "clearPending"
  /\ pendingUnregistration' = PendingCleared
  /\ Goto(c, "terminated")
  /\ UNCHANGED <<openedBy, userClient, clientInvocations, retained, currentClient>>

-----------------------------------------------------------------------------
(***************************************************************************)
(* A caller: getUserClient, a use of the client, releaseUserClient.        *)
(***************************************************************************)
GetUserClient(t) ==
  /\ pc[t] = "idle"
  /\ userClient # None
  /\ Goto(t, "getPending")
  /\ UNCHANGED <<openedBy, userClient, pendingUnregistration, clientInvocations, retained,
                 currentClient>>

GetPending(t) ==
  /\ pc[t] = "getPending"
  /\ Goto(t, IF pendingUnregistration THEN "idle" ELSE "increment")
  /\ UNCHANGED <<openedBy, userClient, pendingUnregistration, clientInvocations, retained,
                 currentClient>>

NotCounted == clientInvocations

Counted == clientInvocations + 1

Increment(t) ==
  /\ pc[t] = "increment"
  /\ clientInvocations' = Counted
  /\ Goto(t, "load")
  /\ UNCHANGED <<openedBy, userClient, pendingUnregistration, retained, currentClient>>

Load(t) ==
  /\ pc[t] = "load"
  /\ currentClient' = [currentClient EXCEPT ![t] = userClient]
  /\ Goto(t, IF userClient = None THEN "giveUp" ELSE "confirm")
  /\ UNCHANGED <<openedBy, userClient, pendingUnregistration, clientInvocations, retained>>

(* OSCompareAndSwapPtr( currentClient, currentClient, &userClient ). *)
Confirm(t) ==
  /\ pc[t] = "confirm"
  /\ Goto(t, IF userClient = currentClient[t] THEN "confirmNotNull" ELSE "giveUp")
  /\ UNCHANGED <<openedBy, userClient, pendingUnregistration, clientInvocations, retained,
                 currentClient>>

(* OSCompareAndSwapPtr( NULL, NULL, &userClient ). *)
ConfirmNotNull(t) ==
  /\ pc[t] = "confirmNotNull"
  /\ Goto(t, IF userClient = None THEN "giveUp" ELSE "using")
  /\ UNCHANGED <<openedBy, userClient, pendingUnregistration, clientInvocations, retained,
                 currentClient>>

LeftBehind == clientInvocations

GivenBack == clientInvocations - 1

(* The unregistration is in progress, asserts getUserClient here. *)
GiveUp(t) ==
  /\ pc[t] = "giveUp"
  /\ clientInvocations' = GivenBack
  /\ currentClient' = [currentClient EXCEPT ![t] = None]
  /\ Goto(t, "idle")
  /\ UNCHANGED <<openedBy, userClient, pendingUnregistration, retained>>

ReleaseUserClient(t) ==
  /\ pc[t] = "using"
  /\ clientInvocations' = clientInvocations - 1
  /\ currentClient' = [currentClient EXCEPT ![t] = None]
  /\ Goto(t, "idle")
  /\ UNCHANGED <<openedBy, userClient, pendingUnregistration, retained>>

-----------------------------------------------------------------------------
ClientStep(c) ==
  \/ CheckPending(c) \/ Register(c) \/ Retain(c)
  \/ CheckRegistered(c) \/ SetPending(c) \/ Unregister(c)
  \/ Drain(c) \/ Release(c) \/ ClearPending(c)

CallerStep(t) ==
  \/ GetPending(t) \/ Increment(t) \/ Load(t) \/ Confirm(t) \/ ConfirmNotNull(t)
  \/ GiveUp(t) \/ ReleaseUserClient(t)

Next ==
  \/ \E c \in UserClient : Open(c) \/ Terminate(c) \/ ClientStep(c)
  \/ \E t \in Caller : GetUserClient(t) \/ CallerStep(t)

Spec == Init /\ [][Next]_vars

(* Threads that have begun run on; nobody need open, close or notify. *)
Fairness ==
  /\ \A c \in UserClient : WF_vars(ClientStep(c))
  /\ \A t \in Caller : WF_vars(CallerStep(t))

FairSpec == Spec /\ Fairness

-----------------------------------------------------------------------------
ClientState == {"new", "checkPending", "register", "retain", "registered", "refused",
                "open", "terminating", "setPending", "unregister", "drain", "release",
                "clearPending", "terminated"}

CallerState == {"idle", "getPending", "increment", "load", "confirm", "confirmNotNull",
                "giveUp", "using"}

(* Every variable has its type; the counter of invocations is not negative. *)
TypeOK ==
  /\ openedBy \in UserClient \cup {None}
  /\ userClient \in UserClient \cup {None}
  /\ pendingUnregistration \in BOOLEAN
  /\ clientInvocations \in Nat
  /\ retained \subseteq UserClient
  /\ pc \in [UserClient \cup Caller -> ClientState \cup CallerState]
  /\ \A c \in UserClient : pc[c] \in ClientState
  /\ \A t \in Caller : pc[t] \in CallerState
  /\ currentClient \in [Caller -> UserClient \cup {None}]

(***************************************************************************)
(* A client a caller got from getUserClient is not released under its feet: *)
(* it stays retained until releaseUserClient, or has not been retained yet  *)
(* by the registerUserClient call that runs on its behalf.                  *)
(***************************************************************************)
NoUseAfterRelease ==
  \A t \in Caller : pc[t] = "using" =>
    currentClient[t] \in retained \/ pc[currentClient[t]] = "retain"

(* The callers that have raised clientInvocations and not lowered it yet. *)
Invoking ==
  {t \in Caller : pc[t] \in {"load", "confirm", "confirmNotNull", "giveUp", "using"}}

(***************************************************************************)
(* clientInvocations counts them, on all paths of getUserClient: one too    *)
(* many and the unregistration waits forever, one too few and it does not   *)
(* wait.                                                                    *)
(***************************************************************************)
InvocationsExact == clientInvocations = Cardinality(Invoking)

(***************************************************************************)
(* pendingUnregistration is set only as long as some client is between its  *)
(* two writes of it, however the unregistrations of two clients overlap: it *)
(* never stays set and refuses every later client.                          *)
(***************************************************************************)
PendingIsTemporary ==
  pendingUnregistration =>
    \E c \in UserClient : pc[c] \in {"unregister", "drain", "release", "clearPending"}

(***************************************************************************)
(* The wait for the invocations in unregisterUserClient ends, unless one    *)
(* more client registers meanwhile: registerUserClient is refused only      *)
(* until the first of two overlapping unregistrations is over.              *)
(***************************************************************************)
UnregisterReturns ==
  \A c \in UserClient : pc[c] = "drain" ~> pc[c] = "terminated" \/ userClient # None

(***************************************************************************)
(* registerUserClient asserts that it finds no other client: only one       *)
(* client can have the driver open.                                         *)
(***************************************************************************)
RegistersAlone ==
  [][\A c \in UserClient : Register(c) => userClient = None]_pc
=============================================================================
