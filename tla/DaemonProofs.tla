---------------------------- MODULE DaemonProofs ----------------------------
(***************************************************************************)
(* The safety of Daemon, for any number of requests and of workers.        *)
(***************************************************************************)
EXTENDS Daemon, FiniteSetTheorems, TLAPS

(* The daemon as main builds it has the types. *)
LEMMA TypeInitial == Init => TypeOK
<1> USE DEF TypeOK, HandlerStates, TaskStates, CommandStates, RebootStates, MainStates
<1> SUFFICES ASSUME Init PROVE TypeOK
  OBVIOUS
<1>1. is_upgrading \in BOOLEAN
  BY Zenon DEF Init
<1>2. /\ settings \in Settings
      /\ upgrade_handle \in UpgradeReqs \cup {NoReq}
      /\ handler \in [UpgradeReqs -> HandlerStates]
      /\ task \in [UpgradeReqs -> TaskStates]
      /\ command \in [UpgradeReqs -> CommandStates]
      /\ reboot \in [RebootReqs -> RebootStates]
      /\ main = "serving" /\ awaited = NoReq /\ aborted = {}
  BY DEF Init
<1> QED BY <1>1, <1>2

(* Every step keeps the types: one step of the proof per action. *)
LEMMA TypeInductive == TypeOK /\ [Next]_vars => TypeOK'
<1> USE DEF TypeOK, HandlerStates, TaskStates, CommandStates, RebootStates, MainStates
<1> SUFFICES ASSUME TypeOK, [Next]_vars
             PROVE  TypeOK'
  OBVIOUS
<1>1. ASSUME NEW r \in UpgradeReqs, Arrival(r) \/ HandlerStep(r)
      PROVE  TypeOK'
  <2>1. CASE Arrival(r)
    BY <2>1 DEF Arrival, Unavailable, RefuseUpgrade, ClaimSlot, Handler
  <2>2. CASE HandlerStep(r)
    BY <2>2 DEF HandlerStep, SpawnUpgrade, StoreHandle, Handler
  <2> QED BY <1>1, <2>1, <2>2
<1>2. ASSUME NEW r \in UpgradeReqs, TaskStep(r) \/ CleanupStep(r)
      PROVE  TypeOK'
  <2> USE DEF DropGuard
  <2>1. CASE StartUpgrade(r)
    BY <2>1 DEF StartUpgrade
  <2>2. CASE UpgradeFailed(r)
    BY <2>2 DEF UpgradeFailed
  <2>3. CASE UpgradeSucceeded(r)
    BY <2>3 DEF UpgradeSucceeded
  <2>4. CASE CancelUpgrade(r)
    BY <2>4 DEF CancelUpgrade
  <2>5. CASE CleanupStep(r)
    BY <2>5 DEF CleanupStep, AutoCleanEnds, AutoRemoveEnds
  <2> QED BY <1>2, <2>1, <2>2, <2>3, <2>4, <2>5 DEF TaskStep
<1>3. ASSUME NEW r \in UpgradeReqs, PoolStep(r) \/ CommandEnds(r)
      PROVE  TypeOK'
  BY <1>3 DEF PoolStep, RunCommand, DiscardCommand, CommandEnds
<1>4. ASSUME NEW q \in RebootReqs, RebootArrival(q) \/ RebootStep(q)
      PROVE  TypeOK'
  BY <1>4 DEF RebootArrival, RebootUnavailable, RebootLocked, RebootForbidden,
              CheckReboot, RebootStep, ScheduleReboot, RunSystemctl, RunFallback,
              RebootEnds, DropReboot, Reboot
<1>5. CASE StopServing \/ TakeHandle
  BY <1>5 DEF StopServing, TakeHandle
<1>6. CASE JoinUpgrade \/ AbortUpgrade
  BY <1>6, ReqsAssumption DEF JoinUpgrade, AbortUpgrade
<1>7. CASE DropRuntime \/ Exit \/ Exited \/ UNCHANGED vars
  BY <1>7 DEF DropRuntime, Exit, Exited, vars
<1> QED BY <1>1, <1>2, <1>3, <1>4, <1>5, <1>6, <1>7 DEF Next, MainStep

(* Every variable keeps its type: no step of a handler, a task or main     *)
(* leaves the states the code has, and main never awaits Option::None.     *)
THEOREM TypeCorrect == Spec => []TypeOK
BY TypeInitial, TypeInductive, PTL DEF Spec

-----------------------------------------------------------------------------
(* The conjuncts OneUpgrade needs to be inductive. *)

(* A task exists only once its handler has spawned it. *)
HandlerFirst ==
    \A r \in UpgradeReqs : handler[r] \notin {"spawned", "replied"} => task[r] = "none"

OneUpgradeInv == TypeOK /\ HandlerFirst /\ OneUpgrade

(* What a step of an upgrade task does to the slot: it keeps the flag and  *)
(* stays alive (or loses its claim unpolled), or drops the guard and ends. *)
LEMMA TaskStepEffect ==
  ASSUME TypeOK, NEW r \in UpgradeReqs, TaskStep(r) \/ CleanupStep(r)
  PROVE  \E end \in TaskStates \ {"none", "spawned"} :
            /\ task' = [task EXCEPT ![r] = end]
            /\ UNCHANGED <<handler, main, upgrade_handle, awaited>>
            /\ task[r] \in Live
            /\ \/ is_upgrading' = is_upgrading /\ end \in Live \cup {"lost"}
               \/ is_upgrading' = FALSE /\ end \in {"done", "cancelled"}
BY DEF TypeOK, TaskStep, CleanupStep, StartUpgrade, UpgradeFailed, UpgradeSucceeded,
       CancelUpgrade, AutoCleanEnds, AutoRemoveEnds, DropGuard, TaskStates, Live, CleaningUp

(* The steps of the pool, of the reboots and of main. *)
OtherStep ==
    \/ \E r \in UpgradeReqs : PoolStep(r) \/ CommandEnds(r)
    \/ \E q \in RebootReqs : RebootArrival(q) \/ RebootStep(q)
    \/ StopServing \/ MainStep \/ Exited \/ UNCHANGED vars

(* None of them touches handlers, tasks or the flag. *)
LEMMA OtherStepEffect ==
  ASSUME OtherStep
  PROVE  UNCHANGED <<handler, task, is_upgrading>>
<1>1. ASSUME NEW r \in UpgradeReqs, PoolStep(r) \/ CommandEnds(r)
      PROVE  UNCHANGED <<handler, task, is_upgrading>>
  BY <1>1 DEF PoolStep, RunCommand, DiscardCommand, CommandEnds
<1>2. ASSUME NEW q \in RebootReqs, RebootArrival(q) \/ RebootStep(q)
      PROVE  UNCHANGED <<handler, task, is_upgrading>>
  BY <1>2 DEF RebootArrival, RebootUnavailable, RebootLocked, RebootForbidden,
              CheckReboot, RebootStep, ScheduleReboot, RunSystemctl, RunFallback,
              RebootEnds, DropReboot, Reboot
<1>3. CASE StopServing \/ MainStep \/ Exited \/ UNCHANGED vars
  BY <1>3 DEF StopServing, MainStep, TakeHandle, JoinUpgrade, AbortUpgrade,
              DropRuntime, Exit, Exited, vars
<1> QED BY <1>1, <1>2, <1>3 DEF OtherStep

(* A step that changes neither the flag nor who holds it. *)
LEMMA HoldersUnchanged ==
  ASSUME OneUpgrade, is_upgrading' = is_upgrading,
         \A r \in UpgradeReqs : Holds(r)' <=> Holds(r)
  PROVE  OneUpgrade'
BY DEF OneUpgrade

(* A step by which the holder lets go of the flag. *)
LEMMA HolderReleases ==
  ASSUME OneUpgrade, NEW r \in UpgradeReqs, Holds(r), ~Holds(r)',
         is_upgrading' = FALSE,
         \A s \in UpgradeReqs : s # r => (Holds(s)' <=> Holds(s))
  PROVE  OneUpgrade'
<1>1. \A s \in UpgradeReqs : ~Holds(s)'
  BY DEF OneUpgrade
<1> QED BY <1>1 DEF OneUpgrade

(* At startup nobody holds the slot. *)
LEMMA OneUpgradeInitial == Init => OneUpgradeInv
<1> SUFFICES ASSUME Init PROVE HandlerFirst /\ OneUpgrade
  BY TypeInitial DEF OneUpgradeInv
<1>1. \A r \in UpgradeReqs : ~Holds(r) /\ task[r] = "none"
  BY DEF Init, Holds, Live, CleaningUp
<1>2. ~is_upgrading
  BY DEF Init
<1> QED BY <1>1, <1>2 DEF HandlerFirst, OneUpgrade

(* Every step keeps the correspondence of flag and holder. *)
LEMMA OneUpgradeInductive == OneUpgradeInv /\ [Next]_vars => OneUpgradeInv'
<1> SUFFICES ASSUME OneUpgradeInv, [Next]_vars
             PROVE  HandlerFirst' /\ OneUpgrade'
  BY TypeInductive DEF OneUpgradeInv
<1> USE DEF OneUpgradeInv, HandlerFirst, TypeOK
<1>1. ASSUME NEW r \in UpgradeReqs, Arrival(r)
      PROVE  HandlerFirst' /\ OneUpgrade'
  <2>1. CASE Unavailable(r) \/ RefuseUpgrade(r)
    BY <2>1, HoldersUnchanged DEF Unavailable, RefuseUpgrade, Handler, Holds
  <2>2. CASE ClaimSlot(r)
    <3>1. \A s \in UpgradeReqs : ~Holds(s)
      BY <2>2 DEF ClaimSlot, OneUpgrade
    <3>2. \A s \in UpgradeReqs : Holds(s)' <=> s = r
      BY <2>2, <3>1 DEF ClaimSlot, Handler, Holds
    <3>3. is_upgrading'
      BY <2>2 DEF ClaimSlot
    <3>4. OneUpgrade'
      BY <3>2, <3>3 DEF OneUpgrade
    <3>5. HandlerFirst'
      BY <2>2 DEF ClaimSlot, Handler
    <3> QED BY <3>4, <3>5
  <2> QED BY <1>1, <2>1, <2>2 DEF Arrival
<1>2. ASSUME NEW r \in UpgradeReqs, HandlerStep(r)
      PROVE  HandlerFirst' /\ OneUpgrade'
  <2>1. \A s \in UpgradeReqs : Holds(s)' <=> Holds(s)
    BY <1>2 DEF HandlerStep, SpawnUpgrade, StoreHandle, Handler, Holds, Live, CleaningUp
  <2>2. is_upgrading' = is_upgrading /\ HandlerFirst'
    BY <1>2 DEF HandlerStep, SpawnUpgrade, StoreHandle, Handler
  <2> QED BY <2>1, <2>2, HoldersUnchanged
<1>3. ASSUME NEW r \in UpgradeReqs, TaskStep(r) \/ CleanupStep(r)
      PROVE  HandlerFirst' /\ OneUpgrade'
  <2>1. PICK end \in TaskStates \ {"none", "spawned"} :
            /\ task' = [task EXCEPT ![r] = end]
            /\ UNCHANGED <<handler, main, upgrade_handle, awaited>>
            /\ task[r] \in Live
            /\ \/ is_upgrading' = is_upgrading /\ end \in Live \cup {"lost"}
               \/ is_upgrading' = FALSE /\ end \in {"done", "cancelled"}
    BY <1>3, TaskStepEffect
  <2>2. HandlerFirst' /\ handler[r] # "claimed"
    BY <2>1 DEF Live, CleaningUp
  <2>3. Holds(r) /\ \A s \in UpgradeReqs : s # r => (Holds(s)' <=> Holds(s))
    BY <2>1 DEF Holds
  <2>4. CASE is_upgrading' = is_upgrading /\ end \in Live \cup {"lost"}
    <3>1. Holds(r)'
      BY <2>1, <2>4 DEF Holds
    <3> QED BY <2>2, <2>3, <2>4, <3>1, HoldersUnchanged
  <2>5. CASE is_upgrading' = FALSE /\ end \in {"done", "cancelled"}
    <3>1. ~Holds(r)'
      BY <2>1, <2>2, <2>5 DEF Holds, Live, CleaningUp
    <3> QED BY <2>2, <2>3, <2>5, <3>1, HolderReleases
  <2> QED BY <2>1, <2>4, <2>5
<1>4. CASE OtherStep
  BY <1>4, OtherStepEffect, HoldersUnchanged DEF Holds
<1> QED BY <1>1, <1>2, <1>3, <1>4 DEF Next, OtherStep

(* At most one request holds the slot, and the flag is set exactly while   *)
(* one does, whatever the handlers, the tasks and the shutdown interleave. *)
THEOREM SingleUpgrade == Spec => []OneUpgrade
<1>1. OneUpgradeInv => OneUpgrade
  BY DEF OneUpgradeInv
<1> QED BY <1>1, OneUpgradeInitial, OneUpgradeInductive, PTL DEF Spec

-----------------------------------------------------------------------------
(* The blocking pool. *)

(* A command on the pool belongs to a task that awaits it, or that was     *)
(* cancelled while it did.                                                 *)
PoolOwned ==
    \A r \in UpgradeReqs : r \in OnPool => task[r] \in {"upgrading", "cancelled"}

(* A task leaves its command behind on the pool only by being cancelled. *)
LEMMA PoolOwnedInductive == OneUpgradeInv /\ PoolOwned /\ [Next]_vars => PoolOwned'
<1> SUFFICES ASSUME OneUpgradeInv, PoolOwned, [Next]_vars
             PROVE  PoolOwned'
  OBVIOUS
<1> USE DEF OneUpgradeInv, TypeOK, PoolOwned, OnPool
<1>1. ASSUME NEW r \in UpgradeReqs, Arrival(r) \/ HandlerStep(r)
      PROVE  PoolOwned'
  <2>1. CASE Arrival(r) \/ StoreHandle(r)
    BY <2>1 DEF Arrival, Unavailable, RefuseUpgrade, ClaimSlot, StoreHandle
  <2>2. CASE SpawnUpgrade(r)
    <3>1. r \notin OnPool
      BY <2>2 DEF SpawnUpgrade, Handler, HandlerFirst
    <3> QED BY <2>2, <3>1 DEF SpawnUpgrade
  <2> QED BY <1>1, <2>1, <2>2 DEF HandlerStep
<1>2. ASSUME NEW r \in UpgradeReqs, TaskStep(r)
      PROVE  PoolOwned'
  BY <1>2 DEF TaskStep, StartUpgrade, UpgradeFailed, UpgradeSucceeded, CancelUpgrade, DropGuard
<1>3. ASSUME NEW r \in UpgradeReqs, CleanupStep(r)
      PROVE  PoolOwned'
  BY <1>3 DEF CleanupStep, AutoCleanEnds, AutoRemoveEnds, DropGuard
<1>4. ASSUME NEW r \in UpgradeReqs, PoolStep(r) \/ CommandEnds(r)
      PROVE  PoolOwned'
  BY <1>4 DEF PoolStep, RunCommand, DiscardCommand, CommandEnds
<1>5. ASSUME NEW q \in RebootReqs, RebootArrival(q) \/ RebootStep(q)
      PROVE  PoolOwned'
  BY <1>5 DEF RebootArrival, RebootUnavailable, RebootLocked, RebootForbidden,
              CheckReboot, RebootStep, ScheduleReboot, RunSystemctl, RunFallback,
              RebootEnds, DropReboot, Reboot
<1>6. CASE StopServing \/ MainStep \/ Exited \/ UNCHANGED vars
  BY <1>6 DEF StopServing, MainStep, TakeHandle, JoinUpgrade, AbortUpgrade,
              DropRuntime, Exit, Exited, vars
<1> QED BY <1>1, <1>2, <1>3, <1>4, <1>5, <1>6 DEF Next

(* Two upgrade commands are on the pool together only if one was left      *)
(* there by a cancelled task.                                              *)
THEOREM OverlapNeedsCancel == Spec => []OverlapOnlyAfterCancel
<1>1. Init => OneUpgradeInv /\ PoolOwned
  BY OneUpgradeInitial DEF Init, PoolOwned, OnPool
<1>2. OneUpgradeInv /\ PoolOwned => OverlapOnlyAfterCancel
  <2> SUFFICES ASSUME OneUpgradeInv, PoolOwned,
                      NEW r \in OnPool, NEW s \in OnPool, r # s
               PROVE  \E t \in OnPool : task[t] = "cancelled"
    BY DEF OverlapOnlyAfterCancel
  <2>1. ~(task[r] = "upgrading" /\ task[s] = "upgrading")
    BY DEF OneUpgradeInv, OneUpgrade, Holds, Live, OnPool
  <2> QED BY <2>1 DEF PoolOwned, OnPool
<1> QED BY <1>1, <1>2, OneUpgradeInductive, PoolOwnedInductive, PTL DEF Spec

(* reboot_handler lets a reboot pass only while no upgrade is under way:   *)
(* whatever command is on the pool at that moment was left there by a task *)
(* that was cancelled.  (The delay of the reboot is not covered.)          *)
THEOREM RebootFindsNoUpgrade ==
  Spec => [][ \A q \in RebootReqs :
                reboot[q] = "idle" /\ reboot'[q] = "checked" =>
                   /\ \A r \in UpgradeReqs : task[r] \notin Live
                   /\ \A r \in OnPool : task[r] = "cancelled" ]_vars
<1> DEFINE Clear == \A q \in RebootReqs :
                      reboot[q] = "idle" /\ reboot'[q] = "checked" =>
                         /\ \A r \in UpgradeReqs : task[r] \notin Live
                         /\ \A r \in OnPool : task[r] = "cancelled"
<1>1. Init => OneUpgradeInv /\ PoolOwned
  BY OneUpgradeInitial DEF Init, PoolOwned, OnPool
<1>2. OneUpgradeInv /\ PoolOwned /\ [Next]_vars => [Clear]_vars
  <2> SUFFICES ASSUME OneUpgradeInv, PoolOwned, Next, NEW q \in RebootReqs,
                      reboot[q] = "idle", reboot'[q] = "checked"
               PROVE  /\ \A r \in UpgradeReqs : task[r] \notin Live
                      /\ \A r \in OnPool : task[r] = "cancelled"
    OBVIOUS
  <2>1. ~is_upgrading
    <3>1. ASSUME NEW p \in RebootReqs, CheckReboot(p)
          PROVE  ~is_upgrading
      BY <3>1 DEF CheckReboot
    <3>2. ASSUME NEW p \in RebootReqs,
                 \/ RebootUnavailable(p) \/ RebootLocked(p) \/ RebootForbidden(p) \/ RebootStep(p)
          PROVE  FALSE
      BY <3>2 DEF RebootUnavailable, RebootLocked, RebootForbidden, RebootStep, ScheduleReboot,
                  RunSystemctl, RunFallback, RebootEnds, DropReboot, Reboot, OneUpgradeInv, TypeOK
    <3>3. ASSUME NEW s \in UpgradeReqs, Arrival(s) \/ HandlerStep(s) \/ PoolStep(s) \/ CommandEnds(s)
          PROVE  UNCHANGED reboot
      BY <3>3 DEF Arrival, Unavailable, RefuseUpgrade, ClaimSlot, HandlerStep, SpawnUpgrade,
                  StoreHandle, PoolStep, RunCommand, DiscardCommand, CommandEnds
    <3>4. ASSUME NEW s \in UpgradeReqs, TaskStep(s) \/ CleanupStep(s)
          PROVE  UNCHANGED reboot
      BY <3>4 DEF TaskStep, CleanupStep, StartUpgrade, UpgradeFailed, UpgradeSucceeded,
                  CancelUpgrade, AutoCleanEnds, AutoRemoveEnds
    <3>5. StopServing \/ MainStep \/ Exited => UNCHANGED reboot
      BY DEF StopServing, MainStep, TakeHandle, JoinUpgrade, AbortUpgrade, DropRuntime, Exit, Exited, vars
    <3> QED BY <3>1, <3>2, <3>3, <3>4, <3>5 DEF Next, RebootArrival
  <2>2. \A r \in UpgradeReqs : task[r] \notin Live
    BY <2>1 DEF OneUpgradeInv, OneUpgrade, Holds
  <2> QED BY <2>2 DEF PoolOwned, OnPool, Live
<1>3. Spec => [][Clear]_vars
  BY <1>1, <1>2, OneUpgradeInductive, PoolOwnedInductive, PTL DEF Spec
<1> QED BY <1>3

-----------------------------------------------------------------------------
(* The worker threads during the shutdown wait. *)

(* A stored handle is the handle of a handler that has returned. *)
HandleReturned ==
    /\ upgrade_handle # NoReq => handler[upgrade_handle] = "replied"
    /\ main = "waiting" => handler[awaited] = "replied"

(* The handlers in their poll fit the workers.  While an upgrade whose     *)
(* handler has returned is alive they leave one free: that handler has     *)
(* given its worker back, and the flag lets no new one in.                 *)
RoomForUpgrade ==
    /\ Cardinality(HandlersInPoll) <= Workers
    /\ \A r \in UpgradeReqs : handler[r] = "replied" /\ task[r] \in Live =>
            Cardinality(HandlersInPoll) < Workers

WorkerInv == OneUpgradeInv /\ HandleReturned /\ RoomForUpgrade

(* What WorkerFree counts are finite sets. *)
LEMMA InPollFinite ==
  /\ IsFiniteSet(HandlersInPoll) /\ Cardinality(HandlersInPoll) \in Nat
  /\ Cardinality(RebootsInPoll) \in Nat
  /\ Cardinality(CleanupsInPoll) \in Nat
<1>1. /\ HandlersInPoll \in SUBSET UpgradeReqs
      /\ RebootsInPoll \in SUBSET RebootReqs
      /\ CleanupsInPoll \in SUBSET UpgradeReqs
  BY DEF HandlersInPoll, RebootsInPoll, CleanupsInPoll
<1>2. /\ IsFiniteSet(HandlersInPoll) /\ IsFiniteSet(RebootsInPoll)
      /\ IsFiniteSet(CleanupsInPoll)
  BY <1>1, FS_Subset, ReqsAssumption
<1> QED BY <1>2, FS_CardinalityType

(* Handles are stored by the last step of a handler's poll. *)
LEMMA HandleReturnedInductive ==
  OneUpgradeInv /\ HandleReturned /\ [Next]_vars => HandleReturned'
<1> SUFFICES ASSUME OneUpgradeInv, HandleReturned, [Next]_vars
             PROVE  HandleReturned'
  OBVIOUS
<1> USE ReqsAssumption DEF OneUpgradeInv, TypeOK, HandleReturned
<1>1. ASSUME NEW r \in UpgradeReqs, Arrival(r)
      PROVE  HandleReturned'
  BY <1>1 DEF Arrival, Unavailable, RefuseUpgrade, ClaimSlot, Handler
<1>2. ASSUME NEW r \in UpgradeReqs, HandlerStep(r)
      PROVE  HandleReturned'
  BY <1>2 DEF HandlerStep, SpawnUpgrade, StoreHandle, Handler
<1>3. ASSUME NEW r \in UpgradeReqs, TaskStep(r) \/ CleanupStep(r)
      PROVE  HandleReturned'
  BY <1>3, TaskStepEffect
<1>4. CASE OtherStep /\ UNCHANGED <<upgrade_handle, main, awaited>>
  BY <1>4, OtherStepEffect
<1>5. CASE TakeHandle
  BY <1>5 DEF TakeHandle
<1>6. CASE StopServing \/ JoinUpgrade \/ AbortUpgrade \/ DropRuntime \/ Exit
  BY <1>6 DEF StopServing, JoinUpgrade, AbortUpgrade, DropRuntime, Exit
<1>7. ASSUME NEW r \in UpgradeReqs, PoolStep(r) \/ CommandEnds(r)
      PROVE  UNCHANGED <<upgrade_handle, main, awaited>>
  BY <1>7 DEF PoolStep, RunCommand, DiscardCommand, CommandEnds
<1>8. ASSUME NEW q \in RebootReqs, RebootArrival(q) \/ RebootStep(q)
      PROVE  UNCHANGED <<upgrade_handle, main, awaited>>
  BY <1>8 DEF RebootArrival, RebootUnavailable, RebootLocked, RebootForbidden,
              CheckReboot, RebootStep, ScheduleReboot, RunSystemctl, RunFallback,
              RebootEnds, DropReboot, Reboot
<1>9. CASE Exited \/ UNCHANGED vars
  BY <1>9 DEF Exited, vars
<1> QED
  BY <1>1, <1>2, <1>3, <1>4, <1>5, <1>6, <1>7, <1>8, <1>9 DEF Next, MainStep, OtherStep

(* No step takes the last worker under the upgrade of a returned handler. *)
LEMMA RoomForUpgradeInductive ==
  OneUpgradeInv /\ RoomForUpgrade /\ [Next]_vars => RoomForUpgrade'
<1> SUFFICES ASSUME OneUpgradeInv, RoomForUpgrade, [Next]_vars
             PROVE  RoomForUpgrade'
  OBVIOUS
<1> USE DEF OneUpgradeInv, TypeOK, RoomForUpgrade
<1>1. ASSUME NEW r \in UpgradeReqs, Unavailable(r) \/ RefuseUpgrade(r) \/ SpawnUpgrade(r)
      PROVE  RoomForUpgrade'
  <2>1. HandlersInPoll' = HandlersInPoll
    BY <1>1 DEF Unavailable, RefuseUpgrade, SpawnUpgrade, Handler, HandlersInPoll
  <2>2. \A s \in UpgradeReqs : handler'[s] = "replied" =>
            handler[s] = "replied" /\ task'[s] = task[s]
    BY <1>1 DEF Unavailable, RefuseUpgrade, SpawnUpgrade, Handler
  <2> QED BY <2>1, <2>2
<1>2. ASSUME NEW r \in UpgradeReqs, ClaimSlot(r)
      PROVE  RoomForUpgrade'
  <2>1. HandlersInPoll' = HandlersInPoll \cup {r} /\ r \notin HandlersInPoll
    BY <1>2 DEF ClaimSlot, Handler, HandlersInPoll
  <2>2. Cardinality(HandlersInPoll') = Cardinality(HandlersInPoll) + 1
    BY <2>1, InPollFinite, FS_AddElement
  <2>3. Cardinality(HandlersInPoll) < Workers
    BY <1>2, InPollFinite, WorkersAssumption DEF ClaimSlot, CanPoll, WorkerFree
  <2>4. \A s \in UpgradeReqs : task'[s] \notin Live
    BY <1>2 DEF ClaimSlot, OneUpgrade, Holds
  <2> QED BY <2>2, <2>3, <2>4, InPollFinite, WorkersAssumption
<1>3. ASSUME NEW r \in UpgradeReqs, StoreHandle(r)
      PROVE  RoomForUpgrade'
  <2>1. HandlersInPoll' = HandlersInPoll \ {r} /\ r \in HandlersInPoll
    BY <1>3 DEF StoreHandle, Handler, HandlersInPoll
  <2>2. Cardinality(HandlersInPoll') = Cardinality(HandlersInPoll) - 1
    BY <2>1, InPollFinite, FS_RemoveElement
  <2> QED BY <2>2, InPollFinite, WorkersAssumption
<1>4. ASSUME NEW r \in UpgradeReqs, TaskStep(r) \/ CleanupStep(r)
      PROVE  RoomForUpgrade'
  <2>1. /\ UNCHANGED handler
        /\ \A s \in UpgradeReqs : task'[s] \in Live => task[s] \in Live
    BY <1>4, TaskStepEffect
  <2> QED BY <2>1 DEF HandlersInPoll
<1>5. CASE OtherStep
  BY <1>5, OtherStepEffect DEF HandlersInPoll
<1> QED BY <1>1, <1>2, <1>3, <1>4, <1>5 DEF Next, OtherStep, Arrival, HandlerStep

(* As long as the upgrade main awaits is alive, the handlers blocked on    *)
(* the mutex main holds leave it a worker: shutdown cannot deadlock on     *)
(* them, for any number of requests and of workers.                        *)
THEOREM ShutdownKeepsWorker == Spec => []WorkerLeftForUpgrade
<1>1. Init => WorkerInv
  <2> SUFFICES ASSUME Init PROVE HandleReturned /\ RoomForUpgrade
    BY OneUpgradeInitial DEF WorkerInv
  <2>1. HandlersInPoll = {}
    BY DEF Init, HandlersInPoll
  <2>2. Cardinality(HandlersInPoll) = 0
    BY <2>1, FS_EmptySet
  <2> QED BY <2>2, WorkersAssumption DEF Init, HandleReturned, RoomForUpgrade, Live
<1>2. WorkerInv /\ [Next]_vars => WorkerInv'
  BY OneUpgradeInductive, HandleReturnedInductive, RoomForUpgradeInductive DEF WorkerInv
<1>3. WorkerInv => WorkerLeftForUpgrade
  BY DEF WorkerInv, OneUpgradeInv, TypeOK, HandleReturned, RoomForUpgrade,
         WorkerLeftForUpgrade
<1> QED BY <1>1, <1>2, <1>3, PTL DEF Spec

-----------------------------------------------------------------------------
(* With one worker. *)

(* A handler keeps the only worker until it has stored its handle, so its  *)
(* task is not polled before.                                              *)
SpawnedUnpolled ==
    \A r \in UpgradeReqs : handler[r] = "spawned" /\ RuntimeUp => task[r] = "spawned"

(* The handle that is stored, or that main has taken, is the one of the    *)
(* upgrade that is alive.                                                  *)
HandleOfLive ==
    \A r \in UpgradeReqs :
        handler[r] = "replied" /\ task[r] \in Live =>
            /\ main \in {"serving", "stopping"} => r = upgrade_handle
            /\ main = "waiting" => r = awaited

SoleWorkerInv == OneUpgradeInv /\ SpawnedUnpolled /\ HandleOfLive

(* A handler in its poll leaves no worker to anybody. *)
LEMMA SoleWorkerBusy ==
  ASSUME Workers = 1, NEW r \in UpgradeReqs, handler[r] \in {"claimed", "spawned"}
  PROVE  ~WorkerFree
<1>1. r \in HandlersInPoll
  BY DEF HandlersInPoll
<1>2. Cardinality(HandlersInPoll) # 0
  BY <1>1, InPollFinite, FS_EmptySet
<1> QED BY <1>2, InPollFinite DEF WorkerFree

LEMMA SoleWorkerInductive ==
  ASSUME Workers = 1, SoleWorkerInv, [Next]_vars
  PROVE  SoleWorkerInv'
<1> USE ReqsAssumption DEF SoleWorkerInv, OneUpgradeInv, TypeOK
<1>0. OneUpgradeInv'
  BY OneUpgradeInductive
<1> SUFFICES SpawnedUnpolled' /\ HandleOfLive'
  BY <1>0
<1>1. ASSUME NEW r \in UpgradeReqs, Arrival(r)
      PROVE  SpawnedUnpolled' /\ HandleOfLive'
  BY <1>1 DEF Arrival, Unavailable, RefuseUpgrade, ClaimSlot, Handler, SpawnedUnpolled, HandleOfLive,
              RuntimeUp
<1>2. ASSUME NEW r \in UpgradeReqs, SpawnUpgrade(r)
      PROVE  SpawnedUnpolled' /\ HandleOfLive'
  BY <1>2 DEF SpawnUpgrade, Handler, SpawnedUnpolled, HandleOfLive, RuntimeUp
<1>3. ASSUME NEW r \in UpgradeReqs, StoreHandle(r)
      PROVE  SpawnedUnpolled' /\ HandleOfLive'
  <2>1. SpawnedUnpolled'
    BY <1>3 DEF StoreHandle, Handler, SpawnedUnpolled, RuntimeUp
  <2>2. ASSUME NEW s \in UpgradeReqs, handler'[s] = "replied", task'[s] \in Live,
               main \in {"serving", "stopping"}
        PROVE  s = r
    <3>1. task[r] = "spawned" /\ task[s] \in Live
      BY <1>3, <2>2 DEF StoreHandle, Handler, SpawnedUnpolled, RuntimeUp
    <3> QED BY <3>1 DEF OneUpgrade, Holds, Live
  <2>3. HandleOfLive'
    BY <1>3, <2>2 DEF StoreHandle, LockFree, HandleOfLive
  <2> QED BY <2>1, <2>3
<1>4. ASSUME NEW r \in UpgradeReqs, TaskStep(r) \/ CleanupStep(r)
      PROVE  SpawnedUnpolled' /\ HandleOfLive'
  <2>1. PICK end \in TaskStates \ {"none", "spawned"} :
            /\ task' = [task EXCEPT ![r] = end]
            /\ UNCHANGED <<handler, main, upgrade_handle, awaited>>
            /\ task[r] \in Live
    BY <1>4, TaskStepEffect
  <2>2. ~(handler[r] = "spawned" /\ RuntimeUp)
    <3> SUFFICES ASSUME handler[r] = "spawned", RuntimeUp
                 PROVE  FALSE
      OBVIOUS
    <3>1. task[r] = "spawned" /\ ~CanPoll
      BY SoleWorkerBusy DEF SpawnedUnpolled, CanPoll
    <3> QED BY <1>4, <3>1 DEF TaskStep, CleanupStep, StartUpgrade, UpgradeFailed, UpgradeSucceeded,
               CancelUpgrade, AutoCleanEnds, AutoRemoveEnds, RuntimeUp
  <2>3. SpawnedUnpolled'
    BY <2>1, <2>2 DEF SpawnedUnpolled, RuntimeUp
  <2>4. HandleOfLive'
    BY <2>1 DEF HandleOfLive
  <2> QED BY <2>3, <2>4
<1>5. CASE StopServing \/ TakeHandle \/ JoinUpgrade \/ AbortUpgrade \/ DropRuntime \/ Exit
  BY <1>5 DEF StopServing, TakeHandle, JoinUpgrade, AbortUpgrade, DropRuntime, Exit,
              SpawnedUnpolled, HandleOfLive, RuntimeUp
<1>6. CASE UNCHANGED <<handler, task, main, upgrade_handle, awaited>>
  BY <1>6 DEF SpawnedUnpolled, HandleOfLive, RuntimeUp
<1>7. ASSUME NEW r \in UpgradeReqs, PoolStep(r) \/ CommandEnds(r)
      PROVE  UNCHANGED <<handler, task, main, upgrade_handle, awaited>>
  BY <1>7 DEF PoolStep, RunCommand, DiscardCommand, CommandEnds
<1>8. ASSUME NEW q \in RebootReqs, RebootArrival(q) \/ RebootStep(q)
      PROVE  UNCHANGED <<handler, task, main, upgrade_handle, awaited>>
  BY <1>8 DEF RebootArrival, RebootUnavailable, RebootLocked, RebootForbidden,
              CheckReboot, RebootStep, ScheduleReboot, RunSystemctl, RunFallback,
              RebootEnds, DropReboot, Reboot
<1>9. Exited \/ UNCHANGED vars => UNCHANGED <<handler, task, main, upgrade_handle, awaited>>
  BY DEF Exited, vars
<1> QED BY <1>1, <1>2, <1>3, <1>4, <1>5, <1>6, <1>7, <1>8, <1>9 DEF Next, MainStep, HandlerStep

(* On a host with one worker no handler is overtaken before it has stored  *)
(* its handle: when main stops waiting, no upgrade whose client has been   *)
(* answered is alive, except the one main aborted.  (With more workers     *)
(* that is not so.)                                                        *)
THEOREM OneWorkerJoins == ASSUME Workers = 1 PROVE Spec => AcknowledgedUpgradeJoined
<1> DEFINE Joined == (main' = "finishing" /\ main # "finishing") =>
                       \A r \in UpgradeReqs :
                          handler[r] = "replied" /\ task[r] \in Live => r = awaited'
<1>1. Init => SoleWorkerInv
  BY OneUpgradeInitial DEF Init, SoleWorkerInv, SpawnedUnpolled, HandleOfLive, Live
<1>2. SoleWorkerInv /\ [Next]_vars => SoleWorkerInv'
  BY SoleWorkerInductive
<1>3. SoleWorkerInv /\ [Next]_vars => [Joined]_vars
  <2> SUFFICES ASSUME SoleWorkerInv, Next, main' = "finishing", main # "finishing",
                      NEW r \in UpgradeReqs, handler[r] = "replied", task[r] \in Live
               PROVE  r = awaited'
    BY DEF vars
  <2>1. CASE TakeHandle
    BY <2>1, ReqsAssumption DEF TakeHandle, SoleWorkerInv, HandleOfLive
  <2>2. CASE JoinUpgrade \/ AbortUpgrade
    BY <2>2 DEF JoinUpgrade, AbortUpgrade, SoleWorkerInv, HandleOfLive
  <2>3. CASE StopServing \/ DropRuntime \/ Exit \/ Exited
    BY <2>3 DEF StopServing, DropRuntime, Exit, Exited, vars
  <2>4. ASSUME NEW s \in UpgradeReqs, Arrival(s) \/ HandlerStep(s) \/ TaskStep(s) \/ CleanupStep(s)
        PROVE  UNCHANGED main
    BY <2>4 DEF Arrival, Unavailable, RefuseUpgrade, ClaimSlot, HandlerStep, SpawnUpgrade, StoreHandle,
                TaskStep, CleanupStep, StartUpgrade, UpgradeFailed, UpgradeSucceeded,
                CancelUpgrade, AutoCleanEnds, AutoRemoveEnds
  <2>5. ASSUME NEW s \in UpgradeReqs, PoolStep(s) \/ CommandEnds(s)
        PROVE  UNCHANGED main
    BY <2>5 DEF PoolStep, RunCommand, DiscardCommand, CommandEnds
  <2>6. ASSUME NEW q \in RebootReqs, RebootArrival(q) \/ RebootStep(q)
        PROVE  UNCHANGED main
    BY <2>6 DEF RebootArrival, RebootUnavailable, RebootLocked, RebootForbidden,
                CheckReboot, RebootStep, ScheduleReboot, RunSystemctl, RunFallback,
                RebootEnds, DropReboot, Reboot
  <2> QED BY <2>1, <2>2, <2>3, <2>4, <2>5, <2>6 DEF Next, MainStep
<1>4. Spec => [][Joined]_vars
  BY <1>1, <1>2, <1>3, PTL DEF Spec
<1> QED BY <1>4 DEF AcknowledgedUpgradeJoined

-----------------------------------------------------------------------------
(* Refinement. *)

LEMMA HolderIsUnique ==
  ASSUME OneUpgrade, NEW r \in UpgradeReqs, Holds(r)
  PROVE  Holder = r
BY DEF OneUpgrade, Holder

(* A clear flag is a free slot. *)
LEMMA HolderOfFreeSlot == ~is_upgrading => Holder = NoReq
BY DEF Holder

(* The daemon implements the upgrade slot: every step of handlers, tasks   *)
(* and shutdown claims it, refuses, rejects, releases it or leaves it.     *)
THEOREM DaemonImplementsSlot == Spec => ImplementsSlot
<1>1. Init => Slot!Init
  BY DEF Init, Slot!Init, Holder, Answer
<1>2. OneUpgradeInv /\ OneUpgradeInv' /\ [Next]_vars => [Slot!Next]_(Slot!vars)
  <2> SUFFICES ASSUME OneUpgradeInv, OneUpgradeInv', [Next]_vars
               PROVE  Slot!Next \/ UNCHANGED Slot!vars
    OBVIOUS
  <2> DEFINE answers == [r \in UpgradeReqs |-> Answer(handler[r])]
  <2> USE DEF OneUpgradeInv, TypeOK
  <2>0. is_upgrading => Holder # NoReq
    BY HolderIsUnique, ReqsAssumption DEF OneUpgrade
  <2>1. ASSUME UNCHANGED is_upgrading, \A s \in UpgradeReqs : Holds(s)' <=> Holds(s)
        PROVE  Holder' = Holder
    <3>1. CASE is_upgrading
      <4>1. PICK s \in UpgradeReqs : Holds(s)
        BY <3>1 DEF OneUpgrade
      <4>2. Holder = s
        BY <4>1, HolderIsUnique
      <4>3. Holder' = s
        BY <2>1, <3>1, <4>1 DEF Holder, OneUpgrade
      <4> QED BY <4>2, <4>3
    <3> QED BY <2>1, <3>1 DEF Holder
  <2>2. ASSUME NEW r \in UpgradeReqs, Unavailable(r) \/ RefuseUpgrade(r)
        PROVE  Slot!Next
    <3>1. Holder' = Holder
      BY <2>1, <2>2 DEF Unavailable, RefuseUpgrade, Handler, Holds
    <3>2. /\ answers[r] = "pending"
          /\ \/ Unavailable(r) /\ answers' = [answers EXCEPT ![r] = "unavailable"]
             \/ is_upgrading /\ answers' = [answers EXCEPT ![r] = "refused"]
      BY <2>2 DEF Unavailable, RefuseUpgrade, Handler, Answer
    <3> QED BY <2>0, <3>1, <3>2 DEF Slot!Next, Slot!Reject, Slot!Refuse, Slot!Answer
  <2>3. ASSUME NEW r \in UpgradeReqs, ClaimSlot(r)
        PROVE  Slot!Next
    <3>1. Holder = NoReq
      BY <2>3, HolderOfFreeSlot DEF ClaimSlot
    <3>2. is_upgrading' /\ Holds(r)'
      BY <2>3 DEF ClaimSlot, Handler, Holds
    <3>3. Holder' = r
      BY <3>2 DEF OneUpgrade, Holder
    <3>4. answers[r] = "pending" /\ answers' = [answers EXCEPT ![r] = "triggered"]
      BY <2>3 DEF ClaimSlot, Handler, Answer
    <3> QED BY <3>1, <3>3, <3>4 DEF Slot!Next, Slot!Claim, Slot!Answer
  <2>4. ASSUME NEW r \in UpgradeReqs, HandlerStep(r)
        PROVE  UNCHANGED Slot!vars
    <3>1. answers' = answers
      BY <2>4 DEF HandlerStep, SpawnUpgrade, StoreHandle, Handler, Answer
    <3>2. Holder' = Holder
      BY <2>4, <2>1 DEF HandlerStep, SpawnUpgrade, StoreHandle, Handler, Holds, Live, CleaningUp
    <3> QED BY <3>1, <3>2 DEF Slot!vars
  <2>5. ASSUME NEW r \in UpgradeReqs, TaskStep(r) \/ CleanupStep(r)
        PROVE  Slot!Next \/ UNCHANGED Slot!vars
    <3>1. PICK end \in TaskStates \ {"none", "spawned"} :
              /\ task' = [task EXCEPT ![r] = end]
              /\ UNCHANGED <<handler, main, upgrade_handle, awaited>>
              /\ task[r] \in Live
              /\ \/ is_upgrading' = is_upgrading /\ end \in Live \cup {"lost"}
                 \/ is_upgrading' = FALSE /\ end \in {"done", "cancelled"}
      BY <2>5, TaskStepEffect
    <3>2. answers' = answers
      BY <3>1
    <3>3. CASE is_upgrading' = is_upgrading /\ end \in Live \cup {"lost"}
      <4>1. Holder' = Holder
        BY <3>1, <3>3, <2>1 DEF Holds
      <4> QED BY <3>2, <4>1 DEF Slot!vars
    <3>4. CASE is_upgrading' = FALSE
      <4>1. is_upgrading
        BY <3>1 DEF Holds, OneUpgrade
      <4>2. Holder' = NoReq
        BY <3>4 DEF Holder
      <4> QED BY <2>0, <3>2, <4>1, <4>2 DEF Slot!Next, Slot!Release
    <3> QED BY <3>1, <3>3, <3>4
  <2>6. CASE OtherStep
    <3>1. Holder' = Holder /\ answers' = answers
      BY <2>6, <2>1, OtherStepEffect DEF Holds
    <3> QED BY <3>1 DEF Slot!vars
  <2> QED BY <2>2, <2>3, <2>4, <2>5, <2>6 DEF Next, OtherStep, Arrival
<1> QED BY <1>1, <1>2, OneUpgradeInitial, OneUpgradeInductive, PTL
        DEF Spec, ImplementsSlot, Slot!Spec
=============================================================================
