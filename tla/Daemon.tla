------------------------------- MODULE Daemon -------------------------------
(***************************************************************************)
(* brewmbled while it serves and while it shuts down: the full-upgrade     *)
(* handler (without dry_run), the task it spawns, the package manager      *)
(* command that task runs on the blocking pool, the reboot handler and its *)
(* task, and the shutdown path of main.                                    *)
(*                                                                         *)
(* The handlers and the tasks run on the worker threads of the tokio       *)
(* runtime.  A poll that has begun occupies its worker until it returns or *)
(* reaches an await; the operating system may preempt it anywhere.  main   *)
(* itself runs in block_on, on a thread that is no worker, and the runtime *)
(* drives timers and signals only from a worker that is free.              *)
(***************************************************************************)
EXTENDS Naturals, FiniteSets

CONSTANTS UpgradeReqs,  \* POST /full-upgrade requests, dry_run = false
          RebootReqs,   \* POST /reboot requests
          NoReq,        \* Option::None of upgrade_handle
          Workers,      \* worker threads of the runtime
          Settings      \* the configurations the daemon may be started with

ASSUME ReqsAssumption == /\ IsFiniteSet(UpgradeReqs)
                         /\ IsFiniteSet(RebootReqs)
                         /\ NoReq \notin UpgradeReqs
ASSUME WorkersAssumption == Workers \in Nat \ {0}
ASSUME SettingsAssumption ==
    Settings \subseteq [pm_available : BOOLEAN, allow_reboot : BOOLEAN,
                        auto_clean : BOOLEAN, auto_remove : BOOLEAN]

VARIABLES
    settings,        \* the fields of AppState that never change
    is_upgrading,    \* AppState.is_upgrading
    upgrade_handle,  \* AppState.upgrade_handle: the task it refers to
    handler,         \* full_upgrade_handler, per request
    task,            \* the task spawned for a request
    command,         \* the upgrade command on the blocking pool
    reboot,          \* reboot_handler and execute_reboot, per request
    main,            \* where main is
    awaited,         \* the task whose handle main took, or NoReq
    aborted          \* the tasks main aborted

vars == <<settings, is_upgrading, upgrade_handle, handler, task, command,
          reboot, main, awaited, aborted>>

HandlerStates == {"idle", "unavailable", "refused", "claimed", "spawned", "replied"}
TaskStates    == {"none", "spawned", "upgrading", "auto_clean", "auto_remove",
                  "done", "cancelled", "lost"}
CommandStates == {"none", "queued", "running", "ok", "failed", "discarded"}
RebootStates  == {"idle", "unavailable", "locked", "forbidden", "checked", "scheduled",
                  "systemctl", "fallback", "rebooting", "failed", "dropped"}
MainStates    == {"serving", "stopping", "waiting", "finishing", "dropping", "exited"}

-----------------------------------------------------------------------------
(* Tasks and claims. *)

CleaningUp == {"auto_clean", "auto_remove"}
Live       == {"spawned", "upgrading"} \cup CleaningUp
Finished   == {"done", "cancelled", "lost"}

(* The request whose compare_exchange set the flag that is now set.  A     *)
(* task that is dropped before its first poll never had an UpgradingGuard: *)
(* its claim stays.                                                        *)
Holds(r) == handler[r] = "claimed" \/ task[r] \in Live \/ task[r] = "lost"

(* Workers in the middle of a poll. *)
HandlersInPoll == {r \in UpgradeReqs : handler[r] \in {"claimed", "spawned"}}
RebootsInPoll  == {q \in RebootReqs : reboot[q] = "checked"}
CleanupsInPoll == {r \in UpgradeReqs : task[r] \in CleaningUp}

WorkerFree == Cardinality(HandlersInPoll) + Cardinality(RebootsInPoll)
                  + Cardinality(CleanupsInPoll) < Workers

(* Until main drops the runtime its workers pick up what is ready. *)
RuntimeUp == main \notin {"dropping", "exited"}
CanPoll   == RuntimeUp /\ WorkerFree

(* main keeps the guard of the std Mutex while it awaits the handle. *)
LockFree == main # "waiting"

Init ==
    /\ settings \in Settings
    /\ is_upgrading = FALSE
    /\ upgrade_handle = NoReq
    /\ handler = [r \in UpgradeReqs |-> "idle"]
    /\ task = [r \in UpgradeReqs |-> "none"]
    /\ command = [r \in UpgradeReqs |-> "none"]
    /\ reboot = [q \in RebootReqs |-> "idle"]
    /\ main = "serving"
    /\ awaited = NoReq
    /\ aborted = {}

-----------------------------------------------------------------------------
(* full_upgrade_handler: one poll, no await in it. *)

Handler(r, from, to) == /\ handler[r] = from
                        /\ handler' = [handler EXCEPT ![r] = to]

Unavailable(r) ==
    /\ CanPoll /\ ~settings.pm_available
    /\ Handler(r, "idle", "unavailable")
    /\ UNCHANGED <<settings, is_upgrading, upgrade_handle, task, command,
                   reboot, main, awaited, aborted>>

(* compare_exchange fails *)
RefuseUpgrade(r) ==
    /\ CanPoll /\ settings.pm_available /\ is_upgrading
    /\ Handler(r, "idle", "refused")
    /\ UNCHANGED <<settings, is_upgrading, upgrade_handle, task, command,
                   reboot, main, awaited, aborted>>

(* MUTANT of ClaimSlot: the flag is set without looking at it. *)
ClaimAnyway(r) ==
    /\ CanPoll /\ settings.pm_available
    /\ is_upgrading' = TRUE
    /\ Handler(r, "idle", "claimed")
    /\ UNCHANGED <<settings, upgrade_handle, task, command, reboot, main,
                   awaited, aborted>>

(* compare_exchange succeeds *)
ClaimSlot(r) ==
    /\ CanPoll /\ settings.pm_available /\ ~is_upgrading
    /\ is_upgrading' = TRUE
    /\ Handler(r, "idle", "claimed")
    /\ UNCHANGED <<settings, upgrade_handle, task, command, reboot, main,
                   awaited, aborted>>

(* tokio::spawn: the task may be polled from now on, by another worker. *)
SpawnUpgrade(r) ==
    /\ Handler(r, "claimed", "spawned")
    /\ task' = [task EXCEPT ![r] = "spawned"]
    /\ UNCHANGED <<settings, is_upgrading, upgrade_handle, command, reboot,
                   main, awaited, aborted>>

(* The handle is stored over whatever was there, and 200 is answered. *)
StoreHandle(r) ==
    /\ LockFree
    /\ Handler(r, "spawned", "replied")
    /\ upgrade_handle' = r
    /\ UNCHANGED <<settings, is_upgrading, task, command, reboot, main,
                   awaited, aborted>>

-----------------------------------------------------------------------------
(* The upgrade task: PackageManager::full_upgrade under an UpgradingGuard. *)

(* The guard is dropped with the future, whatever ended it. *)
DropGuard(r, end) == /\ task' = [task EXCEPT ![r] = end]
                     /\ is_upgrading' = FALSE

(* First poll: the guard is made and the command handed to spawn_blocking. *)
StartUpgrade(r) ==
    /\ CanPoll /\ r \notin aborted
    /\ task[r] = "spawned"
    /\ task' = [task EXCEPT ![r] = "upgrading"]
    /\ command' = [command EXCEPT ![r] = "queued"]
    /\ UNCHANGED <<settings, is_upgrading, upgrade_handle, handler, reboot,
                   main, awaited, aborted>>

(* A thread of the blocking pool starts the command, then waits for it.    *)
(* Neither step looks at the task: a cancelled task leaves both to happen. *)
RunCommand(r) ==
    /\ main # "exited"
    /\ command[r] = "queued"
    /\ command' = [command EXCEPT ![r] = "running"]
    /\ UNCHANGED <<settings, is_upgrading, upgrade_handle, handler, task,
                   reboot, main, awaited, aborted>>

CommandEnds(r) ==
    /\ command[r] = "running"
    /\ \E result \in {"ok", "failed"} : command' = [command EXCEPT ![r] = result]
    /\ UNCHANGED <<settings, is_upgrading, upgrade_handle, handler, task,
                   reboot, main, awaited, aborted>>

(* MUTANT of UpgradeFailed: the flag is cleared on success only. *)
FailureKeepsFlag(r) ==
    /\ CanPoll /\ r \notin aborted
    /\ task[r] = "upgrading" /\ command[r] = "failed"
    /\ task' = [task EXCEPT ![r] = "done"]
    /\ UNCHANGED <<settings, is_upgrading, upgrade_handle, handler, command,
                   reboot, main, awaited, aborted>>

(* MUTANT of UpgradeFailed: the command is run again until it succeeds. *)
FailureIsRetried(r) ==
    /\ CanPoll /\ r \notin aborted
    /\ task[r] = "upgrading" /\ command[r] = "failed"
    /\ command' = [command EXCEPT ![r] = "queued"]
    /\ UNCHANGED <<settings, is_upgrading, upgrade_handle, handler, task,
                   reboot, main, awaited, aborted>>

(* full_upgrade returns an error: run_cleanup is skipped. *)
UpgradeFailed(r) ==
    /\ CanPoll /\ r \notin aborted
    /\ task[r] = "upgrading" /\ command[r] = "failed"
    /\ DropGuard(r, "done")
    /\ UNCHANGED <<settings, upgrade_handle, handler, command, reboot, main,
                   awaited, aborted>>

(* run_cleanup runs synchronous commands, on the worker. *)
UpgradeSucceeded(r) ==
    /\ CanPoll /\ r \notin aborted
    /\ task[r] = "upgrading" /\ command[r] = "ok"
    /\ \/ /\ settings.auto_clean
          /\ task' = [task EXCEPT ![r] = "auto_clean"]
          /\ UNCHANGED is_upgrading
       \/ /\ ~settings.auto_clean /\ settings.auto_remove
          /\ task' = [task EXCEPT ![r] = "auto_remove"]
          /\ UNCHANGED is_upgrading
       \/ /\ ~settings.auto_clean /\ ~settings.auto_remove
          /\ DropGuard(r, "done")
    /\ UNCHANGED <<settings, upgrade_handle, handler, command, reboot, main,
                   awaited, aborted>>

(* A cleanup command that fails is only logged. *)
AutoCleanEnds(r) ==
    /\ task[r] = "auto_clean"
    /\ \/ /\ settings.auto_remove
          /\ task' = [task EXCEPT ![r] = "auto_remove"]
          /\ UNCHANGED is_upgrading
       \/ /\ ~settings.auto_remove
          /\ DropGuard(r, "done")
    /\ UNCHANGED <<settings, upgrade_handle, handler, command, reboot, main,
                   awaited, aborted>>

(* MUTANT of AutoRemoveEnds: the cleanup starts over as long as there is   *)
(* something to remove.                                                    *)
CleanupStartsOver(r) ==
    /\ task[r] = "auto_remove"
    /\ \/ DropGuard(r, "done")
       \/ task' = [task EXCEPT ![r] = "auto_clean"] /\ UNCHANGED is_upgrading
    /\ UNCHANGED <<settings, upgrade_handle, handler, command, reboot, main,
                   awaited, aborted>>

AutoRemoveEnds(r) ==
    /\ task[r] = "auto_remove"
    /\ DropGuard(r, "done")
    /\ UNCHANGED <<settings, upgrade_handle, handler, command, reboot, main,
                   awaited, aborted>>

(* A task is cancelled between two polls: by the worker that finds it      *)
(* aborted, or by the runtime as it is dropped.                            *)
CancelUpgrade(r) ==
    /\ main = "dropping" \/ (CanPoll /\ r \in aborted)
    /\ \/ /\ task[r] = "upgrading"
          /\ DropGuard(r, "cancelled")
       \/ /\ task[r] = "spawned"
          /\ task' = [task EXCEPT ![r] = "lost"]
          /\ UNCHANGED is_upgrading
    /\ UNCHANGED <<settings, upgrade_handle, handler, command, reboot, main,
                   awaited, aborted>>

-----------------------------------------------------------------------------
(* reboot_handler, one poll, and execute_reboot, a task of its own. *)

Reboot(q, from, to) ==
    /\ reboot[q] \in from
    /\ reboot' = [reboot EXCEPT ![q] = to]
    /\ UNCHANGED <<settings, is_upgrading, upgrade_handle, handler, task,
                   command, main, awaited, aborted>>

RebootUnavailable(q) ==
    CanPoll /\ ~settings.pm_available /\ Reboot(q, {"idle"}, "unavailable")

RebootLocked(q) ==
    /\ CanPoll /\ settings.pm_available /\ is_upgrading
    /\ Reboot(q, {"idle"}, "locked")

RebootForbidden(q) ==
    /\ CanPoll /\ settings.pm_available /\ ~is_upgrading /\ ~settings.allow_reboot
    /\ Reboot(q, {"idle"}, "forbidden")

(* The checks pass; the task is not spawned yet. *)
CheckReboot(q) ==
    /\ CanPoll /\ settings.pm_available /\ ~is_upgrading /\ settings.allow_reboot
    /\ Reboot(q, {"idle"}, "checked")

ScheduleReboot(q) == Reboot(q, {"checked"}, "scheduled")

(* After delay_secs; is_upgrading is not looked at again. *)
RunSystemctl(q) == CanPoll /\ Reboot(q, {"scheduled"}, "systemctl")

RunFallback(q) == CanPoll /\ Reboot(q, {"systemctl"}, "fallback")

RebootEnds(q) ==
    /\ CanPoll
    /\ \/ Reboot(q, {"systemctl", "fallback"}, "rebooting")
       \/ Reboot(q, {"fallback"}, "failed")

DropReboot(q) ==
    /\ main = "dropping"
    /\ Reboot(q, {"scheduled", "systemctl", "fallback"}, "dropped")

-----------------------------------------------------------------------------
(* main. *)

(* select! returns: a signal arrived or the server failed, and a worker    *)
(* drove the event to main.  The tasks of the open connections go on.      *)
StopServing ==
    /\ main = "serving" /\ WorkerFree
    /\ main' = "stopping"
    /\ UNCHANGED <<settings, is_upgrading, upgrade_handle, handler, task,
                   command, reboot, awaited, aborted>>

TakeHandle ==
    /\ main = "stopping"
    /\ \/ /\ upgrade_handle = NoReq
          /\ main' = "finishing"
          /\ UNCHANGED <<upgrade_handle, awaited>>
       \/ /\ upgrade_handle # NoReq
          /\ main' = "waiting"
          /\ awaited' = upgrade_handle
          /\ upgrade_handle' = NoReq
    /\ UNCHANGED <<settings, is_upgrading, handler, task, command, reboot, aborted>>

JoinUpgrade ==
    /\ main = "waiting" /\ task[awaited] \in Finished
    /\ main' = "finishing"
    /\ UNCHANGED <<settings, is_upgrading, upgrade_handle, handler, task,
                   command, reboot, awaited, aborted>>

(* MUTANT of AbortUpgrade: main awaits the handle without a timeout. *)
AwaitForEver == FALSE /\ UNCHANGED vars

(* MUTANT of AbortUpgrade: it aborts what upgrade_handle holds, which      *)
(* take() has emptied.                                                     *)
AbortTakenHandle ==
    /\ main = "waiting" /\ task[awaited] \notin Finished
    /\ WorkerFree
    /\ aborted' = aborted \cup {upgrade_handle}
    /\ main' = "finishing"
    /\ UNCHANGED <<settings, is_upgrading, upgrade_handle, handler, task,
                   command, reboot, awaited>>

(* 30 seconds have passed and a worker fires the timer. *)
AbortUpgrade ==
    /\ main = "waiting" /\ task[awaited] \notin Finished
    /\ WorkerFree
    /\ aborted' = aborted \cup {awaited}
    /\ main' = "finishing"
    /\ UNCHANGED <<settings, is_upgrading, upgrade_handle, handler, task,
                   command, reboot, awaited>>

(* main returns and the runtime is dropped: a poll that has begun and a    *)
(* command that has started are waited for, a queued command is not run.   *)
DropRuntime ==
    /\ main = "finishing"
    /\ main' = "dropping"
    /\ UNCHANGED <<settings, is_upgrading, upgrade_handle, handler, task,
                   command, reboot, awaited, aborted>>

DiscardCommand(r) ==
    /\ main = "dropping" /\ command[r] = "queued"
    /\ command' = [command EXCEPT ![r] = "discarded"]
    /\ UNCHANGED <<settings, is_upgrading, upgrade_handle, handler, task,
                   reboot, main, awaited, aborted>>

Quiet ==
    /\ HandlersInPoll = {} /\ RebootsInPoll = {}
    /\ \A r \in UpgradeReqs : /\ task[r] \notin Live
                              /\ command[r] \notin {"queued", "running"}
    /\ \A q \in RebootReqs : reboot[q] \notin {"scheduled", "systemctl", "fallback"}

Exit ==
    /\ main = "dropping" /\ Quiet
    /\ main' = "exited"
    /\ UNCHANGED <<settings, is_upgrading, upgrade_handle, handler, task,
                   command, reboot, awaited, aborted>>

Exited == main = "exited" /\ UNCHANGED vars

-----------------------------------------------------------------------------
HandlerStep(r) == SpawnUpgrade(r) \/ StoreHandle(r)

TaskStep(r) == StartUpgrade(r) \/ UpgradeFailed(r) \/ UpgradeSucceeded(r) \/ CancelUpgrade(r)

CleanupStep(r) == AutoCleanEnds(r) \/ AutoRemoveEnds(r)

PoolStep(r) == RunCommand(r) \/ DiscardCommand(r)

RebootStep(q) == ScheduleReboot(q) \/ RunSystemctl(q) \/ RunFallback(q)
                     \/ RebootEnds(q) \/ DropReboot(q)

MainStep == TakeHandle \/ JoinUpgrade \/ AbortUpgrade \/ DropRuntime \/ Exit

Arrival(r) == Unavailable(r) \/ RefuseUpgrade(r) \/ ClaimSlot(r)

RebootArrival(q) == RebootUnavailable(q) \/ RebootLocked(q) \/ RebootForbidden(q)
                        \/ CheckReboot(q)

Next ==
    \/ \E r \in UpgradeReqs : Arrival(r) \/ HandlerStep(r) \/ TaskStep(r)
                                  \/ CleanupStep(r) \/ PoolStep(r) \/ CommandEnds(r)
    \/ \E q \in RebootReqs : RebootArrival(q) \/ RebootStep(q)
    \/ StopServing \/ MainStep \/ Exited

Spec == Init /\ [][Next]_vars

(* What the scheduler guarantees: a poll in progress goes on, a ready task *)
(* is picked up by a free worker, the pool starts its queue, and the timer *)
(* fires.  Requests and signals need not come, reboot commands need not    *)
(* end.                                                                    *)
SchedulerFairness ==
    /\ \A r \in UpgradeReqs : /\ WF_vars(HandlerStep(r))
                              /\ WF_vars(TaskStep(r))
                              /\ WF_vars(PoolStep(r))
    /\ \A q \in RebootReqs : WF_vars(ScheduleReboot(q) \/ DropReboot(q))
    /\ WF_vars(MainStep)

(* What only the package manager can guarantee. *)
CleanupFairness == \A r \in UpgradeReqs : WF_vars(CleanupStep(r))
CommandFairness == \A r \in UpgradeReqs : WF_vars(CommandEnds(r))

(* The upgrade command may hang; the cleanup commands end.  (They run on a *)
(* worker: one that hangs on a machine with a single worker would keep     *)
(* main's timer from firing.)                                              *)
HangingSpec == Spec /\ SchedulerFairness /\ CleanupFairness

-----------------------------------------------------------------------------
(* Properties. *)

(* Every variable is in the states the code has, and main awaits a task.   *)
TypeOK ==
    /\ settings \in Settings
    /\ is_upgrading \in BOOLEAN
    /\ upgrade_handle \in UpgradeReqs \cup {NoReq}
    /\ handler \in [UpgradeReqs -> HandlerStates]
    /\ task \in [UpgradeReqs -> TaskStates]
    /\ command \in [UpgradeReqs -> CommandStates]
    /\ reboot \in [RebootReqs -> RebootStates]
    /\ main \in MainStates
    /\ awaited \in UpgradeReqs \cup {NoReq}
    /\ main = "waiting" => awaited \in UpgradeReqs
    /\ aborted \subseteq UpgradeReqs

(* The flag is set exactly while one request's claim accounts for it, from *)
(* the compare_exchange that won to the drop of that task's guard: no two  *)
(* upgrades at once, and no flag left set with nobody to clear it.  (A     *)
(* task dropped before its first poll keeps its claim, as Holds says.)     *)
OneUpgrade ==
    /\ \A r, s \in UpgradeReqs : Holds(r) /\ Holds(s) => r = s
    /\ is_upgrading <=> \E r \in UpgradeReqs : Holds(r)

(* Two upgrade commands are on the blocking pool together only after an    *)
(* upgrade task was cancelled: its guard freed the flag, and spawn_blocking*)
(* went on with the command nobody waits for any more.                     *)
OnPool == {r \in UpgradeReqs : command[r] \in {"queued", "running"}}

OverlapOnlyAfterCancel ==
    (\E r, s \in OnPool : r # s) => \E r \in OnPool : task[r] = "cancelled"

(* main holds the std Mutex across an await, and handlers block their      *)
(* worker on that Mutex.  Still, as long as the task main awaits is alive, *)
(* the blocked handlers never take the last worker: one is left to poll    *)
(* that task, or to fire main's 30 s timeout.                              *)
WorkerLeftForUpgrade ==
    main = "waiting" /\ task[awaited] \in Live =>
        Cardinality(HandlersInPoll) < Workers

(* "in the shutdown path, abort-or-await it before exit": when main stops  *)
(* waiting for upgrades, no upgrade whose client has been told "full       *)
(* upgrade triggered" is alive, except the one main aborted.  True with    *)
(* one worker; with more, a handler preempted before it stores its handle  *)
(* overwrites the handle of a later upgrade.                               *)
AcknowledgedUpgradeJoined ==
    [][ (main' = "finishing" /\ main # "finishing") =>
          \A r \in UpgradeReqs :
              handler[r] = "replied" /\ task[r] \in Live => r = awaited' ]_vars

(* "Blocking reboot while is_upgrading is true prevents corruption": no    *)
(* reboot command is started under a running upgrade command.              *)
NoRebootUnderUpgrade ==
    [][ \A q \in RebootReqs :
          reboot'[q] \in {"systemctl", "fallback"} /\ reboot'[q] # reboot[q] =>
              \A r \in UpgradeReqs : command[r] # "running" ]_vars

(* The shutdown wait is bounded by main's timeout even if the upgrade      *)
(* command never ends.                                                     *)
ShutdownWaitBounded ==
    main = "stopping" ~> main \in {"finishing", "dropping", "exited"}

(* If every upgrade command ends, a claimed upgrade reaches its end and    *)
(* the daemon, once told to stop, exits: neither waits for ever for the    *)
(* other.                                                                  *)
UpgradeEnds ==
    CommandFairness =>
        \A r \in UpgradeReqs : handler[r] = "claimed" ~> task[r] \in Finished

DaemonExits == CommandFairness => (main = "stopping" ~> main = "exited")

-----------------------------------------------------------------------------
(* The daemon implements the upgrade slot. *)

Holder == IF is_upgrading THEN CHOOSE r \in UpgradeReqs : Holds(r) ELSE NoReq

Answer(h) == CASE h = "idle" -> "pending"
               [] h = "unavailable" -> "unavailable"
               [] h = "refused" -> "refused"
               [] OTHER -> "triggered"

Slot == INSTANCE UpgradeSlot WITH
            Reqs   <- UpgradeReqs,
            holder <- Holder,
            answer <- [r \in UpgradeReqs |-> Answer(handler[r])]

(* Every step of the daemon is a step of the slot or leaves it alone: a    *)
(* request is refused only while another holds the slot, and only the      *)
(* holder's end frees it.                                                  *)
ImplementsSlot == Slot!Spec
=============================================================================
