---------------------------- MODULE PackageCache ----------------------------
(***************************************************************************)
(* PackageManager::get_updates of Apt and of Brew, as GET /status and a    *)
(* dry-run POST /full-upgrade call it: refresh the package index unless it *)
(* was refreshed less than cache_ttl ago, then ask for the updates.  Each  *)
(* command runs on the blocking pool while the request awaits it.  A       *)
(* request may be dropped at either await, by the 300 s TimeoutLayer or    *)
(* because its client hung up; its command goes on.                        *)
(***************************************************************************)
EXTENDS Integers, FiniteSets

CONSTANTS Reqs,      \* GET /status and dry-run requests
          Never,     \* Option::None of last_update
          TTL,       \* cache_ttl, in ticks of the clock
          MaxTime,   \* bound on the clock
          PoolSize   \* threads of the blocking pool

ASSUME ReqsAssumption     == IsFiniteSet(Reqs)
ASSUME ClockAssumption    == TTL \in Nat /\ MaxTime \in Nat /\ Never \notin Int
ASSUME PoolSizeAssumption == PoolSize \in Nat \ {0}

VARIABLES
    pm_available,  \* AppState.pm_available, found at startup
    now,           \* Instant::now()
    last_update,   \* Apt.last_update, Brew.last_update
    refreshed,     \* when the host's package index was last refreshed
    req,           \* where each request is
    checked,       \* when each request looked at last_update
    command        \* the last command each request put on the pool

vars == <<pm_available, now, last_update, refreshed, req, checked, command>>

Updating   == "updating"    \* awaits apt-get update or brew update
Simulating == "simulating"  \* awaits apt-get -s dist-upgrade or brew outdated
InFlight   == {Updating, Simulating}
Settled    == {"unavailable", "ok", "error", "dropped"}
ReqStates  == {"idle"} \cup InFlight \cup Settled

Kinds    == {"update", "simulate"}
Commands == [kind : Kinds, at : {"queued", "running", "succeeded", "failed"}]
NoCommand == [kind |-> "none", at |-> "none"]

Init ==
    /\ pm_available \in BOOLEAN
    /\ now = 0
    /\ last_update = Never
    /\ refreshed = Never
    /\ req = [r \in Reqs |-> "idle"]
    /\ checked = [r \in Reqs |-> Never]
    /\ command = [r \in Reqs |-> NoCommand]

-----------------------------------------------------------------------------
(* ~should_update *)
Fresh == last_update # Never /\ TTL > 0 /\ now - last_update < TTL

Spawn(r, kind) == command' = [command EXCEPT ![r] = [kind |-> kind, at |-> "queued"]]

Unavailable(r) ==
    /\ req[r] = "idle" /\ ~pm_available
    /\ req' = [req EXCEPT ![r] = "unavailable"]
    /\ UNCHANGED <<pm_available, now, last_update, refreshed, checked, command>>

(* MUTANT of Check: the cache is not consulted. *)
CheckIgnoresCache(r) ==
    /\ req[r] = "idle" /\ pm_available
    /\ checked' = [checked EXCEPT ![r] = now]
    /\ req' = [req EXCEPT ![r] = Updating] /\ Spawn(r, "update")
    /\ UNCHANGED <<pm_available, now, last_update, refreshed>>

(* The request arrives, looks at last_update under the mutex, and awaits   *)
(* its first command.                                                      *)
Check(r) ==
    /\ req[r] = "idle" /\ pm_available
    /\ checked' = [checked EXCEPT ![r] = now]
    /\ \/ ~Fresh /\ req' = [req EXCEPT ![r] = Updating] /\ Spawn(r, "update")
       \/ Fresh /\ req' = [req EXCEPT ![r] = Simulating] /\ Spawn(r, "simulate")
    /\ UNCHANGED <<pm_available, now, last_update, refreshed>>

Awaits(r, state, outcome) == req[r] = state /\ command[r].at = outcome

(* MUTANT of Updated: the time the cache expires is stored. *)
ExpiryIsRecorded(r) ==
    /\ Awaits(r, Updating, "succeeded")
    /\ last_update' = now + TTL
    /\ req' = [req EXCEPT ![r] = Simulating]
    /\ Spawn(r, "simulate")
    /\ UNCHANGED <<pm_available, now, refreshed, checked>>

Updated(r) ==
    /\ Awaits(r, Updating, "succeeded")
    /\ last_update' = now
    /\ req' = [req EXCEPT ![r] = Simulating]
    /\ Spawn(r, "simulate")
    /\ UNCHANGED <<pm_available, now, refreshed, checked>>

(* MUTANT of UpdateFailed: last_update is set before the status is looked  *)
(* at.                                                                     *)
FailureIsRecorded(r) ==
    /\ Awaits(r, Updating, "failed")
    /\ last_update' = now
    /\ req' = [req EXCEPT ![r] = "error"]
    /\ UNCHANGED <<pm_available, now, refreshed, checked, command>>

(* MUTANT of UpdateFailed: the update is tried again until it succeeds. *)
FailureIsRetried(r) ==
    /\ Awaits(r, Updating, "failed")
    /\ Spawn(r, "update")
    /\ UNCHANGED <<pm_available, now, last_update, refreshed, req, checked>>

UpdateFailed(r) ==
    /\ Awaits(r, Updating, "failed")
    /\ req' = [req EXCEPT ![r] = "error"]
    /\ UNCHANGED <<pm_available, now, last_update, refreshed, checked, command>>

Simulated(r) ==
    /\ \/ Awaits(r, Simulating, "succeeded") /\ req' = [req EXCEPT ![r] = "ok"]
       \/ Awaits(r, Simulating, "failed") /\ req' = [req EXCEPT ![r] = "error"]
    /\ UNCHANGED <<pm_available, now, last_update, refreshed, checked, command>>

(* The timeout or the client drops the request at its await. *)
Drop(r) ==
    /\ req[r] \in InFlight
    /\ req' = [req EXCEPT ![r] = "dropped"]
    /\ UNCHANGED <<pm_available, now, last_update, refreshed, checked, command>>

-----------------------------------------------------------------------------
(* The blocking pool and the package manager's commands. *)

Running == {r \in Reqs : command[r].at = "running"}

StartCommand(r) ==
    /\ command[r].at = "queued" /\ Cardinality(Running) < PoolSize
    /\ command' = [command EXCEPT ![r].at = "running"]
    /\ UNCHANGED <<pm_available, now, last_update, refreshed, req, checked>>

CommandEnds(r) ==
    /\ command[r].at = "running"
    /\ \/ /\ command' = [command EXCEPT ![r].at = "succeeded"]
          /\ refreshed' = IF command[r].kind = "update" THEN now ELSE refreshed
       \/ /\ command' = [command EXCEPT ![r].at = "failed"]
          /\ UNCHANGED refreshed
    /\ UNCHANGED <<pm_available, now, last_update, req, checked>>

Tick ==
    /\ now < MaxTime
    /\ now' = now + 1
    /\ UNCHANGED <<pm_available, last_update, refreshed, req, checked, command>>

Done ==
    /\ \A r \in Reqs : req[r] \in Settled /\ command[r].at \notin {"queued", "running"}
    /\ now = MaxTime
    /\ UNCHANGED vars

-----------------------------------------------------------------------------
Resume(r) == Updated(r) \/ UpdateFailed(r) \/ Simulated(r)

Next ==
    \/ \E r \in Reqs : \/ Unavailable(r) \/ Check(r) \/ Resume(r) \/ Drop(r)
                       \/ StartCommand(r) \/ CommandEnds(r)
    \/ Tick \/ Done

Spec == Init /\ [][Next]_vars

(* The runtime resumes a request whose command is done, the pool starts    *)
(* what is queued when a thread is free, and the commands end.  Nothing    *)
(* makes a request be dropped.                                             *)
FairSpec ==
    /\ Spec
    /\ \A r \in Reqs : /\ WF_vars(Resume(r))
                       /\ WF_vars(StartCommand(r))
                       /\ WF_vars(CommandEnds(r))

-----------------------------------------------------------------------------
(* Properties. *)

Times == 0 .. MaxTime

TypeOK ==
    /\ pm_available \in BOOLEAN
    /\ now \in Times
    /\ last_update \in Times \cup {Never}
    /\ refreshed \in Times \cup {Never}
    /\ req \in [Reqs -> ReqStates]
    /\ checked \in [Reqs -> Times \cup {Never}]
    /\ command \in [Reqs -> Commands \cup {NoCommand}]

StartsUpdate(r) == /\ command[r] = [kind |-> "update", at |-> "queued"]
                   /\ command'[r] = [kind |-> "update", at |-> "running"]

(* last_update is credit for a refresh that took place: the request that   *)
(* sets it was awaiting its own update, that update has succeeded, and the *)
(* index was refreshed after this request's look at last_update.           *)
CreditForRefresh ==
    [][ last_update' # last_update =>
          \E r \in Reqs :
             /\ req[r] = Updating /\ req'[r] # Updating
             /\ command[r] = [kind |-> "update", at |-> "succeeded"]
             /\ checked[r] # Never /\ refreshed # Never /\ refreshed >= checked[r] ]_vars

(* The index is refreshed again while it is fresh only by requests that    *)
(* overlap: the second one looked at last_update before the first one had  *)
(* set it.                                                                 *)
RedundantUpdateOverlaps ==
    [][ \A r \in Reqs : StartsUpdate(r) /\ Fresh => checked[r] <= last_update ]_vars

(* As long as the commands end, every request is answered and every        *)
(* command leaves the pool, the ones nobody waits for any more included.   *)
EveryRequestSettles ==
    \A r \in Reqs : req[r] \in InFlight ~>
                       (req[r] \in Settled /\ command[r].at \in {"succeeded", "failed"})
=============================================================================
