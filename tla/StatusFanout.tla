---------------------------- MODULE StatusFanout ----------------------------
(***************************************************************************)
(* brewmble status: the pins of known nodes are checked (PinFetch), then   *)
(* the addresses to ask go through a checked, from the main thread and     *)
(* from a discovery thread, to a rayon scope whose workers send the        *)
(* requests, each address once, and collect the reports for the summary.   *)
(***************************************************************************)
EXTENDS PinFetch, FiniteSets

CONSTANTS Addresses,  \* all addresses; a node of the profile is one of them
          MaxWorkers  \* bound on the threads of the rayon pool

ASSUME AddressesAssumption == Profile \subseteq Addresses
ASSUME WorkersAssumption   == MaxWorkers \in Nat \ {0}

(* What goes through the channel: an address and who sent it. *)
Targets == [addr : Addresses, from : {"given", "found"}]

VARIABLES
    workers,    \* the threads of the rayon pool
    all,        \* the flag --all
    given,      \* the addresses to ask from the start
    main,       \* the step of the main thread
    browser,    \* the discovery thread
    senders,    \* who still holds a sender of the channel
    checked,    \* the nodes whose pins were checked
    jobs,       \* the targets: in the checked, or as jobs of the rayon scope
    seen,       \* seen_targets
    reports,    \* node_reports: address and outcome
    anyFailed   \* any_failed

statusVars == <<workers, all, given, main, browser, senders, checked, jobs, seen, reports,
                anyFailed>>
vars       == <<pinVars, statusVars>>

(* MUTANT of NodesToValidate: with --all no pins are checked. *)
NodesUnlessAll(targets, flag) == IF flag THEN {} ELSE Profile \cap targets

(* The nodes whose pins are validated. *)
NodesToValidate(targets, flag) == Profile \cap targets

(* Named targets; without any, and without --all, the nodes of the profile. *)
Init ==
    /\ \E targets \in SUBSET Addresses :
          /\ all \in BOOLEAN
          /\ given = IF targets = {} /\ ~all THEN Profile ELSE targets
          /\ PinInit(NodesToValidate(given, all))
    /\ workers \in 1 .. MaxWorkers
    /\ main = "pins" /\ browser = "none" /\ senders = {"main"} /\ checked = {}
    /\ jobs = [t \in Targets |-> "none"]
    /\ seen = {} /\ reports = {} /\ anyFailed = FALSE

-----------------------------------------------------------------------------
(* The main thread. *)

CheckPins ==
    /\ main = "pins" /\ FetchStep
    /\ UNCHANGED statusVars

(* The first targets go into the channel; saving what was learned may fail. *)
SendGiven ==
    /\ main = "pins" /\ PinsOver
    /\ \/ /\ main' = "spawn"
          /\ jobs' = [t \in Targets |-> IF t.addr \in given /\ t.from = "given" THEN "sent" ELSE "none"]
       \/ (\E n \in Profile : fetched[n] \in Attempts) /\ main' = "failed" /\ UNCHANGED jobs
    /\ checked' = {n \in Profile : fetched[n] # None} /\ ForgetFetches
    /\ UNCHANGED <<workers, all, given, browser, senders, seen, reports, anyFailed>>

(* With --all a discovery thread gets a sender of its own. *)
SpawnBrowser ==
    /\ main = "spawn" /\ main' = "drop"
    /\ IF all THEN browser' = "browsing" /\ senders' = senders \cup {"browser"}
              ELSE UNCHANGED <<browser, senders>>
    /\ UNCHANGED <<pinVars, workers, all, given, checked, jobs, seen, reports, anyFailed>>

(* MUTANT of DropSender: main keeps its sender. *)
KeepSender ==
    /\ main = "drop" /\ main' = "client"
    /\ UNCHANGED <<pinVars, workers, all, given, browser, senders, checked, jobs, seen, reports,
                   anyFailed>>

(* drop(target_tx). *)
DropSender ==
    /\ main = "drop" /\ main' = "client" /\ senders' = senders \ {"main"}
    /\ UNCHANGED <<pinVars, workers, all, given, browser, checked, jobs, seen, reports, anyFailed>>

(* build_client needs the client certificate and the CA. *)
BuildClient ==
    /\ main = "client" /\ main' \in {"loop", "failed"}
    /\ UNCHANGED <<pinVars, workers, all, given, browser, senders, checked, jobs, seen, reports,
                   anyFailed>>

(* The loop of the scope spawns a job for each target... *)
SpawnJob ==
    /\ main = "loop"
    /\ \E t \in Targets : jobs[t] = "sent" /\ jobs' = [jobs EXCEPT ![t] = "queued"]
    /\ UNCHANGED <<pinVars, workers, all, given, main, browser, senders, checked, seen, reports, anyFailed>>

(* MUTANT of Disconnected: an empty channel ends the loop. *)
ChannelEmpty == \A t \in Targets : jobs[t] # "sent"

(* recv fails. *)
Disconnected == (\A t \in Targets : jobs[t] # "sent") /\ senders = {}

(* ... until the channel is empty and nobody can send any more. *)
EndLoop ==
    /\ main = "loop" /\ Disconnected /\ main' = "join"
    /\ UNCHANGED <<pinVars, workers, all, given, browser, senders, checked, jobs, seen, reports,
                   anyFailed>>

(* The scope ends with its last job; then comes the summary. *)
Summary ==
    /\ main = "join" /\ (\A t \in Targets : jobs[t] \notin {"queued", "asking"}) /\ main' = "done"
    /\ UNCHANGED <<pinVars, workers, all, given, browser, senders, checked, jobs, seen, reports,
                   anyFailed>>

MainStep ==
    \/ CheckPins \/ SendGiven \/ SpawnBrowser \/ DropSender \/ BuildClient
    \/ SpawnJob \/ EndLoop \/ Summary

-----------------------------------------------------------------------------
(* The jobs.  The loop, as long as it runs, keeps one of the workers. *)

WorkerFree ==
    Cardinality({t \in Targets : jobs[t] = "asking"}) < workers - (IF main = "loop" THEN 1 ELSE 0)

(* MUTANT of StartJob: an address is remembered when it has been asked. *)
StartJobUnseen(t) ==
    /\ jobs[t] = "queued" /\ WorkerFree
    /\ jobs' = [jobs EXCEPT ![t] = IF \E r \in reports : r.addr = t.addr THEN "skipped" ELSE "asking"]
    /\ seen' = seen \cup {t.addr}
    /\ UNCHANGED <<pinVars, workers, all, given, main, browser, senders, checked, reports, anyFailed>>

(* An address that was seen before is skipped, another one is asked. *)
StartJob(t) ==
    /\ jobs[t] = "queued" /\ WorkerFree
    /\ jobs' = [jobs EXCEPT ![t] = IF t.addr \in seen THEN "skipped" ELSE "asking"]
    /\ seen' = seen \cup {t.addr}
    /\ UNCHANGED <<pinVars, workers, all, given, main, browser, senders, checked, reports, anyFailed>>

(* query_status: no answer, in time or at all; an answer with updates; any *)
(* other answer, an error status or an unreadable one included.            *)
Outcomes == {"failed", "outdated", "other"}

(* The outcome is reported. *)
EndJob(t) ==
    /\ jobs[t] = "asking" /\ jobs' = [jobs EXCEPT ![t] = "asked"]
    /\ \E outcome \in Outcomes :
          /\ reports' = reports \cup {[addr |-> t.addr, outcome |-> outcome]}
          /\ anyFailed' = (anyFailed \/ outcome = "failed")
    /\ UNCHANGED <<pinVars, workers, all, given, main, browser, senders, checked, seen>>

JobStep == \E t \in Targets : StartJob(t) \/ EndJob(t)

-----------------------------------------------------------------------------
(* The discovery thread. *)

(* When the browsing time is over, the addresses found are sent. *)
SendFound ==
    /\ browser = "browsing"
    /\ \E a \in Addresses :
          LET t == [addr |-> a, from |-> "found"]
          IN  jobs[t] = "none" /\ jobs' = [jobs EXCEPT ![t] = "sent"]
    /\ UNCHANGED <<pinVars, workers, all, given, main, browser, senders, checked, seen, reports,
                   anyFailed>>

(* The thread ends, after the last address or an error of mDNS, and its    *)
(* sender with it.                                                         *)
EndBrowser ==
    /\ browser = "browsing" /\ browser' = "ended" /\ senders' = senders \ {"browser"}
    /\ UNCHANGED <<pinVars, workers, all, given, main, checked, jobs, seen, reports, anyFailed>>

Running == main \notin {"done", "failed"}

Next ==
    /\ Running
    /\ \/ MainStep \/ JobStep \/ SendFound \/ EndBrowser
       \/ (\E a \in Attempts : Handshake(a)) /\ UNCHANGED statusVars

(* The threads are scheduled, requests and the browsing have timeouts.     *)
(* Nothing is assumed of handshakes: servers may hang.                     *)
Spec ==
    /\ Init /\ [][Next]_vars
    /\ WF_vars(Running /\ MainStep) /\ WF_vars(Running /\ JobStep)
    /\ WF_vars(Running /\ EndBrowser)

-----------------------------------------------------------------------------
(* Properties. *)

TypeOK ==
    /\ PinTypeOK
    /\ workers \in 1 .. MaxWorkers /\ all \in BOOLEAN /\ given \subseteq Addresses
    /\ main \in {"pins", "spawn", "drop", "client", "loop", "join", "done", "failed"}
    /\ browser \in {"none", "browsing", "ended"} /\ senders \subseteq {"main", "browser"}
    /\ checked \subseteq Profile /\ seen \subseteq Addresses
    /\ jobs \in [Targets -> {"none", "sent", "queued", "asking", "asked", "skipped"}]
    /\ reports \subseteq [addr : Addresses, outcome : Outcomes] /\ anyFailed \in BOOLEAN

Asked(t) == jobs[t] \in {"asking", "asked"}

(* An address that is given and found too, or twice in the pool at the     *)
(* same time, gets one request.                                            *)
AskedOnce == \A t, u \in Targets : Asked(t) /\ Asked(u) /\ t.addr = u.addr => t = u

(* node_reports, which the summary is printed from, has exactly one report *)
(* for every address given or found, also if it was found after all others *)
(* had answered, and the final state of the progress display agrees with   *)
(* it.  (Only outdated and failed nodes are printed.)                      *)
SummaryComplete ==
    main = "done" =>
        /\ {r.addr : r \in reports} = {t.addr : t \in {u \in Targets : jobs[u] # "none"}}
        /\ given \subseteq {r.addr : r \in reports}
        /\ \A q, r \in reports : q.addr = r.addr => q = r
        /\ anyFailed <=> \E r \in reports : r.outcome = "failed"

(* "Validate TOFU pins for profile nodes we are about to contact": a node  *)
(* of the profile is asked after its certificate was fetched or could not  *)
(* be, unless --all alone has brought it up.                               *)
CheckedBeforeAsked ==
    \A t \in Targets : Asked(t) /\ t.addr \in Profile =>
        t.addr \in checked \/ (all /\ t.addr \notin given)

(* status ends, with a summary or an error, though servers may hang in the *)
(* handshake and the channel stays open for the discovery thread.          *)
StatusEnds == <>(main \in {"done", "failed"})
=============================================================================
