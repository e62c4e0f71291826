# TLA+ verification of brewmble

brewmble keeps the packages of a small cluster of hosts up to date. A daemon,
`brewmbled` (`daemon/`), runs on every host and offers an HTTPS API: status, full
upgrade, reboot. A command line program, `brewmble` (`cli/`), finds the daemons by
mDNS, keeps a list of them with their pinned certificates, and sends them requests.
This directory holds TLA+ models of the parts where order, failure and sharing make
the code hard to test, the TLC runs that check them on small instances, and TLAPS
proofs of the most important results for every size of the system.

Line numbers below and in `PROJECT.json` refer to the files of the repository.

## Inventory

| Component | State | Operations | What is hard | What makes it correct |
|---|---|---|---|---|
| Upgrade, reboot, shutdown (`daemon/src/main.rs`) | `is_upgrading`, `upgrade_handle`, tasks, commands on the blocking pool, where `main` is | `full_upgrade_handler`, the upgrade task, `reboot_handler`, `execute_reboot`, shutdown path of `main` | handlers on several workers, a task that outruns its handler, abort and cancellation, a std mutex held across an await, synchronous commands on workers | one upgrade at a time, no leaked flag, shutdown neither hangs nor leaves an upgrade behind, no reboot under an upgrade |
| Package index cache (`apt.rs`, `brew.rs`) | `last_update`, the host's index, commands | `get_updates` from `GET /status` and dry-run | check, await, act; requests dropped by timeout or hang-up while their command goes on | the cache never claims a refresh that did not happen; refreshes overlap only when requests do; nothing is stuck |
| Upgrade commands and cleanup (`apt.rs`, `brew.rs`) | none of their own | `full_upgrade`, `run_cleanup`, `auto_clean`, `auto_remove` | cleanup failure, blocking a worker | part of the upgrade task |
| Startup (`daemon/src/main.rs`) | port, mDNS record, listener, three PEM files | load and validation, port probe and hunt, TLS, mDNS, bind, exit status | a probed port is released before it is announced and bound; the PEM files are read three times while `cert issue` rewrites them | a port that is announced is the daemon's own; a start ends in service or in an exit; what is served is a valid leaf with its own key |
| Configuration files (`daemon/src/config.rs`, `cli/src/main.rs`) | a YAML file and its `.tmp` file | `write_config_atomically`, `config init` | a kill, a power loss or a second writer between write and rename | a reader finds an old or a new complete file |
| CLI node list and pins (`cli/src/main.rs`, `pin.rs`) | `config.yaml`: profiles, nodes, fingerprints | `discover -u`, `status`, `node`, `version`, `node --repin`, `profile` | overlapping invocations, hosts that swap addresses, first-match lookups | names unique, a pin stays with the address it was learned at, changes only by repin |
| Pin fetch (`pin.rs`) | a verifier shared by the attempts of one fetch | TLS handshake per address with a wall-clock timeout | a handshake that outlives its timeout | the fingerprint is of a certificate of that node, and of the host that answered unless a handshake was abandoned |
| Status fan-out (`run_status`) | channel of targets, seen set, reports | pin checks, discovery thread, rayon workers | termination, duplicates | every target queried once, the given ones after their pin check, and reported |
| Cluster CA and keyring (`ca.rs`) | keyring entries for CA and client certificate and key | `ca init`, `ca migrate`, `cert issue`, `build_client` | two-entry values written one at a time, failures and other commands in between | certificate and key belong together; what is issued fits the CA; a failure loses no more than what was in hand, and nothing is replaced unasked |
| Profile commands, progress bars, output sanitising, message types, build files, `web/` | – | – | – | – |

The components meet at four places. The CLI calls the daemons over HTTPS with a
client certificate of the cluster CA and checks their certificates against its pins.
Inside the daemon, handlers, upgrade task and `main` share `AppState` (an atomic flag
and a mutex around a task handle). CLI invocations share one configuration file and
one keyring, without locks; the daemon starts from a configuration file and PEM files
that other commands write.

## Modules

* `UpgradeSlot` – what the daemon promises about `POST /full-upgrade`: one slot,
  requests that claim it, are refused while it is taken or rejected when there is no
  package manager, and nobody but the holder to release it.
* `Daemon` – handlers, upgrade task, reboot tasks and the shutdown path.
  * A *handler* is one poll without an await, but the operating system may preempt it:
    the compare_exchange (`ClaimSlot`, `RefuseUpgrade`), the spawn (`SpawnUpgrade`) and
    the store of the handle (`StoreHandle`) are separate steps.
  * The *task* starts (`StartUpgrade`: guard made, command handed to `spawn_blocking`),
    awaits the command, and ends (`UpgradeFailed`, or `UpgradeSucceeded` and the
    cleanup commands). `DropGuard` clears the flag whatever ended the future. A task
    dropped before its first poll never made the guard: its claim stays (`"lost"`).
  * The *command* lives on the blocking pool (`RunCommand`, `CommandEnds`) and does not
    notice that its task was cancelled.
  * The *reboot handler* checks and spawns; `execute_reboot` runs `systemctl`, then the
    fallback.
  * *main* leaves `select!` (`StopServing`), takes the handle, awaits it under the mutex
    guard for 30 s (`TakeHandle`, `JoinUpgrade`, `AbortUpgrade`), and returns, which drops
    the runtime (`DropRuntime`, `CancelUpgrade`, `DropReboot`, `DiscardCommand`, `Exit`).
  * *Workers*: a poll in progress occupies one of `Workers` threads, also while it is
    blocked on the mutex or runs a cleanup command. New polls, the timer and the signal
    need a free one (`CanPoll`, `WorkerFree`).
* `DaemonProofs` – the proofs about `Daemon`.
* `PackageCache` – `get_updates` of Apt and Brew, which differ only in their commands:
  look at `last_update` (`Check`), await the update (`Updated`, `UpdateFailed`), await the
  simulation (`Simulated`); `Drop` is the `TimeoutLayer` or a client that hangs up. The
  clock is discrete and `refreshed` is when the host's index really was refreshed.
* `PackageCacheProofs` – the proofs about `PackageCache`.
* `CliConfig` – the node list. Every invocation loads the file when it starts (discover
  when its search is over), works on its copy and writes the whole copy back.
  `Merge` is one iteration of `merge_nodes`, `CheckPin` one of
  `validate_and_update_pins` (and of the loop of `run_version`), `Save` is `save_config`;
  `Change` moves a host or gives it a new certificate.
* `CliConfigProofs` – the proofs about `CliConfig`.
* `ConfigFile` – `write_config_atomically`, which both programs have in the same form. A
  writer looks whether there is a file (`Exists`, `config init` without `--force`), truncates
  the one `.tmp` file (`Open`), writes, syncs and renames it (`Write`, `Sync`, `Rename`) and
  reports success (`Saved`). A handle follows its file through a rename by another writer
  (`Behind`). `Killed` ends a writer anywhere, within the write with torn bytes; `PowerLoss` loses
  what was not synced and may undo renames.
* `Startup` (extends `ConfigFile`) – the daemon's `main` from `LoadConfig` to its return: the PEM
  files one by one (`ReadPem`: in validation, in its load check, and by `load_tls_config`), the
  dates and key usage of the leaf (`CheckLeaf`), `Probe` or `Hunt`, `Announce`, `Detect` (the package manager is
  asked for its version), and `Bind`. `Bind` fails because the port is taken or for any other reason, a signal handler that
  cannot be installed included; all of this, like a signal in service (`Signal`), goes to `Close` and ends in `Ok(())`. A
  signal before there are handlers, or SIGKILL at any time, ends the process where it is.
  Around it other programs take and release ports, `cert issue`
  rewrites the PEM files, and the writers of `ConfigFile` save. What happens between signal and
  return to a running upgrade is `Daemon`'s.
* `ConfigFileProofs`, `StartupProofs` – the proofs about them.
* `PinFetch` – `fetch_fingerprint`: the addresses of a node in turn (`Connect`), a handshake thread
  each (`Handshake`) and the main thread that waits for it (`Receive`, `TimesOut`). A thread that was
  given up goes on and shares the verifier with later attempts.
* `StatusFanout` (extends `PinFetch`) – `run_status`: the pin checks, the channel and its senders,
  the discovery thread (`SendFound`, `EndBrowser`), the loop of the rayon scope (`SpawnJob`, `EndLoop`),
  which itself keeps a worker, the jobs (`StartJob`, `EndJob`) and the summary.
* `StatusProofs` – the proofs about both.
* `Keyring` – `ca init`, `ca migrate`, `cert issue` for clients and daemons and `build_client`, one
  action per read, write or delete of a keyring entry. Invocations overlap (a `WriteStep` tells the
  others that they are not alone), single calls fail, and invocations are killed anywhere.
* `KeyringProofs`, `KeyringAloneProofs` – types; and what an invocation may rely on while nobody else
  writes.
* `MCDaemon`, `MCCliConfig`, `MCStartup`, `MCKeyring` – settings and symmetry for TLC.

Operators marked `MUTANT of X` in the modules are `X` with a plausible bug. They are not
part of the models; each shows that a property is sensitive to the code it is about.

## Runs

| Run | Instance | Shows |
|---|---|---|
| `daemon_safety` | 3 upgrades, 1 reboot, 2 workers, 5 kinds of settings | `OneUpgrade`, `OverlapOnlyAfterCancel`, `WorkerLeftForUpgrade`, refinement of `UpgradeSlot` |
| `daemon_liveness` | 2 upgrades, 1 reboot, 2 workers | the shutdown wait ends even if the upgrade command hangs; if commands end, upgrades end and the daemon exits |
| `daemon_stale_handle` | as `daemon_safety` | **violated**: main may await a finished task and leave a running upgrade |
| `daemon_reboot` | 2 upgrades, 1 reboot | **violated**: a reboot command runs under an upgrade |
| `package_cache` | 2 requests, one pool thread, TTL 2, 5 instants | credit only for refreshes, redundant refreshes only of overlapping requests, every request settles |
| `cli_config` | 1 invocation at a time, 2 hosts (one without id), 2 addresses, 2 certificates | unique names, pins stay with their addresses, what nobody else wrote is kept |
| `cli_overlap` | 2 invocations, 1 host without id, 2 addresses, 2 certificates, 2 nodes | when invocations overlap: pins stay with their addresses, and only what others wrote since the read is lost |
| `startup` | ports 1 to 3, 2 writers, 2 configurations, an expired and a valid bundle, 1 crash, 2 changes | whole configurations, valid leaves, the lowest free port, the announced port is another program's only if it was lost between probe and bind or after the service, every start settles |
| `status` | 3 addresses, 2 of them nodes with 2 sockets each, 1 to 3 workers | pins of the right node and before the request, one request and one report per address, the command ends |
| `keyring` | 2 invocations, 5 key pairs (4 where they overlap), 2 failures | one failure never mixes two CAs, what is issued fits the CA, identities match, a failure costs a migration one credential at most, only `--force` replaces |
| `cli_pin_overwritten` | 2 named hosts | **violated**: a pin is replaced without `--repin` |
| `cli_mismatch` | 2 named hosts | **violated**: a node with a fingerprint mismatch is sent the request |

Bounds. Three upgrade requests are the least with which a handler can be overtaken by
another upgrade while a third is refused; two workers are the least with which two
handlers interleave, and a blocked handler and the awaited task compete. Reboots do not
interact with each other, so one is enough. For the cache, two requests overlap in every
way, a one-thread pool makes commands queue, and five instants let a TTL of two expire
twice. Two hosts, two addresses and two certificates are the least with which hosts swap
addresses and a certificate differs from its pin. `MaxNodes` (2) leaves out the longer lists
that a host without an id can cause, which is appended again when it is not found at its
address; `MaxNodes` 3 gives the same results (3.8 million states, five minutes on two cores). Two overlapping invocations cover every pair of load and save. `cli_overlap`
has one host without an id: found at its second address it is appended, so that there are two nodes, of which one
invocation may write one while the other holds a copy of both. It says nothing about names; names come from one
invocation's merge into one file, which `cli_config` covers. `FewServed` follows the host there through two pairs of
address and certificate (it moves, gets a new certificate, or both). Addresses, certificates and invocations are
interchangeable and TLC identifies states that differ in them only; the runs with liveness
properties use no symmetry.

`startup`: three ports are the least with a first, a middle and a last one; at first either the
first two or all of them are taken (`FirstTaken`), so the hunt succeeds only at the last port or
fails, and `MaxChanges` (2) lets one be released and another be lost, or a writer and `cert issue`
run during one start. `MaxCrashes` is 1 there: two writers, a kill and what the next one finds.
Port 0 in a configuration ends `main` at once and is not in the instance.
`status`: a profile of two nodes lets one handshake be abandoned while the other node is
checked; two sockets per node let an attempt be overtaken by the next; the third address is found
by discovery only. With one worker the loop of the scope keeps it until the channel is closed.
The run has `CHECK_DEADLOCK FALSE`: the command ends.
`keyring`: `MaxKeys` 5 is the pairs of the legacy store and three new ones, so that a leaf is issued after two CAs were
made; where invocations overlap, `FewKeys` stops at two new ones (without that bound there are 5.9 million states and the same
results); two faults are a failure and
its repair that fails too. `Fault` and `overlapped` exclude each other: a behaviour has failures or
overlapping invocations, which keeps the instance small; the proofs do not depend on it in what
they show (they hold for any `MaxFaults`), but behaviours with both are not in the model.

### What the violated runs found

1. `daemon_stale_handle`: request *a* claims, spawns, and is preempted; its task ends and
   frees the flag; request *b* claims, spawns and stores its handle; *a* now stores its own
   over it. Shutdown awaits *a*'s finished task and exits under *b*'s upgrade. It needs two
   workers. A handle stored before the flag can be freed, or under it, would not be overtaken.
2. `daemon_reboot`: `reboot_handler` loads `is_upgrading` once. Between the load and the reboot
   command (after `delay_secs`) an upgrade may be triggered.
3. `cli_pin_overwritten`: host *h2* comes up at the address recorded for *h1*. `merge_nodes` finds
   it by name and moves it there: two nodes, one address, *h1* first and pinned. The next
   `status` learns *h2*'s certificate, and `update_node_fingerprint` writes it to the first node
   with that address, *h1*. *h1*'s pin has changed without `--repin`.
4. `cli_mismatch`: `validate_and_update_pins` prints the mismatch, and `run_status` and `run_node`
   go on with every target. `run_version` skips the node, as the plan says.

### What else the models show

These follow from the conditions the properties carry; each was found by leaving the condition out.

* `OneFaultKeepsCA` holds of CAs that were made here. `ca migrate` decides about each entry on its own
  (`ca.rs:162`): if `ca init` or `cert issue` was killed between the two writes of a new CA, a later migration finds
  the certificate in conflict and the key missing, and puts the legacy key next to the new certificate
  (`OldCAInUse`).
* When `ca migrate` finds the CA incomplete it advises `brewmble ca init` (`cli/src/main.rs:584`), which
  refuses, without `--force`, as soon as the certificate is there and the key is not.
* Two failures can mix two CAs without a migration: `ca init --force` whose second delete fails and that is killed after the
  write of the new certificate. Nothing notices: `ensure_ca` takes the two entries for a CA, and `cert issue` signs
  with the key of one and hands out the certificate of the other, which does not verify the leaf. `IssuedIsConsistent`
  therefore states that certificate and leaf fit for histories with one failure, no overlap and no entry of the old CA, and only
  that they are the two entries of the keyring otherwise.
* `cert issue --kind daemon` reads the CA twice; under a concurrent `ca init --force` its `ca.pem` is of one CA and its
  leaf of another. A client that connects while `cert issue` stores a new pair may read halves of two.
  `IssuedIsConsistent` and `IdentityMatches` leave both out.
* A migration that is killed between its delete and its write has lost that credential; `LossesAreFailures` says that it is one.
* Overlapping writers of one configuration share its `.tmp` file: the second truncates what the first is about
  to rename (`CompleteUnlessOverlap`, `SavedIsThere`), and `config init` without `--force` replaces a configuration that
  another writer installed after its look (`InitKeepsConfig`).
* An invocation of the CLI overwrites what another one wrote to the node list since it read it (`UntouchedIsKept` is about all
  the rest).
* If the bind fails for any reason, the port being lost after the probe included, or a signal handler cannot be installed, `main`
  logs it and returns Ok, and a service manager that restarts on failure (`docs/brewmbled.service.sample:13`) does
  not.
* From the announcement to the bind, and again from the end of the service to the return of `main` (up to 30 s when it waits for an
  upgrade), the port is announced and nobody, or another program, listens on it (`AnnouncedPortIsOurs`).
* With `--all`, a node of the profile that only the discovery brings up is asked without a pin check
  (`CheckedBeforeAsked` exempts it).
* A late handshake of an abandoned attempt may leave its certificate in the verifier that the next attempt
  of the same node is read from; both were verified for that node's name (`PinOfThisNode`).
* `run_cleanup` is synchronous: on a host with one worker a cleanup command that never ends keeps the thread that
  drives the timer of the shutdown wait. `HangingSpec` therefore assumes that cleanup commands end.

## Fairness

`SchedulerFairness` (`Daemon`): a poll that has begun continues, a free worker picks up a
ready task, the pool starts what is queued, `main` goes on and its timer fires when a worker
can drive it. This is what tokio and the operating system provide. No request and no signal
need ever arrive, and reboot commands need not end. `CleanupFairness` and `CommandFairness` are
about the package manager's commands and are stated where they are needed: `HangingSpec` lets
the upgrade command hang, and `UpgradeEnds` and `DaemonExits` assume `CommandFairness` explicitly. The handlers, the mutex and the tasks need weak fairness
only: none of their steps is disabled again and again by others for ever.

`FairSpec` (`PackageCache`): the runtime resumes a request whose command is done, the pool
starts queued commands, commands end. Nothing makes a request be dropped or the clock tick.

`Startup`: `WF(DaemonStep)`, since `main` is polled whenever it can go on; this takes for granted that the version command of the
package manager ends. Nothing makes the daemon start, a
signal arrive, or anything around it happen.

`StatusFanout`: the main thread, the jobs and the end of the discovery are fair, because threads are scheduled and
requests and browsing have timeouts. Handshakes are not: a server may hang for ever, and the wait for it is what
has the timeout.

`CliConfig`, `ConfigFile` on its own and `Keyring` have safety properties only.

## Proofs

`DaemonProofs` proves for any finite set of requests, any number of workers and any settings:

* `TypeCorrect`: `Spec => []TypeOK`.
* `SingleUpgrade`: `Spec => []OneUpgrade`. `OneUpgrade` alone is not inductive: nothing in it
  says that a request that has not claimed has no task. `OneUpgradeInv` adds `TypeOK` and
  `HandlerFirst` (a task exists only once its handler spawned it).
* `OverlapNeedsCancel`: from `OneUpgradeInv` and `PoolOwned` (a command on the pool belongs to a
  task that awaits it or was cancelled while it did). Two commands with no cancelled task would
  be two holders.
* `ShutdownKeepsWorker`: from `HandleReturned` (a stored or taken handle is that of a handler that
  has given its worker back) and `RoomForUpgrade` (while such an upgrade lives, the handlers in
  their poll leave a worker: the flag admits no new one).
* `RebootFindsNoUpgrade`, from `OneUpgradeInv` and `PoolOwned`: when a reboot passes the check of `reboot_handler`, no
  upgrade task is alive, and a command still on the pool was left by a cancelled one. What the run `daemon_reboot`
  shows comes after the check.
* `OneWorkerJoins`: with `Workers = 1`, `AcknowledgedUpgradeJoined` holds; with two, the run `daemon_stale_handle`
  refutes it. `SpawnedUnpolled`: a handler keeps the only worker until it has stored its handle, so its task is alive
  then and, by `OneUpgrade`, nobody else's is; hence the handle stored or taken is that of the upgrade alive
  (`HandleOfLive`).
* `DaemonImplementsSlot`: `Spec => Slot!Spec`, by the uniqueness of the holder.

`PackageCacheProofs` proves for any finite set of requests, any TTL and any pool size:

* `CacheTypeCorrect`: `Spec => []TypeOK`.
* `CreditIsEarned`: `Spec => CreditForRefresh`: the request that sets `last_update` has run an update that succeeded, and the
  index was refreshed at or after that request's look at the cache. From `RefreshSeen`: when the update a request
  awaits has succeeded, the index was refreshed after its look.
* `UpdatesOverlap`: `Spec => RedundantUpdateOverlaps`, from `CheckedStale` (what a request saw
  when it decided to update is still true unless somebody has set `last_update` since).

`ConfigFileProofs` and `StartupProofs` prove every safety property of the run `startup`, for any writers,
contents, ports, bundles, crashes and changes:

* `FileTypeCorrect`, `CompleteConfig`, `SavesAreThere`, `InitKeepsExisting` about `FileSpec`. `AloneInv`: without
  overlap at most one writer is at work, the `.tmp` file has what its step left there and was synced before the
  rename. `WholeInv` adds that every older configuration a power loss may bring back was whole.
* `StartupHasFile`: each step of `Startup` is one of `FileNext` or leaves `fileVars` unchanged, that is,
  `Spec => FileSpec`, so the same invariants carry over:
  `StartupReadsWhole`, `StartupSavesAreThere`, `StartupKeepsConfig`; `StartupTypeCorrect`.
* `ServesValidLeaf` from `LeafInv`: `cert issue` writes valid bundles only, so from the date check on
  the certificate file is empty, missing or of a valid bundle, and what `load_tls_config` accepts has one bundle's
  certificate and key.
* `HuntsLowestFree` and `AnnouncesOwnPort` (`AnnouncedPortIsOurs`) from `PortInv`: every port below the one tried was
  found taken; from the probe to the bind the port is free unless it was lost, and from the bind on it is the daemon's; what is
  announced is that port.

`StatusProofs` proves every safety property of the run `status` (`StatusTypeCorrect`, `PinsAreOfTheirNode`,
`OneRequestEach`, `NobodyIsLeftOut`, `ChecksBeforeAsking`), for any nodes, sockets, addresses and workers.
`FetchInv` and `ShakeInv`: a leaf is of the node whose verifier holds it, and unless a handshake was
abandoned it is that of the attempt being waited for. `SeenInv`: the jobs that were asked are the addresses seen, one job each.
`ReportInv`: each asked job has one report, and `anyFailed` is what they say. `PhaseInv`: once the channel is
disconnected no target is unsent. `CheckInv`: given targets are sent only after the pin checks.

`CliConfigProofs` proves every safety property of the runs `cli_config` and `cli_overlap`, for any hosts, addresses,
certificates and overlapping invocations:

* `NamesStayUnique` and `PinsStayAtTheirAddress` from `ListInv`: the file and every copy an invocation holds have
  unique names and pins that were served at their address. `merge_nodes` searches by name first, so what it finds by
  address and renames gets a name that no node has; what moves loses its pin.
* `NodeListTypeCorrect` and `SavesKeepPins` (`UntouchedIsKept`) from `KeptInv`, which relates the copy of each invocation
  to the file it loaded, so that nothing needs to be said about what others do to the file meanwhile. `MergedOnce`: a search finds a host once, so `merge_nodes` moves a node by its name at most
  once and before it was touched in another way; whatever has its old address after all merges has its old pin.
  (Without the first part a node could move away, lose its pin and move back.) `PinsInPlace`: a check works on
  nodes of the loaded file and keeps every address, so with distinct addresses a learned fingerprint reaches the node it
  was learned for, which had none. Lemmas `SetPinIsLocal`, `MergeIsLocal` and `TargetsOfFile` say what
  `update_node_fingerprint` and `merge_nodes` change and what a command may be about.

`KeyringProofs` proves `KeyringTypeCorrect`; `KeyringAloneProofs` proves `ReadyOnlyWithCA`,
`OnlyForceReplaces` and `MigrationKeeps`, for any invocations that overlap and any number of keys and failures. The
invariant is `AloneInv`: an invocation nobody has overtaken knows the entries it has read or written (`CAFits`,
`LeafFits`, `MigrateFits`), and every CA key in the keyring, in the legacy store or in the hands of an invocation is
older than the next one made (`Fresh`): that is what makes a CA that is about to get a new certificate not whole. A
write by anybody else ends the promise, so a step needs to be looked at for its own invocation only (`OthersFit`).
`LossesAreFailures` is inductive together with the types: a step loses nothing, or is a failure and loses what its invocation
had in hand (`LosesInHand`).

`OneFaultKeeps` and `IdentityKept` are proved there from `SoleInv`, on top of `AloneInv` and the types, and
`IssuesConsistently` from all of them: `AloneInv` says that the leaf is signed with the key in the keyring and goes out with the
certificate there, `OneFaultKeepsCA` that the two belong together. It speaks of
histories without an overlap, so that at most one invocation is at work and both stores can be described by where it is:

* `CAHolds`, up to the first failure: the CA entries match, or one of them is from the old store, except while the key
  of a new CA is still to be written. A lone key stays behind only where the certificate has just been deleted; that
  failure is the one allowed, so the next `ca init` has no failure left to lose its second write to.
* `ClientHolds`, as long as nothing has failed: both stores hold whole client identities (`BothWhole`), or `cert issue`
  is between its two writes, or a migration has the certificate in hand (`CertInHand`) or has stored it and is about to
  bring the key after it (`CertMoved`).
* `ConnectHolds`: the reads of a client that connects fit the entries, which nobody changes in between.

The old store only holds what it held at the start or nothing (`OldEntries`).

The assumptions are the named ASSUMEs of the modules; TLC evaluates them in the runs.

Every invariant and every action property that a passing run checks is stated by a theorem. Only model-checked are the
liveness properties (`ShutdownWaitBounded`, `UpgradeEnds`, `DaemonExits`, `EveryRequestSettles`, `StartSettles`,
`StatusEnds`): fairness and ENABLED are out of the prover's reach. The four properties the code violates
have counterexamples in their runs; `OneWorkerJoins`, `RebootFindsNoUpgrade` and `SavesKeepPins` say how far three of them
hold.

## Abstractions

* Package lists, messages, HTTP, TLS, JSON and logging are left out. A command is its outcome.
* `CliConfig` takes a fetch of a fingerprint as one step that finds the certificate of the host at
  the address, or nobody; a slow host is one that is away during the step. `save_config` is one
  step that happens or fails. The order in which `status` sends its requests is that of the list
  (the code takes it from a hash set), and an address asked for twice is asked once in the code.
  A node named twice on one command line is
  not in it. Files edited by hand into states the program does not write (one name twice) are not initial
  states.
* A host's id is its name. Two hosts with one name are outside the model.
* The is_upgrading snapshot in the answer of `GET /status` is not modelled.

* `Keyring`: a certificate is the number of its key pair and of its signer. Names, dates and the PEM text are left
  out; so is `ca show`, which only reads. Keyring errors are the failed calls bounded by `MaxFaults`.
* `Startup`: a bundle is what one `cert issue` writes. The search for the configuration file, the parser, the
  warnings and the messages of the validation are left out: what counts is which read decides what.
* `StatusFanout`: an answer is its outcome; sorting and printing of the summary and the progress bars are left out.

## Not modelled

* Profile commands (`profile create`, `use`, `list`, `delete`, `edit`), the migration of old CLI files and the
  printing of node details: sequential edits of a map, or reads. That they share the configuration file with
  everything else is the part with a hazard and is in `CliConfig` and `ConfigFile`.
* `config edit` (an editor on the file itself), `config show` and `config validate` (reads).
* What package manager detection chooses: a choice by target system; its result is `settings.pm_available`. That it takes time
  between announcement and bind is in `Startup`.
* mDNS itself. The announcement is what `main` has registered: when `main` is gone, so is it. A record that a kill, a power
  loss, or an `mdns.shutdown()` that failed or had no time left to the network expires by its own time to live.
* Parsing of URLs, YAML and command lines, progress display, sanitising of output, message types.
* `update_interval_mins * 60` overflows for huge values; the multiplication is made once and no step follows that a
  model would add anything to.
* `web/`, build files, container and service samples have no program logic.

## Plan

What is left, most important first:

1. `status --all` in `CliConfig`: requests to targets that are in no profile.
2. The profile commands as further invocations of `CliConfig`.
3. The safety half of the liveness properties as theorems: while a request, an upgrade or a report is outstanding, the
   guard of a fair action holds.
