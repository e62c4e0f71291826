----------------------------- MODULE ConfigFile -----------------------------
(***************************************************************************)
(* write_config_atomically of the CLI and of the daemon: every writer of   *)
(* one configuration file fills the same .tmp file, syncs it and renames   *)
(* it over the configuration.  Writers may overlap, be killed between two  *)
(* calls or within the write, and the power may fail.                      *)
(*                                                                         *)
(* A handle follows the file it was opened on: what is renamed from .tmp   *)
(* to the configuration is still written by those that have it open.       *)
(***************************************************************************)
EXTENDS Naturals, FiniteSets

CONSTANTS Writers,         \* invocations that may overlap
          Contents,        \* the configurations that are written
          Missing, Empty,  \* no such file, a file of no bytes
          Torn,            \* bytes that are no whole configuration
          MaxCrashes       \* bound on kills, failed calls and power losses

ASSUME ContentsAssumption == {Missing, Empty, Torn} \cap Contents = {}
ASSUME MissingAssumption  == Missing # Empty /\ Missing # Torn /\ Empty # Torn
ASSUME CrashesAssumption  == MaxCrashes \in Nat

Data  == Contents \cup {Missing, Empty, Torn}
Files == [data : Data, synced : BOOLEAN]

VARIABLES
    config,     \* the file under the configuration's name
    tmp,        \* the file under the .tmp name
    before,     \* what the name may fall back to when the power fails
    writer,     \* the invocations
    crashes,    \* history: kills, failed calls and power losses
    overlapped  \* history: have two invocations ever overlapped?

fileVars == <<config, tmp, before, writer, crashes, overlapped>>

NoWriter == [at |-> "idle", data |-> Missing, force |-> FALSE, file |-> "none", alone |-> TRUE]

OnDisk(d) == [data |-> d, synced |-> TRUE]

FileInit ==
    /\ config \in {OnDisk(d) : d \in Contents \cup {Missing}} /\ tmp = OnDisk(Missing)
    /\ before = {} /\ crashes = 0 /\ overlapped = FALSE
    /\ writer = [w \in Writers |-> NoWriter]

-----------------------------------------------------------------------------
Writing(w) == writer[w].at # "idle"

Goes(w, at) == writer' = [writer EXCEPT ![w].at = at]

Crash == crashes < MaxCrashes /\ crashes' = crashes + 1

NoCrash == UNCHANGED <<crashes, overlapped>>

(* An invocation that is to write d: a save, or config init, which without *)
(* --force looks first.  Whom it overlaps is not alone any more.           *)
Begin(w) ==
    /\ ~Writing(w)
    /\ \E d \in Contents, force \in BOOLEAN :
          writer' = [o \in Writers |->
              IF o = w THEN [NoWriter EXCEPT !.data = d, !.force = force,
                                             !.at = IF force THEN "open" ELSE "exists",
                                             !.alone = \A x \in Writers : ~Writing(x)]
              ELSE [writer[o] EXCEPT !.alone = @ /\ ~Writing(o)]]
    /\ overlapped' = (overlapped \/ \E x \in Writers : Writing(x))
    /\ UNCHANGED <<config, tmp, before, crashes>>

(* MUTANT of Exists: the look is left out. *)
ExistsUnchecked(w) ==
    /\ writer[w].at = "exists" /\ Goes(w, "open")
    /\ UNCHANGED <<config, tmp, before>> /\ NoCrash

(* config init refuses to overwrite. *)
Exists(w) ==
    /\ writer[w].at = "exists"
    /\ IF config.data # Missing THEN writer' = [writer EXCEPT ![w] = NoWriter] ELSE Goes(w, "open")
    /\ UNCHANGED <<config, tmp, before>> /\ NoCrash

(* MUTANT of Open: what another left in the .tmp file is not cut off. *)
OpenAsItIs(w) ==
    /\ writer[w].at = "open"
    /\ tmp' = [data |-> IF tmp.data = Missing THEN Empty ELSE tmp.data, synced |-> FALSE]
    /\ writer' = [writer EXCEPT ![w].at = "write", ![w].file = "tmp"]
    /\ UNCHANGED <<config, before>> /\ NoCrash

(* create and truncate. *)
Open(w) ==
    /\ writer[w].at = "open"
    /\ tmp' = [data |-> Empty, synced |-> FALSE]
    /\ writer' = [writer EXCEPT ![w].at = "write", ![w].file = "tmp"]
    /\ UNCHANGED <<config, before>> /\ NoCrash

(* The file behind w's handle. *)
Becomes(w, f) ==
    /\ config' = IF writer[w].file = "config" THEN f ELSE config
    /\ tmp'    = IF writer[w].file = "tmp" THEN f ELSE tmp

Behind(w) == CASE writer[w].file = "config" -> config
               [] writer[w].file = "tmp"    -> tmp
               [] OTHER                     -> OnDisk(Empty)

(* The bytes go to the start of the file; longer ones of another stay. *)
Write(w) ==
    /\ writer[w].at = "write"
    /\ \E d \in IF Behind(w).data \in {Empty, writer[w].data} THEN {writer[w].data}
                                                          ELSE {writer[w].data, Torn} :
          Becomes(w, [data |-> d, synced |-> FALSE])
    /\ Goes(w, "sync")
    /\ UNCHANGED before /\ NoCrash

(* MUTANT of Sync: no sync_all. *)
SyncLater(w) ==
    /\ writer[w].at = "sync" /\ Goes(w, "rename")
    /\ UNCHANGED <<config, tmp, before>> /\ NoCrash

Sync(w) ==
    /\ writer[w].at = "sync" /\ Goes(w, "rename")
    /\ Becomes(w, [Behind(w) EXCEPT !.synced = TRUE])
    /\ UNCHANGED before /\ NoCrash

(* The rename; it fails if another has already renamed the .tmp file.      *)
(* Handles on the old configuration lose their name.                       *)
Rename(w) ==
    /\ writer[w].at = "rename"
    /\ IF tmp.data = Missing
       THEN writer' = [writer EXCEPT ![w] = NoWriter] /\ UNCHANGED <<config, tmp, before>>
       ELSE /\ config' = tmp /\ tmp' = OnDisk(Missing) /\ before' = before \cup {config.data}
            /\ writer' = [o \in Writers |->
                  LET file == writer[o].file
                  IN  [writer[o] EXCEPT !.at = IF o = w THEN "done" ELSE @,
                                        !.file = CASE file = "tmp"    -> "config"
                                                   [] file = "config" -> "gone"
                                                   [] OTHER           -> file]]
    /\ NoCrash

(* The invocation reports success. *)
Saved(w) ==
    /\ writer[w].at = "done" /\ writer' = [writer EXCEPT ![w] = NoWriter]
    /\ UNCHANGED <<config, tmp, before>> /\ NoCrash

(* The invocation is killed or a call fails; within the write a part of    *)
(* the bytes may be there.                                                 *)
Killed(w) ==
    /\ Writing(w) /\ Crash
    /\ \/ UNCHANGED <<config, tmp>>
       \/ writer[w].at = "write" /\ Becomes(w, [data |-> Torn, synced |-> FALSE])
    /\ writer' = [writer EXCEPT ![w] = NoWriter]
    /\ UNCHANGED <<before, overlapped>>

(* Bytes that were not synced may be gone, renames may be undone.  (What   *)
(* is left in a .tmp file is never read.)                                  *)
Lost(f) == IF f.synced THEN {f.data} ELSE {f.data, Empty, Torn}

PowerLoss ==
    /\ Crash
    /\ \E d \in Lost(config) \cup before : config' = OnDisk(d)
    /\ \E d \in {tmp.data, Missing} : tmp' = OnDisk(d)
    /\ before' = {} /\ writer' = [w \in Writers |-> NoWriter]
    /\ UNCHANGED overlapped

Continue(w) ==
    \/ Exists(w) \/ Open(w) \/ Write(w) \/ Sync(w)
    \/ Rename(w) \/ Saved(w) \/ Killed(w)

FileNext == (\E w \in Writers : Begin(w) \/ Continue(w)) \/ PowerLoss

FileSpec == FileInit /\ [][FileNext]_fileVars

-----------------------------------------------------------------------------
(* Properties. *)

(* Types: nobody writes, syncs or renames without the handle it needs. *)
FileTypeOK ==
    /\ config \in Files /\ tmp \in Files /\ before \subseteq Data
    /\ crashes \in 0 .. MaxCrashes /\ overlapped \in BOOLEAN
    /\ writer \in [Writers -> [at : {"idle", "exists", "open", "write", "sync", "rename", "done"},
                               data : Data, force : BOOLEAN,
                               file : {"none", "tmp", "config", "gone"}, alone : BOOLEAN]]
    /\ \A w \in Writers :
          /\ writer[w].at \in {"write", "sync", "rename", "done"} <=> writer[w].file # "none"
          /\ writer[w].at # "idle" => writer[w].data \in Contents

(* write_config_atomically: whoever reads the configuration finds none or  *)
(* a whole one, wherever writers were killed and whenever the power failed *)
(* (it then may find an older one); unless two writers ever overlapped:    *)
(* the .tmp file is one for all, and the second cuts off what the first is *)
(* about to rename.                                                        *)
CompleteUnlessOverlap ==
    ~overlapped => config.data \in Contents \cup {Missing}

(* A save that was never overlapped and reports success is what is read,   *)
(* also over the remains of killed ones.                                   *)
SavedIsThere ==
    \A w \in Writers : writer[w].at = "done" /\ writer[w].alone => config.data = writer[w].data

(* config init without --force never takes the place of a configuration,   *)
(* unless another writer overlapped it between its look and its rename.    *)
InitKeepsConfig ==
    [][ \A w \in Writers :
          /\ writer[w].at = "rename" /\ writer'[w].at = "done"
          /\ writer[w].alone /\ ~writer[w].force
          => config.data = Missing ]_fileVars
=============================================================================
