-------------------------- MODULE ConfigFileProofs --------------------------
(***************************************************************************)
(* What write_config_atomically guarantees, for any number of writers, any *)
(* configurations and any number of kills and power losses.                *)
(***************************************************************************)
EXTENDS ConfigFile, TLAPS

(* A writer that was never overlapped works on a .tmp file of its own.     *)
(* (A conjunct per thing a later step of it relies on.)                    *)
Undisturbed(w) ==
    /\ \A x \in Writers : Writing(x) => x = w
    /\ writer[w].at \in {"write", "sync", "rename"} => writer[w].file = "tmp"
    /\ writer[w].at = "write" => tmp.data = Empty
    /\ writer[w].at \in {"sync", "rename"} => tmp.data = writer[w].data
    /\ writer[w].at = "rename" => tmp.synced
    /\ writer[w].at = "done" => config.data = writer[w].data
    /\ writer[w].at \in {"open", "write", "sync", "rename"} /\ ~writer[w].force =>
         config.data = Missing

AloneInv == \A w \in Writers : Writing(w) /\ writer[w].alone => Undisturbed(w)

(* Without overlaps every writer is alone, what the configuration's name   *)
(* stands for is on disk, and so is what it may fall back to.              *)
WholeInv ==
    ~overlapped =>
        /\ \A w \in Writers : Writing(w) => writer[w].alone
        /\ config.data \in Contents \cup {Missing} /\ config.synced
        /\ before \subseteq Contents \cup {Missing}

-----------------------------------------------------------------------------
(* Types. *)

Invocation == [at : {"idle", "exists", "open", "write", "sync", "rename", "done"},
               data : Data, force : BOOLEAN,
               file : {"none", "tmp", "config", "gone"}, alone : BOOLEAN]

(* What FileTypeOK says of one invocation. *)
InvocationOK(me) ==
    /\ me \in Invocation
    /\ me.at \in {"write", "sync", "rename", "done"} <=> me.file # "none"
    /\ me.at # "idle" => me.data \in Contents

InvocationsOK == writer \in [Writers -> Invocation] /\ \A w \in Writers : InvocationOK(writer[w])

FilesOK ==
    /\ config \in Files /\ tmp \in Files /\ before \subseteq Data
    /\ crashes \in 0 .. MaxCrashes /\ overlapped \in BOOLEAN

LEMMA TypesSplit == FileTypeOK <=> FilesOK /\ InvocationsOK
BY DEF FileTypeOK, FilesOK, InvocationsOK, InvocationOK, Invocation

LEMMA NoWriterOK == InvocationOK(NoWriter)
BY DEF InvocationOK, Invocation, NoWriter, Data

(* A step that replaces one invocation by another of the type. *)
LEMMA OneChanges ==
  ASSUME InvocationsOK, NEW w \in Writers, NEW me, InvocationOK(me),
         writer' = [writer EXCEPT ![w] = me]
  PROVE  InvocationsOK'
BY DEF InvocationsOK, InvocationOK

(* A step that only moves an invocation on to its next step. *)
LEMMA OneGoes ==
  ASSUME InvocationsOK, NEW w \in Writers, NEW at \in {"exists", "open", "write", "sync", "rename", "done"},
         Goes(w, at), writer[w].at # "idle",
         at \in {"write", "sync", "rename", "done"} <=> writer[w].file # "none"
  PROVE  InvocationsOK'
<1>1. InvocationOK(writer[w])
  BY DEF InvocationsOK
<1>2. InvocationOK([writer[w] EXCEPT !.at = at])
  BY <1>1 DEF InvocationOK, Invocation
<1>3. writer' = [writer EXCEPT ![w] = [writer[w] EXCEPT !.at = at]]
  BY DEF Goes
<1> QED BY <1>2, <1>3, OneChanges

(* Files are made of data. *)
LEMMA MakesFile ==
  ASSUME NEW d \in Data, NEW b \in BOOLEAN
  PROVE  [data |-> d, synced |-> b] \in Files /\ OnDisk(d) \in Files
BY DEF Files, OnDisk

LEMMA SpecialData == {Missing, Empty, Torn} \subseteq Data /\ Contents \subseteq Data
BY DEF Data

(* A file has data. *)
LEMMA FileHasData ==
  ASSUME NEW f \in Files
  PROVE  f.data \in Data /\ f.synced \in BOOLEAN
BY DEF Files

LEMMA TypesInitial == FileInit => FilesOK /\ InvocationsOK
<1> SUFFICES ASSUME FileInit PROVE FilesOK /\ InvocationsOK
  OBVIOUS
<1>1. FilesOK
  <2>1. config \in Files /\ tmp \in Files
    BY MakesFile, SpecialData DEF FileInit
  <2>2. crashes \in 0 .. MaxCrashes
    BY CrashesAssumption DEF FileInit
  <2>3. before \subseteq Data /\ overlapped \in BOOLEAN
    BY Zenon DEF FileInit
  <2> QED BY <2>1, <2>2, <2>3 DEF FilesOK
<1>2. InvocationsOK
  BY NoWriterOK DEF FileInit, InvocationsOK, InvocationOK
<1> QED BY <1>1, <1>2

(* What is behind a handle is a file. *)
LEMMA BehindIsFile ==
  ASSUME FilesOK, NEW w \in Writers
  PROVE  Behind(w) \in Files
BY DEF FilesOK, Behind, OnDisk, Files, Data

LEMMA FilesInductive == FilesOK /\ InvocationsOK /\ [FileNext]_fileVars => FilesOK'
<1> USE DEF FilesOK
<1> SUFFICES ASSUME FilesOK, InvocationsOK, [FileNext]_fileVars
             PROVE  FilesOK'
  OBVIOUS
<1>0. [data |-> Empty, synced |-> FALSE] \in Files /\ [data |-> Torn, synced |-> FALSE] \in Files
  BY MakesFile, SpecialData
<1>1. ASSUME NEW w \in Writers, Begin(w)
      PROVE  FilesOK'
  BY <1>1 DEF Begin
<1>2. ASSUME NEW w \in Writers, Exists(w) \/ Open(w) \/ Saved(w)
      PROVE  FilesOK'
  BY <1>0, <1>2 DEF Exists, Open, Saved, NoCrash
<1>3. ASSUME NEW w \in Writers, Write(w)
      PROVE  FilesOK'
  <2>1. writer[w].data \in Data
    BY DEF InvocationsOK, Invocation
  <2>2. [data |-> writer[w].data, synced |-> FALSE] \in Files
    BY <2>1, MakesFile
  <2>3. PICK d \in {writer[w].data, Torn} : Becomes(w, [data |-> d, synced |-> FALSE])
    BY <1>3 DEF Write
  <2>4. config' \in Files /\ tmp' \in Files
    BY <1>0, <2>2, <2>3 DEF Becomes
  <2> QED BY <1>3, <2>4 DEF Write, NoCrash
<1>4. ASSUME NEW w \in Writers, Sync(w)
      PROVE  FilesOK'
  <2>1. [Behind(w) EXCEPT !.synced = TRUE] \in Files
    BY BehindIsFile DEF Files
  <2> QED BY <1>4, <2>1 DEF Sync, Becomes, NoCrash
<1>5. ASSUME NEW w \in Writers, Rename(w)
      PROVE  FilesOK'
  <2>1. config.data \in Data /\ OnDisk(Missing) \in Files
    BY FileHasData, MakesFile, SpecialData
  <2> QED BY <1>5, <2>1 DEF Rename, NoCrash
<1>6. ASSUME NEW w \in Writers, Killed(w)
      PROVE  FilesOK'
  <2>1. config' \in Files /\ tmp' \in Files
    BY <1>0, <1>6 DEF Killed, Becomes
  <2> QED BY <1>6, <2>1, CrashesAssumption DEF Killed, Crash
<1>7. CASE PowerLoss
  <2>1. config.data \in Data /\ tmp.data \in Data
    BY FileHasData
  <2>2. Lost(config) \cup before \subseteq Data
    BY <2>1, SpecialData DEF Lost
  <2>3. config' \in Files /\ tmp' \in Files
    BY <1>7, <2>1, <2>2, SpecialData, MakesFile DEF PowerLoss
  <2> QED BY <1>7, <2>3, CrashesAssumption DEF PowerLoss, Crash
<1>8. CASE UNCHANGED fileVars
  BY <1>8 DEF fileVars
<1> QED BY <1>1, <1>2, <1>3, <1>4, <1>5, <1>6, <1>7, <1>8 DEF FileNext, Continue

LEMMA InvocationsInductive == InvocationsOK /\ [FileNext]_fileVars => InvocationsOK'
<1> SUFFICES ASSUME InvocationsOK, [FileNext]_fileVars
             PROVE  InvocationsOK'
  OBVIOUS
<1>0. \A w \in Writers : InvocationOK(writer[w])
  BY DEF InvocationsOK
<1>1. ASSUME NEW w \in Writers, Begin(w)
      PROVE  InvocationsOK'
  <2>1. PICK d \in Contents, force \in BOOLEAN :
          writer' = [o \in Writers |->
              IF o = w THEN [NoWriter EXCEPT !.data = d, !.force = force,
                                             !.at = IF force THEN "open" ELSE "exists",
                                             !.alone = \A x \in Writers : ~Writing(x)]
              ELSE [writer[o] EXCEPT !.alone = @ /\ ~Writing(o)]]
    BY <1>1 DEF Begin
  <2>2. ASSUME NEW alone \in BOOLEAN
        PROVE  InvocationOK([NoWriter EXCEPT !.data = d, !.force = force,
                                             !.at = IF force THEN "open" ELSE "exists",
                                             !.alone = alone])
    BY DEF NoWriter, InvocationOK, Invocation, Data
  <2>3. ASSUME NEW o \in Writers, NEW alone \in BOOLEAN
        PROVE  InvocationOK([writer[o] EXCEPT !.alone = alone])
    BY <1>0 DEF InvocationOK, Invocation
  <2>4. ASSUME NEW o \in Writers
        PROVE  (writer[o].alone /\ ~Writing(o)) \in BOOLEAN
    OBVIOUS
  <2>5. ASSUME NEW o \in Writers
        PROVE  InvocationOK(writer'[o])
    BY <2>1, <2>2, <2>3, <2>4
  <2> QED BY <2>1, <2>5 DEF InvocationsOK, InvocationOK
<1>2. ASSUME NEW w \in Writers, Exists(w)
      PROVE  InvocationsOK'
  BY <1>0, <1>2, NoWriterOK, OneChanges, OneGoes DEF Exists, InvocationOK
<1>3. ASSUME NEW w \in Writers, Open(w)
      PROVE  InvocationsOK'
  <2>1. InvocationOK([writer[w] EXCEPT !.at = "write", !.file = "tmp"])
    BY <1>0, <1>3 DEF Open, InvocationOK, Invocation
  <2>2. writer' = [writer EXCEPT ![w] = [writer[w] EXCEPT !.at = "write", !.file = "tmp"]]
    BY <1>3 DEF Open, InvocationsOK
  <2> QED BY <2>1, <2>2, OneChanges
<1>4. ASSUME NEW w \in Writers, Write(w) \/ Sync(w)
      PROVE  InvocationsOK'
  BY <1>0, <1>4, OneGoes DEF Write, Sync, InvocationOK
<1>5. ASSUME NEW w \in Writers, Rename(w)
      PROVE  InvocationsOK'
  <2>1. CASE writer' = [writer EXCEPT ![w] = NoWriter]
    BY <2>1, NoWriterOK, OneChanges
  <2>2. CASE tmp.data # Missing
    <3>1. ASSUME NEW o \in Writers
          PROVE  InvocationOK(writer'[o])
      <4>1. PICK at \in {"done", writer[o].at}, file \in {"config", "gone", writer[o].file} :
               /\ writer'[o] = [writer[o] EXCEPT !.at = at, !.file = file]
               /\ file = "none" <=> writer[o].file = "none"
               /\ at = "done" => o = w \/ writer[o].at = "done"
        BY <1>5, <2>2 DEF Rename
      <4>2. writer[w].at = "rename"
        BY <1>5 DEF Rename
      <4> QED BY <1>0, <4>1, <4>2 DEF InvocationOK, Invocation
    <3> QED BY <1>5, <2>2, <3>1 DEF Rename, InvocationsOK, InvocationOK
  <2> QED BY <1>5, <2>1, <2>2 DEF Rename
<1>6. ASSUME NEW w \in Writers, Saved(w) \/ Killed(w)
      PROVE  InvocationsOK'
  BY <1>6, NoWriterOK, OneChanges DEF Saved, Killed
<1>7. CASE PowerLoss
  BY <1>7, NoWriterOK DEF PowerLoss, InvocationsOK, InvocationOK
<1>8. CASE UNCHANGED fileVars
  BY <1>8 DEF fileVars, InvocationsOK, InvocationOK
<1> QED BY <1>1, <1>2, <1>3, <1>4, <1>5, <1>6, <1>7, <1>8 DEF FileNext, Continue

-----------------------------------------------------------------------------
(* Writers that are alone, and files that are whole. *)

TypesOK == FilesOK /\ InvocationsOK

(* Nobody is disturbed where there is no invocation. *)
LEMMA AloneInitial == FileInit => AloneInv /\ WholeInv
<1> SUFFICES ASSUME FileInit PROVE AloneInv /\ WholeInv
  OBVIOUS
<1>1. \A w \in Writers : ~Writing(w)
  BY DEF FileInit, Writing, NoWriter
<1>2. config.data \in Contents \cup {Missing} /\ config.synced /\ before = {}
  BY DEF FileInit, OnDisk
<1> QED BY <1>1, <1>2 DEF AloneInv, WholeInv

(* A step of w in which w goes on: the others are idle if it is alone.     *)
LEMMA OnlyOneMoves ==
  ASSUME AloneInv, NEW w \in Writers, Writing(w),
         writer[w].alone => Undisturbed(w)',
         \A o \in Writers \ {w} : writer'[o].alone = writer[o].alone
                                  /\ (Writing(o)' => Writing(o)),
         writer'[w].alone = writer[w].alone
  PROVE  AloneInv'
<1> SUFFICES ASSUME NEW x \in Writers, Writing(x)', writer'[x].alone
             PROVE  Undisturbed(x)'
  BY DEF AloneInv
<1>1. CASE x = w
  BY <1>1
<1>2. CASE x # w
  <2>1. Writing(x) /\ writer[x].alone
    BY <1>2
  <2>2. Undisturbed(x)
    BY <2>1 DEF AloneInv
  <2> QED BY <1>2, <2>2 DEF Undisturbed
<1> QED BY <1>1, <1>2

(* The invocation that is over leaves nobody who could be disturbed. *)
LEMMA LastOneStops ==
  ASSUME TypesOK, AloneInv, NEW w \in Writers, Writing(w),
         writer' = [writer EXCEPT ![w] = NoWriter]
  PROVE  AloneInv'
<1> SUFFICES ASSUME NEW x \in Writers, Writing(x)', writer'[x].alone
             PROVE  Undisturbed(x)'
  BY DEF AloneInv
<1>1. x # w
  BY DEF Writing, NoWriter, TypesOK, InvocationsOK
<1>2. writer'[x] = writer[x]
  BY <1>1 DEF TypesOK, InvocationsOK
<1>3. Undisturbed(x)
  BY <1>2 DEF AloneInv, Writing
<1> QED BY <1>1, <1>3 DEF Undisturbed

LEMMA AloneInductive == TypesOK /\ AloneInv /\ [FileNext]_fileVars => AloneInv'
<1> SUFFICES ASSUME TypesOK, AloneInv, [FileNext]_fileVars
             PROVE  AloneInv'
  OBVIOUS
<1> USE DEF TypesOK, Writing
<1>1. ASSUME NEW w \in Writers, Begin(w)
      PROVE  AloneInv'
  <2> SUFFICES ASSUME NEW x \in Writers, Writing(x)', writer'[x].alone
               PROVE  Undisturbed(x)'
    BY DEF AloneInv
  <2>1. PICK d \in Contents, force \in BOOLEAN :
          writer' = [o \in Writers |->
              IF o = w THEN [NoWriter EXCEPT !.data = d, !.force = force,
                                             !.at = IF force THEN "open" ELSE "exists",
                                             !.alone = \A y \in Writers : ~Writing(y)]
              ELSE [writer[o] EXCEPT !.alone = @ /\ ~Writing(o)]]
    BY <1>1 DEF Begin
  <2>2. x = w
    BY <2>1 DEF InvocationsOK, Invocation
  <2>3. \A y \in Writers : ~Writing(y)
    BY <2>1, <2>2 DEF NoWriter
  <2>4. \A y \in Writers : Writing(y)' => y = w
    BY <2>1, <2>3 DEF InvocationsOK, Invocation
  <2>5. writer'[x].at = (IF force THEN "open" ELSE "exists") /\ writer'[x].force = force
    BY <2>1, <2>2 DEF NoWriter
  <2> QED BY <2>2, <2>4, <2>5 DEF Undisturbed
<1>2. ASSUME NEW w \in Writers, Exists(w)
      PROVE  AloneInv'
  <2>1. CASE config.data # Missing
    BY <1>2, <2>1, LastOneStops DEF Exists
  <2>2. CASE config.data = Missing
    <3>1. writer' = [writer EXCEPT ![w].at = "open"] /\ UNCHANGED <<config, tmp>>
      BY <1>2, <2>2 DEF Exists, Goes
    <3>2. ASSUME Undisturbed(w)
          PROVE  Undisturbed(w)'
      BY <1>2, <2>2, <3>1, <3>2 DEF Undisturbed, Exists, InvocationsOK, Invocation
    <3> QED BY <1>2, <3>1, <3>2, OnlyOneMoves DEF AloneInv, Exists, InvocationsOK, Invocation
  <2> QED BY <2>1, <2>2
<1>3. ASSUME NEW w \in Writers, Open(w)
      PROVE  AloneInv'
  <2>1. ASSUME Undisturbed(w)
        PROVE  Undisturbed(w)'
    BY <1>3, <2>1 DEF Undisturbed, Open, InvocationsOK, Invocation
  <2> QED BY <1>3, <2>1, OnlyOneMoves DEF AloneInv, Open, InvocationsOK, Invocation
<1>4. ASSUME NEW w \in Writers, Write(w)
      PROVE  AloneInv'
  <2>1. ASSUME Undisturbed(w)
        PROVE  Undisturbed(w)'
    BY <1>4, <2>1 DEF Undisturbed, Write, Becomes, Behind, Goes, InvocationsOK, Invocation
  <2> QED BY <1>4, <2>1, OnlyOneMoves DEF AloneInv, Write, Goes, InvocationsOK, Invocation
<1>5. ASSUME NEW w \in Writers, Sync(w)
      PROVE  AloneInv'
  <2>1. ASSUME Undisturbed(w)
        PROVE  Undisturbed(w)'
    BY <1>5, <2>1 DEF Undisturbed, Sync, Becomes, Behind, Goes, InvocationsOK, Invocation,
                      FilesOK, Files
  <2> QED BY <1>5, <2>1, OnlyOneMoves DEF AloneInv, Sync, Goes, InvocationsOK, Invocation
<1>6. ASSUME NEW w \in Writers, Rename(w)
      PROVE  AloneInv'
  <2>1. CASE tmp.data = Missing
    BY <1>6, <2>1, LastOneStops DEF Rename
  <2>2. CASE tmp.data # Missing
    <3>1. config' = tmp /\ tmp' = OnDisk(Missing)
      BY <1>6, <2>2 DEF Rename
    <3>2. \A o \in Writers : /\ writer'[o].at = IF o = w THEN "done" ELSE writer[o].at
                             /\ writer'[o].data = writer[o].data
                             /\ writer'[o].alone = writer[o].alone
      <4> SUFFICES ASSUME NEW o \in Writers
                   PROVE  /\ writer'[o].at = IF o = w THEN "done" ELSE writer[o].at
                          /\ writer'[o].data = writer[o].data
                          /\ writer'[o].alone = writer[o].alone
        OBVIOUS
      <4>1. PICK file : writer'[o] = [writer[o] EXCEPT !.at = IF o = w THEN "done" ELSE @,
                                                       !.file = file]
        BY <1>6, <2>2 DEF Rename
      <4> QED BY <4>1 DEF InvocationsOK, Invocation
    <3>3. ASSUME Undisturbed(w)
          PROVE  Undisturbed(w)'
      BY <1>6, <3>1, <3>2, <3>3 DEF Undisturbed, Rename
    <3> QED BY <1>6, <3>2, <3>3, OnlyOneMoves DEF AloneInv, Rename
  <2> QED BY <2>1, <2>2
<1>7. ASSUME NEW w \in Writers, Saved(w) \/ Killed(w)
      PROVE  AloneInv'
  BY <1>7, LastOneStops DEF Saved, Killed
<1>8. CASE PowerLoss
  BY <1>8 DEF PowerLoss, AloneInv, NoWriter
<1>9. CASE UNCHANGED fileVars
  BY <1>9 DEF fileVars, AloneInv, Undisturbed
<1> QED BY <1>1, <1>2, <1>3, <1>4, <1>5, <1>6, <1>7, <1>8, <1>9 DEF FileNext, Continue

(* Without overlaps whatever the configuration's name stands for is whole  *)
(* and on disk.                                                            *)
LEMMA WholeInductive == TypesOK /\ AloneInv /\ WholeInv /\ [FileNext]_fileVars => WholeInv'
<1> SUFFICES ASSUME TypesOK, AloneInv, WholeInv, [FileNext]_fileVars, ~overlapped'
             PROVE  /\ \A w \in Writers : Writing(w)' => writer'[w].alone
                    /\ config'.data \in Contents \cup {Missing} /\ config'.synced
                    /\ before' \subseteq Contents \cup {Missing}
  BY DEF WholeInv
<1> USE DEF TypesOK, Writing
<1>0. ~overlapped
  BY DEF FileNext, Continue, Begin, Exists, Open, Write, Sync, Rename, Saved, Killed, PowerLoss,
         NoCrash, fileVars
<1>1. /\ \A w \in Writers : Writing(w) => writer[w].alone /\ Undisturbed(w)
      /\ config.data \in Contents \cup {Missing} /\ config.synced
      /\ before \subseteq Contents \cup {Missing}
  BY <1>0 DEF WholeInv, AloneInv
<1>2. ASSUME NEW w \in Writers, Begin(w)
      PROVE  \A o \in Writers : writer'[o].at # "idle" => writer'[o].alone
  <2>1. \A x \in Writers : writer[x].at = "idle"
    BY <1>0, <1>2 DEF Begin
  <2>2. PICK d \in Contents, force \in BOOLEAN :
          writer' = [o \in Writers |->
              IF o = w THEN [NoWriter EXCEPT !.data = d, !.force = force,
                                             !.at = IF force THEN "open" ELSE "exists",
                                             !.alone = \A x \in Writers : ~Writing(x)]
              ELSE [writer[o] EXCEPT !.alone = @ /\ ~Writing(o)]]
    BY <1>2 DEF Begin
  <2>3. writer'[w].alone
    BY <2>1, <2>2 DEF NoWriter
  <2>4. \A o \in Writers \ {w} : writer'[o].at = "idle"
    BY <2>1, <2>2 DEF InvocationsOK, Invocation
  <2> QED BY <2>3, <2>4
<1>3. ASSUME NEW w \in Writers, Rename(w)
      PROVE  /\ \A o \in Writers : writer'[o].at # "idle" => writer'[o].alone
             /\ config'.data \in Contents \cup {Missing} /\ config'.synced
             /\ before' \subseteq Contents \cup {Missing}
  <2>1. writer[w].at = "rename" /\ Undisturbed(w) /\ writer[w].data \in Contents
    BY <1>1, <1>3 DEF Rename, InvocationsOK, InvocationOK
  <2>2. tmp.data \in Contents /\ tmp.synced
    BY <2>1 DEF Undisturbed
  <2>3. tmp.data # Missing
    BY <2>2, ContentsAssumption
  <2>4. config' = tmp /\ before' = before \cup {config.data}
    BY <1>3, <2>3 DEF Rename
  <2>5. ASSUME NEW o \in Writers, writer'[o].at # "idle"
        PROVE  writer'[o].alone
    <3>1. PICK file : writer'[o] = [writer[o] EXCEPT !.at = IF o = w THEN "done" ELSE @,
                                                     !.file = file]
      BY <1>3, <2>3 DEF Rename
    <3>2. writer'[o].alone = writer[o].alone /\ (o # w => writer'[o].at = writer[o].at)
      BY <3>1 DEF InvocationsOK, Invocation
    <3> QED BY <1>1, <2>1, <2>5, <3>2
  <2> QED BY <1>1, <2>2, <2>4, <2>5
<1>4. ASSUME NEW w \in Writers, Exists(w) \/ Open(w) \/ Saved(w)
      PROVE  \A o \in Writers : writer'[o].at # "idle" => writer'[o].alone
  BY <1>1, <1>4 DEF Exists, Open, Saved, Goes, NoWriter, InvocationsOK, Invocation
<1>5. ASSUME NEW w \in Writers, Write(w) \/ Sync(w) \/ Killed(w)
      PROVE  /\ \A o \in Writers : writer'[o].at # "idle" => writer'[o].alone
             /\ config' = config
  <2>1. writer[w].at \in {"write", "sync"} => writer[w].file = "tmp"
    BY <1>1 DEF Undisturbed
  <2>2. config' = config
    BY <1>5, <2>1 DEF Write, Sync, Killed, Becomes
  <2> QED BY <1>1, <1>5, <2>2 DEF Write, Sync, Killed, Goes, NoWriter, InvocationsOK, Invocation
<1>6. CASE PowerLoss
  <2>1. Lost(config) = {config.data}
    BY <1>1 DEF Lost
  <2> QED BY <1>1, <1>6, <2>1 DEF PowerLoss, OnDisk, NoWriter
<1>7. CASE UNCHANGED fileVars
  BY <1>1, <1>7 DEF fileVars
<1>8. ASSUME NEW w \in Writers, Begin(w) \/ Exists(w) \/ Open(w) \/ Saved(w)
      PROVE  config' = config
  <2>1. CASE Begin(w)
    BY <2>1 DEF Begin
  <2>2. CASE Exists(w) \/ Open(w) \/ Saved(w)
    BY <2>2 DEF Exists, Open, Saved
  <2> QED BY <1>8, <2>1, <2>2
<1>9. ASSUME NEW w \in Writers, Begin(w) \/ Exists(w) \/ Open(w) \/ Saved(w)
                                \/ Write(w) \/ Sync(w) \/ Killed(w)
      PROVE  before' = before
  BY <1>9 DEF Begin, Exists, Open, Saved, Write, Sync, Killed
<1> QED BY <1>1, <1>2, <1>3, <1>4, <1>5, <1>6, <1>7, <1>8, <1>9 DEF FileNext, Continue

-----------------------------------------------------------------------------
(* The invariant, as FileSpec has it and as the start of the daemon, which *)
(* takes FileSpec's steps among others, will use it.                       *)

FileInv == FilesOK /\ InvocationsOK /\ AloneInv /\ WholeInv

LEMMA FileInvInitial == FileInit => FileInv
BY TypesInitial, AloneInitial DEF FileInv

LEMMA FileInvInductive == FileInv /\ [FileNext]_fileVars => FileInv'
BY FilesInductive, InvocationsInductive, AloneInductive, WholeInductive DEF FileInv, TypesOK

LEMMA FileInvImplies == FileInv => FileTypeOK /\ CompleteUnlessOverlap /\ SavedIsThere
<1> SUFFICES ASSUME FileInv PROVE CompleteUnlessOverlap /\ SavedIsThere
  BY TypesSplit DEF FileInv
<1>1. CompleteUnlessOverlap
  BY DEF FileInv, WholeInv, CompleteUnlessOverlap
<1>2. SavedIsThere
  BY DEF FileInv, AloneInv, SavedIsThere, Writing, Undisturbed
<1> QED BY <1>1, <1>2

(* A rename by a writer that was alone and not forced replaces nothing. *)
LEMMA FileInvKeeps ==
  ASSUME FileInv, NEW w \in Writers,
         writer[w].at = "rename", writer[w].alone, ~writer[w].force
  PROVE  config.data = Missing
BY DEF FileInv, AloneInv, Writing, Undisturbed

(* Types: nobody writes, syncs or renames without the handle it needs.     *)
THEOREM FileTypeCorrect == FileSpec => []FileTypeOK
BY FileInvInitial, FileInvInductive, FileInvImplies, PTL DEF FileSpec

(* write_config_atomically: without overlapping writers the configuration  *)
(* is absent or whole, whatever is killed and whenever the power fails.    *)
THEOREM CompleteConfig == FileSpec => []CompleteUnlessOverlap
BY FileInvInitial, FileInvInductive, FileInvImplies, PTL DEF FileSpec

(* A save that was never overlapped is there when it reports success.      *)
THEOREM SavesAreThere == FileSpec => []SavedIsThere
BY FileInvInitial, FileInvInductive, FileInvImplies, PTL DEF FileSpec

(* config init without --force replaces no configuration, unless another   *)
(* writer overlaps it.                                                     *)
THEOREM InitKeepsExisting == FileSpec => InitKeepsConfig
<1>1. FileInv /\ [FileNext]_fileVars =>
        [ \A w \in Writers :
            /\ writer[w].at = "rename" /\ writer'[w].at = "done"
            /\ writer[w].alone /\ ~writer[w].force
            => config.data = Missing ]_fileVars
  BY FileInvKeeps
<1> QED BY <1>1, FileInvInitial, FileInvInductive, PTL DEF FileSpec, InitKeepsConfig

=============================================================================
