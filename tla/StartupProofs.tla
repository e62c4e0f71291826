---------------------------- MODULE StartupProofs ----------------------------
(***************************************************************************)
(* What holds of every start of the daemon, for any number of writers and  *)
(* ports, any configurations and any certificates.                         *)
(***************************************************************************)
EXTENDS Startup, ConfigFileProofs

(* The start takes the steps of ConfigFile and others that leave the       *)
(* configuration file alone.                                               *)
LEMMA StartupIsFile == [Next]_vars => [FileNext]_fileVars
<1> SUFFICES ASSUME [Next]_vars PROVE [FileNext]_fileVars
  OBVIOUS
<1>1. CASE Start \/ DaemonStep \/ Signal
  BY <1>1 DEF Start, DaemonStep, Signal, LoadConfig, ReadPem, CheckLeaf, Probe, Hunt, Announce,
              Detect, Bind, Close, Becoming
<1>2. ASSUME NEW p \in Ports, TakePort(p) \/ ReleasePort(p)
      PROVE  UNCHANGED fileVars
  BY <1>2 DEF TakePort, ReleasePort
<1>3. CASE IssueBegins \/ IssueWrites \/ IssueStops
  BY <1>3 DEF IssueBegins, IssueWrites, IssueStops, Issuing
<1>4. CASE WriterStep
  BY <1>4 DEF WriterStep, FileNext
<1>5. CASE PowerFails
  BY <1>5 DEF PowerFails, FileNext
<1>6. CASE UNCHANGED vars
  BY <1>6 DEF vars
<1> QED BY <1>1, <1>2, <1>3, <1>4, <1>5, <1>6 DEF Next

(* The start of the daemon implements ConfigFile: every step of it, of the *)
(* ports, of cert issue and of the writers is a step of the configuration  *)
(* file or leaves it alone.                                                *)
THEOREM StartupHasFile == Spec => FileSpec
<1>1. Init => FileInit
  BY DEF Init
<1> QED BY <1>1, StartupIsFile, PTL DEF Spec, FileSpec

(* The daemon reads configurations that are whole, unless writers overlap. *)
THEOREM StartupReadsWhole == Spec => []CompleteUnlessOverlap
BY StartupHasFile, CompleteConfig, PTL

(* The configuration of a writer that was alone is what the daemon reads.  *)
THEOREM StartupSavesAreThere == Spec => []SavedIsThere
BY StartupHasFile, SavesAreThere, PTL

(* config init keeps the configuration a daemon is started with.           *)
THEOREM StartupKeepsConfig == Spec => InitKeepsConfig
BY StartupHasFile, InitKeepsExisting, PTL

-----------------------------------------------------------------------------
(* Types of what is not the configuration file. *)

MainSteps == {"down", "load", "validate", "check", "leaf", "probe", "hunt",
              "tls", "announce", "detect", "bind", "serve", "closing"}
Exits     == {"none", "error", "noPort", "signal", "ok"}

Main == [at : MainSteps, exit : Exits, conf : Contents \cup {None}, n : 1 .. 3,
         port : Ports \cup {None}, seen : Pem, announced : Ports \cup {None}]

(* Where main is, it has what it needs: a configuration whose port is none *)
(* or one that can be bound, and a port.                                   *)
MainOK(me) ==
    /\ me \in Main
    /\ me.at \notin {"down", "load"} => me.conf \in Contents /\ me.conf.port # 0
    /\ me.at \in {"probe", "hunt", "tls", "announce", "detect", "bind", "serve", "closing"} =>
          me.port \in Ports
    /\ me.at # "down" => me.exit = "none"

AroundOK ==
    /\ files \in Pem /\ taken \subseteq Ports
    /\ issue \in [n : 0 .. 3, half : BOOLEAN, to : Valid \cup {Missing}]
    /\ issue.n > 0 => issue.to \in Valid
    /\ changes \in 0 .. MaxChanges /\ released \in BOOLEAN /\ lost \in BOOLEAN

StartupTypes == MainOK(d) /\ AroundOK

LEMMA ThreeFiles == /\ Len(PemFiles) = 3
                    /\ \A n \in 1 .. 3 : PemFiles[n] \in {"ca", "cert", "key"}
                    /\ PemFiles[1] = "ca" /\ PemFiles[2] = "cert" /\ PemFiles[3] = "key"
BY DEF PemFiles

LEMMA NothingSeenIsPem == NothingSeen \in Pem
BY DEF NothingSeen, Pem

LEMMA DownOK ==
  ASSUME NEW exit \in Exits
  PROVE  /\ MainOK(Down(exit)) /\ Down(exit).at = "down" /\ Down(exit).exit = exit
         /\ Down(exit).announced = None
         /\ MainOK([Down("none") EXCEPT !.at = "load"])
BY NothingSeenIsPem DEF MainOK, Main, Down, MainSteps, Exits

(* A port number is a port. *)
LEMMA PortOfConfig ==
  ASSUME NEW c \in Contents
  PROVE  c.port \in Ports \cup {None, 0}
BY ConfigAssumption DEF Configs

LEMMA PortBounds == Ports = DefaultPort .. MaxPort /\ DefaultPort \in Ports /\ MaxPort \in Ports
                    /\ DefaultPort \in Nat \ {0} /\ MaxPort \in Nat
BY PortsAssumption DEF Ports

(* One more file read. *)
LEMMA SeenIsPem ==
  ASSUME AroundOK, NEW seen \in Pem, NEW n \in 1 .. 3
  PROVE  [seen EXCEPT ![PemFiles[n]] = files[PemFiles[n]]] \in Pem
<1>1. PemFiles[n] = "ca" \/ PemFiles[n] = "cert" \/ PemFiles[n] = "key"
  BY ThreeFiles
<1>2. CASE PemFiles[n] = "ca"
  BY <1>2 DEF AroundOK, Pem
<1>3. CASE PemFiles[n] = "cert"
  BY <1>3 DEF AroundOK, Pem
<1>4. CASE PemFiles[n] = "key"
  BY <1>4 DEF AroundOK, Pem
<1> QED BY <1>1, <1>2, <1>3, <1>4

(* The PEM files have been read once more. *)
LEMMA FilesRead ==
  ASSUME NEW me, MainOK(me), me.at \in {"validate", "check", "tls"}
  PROVE  /\ \A seen \in Pem : MainOK([me EXCEPT !.at = "check", !.n = 1, !.seen = seen])
         /\ \A seen \in Pem : MainOK([me EXCEPT !.at = "leaf", !.n = 1, !.seen = seen])
         /\ me.at = "tls" => MainOK([me EXCEPT !.at = "announce", !.n = 1])
<1>1. me \in Main /\ 1 \in 1 .. 3 /\ {"check", "leaf", "announce"} \subseteq MainSteps
  BY DEF MainOK, MainSteps
<1>2. ASSUME NEW at \in {"check", "leaf"}, NEW seen \in Pem
      PROVE  MainOK([me EXCEPT !.at = at, !.n = 1, !.seen = seen])
  <2>1. [me EXCEPT !.at = at, !.n = 1, !.seen = seen] \in Main
    BY <1>1 DEF Main
  <2> QED BY <1>1, <2>1 DEF MainOK, Main
<1>3. ASSUME me.at = "tls"
      PROVE  MainOK([me EXCEPT !.at = "announce", !.n = 1])
  <2>1. [me EXCEPT !.at = "announce", !.n = 1] \in Main
    BY <1>1 DEF Main
  <2> QED BY <1>1, <1>3, <2>1 DEF MainOK, Main
<1> QED BY <1>2, <1>3

(* A step of main keeps its type. *)
LEMMA MainInductive == StartupTypes /\ (Start \/ DaemonStep \/ Signal) => MainOK(d')
<1> SUFFICES ASSUME StartupTypes, Start \/ DaemonStep \/ Signal
             PROVE  MainOK(d')
  OBVIOUS
<1> USE DEF StartupTypes
<1>1. CASE Start
  BY <1>1, DownOK DEF Start, Exits
<1>2. CASE LoadConfig
  <2>1. MainOK(Down("error"))
    BY DownOK DEF Exits
  <2>2. ASSUME config.data \in Contents, config.data.port # 0
        PROVE  MainOK([d EXCEPT !.conf = config.data, !.at = "validate"])
    BY <1>2, <2>2 DEF LoadConfig, MainOK, Main, MainSteps
  <2> QED BY <1>2, <2>1, <2>2 DEF LoadConfig, Becoming
<1>3. CASE ReadPem
  <2> DEFINE file == PemFiles[d.n]
             me   == IF d.at = "validate" THEN d ELSE [d EXCEPT !.seen[file] = files[file]]
  <2>0. d \in Main /\ d.seen \in Pem /\ d.n \in 1 .. 3 /\ d.at \in {"validate", "check", "tls"}
    BY <1>3 DEF ReadPem, MainOK, Main
  <2>1. MainOK(me) /\ me.at = d.at /\ me.n = d.n
    <3>1. CASE d.at = "validate"
      BY <3>1
    <3>2. CASE d.at # "validate"
      <4>1. [d.seen EXCEPT ![file] = files[file]] \in Pem
        BY <2>0, SeenIsPem
      <4>2. me = [d EXCEPT !.seen = [d.seen EXCEPT ![file] = files[file]]]
        BY <2>0, <3>2 DEF Main
      <4>3. MainOK([d EXCEPT !.seen = [d.seen EXCEPT ![file] = files[file]]])
        BY <4>1 DEF MainOK, Main
      <4> QED BY <2>0, <4>2, <4>3 DEF Main
    <3> QED BY <3>1, <3>2
  <2> HIDE DEF me
  <2>2. MainOK(Down("error"))
    BY DownOK DEF Exits
  <2>3. ASSUME d.n < 3
        PROVE  MainOK([me EXCEPT !.n = @ + 1])
    BY <2>0, <2>1, <2>3 DEF MainOK, Main
  <2>4. MainOK(AfterPem(me))
    BY <2>0, <2>1, <2>2, FilesRead, NothingSeenIsPem DEF AfterPem
  <2>5. d' = IF files[file] \notin Bundles THEN Down("error")
             ELSE IF d.n < Len(PemFiles) THEN [me EXCEPT !.n = @ + 1]
             ELSE AfterPem(me)
    BY <1>3 DEF ReadPem, Becoming, me
  <2> QED BY <2>2, <2>3, <2>4, <2>5, ThreeFiles
<1>4. CASE CheckLeaf
  <2>0. d \in Main /\ d.at = "leaf" /\ d.conf \in Contents
    BY <1>4 DEF CheckLeaf, MainOK
  <2>1. MainOK(Down("error"))
    BY DownOK DEF Exits
  <2>2. MainOK([d EXCEPT !.at = IF d.conf.port = None THEN "hunt" ELSE "probe",
                         !.port = IF d.conf.port = None THEN DefaultPort ELSE d.conf.port])
    BY <2>0, PortOfConfig, PortBounds DEF MainOK, Main, MainSteps
  <2> QED BY <1>4, <2>1, <2>2 DEF CheckLeaf, Becoming
<1>5. CASE Probe
  BY <1>5, DownOK DEF Probe, Becoming, MainOK, Main, MainSteps, Exits
<1>6. CASE Hunt
  <2>0. d \in Main /\ d.at = "hunt" /\ d.port \in Ports /\ d.exit = "none"
    BY <1>6 DEF Hunt, MainOK
  <2>1. MainOK(HuntEnds)
    BY DownOK DEF HuntEnds, Exits
  <2>2. MainOK([d EXCEPT !.at = "tls"])
    BY <2>0 DEF MainOK, Main, MainSteps
  <2>3. ASSUME d.port # MaxPort
        PROVE  MainOK([d EXCEPT !.port = @ + 1])
    <3>1. d.port + 1 \in Ports
      BY <2>0, <2>3, PortBounds
    <3> QED BY <2>0, <3>1 DEF MainOK, Main
  <2> QED BY <1>6, <2>1, <2>2, <2>3 DEF Hunt, Becoming
<1>7. CASE Announce \/ Detect \/ Bind
  BY <1>7 DEF Announce, Detect, Bind, Becoming, MainOK, Main, MainSteps
<1>8. CASE Close
  BY <1>8, DownOK DEF Close, Becoming, Exits
<1>9. CASE Signal
  <2>1. MainOK(Down("signal"))
    BY DownOK DEF Exits
  <2>2. ASSUME Serving
        PROVE  MainOK([d EXCEPT !.at = "closing"])
    BY <2>2 DEF Serving, MainOK, Main, MainSteps
  <2> QED BY <1>9, <2>1, <2>2 DEF Signal, Becoming
<1> QED BY <1>1, <1>2, <1>3, <1>4, <1>5, <1>6, <1>7, <1>8, <1>9 DEF DaemonStep

(* Replacing one of the three files by a file keeps their type. *)
LEMMA FilesStayPem ==
  ASSUME AroundOK, NEW n \in 1 .. 3, NEW b \in Bundles \cup {Missing, Empty}
  PROVE  [files EXCEPT ![PemFiles[n]] = b] \in Pem
<1>1. PemFiles[n] \in {"ca", "cert", "key"}
  BY ThreeFiles
<1> QED BY <1>1 DEF AroundOK, Pem

LEMMA ChangeBounded == AroundOK /\ Change => changes' \in 0 .. MaxChanges
BY ChangesAssumption DEF AroundOK, Change

(* The rest keeps its type too. *)
LEMMA AroundInductive == StartupTypes /\ [Next]_vars => AroundOK'
<1> SUFFICES ASSUME StartupTypes, [Next]_vars
             PROVE  AroundOK'
  OBVIOUS
<1> USE DEF StartupTypes
<1>0. AroundOK
  OBVIOUS
<1>1. CASE DaemonStep
  BY <1>0, <1>1 DEF AroundOK, DaemonStep, LoadConfig, ReadPem, CheckLeaf, Probe, Hunt, Announce,
                    Detect, Bind, Close, Becoming, envVars
<1>2. CASE Start \/ Signal
  BY <1>0, <1>2 DEF AroundOK, Start, Signal, Becoming, envVars
<1>4. ASSUME NEW p \in Ports, TakePort(p)
      PROVE  AroundOK'
  <2>1. changes' \in 0 .. MaxChanges
    BY <1>4, ChangeBounded DEF TakePort
  <2>2. lost' \in BOOLEAN
    BY <1>4, Zenon DEF TakePort
  <2> QED BY <1>0, <1>4, <2>1, <2>2 DEF AroundOK, TakePort
<1>5. ASSUME NEW p \in Ports, ReleasePort(p)
      PROVE  AroundOK'
  <2>1. changes' \in 0 .. MaxChanges
    BY <1>5, ChangeBounded DEF ReleasePort
  <2> QED BY <1>0, <1>5, <2>1 DEF AroundOK, ReleasePort
<1>6. CASE IssueBegins
  <2>1. changes' \in 0 .. MaxChanges
    BY <1>6, ChangeBounded DEF IssueBegins
  <2>2. PICK to \in Valid : issue' = [n |-> 1, half |-> FALSE, to |-> to]
    BY <1>6 DEF IssueBegins
  <2> QED BY <1>0, <1>6, <2>1, <2>2 DEF AroundOK, IssueBegins, Issuing
<1>7. CASE IssueWrites
  <2>0. issue.n \in 1 .. 3 /\ issue.to \in Valid /\ issue.to \in Bundles \cup {Missing, Empty}
    BY <1>0, <1>7, BundlesAssumption DEF AroundOK, IssueWrites
  <2>1. files' \in Pem
    BY <1>0, <1>7, <2>0, FilesStayPem DEF IssueWrites
  <2>2. /\ issue' \in [n : 0 .. 3, half : BOOLEAN, to : Valid \cup {Missing}]
        /\ issue'.n > 0 => issue'.to \in Valid
    <3>1. CASE issue' = [issue EXCEPT !.half = TRUE]
      BY <1>0, <3>1, <2>0 DEF AroundOK
    <3>2. CASE issue' = NoIssue
      BY <3>2 DEF NoIssue
    <3>3. CASE issue.n # 3 /\ issue' = [issue EXCEPT !.n = @ + 1, !.half = FALSE]
      <4>1. issue.n + 1 \in 0 .. 3
        BY <2>0, <3>3
      <4>2. issue \in [n : 0 .. 3, half : BOOLEAN, to : Valid \cup {Missing}]
        BY <1>0 DEF AroundOK
      <4> QED BY <2>0, <3>3, <4>1, <4>2
    <3> QED BY <1>7, <3>1, <3>2, <3>3, ThreeFiles DEF IssueWrites
  <2> QED BY <1>0, <1>7, <2>1, <2>2 DEF AroundOK, IssueWrites, Issuing
<1>8. CASE IssueStops
  BY <1>0, <1>8 DEF AroundOK, IssueStops, Issuing, NoIssue
<1>9. CASE WriterStep
  <2>1. changes' \in 0 .. MaxChanges
    BY <1>0, <1>9, ChangeBounded DEF WriterStep, AroundOK
  <2> QED BY <1>0, <1>9, <2>1 DEF AroundOK, WriterStep
<1>10. CASE PowerFails
  <2>1. files' \in Pem
    BY <1>0, <1>10 DEF AroundOK, PowerFails, Pem
  <2>2. issue' \in [n : 0 .. 3, half : BOOLEAN, to : Valid \cup {Missing}] /\ ~(issue'.n > 0)
    BY <1>10 DEF PowerFails, NoIssue
  <2>3. /\ taken' \subseteq Ports /\ changes' \in 0 .. MaxChanges
        /\ released' \in BOOLEAN /\ lost' \in BOOLEAN
    BY <1>0, <1>10 DEF PowerFails, AroundOK
  <2> QED BY <2>1, <2>2, <2>3 DEF AroundOK
<1>11. CASE UNCHANGED vars
  BY <1>0, <1>11 DEF AroundOK, vars, envVars
<1> QED
  BY <1>1, <1>2, <1>4, <1>5, <1>6, <1>7, <1>8, <1>9, <1>10, <1>11 DEF Next

LEMMA TypesStartupInitial == Init => StartupTypes
<1> SUFFICES ASSUME Init PROVE StartupTypes
  OBVIOUS
<1>1. MainOK(d)
  BY DownOK DEF Init, Exits
<1>2. files \in Pem
  BY DEF Init, Whole, Pem
<1>3. changes \in 0 .. MaxChanges
  BY ChangesAssumption DEF Init
<1>4. released \in BOOLEAN /\ lost \in BOOLEAN
  BY DEF Init
<1>5. taken \subseteq Ports
  BY PortsAssumption DEF Init
<1>6. issue \in [n : 0 .. 3, half : BOOLEAN, to : Valid \cup {Missing}] /\ ~(issue.n > 0)
  BY DEF Init, NoIssue
<1> QED BY <1>1, <1>2, <1>3, <1>4, <1>5, <1>6 DEF StartupTypes, AroundOK

LEMMA TypesStartupInductive == StartupTypes /\ [Next]_vars => StartupTypes'
<1> SUFFICES ASSUME StartupTypes, [Next]_vars PROVE MainOK(d')
  BY AroundInductive DEF StartupTypes
<1>1. CASE Start \/ DaemonStep \/ Signal
  BY <1>1, MainInductive
<1>2. CASE PowerFails
  BY <1>2, DownOK DEF PowerFails, Exits
<1>3. ASSUME ~(Start \/ DaemonStep \/ Signal), ~PowerFails
      PROVE  d' = d
  BY <1>3 DEF Next, TakePort, ReleasePort, IssueBegins, IssueWrites, IssueStops, Issuing, WriterStep, vars
<1> QED BY <1>1, <1>2, <1>3 DEF StartupTypes

(* Types: main reads one of three files at a time, works on a whole        *)
(* configuration, and from its probe on has a port to bind.                *)
THEOREM StartupTypeCorrect == Spec => []TypeOK
<1>1. StartupTypes /\ FileTypeOK => TypeOK
  BY ThreeFiles DEF StartupTypes, MainOK, Main, AroundOK, TypeOK, Hunted, MainSteps, Exits
<1>2. Spec => []FileTypeOK
  BY StartupHasFile, FileTypeCorrect, PTL
<1> QED BY <1>1, <1>2, TypesStartupInitial, TypesStartupInductive, PTL DEF Spec

-----------------------------------------------------------------------------
(* The leaf that is served. *)

(* Since the leaf was checked no leaf that is not valid can come back: who *)
(* rewrites the PEM files writes valid ones.  What main has read last is   *)
(* one of them and, in the end, the one that belongs to the key.           *)
LeafInv ==
    /\ d.at \in {"leaf", "probe", "hunt"} => d.n = 1
    /\ d.at \in {"probe", "hunt", "tls"} => files.cert \notin Bundles \ Valid
    /\ d.at = "tls" /\ d.n > 2 => d.seen.cert \in Valid
    /\ d.at \in {"announce", "detect", "bind", "serve"} => d.seen.cert = d.seen.key /\ d.seen.cert \in Valid

(* What happens around main writes valid leaves or none. *)
LEMMA LeafStaysValid ==
  ASSUME StartupTypes, [Next]_vars
  PROVE  files'.cert = files.cert \/ files'.cert \notin Bundles \ Valid
<1>1. CASE Start \/ DaemonStep \/ Signal
  BY <1>1 DEF Start, DaemonStep, Signal, LoadConfig, ReadPem, CheckLeaf, Probe, Hunt, Announce,
              Detect, Bind, Close, Becoming, envVars
<1>2. CASE IssueWrites
  <2>1. issue.n \in 1 .. 3 /\ issue.to \in Valid
    BY <1>2 DEF IssueWrites, StartupTypes, AroundOK
  <2>2. \E b \in {Empty, issue.to} : files' = [files EXCEPT ![PemFiles[issue.n]] = b]
    BY <1>2 DEF IssueWrites
  <2>3. PemFiles[issue.n] \in {"ca", "cert", "key"}
    BY <2>1, ThreeFiles
  <2> QED BY <2>1, <2>2, <2>3, BundlesAssumption DEF StartupTypes, AroundOK, Pem
<1>3. CASE PowerFails
  BY <1>3, BundlesAssumption DEF PowerFails, StartupTypes, AroundOK, Pem
<1>4. ASSUME ~(Start \/ DaemonStep \/ Signal), ~IssueWrites, ~PowerFails
      PROVE  files' = files
  BY <1>4 DEF Next, TakePort, ReleasePort, IssueBegins, IssueStops, Issuing, WriterStep, vars, envVars
<1> QED BY <1>1, <1>2, <1>3, <1>4

(* When a file has been read. *)
LEMMA LeafRead == StartupTypes /\ LeafInv /\ ReadPem => LeafInv'
<1> SUFFICES ASSUME StartupTypes, LeafInv, ReadPem PROVE LeafInv'
  OBVIOUS
<1> DEFINE file == PemFiles[d.n]
<1>0. /\ d \in Main /\ d.at \in {"validate", "check", "tls"} /\ d.n \in 1 .. 3 /\ d.seen \in Pem
      /\ files' = files /\ Down("error").at = "down"
  BY DownOK DEF ReadPem, Becoming, StartupTypes, MainOK, Main, envVars, Exits
<1>1. CASE d.at # "tls"
  <2>1. \/ d'.at \in {"down", "validate", "check"}
        \/ d'.at = "leaf" /\ d'.n = 1
    BY <1>0, <1>1 DEF ReadPem, Becoming, AfterPem, Main
  <2> QED BY <2>1 DEF LeafInv
<1>2. CASE d.at = "tls" /\ files[file] \notin Bundles
  <2>1. d' = Down("error")
    BY <1>2 DEF ReadPem, Becoming
  <2>2. d'.at = "down"
    BY <1>0, <2>1
  <2> QED BY <2>2 DEF LeafInv
<1>3. CASE d.at = "tls" /\ files[file] \in Bundles
  <2> DEFINE seen == [d.seen EXCEPT ![file] = files[file]]
             me   == [d EXCEPT !.seen[file] = files[file]]
  <2>1. me.at = "tls" /\ me.n = d.n /\ me.seen = seen /\ me \in Main
    <3>1. seen \in Pem
      BY <1>0, SeenIsPem DEF StartupTypes
    <3> QED BY <1>0, <1>3, <3>1 DEF Main
  <2>2. d' = IF d.n < 3 THEN [me EXCEPT !.n = @ + 1] ELSE AfterPem(me)
    BY <1>0, <1>3, ThreeFiles DEF ReadPem, Becoming
  <2>3. CASE d.n = 1
    <3>1. d'.at = "tls" /\ d'.n = 2
      BY <2>1, <2>2, <2>3 DEF Main
    <3> QED BY <1>0, <1>3, <3>1 DEF LeafInv
  <2>4. CASE d.n = 2
    <3>1. d'.at = "tls" /\ d'.seen.cert = files.cert
      BY <1>0, <2>1, <2>2, <2>4, ThreeFiles DEF Main, Pem
    <3>2. files.cert \in Valid
      BY <1>3, <2>4, ThreeFiles DEF LeafInv
    <3> QED BY <1>0, <1>3, <3>1, <3>2 DEF LeafInv
  <2>5. CASE d.n = 3
    <3>1. seen.cert = d.seen.cert /\ d.seen.cert \in Valid
      BY <1>0, <1>3, <2>5, ThreeFiles DEF LeafInv, Pem
    <3>2. d' = IF PairMatches(me.seen) THEN [me EXCEPT !.at = "announce", !.n = 1] ELSE Down("error")
      BY <2>1, <2>2, <2>5 DEF AfterPem
    <3>3. \/ d'.at = "down"
          \/ d'.at = "announce" /\ d'.seen = seen /\ seen.cert = seen.key
      BY <1>0, <2>1, <3>2 DEF PairMatches, Main
    <3> QED BY <3>1, <3>3 DEF LeafInv
  <2> QED BY <1>0, <2>3, <2>4, <2>5
<1> QED BY <1>1, <1>2, <1>3

LEMMA LeafInductive == StartupTypes /\ LeafInv /\ [Next]_vars => LeafInv'
<1> SUFFICES ASSUME StartupTypes, LeafInv, [Next]_vars PROVE LeafInv'
  OBVIOUS
<1>0. d \in Main
  BY DEF StartupTypes, MainOK
<1>1. CASE Start
  BY <1>1, DownOK DEF Start, LeafInv, Down
<1>2. CASE LoadConfig
  <2>1. d'.at \in {"down", "validate"}
    BY <1>0, <1>2, DownOK DEF LoadConfig, Becoming, Main, Exits
  <2> QED BY <2>1 DEF LeafInv
<1>3. CASE ReadPem
  BY <1>3, LeafRead
<1>4. CASE CheckLeaf
  <2>1. \/ d'.at = "down"
        \/ d'.at \in {"hunt", "probe"} /\ d'.n = 1 /\ files'.cert \notin Bundles \ Valid
    BY <1>0, <1>4, DownOK DEF CheckLeaf, Becoming, LeafInv, Main, Exits, envVars
  <2> QED BY <2>1 DEF LeafInv
<1>5. CASE Probe \/ Hunt
  <2>1. \/ d'.at = "down"
        \/ d'.at \in {"hunt", "tls"} /\ d'.n = 1 /\ files'.cert \notin Bundles \ Valid
    BY <1>0, <1>5, DownOK DEF Probe, Hunt, HuntEnds, Becoming, LeafInv, Main, Exits, envVars
  <2> QED BY <2>1 DEF LeafInv
<1>6. CASE Announce \/ Detect \/ Bind
  <2>1. \/ d'.at = "closing"
        \/ /\ d'.at \in {"detect", "bind", "serve"} /\ d'.seen = d.seen
           /\ d.at \in {"announce", "detect", "bind"}
    BY <1>0, <1>6 DEF Announce, Detect, Bind, Becoming, Main
  <2> QED BY <2>1 DEF LeafInv
<1>7. CASE Close \/ Signal
  <2>1. d'.at \in {"down", "closing"}
    BY <1>0, <1>7, DownOK DEF Close, Signal, Becoming, Main, Exits
  <2> QED BY <2>1 DEF LeafInv
<1>8. CASE PowerFails
  BY <1>8, DownOK DEF PowerFails, LeafInv, Exits
<1>9. ASSUME ~(Start \/ DaemonStep \/ Signal), ~PowerFails
      PROVE  LeafInv'
  <2>1. d' = d
    BY <1>9 DEF Next, TakePort, ReleasePort, IssueBegins, IssueWrites, IssueStops, Issuing, WriterStep, vars
  <2> QED BY <2>1, LeafStaysValid DEF LeafInv
<1> QED BY <1>1, <1>2, <1>3, <1>4, <1>5, <1>6, <1>7, <1>8, <1>9 DEF DaemonStep

(* main does not validate the PEM files it reads last: the leaf it serves  *)
(* is valid and has its key all the same, if cert issue writes valid ones. *)
THEOREM ServesValidLeaf == Spec => []ServedLeafIsValid
<1>1. Init => LeafInv
  BY DownOK DEF Init, LeafInv, Exits
<1>2. LeafInv => ServedLeafIsValid
  BY DEF LeafInv, ServedLeafIsValid, Serving
<1> QED BY <1>1, <1>2, TypesStartupInitial, TypesStartupInductive, LeafInductive, PTL DEF Spec

-----------------------------------------------------------------------------
(* The port. *)

(* There is an announcement only after the port was found.  The port that  *)
(* was found is free or was lost since, and nobody else takes it while it  *)
(* is served.  The hunt has found every port below it taken.               *)
PortInv ==
    /\ \/ d.announced = None
       \/ d.announced = d.port /\ d.at \in {"detect", "bind", "serve", "closing"}
    /\ d.at \in Hunted /\ d.port \in taken => lost
    /\ Serving => d.port \notin taken
    /\ d.at = "hunt" => d.conf.port = None
    /\ d.at = "probe" => d.conf.port # None
    /\ d.at \in Hunted \cup {"hunt"} /\ d.conf.port = None /\ ~released
          => DefaultPort .. (d.port - 1) \subseteq taken
    /\ d.exit = "noPort" /\ ~released => taken = Ports

(* What is in PortInv of a step that leaves main where no port is known. *)
LEMMA NoPortYet ==
  ASSUME MainOK(d'), d'.at \in {"down", "load", "validate", "check", "leaf"},
         d'.exit # "noPort", d'.announced = None
  PROVE  PortInv'
BY DEF PortInv, Hunted, Serving

(* The steps of main that find the port. *)
LEMMA PortFound ==
  ASSUME StartupTypes, PortInv, CheckLeaf \/ Probe \/ Hunt
  PROVE  PortInv'
<1>0. /\ d \in Main /\ d.exit = "none" /\ d.announced = None
      /\ taken' = taken /\ released' = released /\ lost' = lost
      /\ d.at \in {"leaf", "probe", "hunt"} /\ taken \subseteq Ports
  BY DEF StartupTypes, MainOK, AroundOK, PortInv, CheckLeaf, Probe, Hunt, Becoming, envVars
<1>1. CASE d' = Down("error")
  <2>1. d'.at = "down" /\ d'.exit = "error" /\ d'.announced = None
    BY <1>1, DownOK DEF Exits
  <2> QED BY <1>0, <2>1 DEF PortInv, Hunted, Serving
<1>2. CASE CheckLeaf /\ d' # Down("error")
  <2>1. d' = [d EXCEPT !.at = IF d.conf.port = None THEN "hunt" ELSE "probe",
                       !.port = IF d.conf.port = None THEN DefaultPort ELSE d.conf.port]
    BY <1>2 DEF CheckLeaf, Becoming
  <2>2. /\ d'.conf = d.conf /\ d'.exit = "none" /\ d'.announced = None
        /\ \/ d'.at = "hunt" /\ d.conf.port = None /\ d'.port = DefaultPort
           \/ d'.at = "probe" /\ d.conf.port # None
    BY <1>0, <2>1 DEF Main
  <2>3. DefaultPort .. (DefaultPort - 1) = {}
    BY PortBounds
  <2> QED BY <1>0, <2>2, <2>3 DEF PortInv, Hunted, Serving
<1>3. CASE Probe /\ d' # Down("error")
  <2>1. d' = [d EXCEPT !.at = "tls"] /\ d.port \notin taken /\ d.conf.port # None
    BY <1>3 DEF Probe, Becoming, PortInv
  <2>2. d'.at = "tls" /\ d'.exit = "none" /\ d'.port = d.port /\ d'.conf = d.conf /\ d'.announced = None
    BY <1>0, <2>1 DEF Main
  <2> QED BY <1>0, <2>1, <2>2 DEF PortInv, Hunted, Serving
<1>4. CASE Hunt
  <2>1. /\ d.at = "hunt" /\ d.port \in Ports /\ d.conf.port = None
        /\ ~released => DefaultPort .. (d.port - 1) \subseteq taken
    BY <1>4 DEF Hunt, StartupTypes, MainOK, PortInv
  <2>2. CASE d.port \notin taken
    <3>1. d' = [d EXCEPT !.at = "tls"]
      BY <1>4, <2>2 DEF Hunt, Becoming
    <3>2. d'.at = "tls" /\ d'.exit = "none" /\ d'.port = d.port /\ d'.conf = d.conf /\ d'.announced = None
      BY <1>0, <3>1 DEF Main
    <3> QED BY <1>0, <2>1, <2>2, <3>2 DEF PortInv, Hunted, Serving
  <2>3. CASE d.port \in taken /\ d.port = MaxPort
    <3>1. d'.at = "down" /\ d'.exit = "noPort" /\ d'.announced = None
      BY <1>4, <2>3, DownOK DEF Hunt, HuntEnds, Becoming, Exits
    <3>2. ASSUME ~released
          PROVE  taken = Ports
      <4>1. \A q \in Ports : q = d.port \/ q \in DefaultPort .. (d.port - 1)
        BY <2>3, PortBounds
      <4> QED BY <1>0, <2>1, <2>3, <3>2, <4>1
    <3> QED BY <1>0, <3>1, <3>2 DEF PortInv, Hunted, Serving
  <2>4. CASE d.port \in taken /\ d.port # MaxPort
    <3>1. d' = [d EXCEPT !.port = @ + 1]
      BY <1>4, <2>4 DEF Hunt, Becoming
    <3>2. /\ d'.at = "hunt" /\ d'.exit = "none" /\ d'.announced = None
          /\ d'.port = d.port + 1 /\ d'.conf = d.conf
      BY <1>0, <2>1, <3>1 DEF Main
    <3>3. ASSUME ~released
          PROVE  DefaultPort .. (d'.port - 1) \subseteq taken
      <4>1. \A q \in DefaultPort .. (d'.port - 1) : q = d.port \/ q \in DefaultPort .. (d.port - 1)
        BY <2>1, <3>2, PortBounds
      <4> QED BY <2>1, <2>4, <3>3, <4>1
    <3> QED BY <1>0, <2>1, <3>2, <3>3 DEF PortInv, Hunted, Serving
  <2> QED BY <2>2, <2>3, <2>4
<1> QED BY <1>1, <1>2, <1>3, <1>4

(* The steps of main that use the port. *)
LEMMA PortUsed ==
  ASSUME StartupTypes, PortInv, Announce \/ Detect \/ Bind \/ Close \/ Signal
  PROVE  PortInv'
<1>0. d \in Main /\ taken' = taken /\ released' = released /\ lost' = lost
  BY DEF StartupTypes, MainOK, Announce, Detect, Bind, Close, Signal, Becoming, envVars
<1>1. CASE Announce
  <2>1. /\ d.at = "announce" /\ d'.at = "detect" /\ UNCHANGED <<d.exit, d.port, d.conf>>
        /\ d'.announced \in {None, d.port}
    BY <1>0, <1>1 DEF Announce, Becoming, Main
  <2> QED BY <1>0, <2>1 DEF PortInv, Hunted, Serving
<1>2. CASE Detect
  <2>1. d.at = "detect" /\ d'.at = "bind" /\ UNCHANGED <<d.exit, d.port, d.conf, d.announced>>
    BY <1>0, <1>2 DEF Detect, Becoming, Main
  <2> QED BY <1>0, <2>1 DEF PortInv, Hunted, Serving
<1>3. CASE Bind
  <2>1. /\ d.at = "bind" /\ UNCHANGED <<d.exit, d.port, d.conf, d.announced>>
        /\ \/ d'.at = "closing"
           \/ d'.at = "serve" /\ d.port \notin taken
    BY <1>0, <1>3 DEF Bind, Becoming, Main
  <2> QED BY <1>0, <2>1 DEF PortInv, Hunted, Serving
<1>4. CASE Close \/ Signal
  <2>1. \/ d'.at = "down" /\ d'.exit \in {"signal", "ok"} /\ d'.announced = None
        \/ d'.at = "closing" /\ d.at = "serve" /\ UNCHANGED <<d.exit, d.port, d.announced>>
    BY <1>0, <1>4, DownOK DEF Close, Signal, Serving, Becoming, Main, Exits
  <2> QED BY <1>0, <2>1 DEF PortInv, Hunted, Serving
<1> QED BY <1>1, <1>2, <1>3, <1>4

LEMMA PortInductive == StartupTypes /\ PortInv /\ [Next]_vars => PortInv'
<1> SUFFICES ASSUME StartupTypes, PortInv, [Next]_vars PROVE PortInv'
  OBVIOUS
<1>0. d \in Main /\ MainOK(d) /\ MainOK(d')
  BY TypesStartupInductive DEF StartupTypes, MainOK
<1>1. CASE Start
  <2>1. d'.at = "load" /\ d'.exit = "none" /\ d'.announced = None
    BY <1>1, DownOK DEF Start, Down
  <2> QED BY <1>0, <2>1, NoPortYet
<1>2. CASE LoadConfig
  <2>1. d'.at \in {"down", "validate"} /\ d'.exit \in {"none", "error"} /\ d'.announced = None
    BY <1>0, <1>2, DownOK DEF LoadConfig, Becoming, PortInv, MainOK, Main, Exits
  <2> QED BY <1>0, <2>1, NoPortYet
<1>3. CASE ReadPem
  <2>0. /\ d.at \in {"validate", "check", "tls"} /\ d.exit = "none" /\ d.announced = None
        /\ taken' = taken /\ released' = released /\ lost' = lost
    BY <1>0, <1>3 DEF ReadPem, Becoming, PortInv, MainOK, envVars
  <2>1. /\ d'.announced = None
        /\ \/ d'.at = "down" /\ d'.exit = "error"
           \/ d'.at \in {"validate", "check", "leaf"} /\ d'.exit = "none"
           \/ d'.at \in {"tls", "announce"} /\ d.at = "tls" /\ UNCHANGED <<d.exit, d.port, d.conf>>
    BY <1>0, <1>3, <2>0, DownOK DEF ReadPem, Becoming, AfterPem, Main, Exits
  <2>2. CASE d'.at \in {"tls", "announce"} /\ d.at = "tls" /\ UNCHANGED <<d.exit, d.port, d.conf>>
    BY <2>0, <2>1, <2>2 DEF PortInv, Hunted, Serving
  <2> QED BY <1>0, <2>0, <2>1, <2>2, NoPortYet
<1>4. CASE CheckLeaf \/ Probe \/ Hunt
  BY <1>4, PortFound
<1>5. CASE Announce \/ Detect \/ Bind \/ Close \/ Signal
  BY <1>5, PortUsed
<1>6. CASE PowerFails
  <2>1. d'.at = "down" /\ d'.exit = "none" /\ d'.announced = None
    BY <1>6, DownOK DEF PowerFails, Exits
  <2> QED BY <1>0, <2>1, NoPortYet
<1>7. ASSUME NEW p \in Ports, TakePort(p)
      PROVE  PortInv'
  <2>1. /\ d' = d /\ released' = released
        /\ taken' = taken \cup {p} /\ p \notin taken /\ (lost => lost')
        /\ d.port = p /\ d.at \in Hunted => lost'
        /\ ~(Serving /\ d.port = p)
    BY <1>7, Zenon DEF TakePort
  <2> QED BY <2>1 DEF PortInv, Serving, StartupTypes, AroundOK
<1>8. ASSUME NEW p \in Ports, ReleasePort(p)
      PROVE  PortInv'
  BY <1>8 DEF ReleasePort, PortInv, Serving
<1>9. ASSUME ~(Start \/ DaemonStep \/ Signal), ~PowerFails,
             \A p \in Ports : ~TakePort(p) /\ ~ReleasePort(p)
      PROVE  PortInv'
  <2>1. UNCHANGED <<d, taken, released, lost>>
    BY <1>9 DEF Next, IssueBegins, IssueWrites, IssueStops, Issuing, WriterStep, vars, envVars
  <2> QED BY <2>1 DEF PortInv, Serving
<1> QED BY <1>1, <1>2, <1>3, <1>4, <1>5, <1>6, <1>7, <1>8, <1>9 DEF DaemonStep

LEMMA PortAlways == Spec => [](StartupTypes /\ PortInv)
<1>1. Init => PortInv
  BY DownOK DEF Init, PortInv, Hunted, Serving, Exits
<1> QED BY <1>1, TypesStartupInitial, TypesStartupInductive, PortInductive, PTL DEF Spec

(* The hunt takes the lowest free port, and gives up only if there is none *)
(* up to u16::MAX; unless ports were released behind its back.             *)
THEOREM HuntsLowestFree == Spec => []LowestFree
<1>1. PortInv => LowestFree
  BY DEF PortInv, LowestFree, Hunted
<1> QED BY <1>1, PortAlways, PTL

(* What is announced is the daemon's own port from the announcement to the *)
(* end of its service, unless it was taken between probe and bind.         *)
THEOREM AnnouncesOwnPort == Spec => []AnnouncedPortIsOurs
<1>1. ASSUME StartupTypes, PortInv, d.announced \in taken
      PROVE  lost \/ d.at = "closing"
  <2>1. d.announced \in Ports /\ Ports \subseteq Nat
    <3>1. taken \subseteq Ports
      BY <1>1 DEF StartupTypes, AroundOK
    <3>2. \A p \in DefaultPort .. MaxPort : p \in Nat
      BY PortBounds
    <3>3. Ports = DefaultPort .. MaxPort
      BY PortBounds
    <3> QED BY <1>1, <3>1, <3>2, <3>3
  <2>2. d.announced # None
    BY <2>1, ChangesAssumption
  <2>3. d.port \in taken /\ d.at \in {"detect", "bind", "serve", "closing"}
    BY <1>1, <2>2 DEF PortInv
  <2>4. d.at # "serve"
    BY <1>1, <2>3 DEF PortInv, Serving
  <2>5. d.at \in {"detect", "bind"} => lost
    BY <1>1, <2>3 DEF PortInv, Hunted
  <2> QED BY <2>3, <2>4, <2>5
<1>2. StartupTypes /\ PortInv => AnnouncedPortIsOurs
  BY <1>1 DEF AnnouncedPortIsOurs
<1> QED BY <1>2, PortAlways, PTL

=============================================================================
