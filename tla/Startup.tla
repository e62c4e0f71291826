------------------------------ MODULE Startup ------------------------------
(***************************************************************************)
(* The start of the daemon: it reads the configuration ConfigFile's        *)
(* writers write, validates it with the three PEM files it names, finds a  *)
(* port, reads the PEM files again, announces the port by mDNS, looks for  *)
(* its package manager, binds the port and serves until it is told to      *)
(* stop.  Meanwhile other programs take and release ports and `brewmble    *)
(* cert issue` rewrites the PEM files.                                     *)
(*                                                                         *)
(* A leaf certificate, its key and the CA certificate written next to them *)
(* are one bundle; leaves outside Valid have expired or are no server's.   *)
(***************************************************************************)
EXTENDS ConfigFile, Sequences

CONSTANTS None,         \* no port
          DefaultPort,  \* DEFAULT_PORT
          MaxPort,      \* u16::MAX
          FirstTaken,   \* bound: the sets of ports that may be taken at first
          Bundles, Valid,
          MaxChanges    \* bound on writers begun, bundles issued and port changes

Ports == DefaultPort .. MaxPort

ASSUME PortsAssumption   == DefaultPort \in Nat \ {0} /\ MaxPort \in Nat /\ DefaultPort <= MaxPort
                            /\ FirstTaken \subseteq SUBSET Ports
ASSUME BundlesAssumption == Valid \subseteq Bundles /\ {Missing, Empty} \cap Bundles = {}

(* What the start looks at in a DaemonConfig, and the one that config init *)
(* writes.                                                                 *)
Configs  == [port : Ports \cup {None, 0}, mdns : BOOLEAN]
Template == [port |-> None, mdns |-> TRUE]

ASSUME ConfigAssumption  == Contents \subseteq Configs /\ Template \in Contents
ASSUME ChangesAssumption == MaxChanges \in Nat /\ None \notin Nat

(* The order in which the PEM files are read and written. *)
PemFiles == <<"ca", "cert", "key">>
Pem      == [ca : Bundles \cup {Missing, Empty}, cert : Bundles \cup {Missing, Empty},
             key : Bundles \cup {Missing, Empty}]

VARIABLES
    files,      \* the PEM files
    issue,      \* brewmble cert issue --kind daemon
    taken,      \* the ports other programs hold
    d,          \* the daemon
    changes,    \* history: the changes counted by MaxChanges
    released,   \* history: has a port been released since the daemon began?
    lost        \* history: was the daemon's port taken between its probe and its bind?

envVars == <<files, issue, taken, changes>>
vars    == <<fileVars, envVars, d, released, lost>>

NoIssue == [n |-> 0, half |-> FALSE, to |-> Missing]

NothingSeen == [ca |-> Missing, cert |-> Missing, key |-> Missing]

(* at: the step of main; n: the PEM file it reads next; seen: what it      *)
(* read; announced: the port its mdns_daemon announces.                    *)
Down(exit) == [at |-> "down", exit |-> exit, conf |-> None, n |-> 1, port |-> None,
               seen |-> NothingSeen, announced |-> None]

Whole(b) == [ca |-> b, cert |-> b, key |-> b]

Init ==
    /\ FileInit
    /\ files \in {Whole(b) : b \in Bundles \cup {Missing}} /\ issue = NoIssue
    /\ taken \in FirstTaken
    /\ d = Down("none")
    /\ changes = 0 /\ released = FALSE /\ lost = FALSE

-----------------------------------------------------------------------------
(* The steps of main. *)

Becoming(me) == d' = me /\ UNCHANGED <<fileVars, envVars, released, lost>>

Serving == d.at = "serve"

(* From the probe or the hunt to the bind. *)
Hunted == {"tls", "announce", "detect", "bind"}

(* By the supervisor or by hand. *)
Start ==
    /\ d.at = "down"
    /\ d' = [Down("none") EXCEPT !.at = "load"] /\ released' = FALSE /\ lost' = FALSE
    /\ UNCHANGED <<fileVars, envVars>>

(* resolve_config_path, load_config and the check of the port; what cannot *)
(* be found, read or parsed ends main with status 1.                       *)
LoadConfig ==
    /\ d.at = "load"
    /\ Becoming(IF config.data \in Contents /\ config.data.port # 0
                THEN [d EXCEPT !.conf = config.data, !.at = "validate"]
                ELSE Down("error"))

(* with_single_cert. *)
PairMatches(seen) == seen.cert = seen.key

(* After the third file.  validate_config reads each file for its own      *)
(* sake, then all of them by load_tls_config.                              *)
AfterPem(me) ==
    CASE me.at = "validate" -> [me EXCEPT !.at = "check", !.n = 1, !.seen = NothingSeen]
      [] me.at = "check" /\ PairMatches(me.seen) ->
             [me EXCEPT !.at = "leaf", !.n = 1, !.seen = NothingSeen]
      [] me.at = "tls" /\ PairMatches(me.seen) -> [me EXCEPT !.at = "announce", !.n = 1]
      [] OTHER -> Down("error")

(* MUTANT of ReadPem: main trusts the check validate_config has made. *)
ReadPemTrusting ==
    LET file == PemFiles[d.n]
        me   == IF d.at = "validate" THEN d ELSE [d EXCEPT !.seen[file] = files[file]]
    IN  /\ d.at \in {"validate", "check", "tls"}
        /\ Becoming(IF files[file] \notin Bundles THEN Down("error")
                    ELSE IF d.n < Len(PemFiles) THEN [me EXCEPT !.n = @ + 1]
                    ELSE IF d.at = "tls" THEN [me EXCEPT !.at = "announce", !.n = 1]
                    ELSE AfterPem(me))

(* One of the three PEM files is read, in validation, in the load check or *)
(* by main.  One that is missing or empty ends main with status 1.         *)
ReadPem ==
    LET file == PemFiles[d.n]
        me   == IF d.at = "validate" THEN d ELSE [d EXCEPT !.seen[file] = files[file]]
    IN  /\ d.at \in {"validate", "check", "tls"}
        /\ Becoming(IF files[file] \notin Bundles THEN Down("error")
                    ELSE IF d.n < Len(PemFiles) THEN [me EXCEPT !.n = @ + 1]
                    ELSE AfterPem(me))

(* MUTANT of CheckLeaf: DEFAULT_PORT is forgotten. *)
CheckLeafOnly ==
    /\ d.at = "leaf"
    /\ Becoming(IF files.cert \in Bundles \ Valid THEN Down("error")
                ELSE [d EXCEPT !.at = IF d.conf.port = None THEN "hunt" ELSE "probe",
                               !.port = d.conf.port])

(* The leaf is read once more for its dates and its key usage; one that    *)
(* cannot be read or parsed now is let through.                            *)
CheckLeaf ==
    /\ d.at = "leaf"
    /\ Becoming(IF files.cert \in Bundles \ Valid THEN Down("error")
                ELSE [d EXCEPT !.at = IF d.conf.port = None THEN "hunt" ELSE "probe",
                               !.port = IF d.conf.port = None THEN DefaultPort ELSE d.conf.port])

(* MUTANT of Probe: whether the port is free is left to the server's bind. *)
ProbeLater ==
    /\ d.at = "probe"
    /\ Becoming([d EXCEPT !.at = "tls"])

(* The configured port is bound and released. *)
Probe ==
    /\ d.at = "probe"
    /\ Becoming(IF d.port \in taken THEN Down("error") ELSE [d EXCEPT !.at = "tls"])

(* MUTANT of HuntEnds: all ports taken, begin again. *)
HuntAgain == [d EXCEPT !.port = DefaultPort]

(* No port up to u16::MAX is free. *)
HuntEnds == Down("noPort")

(* MUTANT of Hunt: the last port is not tried. *)
HuntBelowLast ==
    /\ d.at = "hunt"
    /\ Becoming(IF d.port \notin taken THEN [d EXCEPT !.at = "tls"]
                ELSE IF d.port + 1 >= MaxPort THEN HuntEnds
                ELSE [d EXCEPT !.port = @ + 1])

(* The hunt tries one port after the other. *)
Hunt ==
    /\ d.at = "hunt"
    /\ Becoming(IF d.port \notin taken THEN [d EXCEPT !.at = "tls"]
                ELSE IF d.port = MaxPort THEN HuntEnds
                ELSE [d EXCEPT !.port = @ + 1])

(* register_mdns, if it is configured; its failure is only logged. *)
Announce ==
    /\ d.at = "announce"
    /\ \E port \in {d.port, None} :
          /\ port # None => d.conf.mdns
          /\ Becoming([d EXCEPT !.at = "detect", !.announced = port])

(* get_package_manager, is_available and version run the package manager   *)
(* and wait for it.                                                        *)
Detect == d.at = "detect" /\ Becoming([d EXCEPT !.at = "bind"])

(* The server binds the port and the signal handlers are installed.  Either *)
(* may fail, the bind for another reason than a port that is taken as well, *)
(* which is logged and goes the way of a shutdown.                         *)
Bind ==
    /\ d.at = "bind"
    /\ \/ d.port \notin taken /\ Becoming([d EXCEPT !.at = "serve"])
       \/ Becoming([d EXCEPT !.at = "closing"])

(* SIGTERM and Ctrl-C end the service in order, once their handlers are    *)
(* installed, which they are while the daemon serves; before that, and     *)
(* SIGKILL always, a signal kills the process.                             *)
Signal ==
    /\ d.at # "down"
    /\ \/ Serving /\ Becoming([d EXCEPT !.at = "closing"])
       \/ Becoming(Down("signal"))

(* The announcement is asked to be withdrawn; that failing is only logged. *)
(* main returns Ok, whatever ended the service.                            *)
Close == d.at = "closing" /\ Becoming(Down("ok"))

DaemonStep ==
    \/ LoadConfig \/ ReadPem \/ CheckLeaf \/ Probe \/ Hunt
    \/ Announce \/ Detect \/ Bind \/ Close

-----------------------------------------------------------------------------
(* What goes on around it. *)

Change == changes < MaxChanges /\ changes' = changes + 1

(* Another program; no one else takes a port the daemon serves. *)
TakePort(p) ==
    /\ p \notin taken /\ ~(Serving /\ d.port = p) /\ Change
    /\ taken' = taken \cup {p}
    /\ lost' = (lost \/ (d.port = p /\ d.at \in Hunted))
    /\ UNCHANGED <<fileVars, files, issue, d, released>>

ReleasePort(p) ==
    /\ p \in taken /\ Change
    /\ taken' = taken \ {p} /\ released' = TRUE
    /\ UNCHANGED <<fileVars, files, issue, d, lost>>

Issuing == UNCHANGED <<fileVars, taken, d, released, lost>>

(* run_cert, daemon: without --force only if none of the files is there. *)
IssueBegins ==
    /\ issue = NoIssue /\ Change
    /\ \E to \in Valid, force \in BOOLEAN :
          /\ force \/ \A f \in DOMAIN files : files[f] = Missing
          /\ issue' = [n |-> 1, half |-> FALSE, to |-> to]
    /\ Issuing /\ UNCHANGED files

(* Each file is truncated, then written, one file after the other. *)
IssueWrites ==
    /\ issue.n > 0
    /\ LET file == PemFiles[issue.n]
       IN  IF ~issue.half
           THEN files' = [files EXCEPT ![file] = Empty] /\ issue' = [issue EXCEPT !.half = TRUE]
           ELSE /\ files' = [files EXCEPT ![file] = issue.to]
                /\ issue' = IF issue.n = Len(PemFiles) THEN NoIssue
                            ELSE [issue EXCEPT !.n = @ + 1, !.half = FALSE]
    /\ Issuing /\ UNCHANGED changes

(* A write of it fails, or it is killed. *)
IssueStops ==
    /\ issue.n > 0 /\ issue' = NoIssue
    /\ Issuing /\ UNCHANGED <<files, changes>>

WriterStep ==
    /\ \E w \in Writers : \/ Begin(w) /\ Change
                          \/ Continue(w) /\ UNCHANGED changes
    /\ UNCHANGED <<files, issue, taken, d, released, lost>>

(* The machine goes down; what cert issue wrote and never synced is there  *)
(* or comes back empty.                                                    *)
PowerFails ==
    /\ PowerLoss
    /\ \E empty \in {{}, {x \in DOMAIN files : files[x] \in Valid}} :
          files' = [x \in DOMAIN files |-> IF x \in empty THEN Empty ELSE files[x]]
    /\ issue' = NoIssue /\ d' = Down("none") /\ taken' = {}
    /\ released' = FALSE /\ lost' = FALSE
    /\ UNCHANGED changes

Next ==
    \/ Start \/ DaemonStep \/ Signal
    \/ \E p \in Ports : TakePort(p) \/ ReleasePort(p)
    \/ IssueBegins \/ IssueWrites \/ IssueStops
    \/ WriterStep \/ PowerFails

(* main is polled whenever it can go on, and the package manager answers   *)
(* when it is asked for its version.                                       *)
Spec == Init /\ [][Next]_vars /\ WF_vars(DaemonStep)

-----------------------------------------------------------------------------
(* Properties. *)

(* Types: main reads one of three files at a time, works on a whole        *)
(* configuration, and from its probe on has a port to bind.                *)
TypeOK ==
    /\ FileTypeOK
    /\ files \in Pem /\ taken \subseteq Ports
    /\ issue \in [n : 0 .. Len(PemFiles), half : BOOLEAN, to : Valid \cup {Missing}]
    /\ d.at \in Hunted \cup {"down", "load", "validate", "check", "leaf", "probe", "hunt",
                            "serve", "closing"}
    /\ d.exit \in {"none", "error", "noPort", "signal", "ok"}
    /\ d.n \in 1 .. Len(PemFiles) /\ d.seen \in Pem /\ d.announced \in Ports \cup {None}
    /\ d.at \notin {"down", "load"} => d.conf \in Contents
    /\ d.at \in Hunted \cup {"probe", "hunt", "serve", "closing"} => d.port \in Ports
    /\ changes \in 0 .. MaxChanges /\ released \in BOOLEAN /\ lost \in BOOLEAN

(* validate_config and load_tls_config read the PEM files three times over *)
(* while cert issue may be rewriting them one by one: what is served in    *)
(* the end is one leaf with its own key, and one that is valid, although   *)
(* main does not validate what it reads last.                              *)
ServedLeafIsValid ==
    Serving => d.seen.cert = d.seen.key /\ d.seen.cert \in Valid

(* The port hunt takes the lowest free port and gives up only if there is  *)
(* none, at the end of the range as well; unless ports were released       *)
(* behind its back.                                                        *)
LowestFree ==
    /\ d.at \in Hunted /\ d.conf.port = None /\ ~released => DefaultPort .. (d.port - 1) \subseteq taken
    /\ d.exit = "noPort" /\ ~released => taken = Ports

(* The port is announced before the server has bound it, and stays         *)
(* announced until main returns.  Clients are not sent to another program: *)
(* a port that is announced belongs to another one only if it was taken    *)
(* between main's own probe and its bind, or after the service had ended.  *)
AnnouncedPortIsOurs == d.announced \in taken => lost \/ d.at = "closing"

(* A start ends in service or in an exit and a stop in an exit, whatever   *)
(* ports are taken and files are rewritten; so a port announced ahead of   *)
(* its server is served, or main has returned.                             *)
StartSettles == d.at \notin {"serve", "down"} ~> d.at \in {"serve", "down"}
=============================================================================
