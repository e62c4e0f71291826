----------------------------- MODULE CliConfig -----------------------------
(***************************************************************************)
(* The node list of brewmble's active profile: how discover -u merges the  *)
(* daemons it finds into it, how status, node and version learn and check  *)
(* the certificate fingerprint of each node (trust on first use), and how  *)
(* node --repin accepts a new one.                                         *)
(*                                                                         *)
(* An invocation loads the whole file when it starts and writes the whole  *)
(* file when it has changed its copy; invocations may overlap.  Around     *)
(* them hosts change addresses and get new certificates.                   *)
(***************************************************************************)
EXTENDS Naturals, Sequences, FiniteSets, SequencesExt

CONSTANTS Clis,      \* invocations that may overlap
          Hosts,     \* the daemons; a host's id is its name
          Anonymous, \* the hosts whose mDNS record has no id
          Addrs,     \* ip:port
          Certs,     \* certificate fingerprints
          NoName, NoPin, Down,
          MaxNodes   \* bound on the nodes of the profile

ASSUME NamesAssumption == NoName \notin Hosts /\ Anonymous \subseteq Hosts
ASSUME PinsAssumption  == NoPin \notin Certs /\ Down \notin Certs /\ Down \notin Addrs
ASSUME NodesAssumption == MaxNodes \in Nat

Nodes == [name : Hosts \cup {NoName}, addr : Addrs, fp : Certs \cup {NoPin}]

VARIABLES
    file,    \* config.yaml: the nodes of the active profile, in order
    host,    \* where each host is and which certificate it has
    served,  \* which certificates have ever been served at which address
    cli      \* the invocations

vars == <<file, host, served, cli>>

Ops    == {"none", "discover", "status", "node", "version", "repin"}
Stages == {"idle", "searching", "merging", "checking", "requesting"}

(* An invocation: its command, where it is, its Config, the file it loaded *)
(* and whether its copy differs, the nodes it is about and how many of     *)
(* them it is done with, which of them had another pin than their host's,  *)
(* and the mDNS records it found.                                          *)
Idle == [op |-> "none", at |-> "idle", config |-> <<>>, loaded |-> <<>>, dirty |-> FALSE,
         nodes |-> <<>>, done |-> 0, refused |-> {}, found |-> <<>>]

Serves(a) == IF \E h \in Hosts : host[h].addr = a
             THEN host[CHOOSE h \in Hosts : host[h].addr = a].cert
             ELSE Down

NowServed == {<<host[h].addr, host[h].cert>> : h \in {g \in Hosts : host[g].addr # Down}}

Apart(at) == \A g, h \in Hosts : g # h /\ at[g].addr # Down => at[g].addr # at[h].addr

(* The first run of the CLI: no file, no nodes. *)
Init ==
    /\ file = <<>>
    /\ host \in [Hosts -> [addr : Addrs \cup {Down}, cert : Certs]]
    /\ Apart(host)
    /\ served = NowServed
    /\ cli = [c \in Clis |-> Idle]

-----------------------------------------------------------------------------
(* iter().find and iter().position: the first node, 0 if there is none. *)
AtAddr(config, a) == SelectInSeq(config, LAMBDA n : n.addr = a)
AtName(config, x) == SelectInSeq(config, LAMBDA n : n.name = x)

(* MUTANT of SetPin: the pin goes to the first node of the list. *)
SetFirstPin(config, a, fp) == [config EXCEPT ![1].fp = fp]

(* update_node_fingerprint *)
SetPin(config, a, fp) == [config EXCEPT ![AtAddr(config, a)].fp = fp]

(* MUTANT of Moved: the pin outlives the address it was learned at. *)
MovedWithPin(node, d) == [node EXCEPT !.name = d.name, !.addr = d.addr]

(* MUTANT of Moved: a node found again is recorded afresh. *)
MovedAfresh(node, d) == [name |-> d.name, addr |-> d.addr, fp |-> NoPin]

(* A known node as discovered: a new address clears the pin. *)
Moved(node, d) ==
    [name |-> d.name, addr |-> d.addr,
     fp |-> IF node.addr = d.addr THEN node.fp ELSE NoPin]

(* MUTANT of Merge: a discovered daemon is looked up by its address only. *)
MergeByAddress(config, d) ==
    LET at == AtAddr(config, d.addr)
    IN  IF at = 0 THEN Append(config, [name |-> d.name, addr |-> d.addr, fp |-> NoPin])
                  ELSE [config EXCEPT ![at] = Moved(@, d)]

(* merge_nodes, for one discovered daemon: by name, else by address. *)
Merge(config, d) ==
    LET named == IF d.name = NoName THEN 0 ELSE AtName(config, d.name)
        at == IF named = 0 THEN AtAddr(config, d.addr) ELSE named
    IN  IF at = 0 THEN Append(config, [name |-> d.name, addr |-> d.addr, fp |-> NoPin])
                  ELSE [config EXCEPT ![at] = Moved(@, d)]

-----------------------------------------------------------------------------
Step(c, state) == cli' = [cli EXCEPT ![c] = state]

Load(c, op, at) == [cli[c] EXCEPT !.op = op, !.at = at, !.config = file, !.loaded = file]

(* resolve_profile_nodes finds a node by its name, or by its address if it *)
(* has none: the first such node.                                          *)
Selectable(i) ==
    i = SelectInSeq(file, LAMBDA n : /\ n.name = file[i].name
                                     /\ n.name = NoName => n.addr = file[i].addr)

(* The nodes of the file at the places q. *)
NodesAt(q) == [k \in DOMAIN q |-> file[q[k]]]

(* The listing of a set of places that follows the file's order. *)
InOrder(S) == {q \in SetToSeqs(S) : \A j, k \in DOMAIN q : j < k => q[j] < q[k]}

(* The nodes a command may be about: all of them; those at the addresses   *)
(* that status was given; those that node was given, in the order given.   *)
Targets(op) ==
    {file} \cup
    (IF op = "status"
     THEN {NodesAt(q) : q \in UNION {InOrder({i \in DOMAIN file : file[i].addr \in A}) :
                                     A \in SUBSET Addrs}}
     ELSE IF op = "node"
     THEN {NodesAt(q) : q \in UNION {SetToSeqs(S) :
                                     S \in SUBSET {i \in DOMAIN file : Selectable(i)}}}
     ELSE {})

(* status, node and version load the file and turn to copies of its nodes. *)
Start(c) ==
    /\ cli[c].at = "idle"
    /\ \E op \in {"status", "node", "version"} : \E nodes \in Targets(op) \ {<<>>} :
          Step(c, [Load(c, op, "checking") EXCEPT !.nodes = nodes])
    /\ UNCHANGED <<file, host, served>>

(* node --repin: a node by name or address; the pin of the first node with *)
(* its address is cleared and then checked.                                *)
Repin(c) ==
    /\ cli[c].at = "idle"
    /\ \E i \in DOMAIN file :
          LET cleared == SetPin(file, file[i].addr, NoPin)
          IN  Step(c, [Load(c, "repin", "checking") EXCEPT
                         !.config = cleared,
                         !.nodes = <<cleared[AtAddr(file, file[i].addr)]>>])
    /\ UNCHANGED <<file, host, served>>

(* MUTANT of Learns: a fetch that failed counts as an answer. *)
LearnsAnything(node, seen) == node.fp = NoPin

Learns(node, seen) == seen # Down /\ node.fp = NoPin

Checking(c) == cli[c].at = "checking" /\ cli[c].done < Len(cli[c].nodes)

(* check_pin for the next node.  A fingerprint that is learned goes to the *)
(* first node with that address; a mismatch and a node that does not       *)
(* answer are printed.  version sends its request right after the check,   *)
(* unless the check failed.                                                *)
CheckPin(c) ==
    LET me == cli[c]
        node == me.nodes[me.done + 1]
        seen == Serves(node.addr)
        next == [me EXCEPT !.done = @ + 1]
    IN  /\ Checking(c)
        /\ \/ /\ Learns(node, seen)
              /\ Step(c, [next EXCEPT !.config = SetPin(@, node.addr, seen), !.dirty = TRUE])
           \/ /\ ~Learns(node, seen) /\ seen \in {Down, node.fp}
              /\ me.op # "repin"
              /\ Step(c, next)
           \/ /\ seen \notin {Down, node.fp} /\ node.fp # NoPin
              /\ Step(c, [next EXCEPT !.refused = @ \cup {me.done + 1}])
        /\ UNCHANGED <<file, host, served>>

(* --repin of a node that does not answer: nothing is saved. *)
RepinFails(c) ==
    /\ Checking(c) /\ cli[c].op = "repin"
    /\ Serves(cli[c].nodes[cli[c].done + 1].addr) = Down
    /\ Step(c, Idle)
    /\ UNCHANGED <<file, host, served>>

(* discover: each daemon is found once, where it is at that time. *)
Discover(c) ==
    /\ cli[c].at = "idle"
    /\ Step(c, [cli[c] EXCEPT !.op = "discover", !.at = "searching"])
    /\ UNCHANGED <<file, host, served>>

Find(c, h) ==
    /\ cli[c].at = "searching"
    /\ host[h].addr # Down /\ \A i \in DOMAIN cli[c].found : cli[c].found[i].id # h
    /\ Step(c, [cli[c] EXCEPT !.found = Append(@, [id |-> h, addr |-> host[h].addr])])
    /\ UNCHANGED <<file, host, served>>

(* discover -u: the search is over; now the file is loaded. *)
EndSearch(c) ==
    /\ cli[c].at = "searching" /\ cli[c].found # <<>>
    /\ Step(c, Load(c, "discover", "merging"))
    /\ UNCHANGED <<file, host, served>>

MergeNext(c) ==
    LET me == cli[c]
        d == Head(me.found)
        name == IF d.id \in Anonymous THEN NoName ELSE d.id
        merged == Merge(me.config, [name |-> name, addr |-> d.addr])
    IN  /\ me.at = "merging" /\ me.found # <<>>
        /\ Len(merged) <= MaxNodes
        /\ Step(c, [me EXCEPT !.found = Tail(@), !.config = merged,
                              !.dirty = @ \/ merged # me.config])
        /\ UNCHANGED <<file, host, served>>

-----------------------------------------------------------------------------
(* The copy is complete. *)
Settled(c) ==
    \/ cli[c].at = "merging" /\ cli[c].found = <<>>
    \/ cli[c].at = "checking" /\ ~Checking(c)

Requests(c) == cli[c].op \in {"status", "node"}

(* save_config, if the copy was changed; then status and node send their   *)
(* requests, to every node they are about.                                 *)
Save(c) ==
    /\ Settled(c)
    /\ file' = IF cli[c].dirty THEN cli[c].config ELSE file
    /\ Step(c, IF Requests(c) THEN [cli[c] EXCEPT !.at = "requesting", !.done = 0] ELSE Idle)
    /\ UNCHANGED <<host, served>>

(* save_config fails: the command ends there. *)
SaveFails(c) ==
    /\ Settled(c) /\ cli[c].dirty
    /\ Step(c, Idle)
    /\ UNCHANGED <<file, host, served>>

Request(c) ==
    LET me == cli[c]
    IN  /\ me.at = "requesting"
        /\ Step(c, IF me.done + 1 < Len(me.nodes) THEN [me EXCEPT !.done = @ + 1] ELSE Idle)
        /\ UNCHANGED <<file, host, served>>

-----------------------------------------------------------------------------
(* A host leaves, comes back at another address or with a new certificate. *)
Change(h) ==
    /\ host' \in {[host EXCEPT ![h] = [addr |-> a, cert |-> f]] :
                      a \in Addrs \cup {Down}, f \in Certs}
    /\ host' # host /\ Apart(host')
    /\ served' = served \cup NowServed'
    /\ UNCHANGED <<file, cli>>

Next ==
    \/ \E c \in Clis : \/ Start(c) \/ Repin(c) \/ CheckPin(c) \/ RepinFails(c)
                       \/ Discover(c) \/ (\E h \in Hosts : Find(c, h)) \/ EndSearch(c)
                       \/ MergeNext(c) \/ Save(c) \/ SaveFails(c) \/ Request(c)
    \/ \E h \in Hosts : Change(h)

Spec == Init /\ [][Next]_vars

-----------------------------------------------------------------------------
(* Properties. *)

IsCli(i) ==
    /\ i.op \in Ops /\ i.at \in Stages
    /\ i.config \in Seq(Nodes) /\ i.loaded \in Seq(Nodes) /\ i.nodes \in Seq(Nodes)
    /\ i.dirty \in BOOLEAN
    /\ i.done \in 0 .. Len(i.nodes) /\ i.refused \subseteq 1 .. Len(i.nodes)
    /\ i.found \in Seq([id : Hosts, addr : Addrs])

TypeOK ==
    /\ file \in Seq(Nodes) /\ Len(file) <= MaxNodes
    /\ host \in [Hosts -> [addr : Addrs \cup {Down}, cert : Certs]]
    /\ served \subseteq Addrs \X Certs
    /\ DOMAIN cli = Clis /\ \A c \in Clis : IsCli(cli[c])

Unique(config) ==
    \A i, j \in DOMAIN config : i # j /\ config[i].name # NoName => config[i].name # config[j].name

(* However hosts swap addresses and whatever is found in which order, no   *)
(* name is recorded twice: node -u NAME and --repin NAME mean one node.    *)
UniqueNames == Unique(file) /\ \A c \in Clis : Unique(cli[c].config)

Observed(config) ==
    \A i \in DOMAIN config : config[i].fp # NoPin => <<config[i].addr, config[i].fp>> \in served

(* A pin is a fingerprint that was served at the address it stands next    *)
(* to: it never follows a host to another address and never lands on a     *)
(* node with another address, also when the invocation that writes it      *)
(* overlaps others.                                                        *)
PinBelongsToAddress == Observed(file) /\ \A c \in Clis : Observed(cli[c].config)

Saves(c) == Settled(c) /\ cli[c].dirty /\ file' = cli[c].config

DistinctAddrs(config) ==
    \A i, j \in DOMAIN config : i # j => config[i].addr # config[j].addr

(* A node that nobody else wrote since the invocation read it is not lost, *)
(* whatever others did to the rest of the list meanwhile; and unless the   *)
(* invocation is --repin, it keeps its pin as long as it keeps its address *)
(* and no two nodes that were read have one address.  (What others wrote   *)
(* meanwhile is overwritten.)                                              *)
UntouchedIsKept ==
    [][ \A c \in Clis :
          Saves(c) =>
            LET read == cli[c].loaded
            IN  \A i \in DOMAIN file :
                   i \in DOMAIN read /\ file[i] = read[i] =>
                     /\ i \in DOMAIN file'
                     /\ cli[c].op # "repin" /\ DistinctAddrs(read) =>
                          (file[i].fp # NoPin /\ file'[i].addr = file[i].addr =>
                             file'[i].fp = file[i].fp) ]_vars

(* "run 'brewmble node --repin {}' to accept the new identity": a node     *)
(* that keeps its address keeps its pin until --repin.  merge_nodes can    *)
(* make two nodes of one address, and then the pin learned for the second  *)
(* one replaces the pin of the first.                                      *)
PinChangesOnlyByRepin ==
    [][ \A c \in Clis :
          Saves(c) /\ file = cli[c].loaded /\ cli[c].op # "repin" =>
            \A i \in DOMAIN file :
               file[i].fp # NoPin /\ file'[i].addr = file[i].addr =>
                 file'[i].fp = file[i].fp ]_vars

(* "fail that node with the mismatch message, continue others": no request *)
(* goes to a node whose pin did not match.                                 *)
MismatchGetsNoRequest ==
    [][ \A c \in Clis :
          cli[c].at = "requesting" /\ cli'[c] # cli[c] =>
            cli[c].done + 1 \notin cli[c].refused ]_vars
=============================================================================
