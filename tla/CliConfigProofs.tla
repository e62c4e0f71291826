--------------------------- MODULE CliConfigProofs ---------------------------
(***************************************************************************)
(* What holds of the node list for any number of invocations that overlap, *)
(* hosts, addresses and nodes.                                             *)
(***************************************************************************)
EXTENDS CliConfig, TLAPS, NaturalsInduction, WellFoundedInduction, FiniteSetTheorems

LEMMA Least == ASSUME NEW S, S \subseteq Nat, S # {}
               PROVE  Min(S) \in S
<1>1. PICK x \in S : \A y \in S : ~(<<y, x>> \in OpToRel(<, Nat))
  BY NatLessThanWellFounded, WFMin
<1>2. \A y \in S : x <= y
  <2> SUFFICES ASSUME NEW y \in S PROVE x <= y
    OBVIOUS
  <2>1. y < x => <<y, x>> \in OpToRel(<, Nat)
    BY DEF OpToRel
  <2>2. x \in Nat /\ y \in Nat /\ ~(y < x)
    BY <1>1, <2>1
  <2> QED BY <2>2
<1> QED BY <1>2 DEF Min

(* AtAddr and AtName find a node if there is one. *)
LEMMA FindsAddr ==
  ASSUME NEW config \in Seq(Nodes), NEW a
  PROVE  \/ AtAddr(config, a) = 0 /\ \A i \in DOMAIN config : config[i].addr # a
         \/ AtAddr(config, a) \in DOMAIN config /\ config[AtAddr(config, a)].addr = a
<1> DEFINE I == {i \in 1 .. Len(config) : config[i].addr = a}
<1>1. AtAddr(config, a) = IF I # {} THEN Min(I) ELSE 0
  BY DEF AtAddr, SelectInSeq
<1>2. I \subseteq Nat /\ DOMAIN config = 1 .. Len(config)
  OBVIOUS
<1>3. CASE I # {}
  <2>1. Min(I) \in I
    BY <1>2, <1>3, Least
  <2> QED BY <1>1, <1>2, <1>3, <2>1
<1>4. CASE I = {}
  BY <1>1, <1>2, <1>4
<1> QED BY <1>3, <1>4

LEMMA FindsName ==
  ASSUME NEW config \in Seq(Nodes), NEW x
  PROVE  \/ AtName(config, x) = 0 /\ \A i \in DOMAIN config : config[i].name # x
         \/ AtName(config, x) \in DOMAIN config /\ config[AtName(config, x)].name = x
<1> DEFINE I == {i \in 1 .. Len(config) : config[i].name = x}
<1>1. AtName(config, x) = IF I # {} THEN Min(I) ELSE 0
  BY DEF AtName, SelectInSeq
<1>2. I \subseteq Nat /\ DOMAIN config = 1 .. Len(config)
  OBVIOUS
<1>3. CASE I # {}
  <2>1. Min(I) \in I
    BY <1>2, <1>3, Least
  <2> QED BY <1>1, <1>2, <1>3, <2>1
<1>4. CASE I = {}
  BY <1>1, <1>2, <1>4
<1> QED BY <1>3, <1>4

-----------------------------------------------------------------------------
(* Node lists that are sound, and the operations on them. *)

Sound(config) == config \in Seq(Nodes) /\ Unique(config) /\ Observed(config)

LEMMA SetPinKeeps ==
  ASSUME NEW config, Sound(config), NEW a, NEW fp \in Certs \cup {NoPin},
         fp = NoPin \/ a \notin Addrs \/ <<a, fp>> \in served
  PROVE  Sound(SetPin(config, a, fp))
<1> DEFINE at  == AtAddr(config, a)
           new == [config EXCEPT ![at].fp = fp]
<1>0. /\ config \in Seq(Nodes) /\ new = SetPin(config, a, fp) /\ DOMAIN config = 1 .. Len(config)
      /\ \A i \in DOMAIN config : config[i] \in Nodes
  BY DEF Sound, SetPin
<1>1. CASE at = 0
  <2>1. new = config
    BY <1>0, <1>1
  <2> QED BY <1>0, <2>1
<1>2. CASE at \in DOMAIN config /\ config[at].addr = a
  <2>1. [config[at] EXCEPT !.fp = fp] \in Nodes
    BY <1>0, <1>2 DEF Nodes
  <2>2. new = [config EXCEPT ![at] = [config[at] EXCEPT !.fp = fp]]
    BY <1>0
  <2>3. new \in Seq(Nodes) /\ DOMAIN new = DOMAIN config
    BY <1>0, <1>2, <2>1, <2>2
  <2>4. ASSUME NEW i \in DOMAIN new
        PROVE  /\ new[i].name = config[i].name /\ new[i].addr = config[i].addr
               /\ new[i].fp = IF i = at THEN fp ELSE config[i].fp
    BY <1>0, <2>2, <2>3, <2>4 DEF Nodes
  <2>5. Unique(new)
    BY <2>3, <2>4 DEF Sound, Unique
  <2>6. Observed(new)
    <3>1. a \in Addrs
      BY <1>0, <1>2 DEF Nodes
    <3> QED BY <1>2, <2>3, <2>4, <3>1 DEF Sound, Observed
  <2> QED BY <1>0, <2>3, <2>5, <2>6 DEF Sound
<1> QED BY <1>0, <1>1, <1>2, FindsAddr

(* A list with one node replaced by one found under a name that no other   *)
(* node has.                                                               *)
LEMMA MoveKeeps ==
  ASSUME NEW config, Sound(config), NEW at \in DOMAIN config,
         NEW d \in [name : Hosts \cup {NoName}, addr : Addrs],
         d.name = NoName \/ \A i \in DOMAIN config : config[i].name = d.name => i = at
  PROVE  Sound([config EXCEPT ![at] = Moved(@, d)])
<1> DEFINE node == Moved(config[at], d)
           new  == [config EXCEPT ![at] = node]
<1>0. config \in Seq(Nodes) /\ Unique(config) /\ Observed(config) /\ config[at] \in Nodes
  BY DEF Sound
<1>1. /\ node \in Nodes /\ node.name = d.name
      /\ node.fp # NoPin => node.addr = config[at].addr /\ node.fp = config[at].fp
  BY <1>0 DEF Moved, Nodes
<1>2. new \in Seq(Nodes) /\ DOMAIN new = DOMAIN config
      /\ \A i \in DOMAIN new : new[i] = IF i = at THEN node ELSE config[i]
  BY <1>0, <1>1
<1>3. Unique(new)
  BY <1>0, <1>1, <1>2 DEF Unique
<1>4. Observed(new)
  BY <1>0, <1>1, <1>2 DEF Observed
<1> QED BY <1>2, <1>3, <1>4 DEF Sound

LEMMA MergeKeeps ==
  ASSUME NEW config, Sound(config), NEW d \in [name : Hosts \cup {NoName}, addr : Addrs]
  PROVE  Sound(Merge(config, d))
<1> DEFINE named == IF d.name = NoName THEN 0 ELSE AtName(config, d.name)
           at    == IF named = 0 THEN AtAddr(config, d.addr) ELSE named
           new   == Append(config, [name |-> d.name, addr |-> d.addr, fp |-> NoPin])
<1>0. /\ config \in Seq(Nodes) /\ Unique(config) /\ Observed(config)
      /\ DOMAIN config = 1 .. Len(config) /\ Len(config) \in Nat
  BY DEF Sound
<1>1. \/ named = 0
      \/ named \in DOMAIN config /\ config[named].name = d.name /\ d.name # NoName
  <2>1. CASE d.name = NoName
    BY <2>1
  <2>2. CASE d.name # NoName
    BY <1>0, <2>2, FindsName
  <2> QED BY <2>1, <2>2
<1>2. named = 0 => d.name = NoName \/ \A i \in DOMAIN config : config[i].name # d.name
  BY <1>0, FindsName
<1>3. at = 0 \/ at \in DOMAIN config
  BY <1>0, <1>1, FindsAddr
<1>4. Merge(config, d) = IF at = 0 THEN new ELSE [config EXCEPT ![at] = Moved(@, d)]
  BY DEF Merge
<1>5. CASE at # 0
  <2>1. d.name = NoName \/ \A i \in DOMAIN config : config[i].name = d.name => i = at
    <3>1. CASE named = 0
      BY <1>2, <3>1
    <3>2. CASE named # 0
      BY <1>0, <1>1, <3>2 DEF Unique
    <3> QED BY <3>1, <3>2
  <2>2. at \in DOMAIN config
    BY <1>3, <1>5
  <2> HIDE DEF at, named
  <2>3. Sound([config EXCEPT ![at] = Moved(@, d)])
    BY <2>1, <2>2, MoveKeeps
  <2> QED BY <1>4, <1>5, <2>3
<1>6. CASE at = 0
  <2>1. named = 0
    BY <1>0, <1>1, <1>6
  <2> DEFINE node == [name |-> d.name, addr |-> d.addr, fp |-> NoPin]
  <2>2. node \in Nodes /\ node.name = d.name /\ node.fp = NoPin
    BY DEF Nodes
  <2> HIDE DEF node
  <2>3. new = Append(config, node)
    BY DEF node
  <2>4. /\ new \in Seq(Nodes) /\ DOMAIN new = 1 .. (Len(config) + 1)
        /\ \A i \in DOMAIN config : new[i] = config[i]
        /\ new[Len(config) + 1] = node
    BY <1>0, <2>2, <2>3
  <2>5. \A i \in DOMAIN new : i \in DOMAIN config \/ i = Len(config) + 1
    BY <1>0, <2>4
  <2>6. Unique(new)
    BY <1>0, <1>2, <2>1, <2>2, <2>4, <2>5 DEF Unique
  <2>7. Observed(new)
    BY <1>0, <2>2, <2>4, <2>5 DEF Observed
  <2> QED BY <1>4, <1>6, <2>4, <2>6, <2>7 DEF Sound
<1> QED BY <1>5, <1>6

-----------------------------------------------------------------------------
(* The invariant: the file and every copy of it are sound, and what is     *)
(* served now has been recorded.                                           *)

Found == Seq([id : Hosts, addr : Addrs])

SoundCli(i) ==
    /\ i \in [op : {i.op}, at : {i.at}, config : Seq(Nodes), loaded : {i.loaded}, dirty : {i.dirty},
              nodes : {i.nodes}, done : {i.done}, refused : {i.refused}, found : Found]
    /\ Sound(i.config)

ListInv ==
    /\ Sound(file)
    /\ host \in [Hosts -> [addr : Addrs \cup {Down}, cert : Certs]]
    /\ NowServed \subseteq served
    /\ cli = [c \in Clis |-> cli[c]] /\ \A c \in Clis : SoundCli(cli[c])

LEMMA EmptySound == Sound(<<>>)
BY DEF Sound, Unique, Observed

LEMMA IdleSound == SoundCli(Idle)
<1>1. Idle.config = <<>> /\ <<>> \in Found /\ <<>> \in Seq(Nodes)
  BY DEF Idle, Found
<1>2. Idle \in [op : {Idle.op}, at : {Idle.at}, config : Seq(Nodes), loaded : {Idle.loaded},
                dirty : {Idle.dirty}, nodes : {Idle.nodes}, done : {Idle.done},
                refused : {Idle.refused}, found : Found]
  BY <1>1 DEF Idle
<1> QED BY <1>1, <1>2, EmptySound DEF SoundCli

LEMMA ListInitial == Init => ListInv
<1> SUFFICES ASSUME Init PROVE ListInv
  OBVIOUS
<1>1. cli = [c \in Clis |-> Idle] /\ file = <<>>
  BY DEF Init
<1>2. host \in [Hosts -> [addr : Addrs \cup {Down}, cert : Certs]] /\ served = NowServed
  BY DEF Init
<1>3. cli = [c \in Clis |-> cli[c]] /\ \A c \in Clis : cli[c] = Idle
  BY <1>1
<1> QED BY <1>1, <1>2, <1>3, EmptySound, IdleSound DEF ListInv

(* What an address presents has been recorded as served there. *)
LEMMA ServesRecorded ==
  ASSUME ListInv, NEW a, Serves(a) # Down
  PROVE  Serves(a) \in Certs /\ (a \in Addrs => <<a, Serves(a)>> \in served)
<1>1. PICK h \in Hosts : host[h].addr = a /\ Serves(a) = host[h].cert
  BY DEF Serves
<1>2. host[h].cert \in Certs
  BY DEF ListInv
<1>3. a \in Addrs => <<host[h].addr, host[h].cert>> \in NowServed
  BY <1>1, PinsAssumption DEF NowServed
<1> QED BY <1>1, <1>2, <1>3 DEF ListInv

(* A step of one invocation that leaves it sound. *)
LEMMA CliStep ==
  ASSUME ListInv, NEW c \in Clis, NEW me, SoundCli(me), Step(c, me), UNCHANGED <<host, served>>,
         Sound(file) => Sound(file')
  PROVE  ListInv'
<1>1. cli' = [cli EXCEPT ![c] = me]
  BY DEF Step
<1>2. cli' = [b \in Clis |-> cli'[b]] /\ \A b \in Clis : cli'[b] = IF b = c THEN me ELSE cli[b]
  BY <1>1 DEF ListInv
<1>3. NowServed' \subseteq served'
  BY DEF ListInv, NowServed
<1>4. Sound(file)'
  BY DEF ListInv, Sound, Unique, Observed
<1>5. ASSUME NEW b \in Clis
      PROVE  SoundCli(cli[b])'
  <2>1. SoundCli(cli'[b])
    BY <1>2 DEF ListInv
  <2> QED BY <2>1 DEF SoundCli, Sound, Unique, Observed
<1>6. (host \in [Hosts -> [addr : Addrs \cup {Down}, cert : Certs]])'
  BY DEF ListInv
<1> QED BY <1>2, <1>3, <1>4, <1>5, <1>6 DEF ListInv

(* An invocation that only goes on, with the same copy of the file. *)
LEMMA GoesOn ==
  ASSUME ListInv, NEW c \in Clis, NEW me, Step(c, me), UNCHANGED <<file, host, served>>,
         \/ me = Idle
         \/ \E at : me = [cli[c] EXCEPT !.at = at, !.done = 0]
         \/ \E done : me = [cli[c] EXCEPT !.done = done]
         \/ \E op, at : me = [cli[c] EXCEPT !.op = op, !.at = at]
         \/ \E done, refused : me = [cli[c] EXCEPT !.done = done, !.refused = refused]
  PROVE  ListInv'
<1>1. SoundCli(cli[c])
  BY DEF ListInv
<1>2. SoundCli(me)
  <2>1. CASE me = Idle
    BY <2>1, IdleSound
  <2>2. ASSUME NEW at, me = [cli[c] EXCEPT !.at = at, !.done = 0]
        PROVE  SoundCli(me)
    BY <1>1, <2>2 DEF SoundCli
  <2>3. ASSUME NEW done, me = [cli[c] EXCEPT !.done = done]
        PROVE  SoundCli(me)
    BY <1>1, <2>3 DEF SoundCli
  <2>4. ASSUME NEW op, NEW at, me = [cli[c] EXCEPT !.op = op, !.at = at]
        PROVE  SoundCli(me)
    BY <1>1, <2>4 DEF SoundCli
  <2>5. ASSUME NEW done, NEW refused, me = [cli[c] EXCEPT !.done = done, !.refused = refused]
        PROVE  SoundCli(me)
    BY <1>1, <2>5 DEF SoundCli
  <2> QED BY <2>1, <2>2, <2>3, <2>4, <2>5
<1> QED BY <1>2, CliStep

(* The file is loaded: by status, node and version, by repin, which clears *)
(* a pin, and by discover -u.                                              *)
LEMMA LoadKeeps ==
  ASSUME ListInv, NEW c \in Clis, Start(c) \/ Repin(c) \/ EndSearch(c)
  PROVE  ListInv'
<1>0. Sound(file) /\ UNCHANGED <<file, host, served>>
  BY DEF ListInv, Start, Repin, EndSearch
<1>1. CASE Start(c)
  <2>1. PICK op, nodes : Step(c, [Load(c, op, "checking") EXCEPT !.nodes = nodes])
    BY <1>1 DEF Start
  <2>2. [Load(c, op, "checking") EXCEPT !.nodes = nodes]
          = [cli[c] EXCEPT !.op = op, !.at = "checking", !.config = file, !.loaded = file, !.nodes = nodes]
    BY DEF Load, ListInv, SoundCli
  <2>3. SoundCli([cli[c] EXCEPT !.op = op, !.at = "checking", !.config = file, !.loaded = file,
                                !.nodes = nodes])
    BY <1>0 DEF ListInv, SoundCli, Sound
  <2> QED BY <1>0, <2>1, <2>2, <2>3, CliStep
<1>2. CASE Repin(c)
  <2>1. PICK a, nodes :
          Step(c, [Load(c, "repin", "checking") EXCEPT !.config = SetPin(file, a, NoPin), !.nodes = nodes])
    BY <1>2 DEF Repin
  <2>2. [Load(c, "repin", "checking") EXCEPT !.config = SetPin(file, a, NoPin), !.nodes = nodes]
          = [cli[c] EXCEPT !.op = "repin", !.at = "checking", !.config = SetPin(file, a, NoPin),
                           !.loaded = file, !.nodes = nodes]
    BY DEF Load, ListInv, SoundCli
  <2>3. Sound(SetPin(file, a, NoPin))
    BY <1>0, SetPinKeeps
  <2>4. SoundCli([cli[c] EXCEPT !.op = "repin", !.at = "checking", !.config = SetPin(file, a, NoPin),
                                !.loaded = file, !.nodes = nodes])
    BY <1>0, <2>3 DEF ListInv, SoundCli, Sound
  <2> QED BY <1>0, <2>1, <2>2, <2>4, CliStep
<1>3. CASE EndSearch(c)
  <2>1. Step(c, [cli[c] EXCEPT !.op = "discover", !.at = "merging", !.config = file, !.loaded = file])
    BY <1>3 DEF EndSearch, Load
  <2>2. SoundCli([cli[c] EXCEPT !.op = "discover", !.at = "merging", !.config = file, !.loaded = file])
    BY <1>0 DEF ListInv, SoundCli, Sound
  <2> QED BY <1>0, <2>1, <2>2, CliStep
<1> QED BY <1>1, <1>2, <1>3

LEMMA CheckKeeps ==
  ASSUME ListInv, NEW c \in Clis, CheckPin(c)
  PROVE  ListInv'
<1> DEFINE me   == cli[c]
           node == me.nodes[me.done + 1]
           pin  == Serves(node.addr)
<1>0. SoundCli(me) /\ UNCHANGED <<file, host, served>>
  BY DEF ListInv, CheckPin
<1>1. CASE /\ Learns(node, pin)
           /\ Step(c, [me EXCEPT !.done = @ + 1, !.config = SetPin(@, node.addr, pin), !.dirty = TRUE])
  <2>1. pin \in Certs /\ (node.addr \in Addrs => <<node.addr, pin>> \in served)
    BY <1>1, ServesRecorded DEF Learns
  <2>2. Sound(SetPin(me.config, node.addr, pin))
    BY <1>0, <2>1, SetPinKeeps DEF SoundCli
  <2> HIDE DEF node, pin
  <2>3. SoundCli([me EXCEPT !.done = @ + 1, !.config = SetPin(@, node.addr, pin), !.dirty = TRUE])
    BY <1>0, <2>2 DEF SoundCli, Sound
  <2> QED BY <1>0, <1>1, <2>3, CliStep
<1>2. CASE Step(c, [me EXCEPT !.done = @ + 1])
  BY <1>0, <1>2, GoesOn
<1>3. CASE Step(c, [me EXCEPT !.done = @ + 1, !.refused = @ \cup {me.done + 1}])
  BY <1>0, <1>3, GoesOn
<1>4. /\ [[me EXCEPT !.done = @ + 1] EXCEPT !.config = SetPin(@, node.addr, pin), !.dirty = TRUE]
           = [me EXCEPT !.done = @ + 1, !.config = SetPin(@, node.addr, pin), !.dirty = TRUE]
      /\ [[me EXCEPT !.done = @ + 1] EXCEPT !.refused = @ \cup {me.done + 1}]
           = [me EXCEPT !.done = @ + 1, !.refused = @ \cup {me.done + 1}]
  BY <1>0 DEF SoundCli
<1> QED BY <1>1, <1>2, <1>3, <1>4 DEF CheckPin

LEMMA MergeNextKeeps ==
  ASSUME ListInv, NEW c \in Clis, MergeNext(c)
  PROVE  ListInv'
<1> DEFINE me == cli[c]
           found == Head(me.found)
           d == [name |-> IF found.id \in Anonymous THEN NoName ELSE found.id, addr |-> found.addr]
<1>0. SoundCli(me) /\ UNCHANGED <<file, host, served>> /\ me.found # <<>> /\ me.found \in Found
  BY DEF ListInv, MergeNext, SoundCli
<1>1. d \in [name : Hosts \cup {NoName}, addr : Addrs] /\ Tail(me.found) \in Found
  <2>1. ASSUME NEW S, NEW f \in Seq(S), f # <<>>
        PROVE  Head(f) \in S
    BY <2>1
  <2>2. found \in [id : Hosts, addr : Addrs]
    <3> HIDE DEF me
    <3> QED BY <1>0, <2>1 DEF Found
  <2> QED BY <1>0, <2>2 DEF Found
<1>2. Sound(Merge(me.config, d))
  BY <1>0, <1>1, MergeKeeps DEF SoundCli
<1>3. Step(c, [me EXCEPT !.found = Tail(@), !.config = Merge(me.config, d),
                        !.dirty = @ \/ Merge(me.config, d) # me.config])
  BY DEF MergeNext
<1> HIDE DEF d
<1>4. SoundCli([me EXCEPT !.found = Tail(@), !.config = Merge(me.config, d),
                          !.dirty = @ \/ Merge(me.config, d) # me.config])
  BY <1>0, <1>1, <1>2 DEF SoundCli, Sound
<1> QED BY <1>0, <1>3, <1>4, CliStep

LEMMA FindKeeps ==
  ASSUME ListInv, NEW c \in Clis, NEW h \in Hosts, Find(c, h)
  PROVE  ListInv'
<1>0. SoundCli(cli[c]) /\ UNCHANGED <<file, host, served>> /\ cli[c].found \in Found
  BY DEF ListInv, Find, SoundCli
<1>1. [id |-> h, addr |-> host[h].addr] \in [id : Hosts, addr : Addrs]
  BY DEF Find, ListInv
<1>2. Append(cli[c].found, [id |-> h, addr |-> host[h].addr]) \in Found
  BY <1>0, <1>1 DEF Found
<1>3. SoundCli([cli[c] EXCEPT !.found = Append(@, [id |-> h, addr |-> host[h].addr])])
  BY <1>0, <1>2 DEF SoundCli
<1> QED BY <1>0, <1>3, CliStep DEF Find

LEMMA SaveKeeps ==
  ASSUME ListInv, NEW c \in Clis, Save(c)
  PROVE  ListInv'
<1>0. SoundCli(cli[c]) /\ UNCHANGED <<host, served>> /\ Sound(file') /\ SoundCli(Idle)
  BY IdleSound DEF ListInv, Save, SoundCli
<1>1. SoundCli([cli[c] EXCEPT !.at = "requesting", !.done = 0])
  BY <1>0 DEF SoundCli
<1> QED BY <1>0, <1>1, CliStep DEF Save

LEMMA ChangeKeeps ==
  ASSUME ListInv, NEW h \in Hosts, Change(h)
  PROVE  ListInv'
<1>0. served \subseteq served' /\ NowServed' \subseteq served' /\ file' = file /\ cli' = cli
  BY DEF Change
<1>1. host' \in [Hosts -> [addr : Addrs \cup {Down}, cert : Certs]]
  BY DEF Change, ListInv
<1>2. Sound(file)'
  BY <1>0 DEF ListInv, Sound, Unique, Observed
<1>3. ASSUME NEW b \in Clis
      PROVE  SoundCli(cli[b])'
  BY <1>0 DEF ListInv, SoundCli, Sound, Unique, Observed
<1> QED BY <1>0, <1>1, <1>2, <1>3 DEF ListInv

LEMMA ListInductive == ListInv /\ [Next]_vars => ListInv'
<1> SUFFICES ASSUME ListInv, [Next]_vars PROVE ListInv'
  OBVIOUS
<1>1. ASSUME NEW c \in Clis, RepinFails(c) \/ Discover(c) \/ SaveFails(c) \/ Request(c)
      PROVE  ListInv'
  BY <1>1, GoesOn DEF RepinFails, Discover, SaveFails, Request
<1>2. CASE UNCHANGED vars
  BY <1>2 DEF ListInv, SoundCli, Sound, Unique, Observed, NowServed, vars
<1> QED BY <1>1, <1>2, LoadKeeps, CheckKeeps, FindKeeps, MergeNextKeeps, SaveKeeps, ChangeKeeps DEF Next

LEMMA ListAlways == Spec => []ListInv
BY ListInitial, ListInductive, PTL DEF Spec

(* However hosts swap addresses and invocations overlap, no name is        *)
(* recorded twice: node -u NAME and --repin NAME mean one node.            *)
THEOREM NamesStayUnique == Spec => []UniqueNames
<1>1. ListInv => UniqueNames
  BY DEF ListInv, SoundCli, Sound, UniqueNames
<1> QED BY <1>1, ListAlways, PTL

(* A pin was served at the address it stands next to, in the file and in   *)
(* every copy of it.                                                       *)
THEOREM PinsStayAtTheirAddress == Spec => []PinBelongsToAddress
<1>1. ListInv => PinBelongsToAddress
  BY DEF ListInv, SoundCli, Sound, PinBelongsToAddress
<1> QED BY <1>1, ListAlways, PTL

-----------------------------------------------------------------------------
(* What an invocation does to the list it loaded. *)

(* update_node_fingerprint keeps every address, and every pin that does    *)
(* not stand next to the address it is about.                              *)
LEMMA SetPinIsLocal ==
  ASSUME NEW config \in Seq(Nodes), NEW a, NEW fp \in Certs \cup {NoPin}
  PROVE  /\ SetPin(config, a, fp) \in Seq(Nodes)
         /\ Len(SetPin(config, a, fp)) = Len(config)
         /\ \A i \in DOMAIN config :
               /\ SetPin(config, a, fp)[i].addr = config[i].addr
               /\ config[i].addr # a => SetPin(config, a, fp)[i].fp = config[i].fp
<1> DEFINE at  == AtAddr(config, a)
           new == [config EXCEPT ![at].fp = fp]
<1>0. new = SetPin(config, a, fp) /\ DOMAIN config = 1 .. Len(config)
      /\ \A i \in DOMAIN config : config[i] \in Nodes
  BY DEF SetPin
<1>1. CASE at = 0
  <2>1. new = config
    BY <1>0, <1>1
  <2> QED BY <1>0, <2>1
<1>2. CASE at \in DOMAIN config /\ config[at].addr = a
  <2>1. [config[at] EXCEPT !.fp = fp] \in Nodes
    BY <1>0, <1>2 DEF Nodes
  <2>2. new = [config EXCEPT ![at] = [config[at] EXCEPT !.fp = fp]]
    BY <1>0
  <2>3. new \in Seq(Nodes) /\ Len(new) = Len(config) /\ DOMAIN new = DOMAIN config
    BY <1>0, <1>2, <2>1, <2>2
  <2>4. ASSUME NEW i \in DOMAIN config
        PROVE  new[i].addr = config[i].addr /\ (config[i].addr # a => new[i].fp = config[i].fp)
    BY <1>0, <1>2, <2>2, <2>4 DEF Nodes
  <2> QED BY <1>0, <2>3, <2>4
<1> QED BY <1>1, <1>2, FindsAddr

(* merge_nodes adds a node or changes one: the one with the name that was  *)
(* found, or else one that keeps its address and pin.                      *)
LEMMA MergeIsLocal ==
  ASSUME NEW config \in Seq(Nodes), NEW d \in [name : Hosts \cup {NoName}, addr : Addrs],
         NEW i \in DOMAIN config, Merge(config, d)[i] # config[i]
  PROVE  /\ Merge(config, d)[i].name = d.name
         /\ Merge(config, d)[i].addr = config[i].addr => Merge(config, d)[i].fp = config[i].fp
         /\ \/ Merge(config, d)[i].addr = config[i].addr
            \/ d.name # NoName /\ config[i].name = d.name
<1> DEFINE named == IF d.name = NoName THEN 0 ELSE AtName(config, d.name)
           at    == IF named = 0 THEN AtAddr(config, d.addr) ELSE named
           node  == [name |-> d.name, addr |-> d.addr, fp |-> NoPin]
<1>0. DOMAIN config = 1 .. Len(config) /\ Len(config) \in Nat /\ config[i] \in Nodes
  OBVIOUS
<1>1. \/ named = 0
      \/ named \in DOMAIN config /\ config[named].name = d.name /\ d.name # NoName
  <2>1. CASE d.name = NoName
    BY <2>1
  <2>2. CASE d.name # NoName
    BY <1>0, <2>2, FindsName
  <2> QED BY <2>1, <2>2
<1>2. \/ at = 0
      \/ /\ at \in DOMAIN config
         /\ config[at].addr = d.addr \/ (d.name # NoName /\ config[at].name = d.name)
  BY <1>0, <1>1, FindsAddr
<1>3. Merge(config, d) = IF at = 0 THEN Append(config, node) ELSE [config EXCEPT ![at] = Moved(@, d)]
  BY DEF Merge
<1> HIDE DEF at, named, node
<1>4. at # 0
  <2>1. Append(config, node)[i] = config[i]
    BY <1>0
  <2> QED BY <1>3, <2>1
<1>5. Merge(config, d)[i] = IF i = at THEN Moved(config[at], d) ELSE config[i]
  BY <1>0, <1>2, <1>3, <1>4
<1>6. i = at /\ Merge(config, d)[i] = Moved(config[i], d)
  BY <1>5
<1>7. /\ Moved(config[i], d).name = d.name /\ Moved(config[i], d).addr = d.addr
      /\ config[i].addr = d.addr => Moved(config[i], d).fp = config[i].fp
  BY DEF Moved
<1> QED BY <1>2, <1>4, <1>6, <1>7

LEMMA MergeAddsOnly ==
  ASSUME NEW config \in Seq(Nodes), NEW d \in [name : Hosts \cup {NoName}, addr : Addrs]
  PROVE  /\ Merge(config, d) \in Seq(Nodes)
         /\ Len(Merge(config, d)) \in Nat /\ Len(Merge(config, d)) >= Len(config)
<1> DEFINE named == IF d.name = NoName THEN 0 ELSE AtName(config, d.name)
           at    == IF named = 0 THEN AtAddr(config, d.addr) ELSE named
           node  == [name |-> d.name, addr |-> d.addr, fp |-> NoPin]
<1>1. Merge(config, d) = IF at = 0 THEN Append(config, node) ELSE [config EXCEPT ![at] = Moved(@, d)]
  BY DEF Merge
<1>2. at = 0 \/ at \in DOMAIN config
  <2>1. named = 0 \/ named \in DOMAIN config
    BY FindsName
  <2> QED BY <2>1, FindsAddr
<1>3. node \in Nodes
  BY DEF Nodes
<1> HIDE DEF at, named, node
<1>4. CASE at = 0
  BY <1>1, <1>3, <1>4
<1>5. CASE at # 0
  <2>1. config[at] \in Nodes /\ at \in DOMAIN config
    BY <1>2, <1>5
  <2>2. Moved(config[at], d) \in Nodes
    BY <2>1 DEF Moved, Nodes
  <2> QED BY <1>1, <1>5, <2>1, <2>2
<1> QED BY <1>4, <1>5

(* The nodes that a command is about are nodes of the file. *)
LEMMA TargetsOfFile ==
  ASSUME file \in Seq(Nodes), NEW op, NEW nodes \in Targets(op)
  PROVE  /\ nodes \in Seq(Nodes)
         /\ \A n \in DOMAIN nodes : \E k \in DOMAIN file : nodes[n] = file[k]
<1>0. DOMAIN file = 1 .. Len(file) /\ Len(file) \in Nat /\ \A k \in DOMAIN file : file[k] \in Nodes
  OBVIOUS
<1>1. ASSUME NEW S, S \subseteq DOMAIN file, NEW q \in SetToSeqs(S)
      PROVE  /\ NodesAt(q) \in Seq(Nodes)
             /\ \A n \in DOMAIN NodesAt(q) : \E k \in DOMAIN file : NodesAt(q)[n] = file[k]
  <2>1. Cardinality(S) \in Nat
    <3>1. IsFiniteSet(1 .. Len(file))
      BY <1>0, FS_Interval
    <3>2. IsFiniteSet(S)
      BY <1>0, <1>1, <3>1, FS_Subset
    <3> QED BY <3>2, FS_CardinalityType
  <2>2. q \in [1 .. Cardinality(S) -> S]
    BY <1>1 DEF SetToSeqs
  <2>3. /\ NodesAt(q) = [n \in 1 .. Cardinality(S) |-> file[q[n]]]
        /\ \A n \in 1 .. Cardinality(S) : q[n] \in DOMAIN file
    BY <1>1, <2>2 DEF NodesAt
  <2>4. NodesAt(q) \in [1 .. Cardinality(S) -> Nodes]
    BY <1>0, <2>3
  <2>5. NodesAt(q) \in Seq(Nodes)
    BY <2>1, <2>4
  <2> QED BY <2>3, <2>5
<1>2. CASE nodes = file
  BY <1>2
<1>3. CASE \E S \in SUBSET (DOMAIN file) : \E q \in SetToSeqs(S) : nodes = NodesAt(q)
  BY <1>1, <1>3
<1>4. nodes = file \/ \E S \in SUBSET (DOMAIN file) : \E q \in SetToSeqs(S) : nodes = NodesAt(q)
  <2>1. CASE op = "status"
    <3>1. \/ nodes = file
          \/ \E A \in SUBSET Addrs : \E q \in InOrder({i \in DOMAIN file : file[i].addr \in A}) :
                nodes = NodesAt(q)
      BY <2>1, Zenon DEF Targets
    <3> QED BY <3>1 DEF InOrder
  <2>2. CASE op = "node"
    <3>1. \/ nodes = file
          \/ \E S \in SUBSET {i \in DOMAIN file : Selectable(i)} : \E q \in SetToSeqs(S) :
                nodes = NodesAt(q)
      BY <2>2, Zenon DEF Targets
    <3> QED BY <3>1
  <2> QED BY <2>1, <2>2 DEF Targets
<1> QED BY <1>2, <1>3, <1>4

-----------------------------------------------------------------------------
(* What an invocation has done to the file it loaded.  A search finds each *)
(* host once, so that a merge moves a node that has a name at most once,   *)
(* and before that node was touched in another way: whatever has its old   *)
(* address in the end has its old pin.  A check writes only to nodes that  *)
(* had no pin, when no two of them have one address.                       *)

DistinctIds(found) == \A j, k \in DOMAIN found : j # k => found[j].id # found[k].id

MergedOnce(i) ==
    \A k \in DOMAIN i.loaded :
       \/ i.config[k] = i.loaded[k]
       \/ /\ i.config[k].name = NoName \/ \A j \in DOMAIN i.found : i.found[j].id # i.config[k].name
          /\ i.config[k].addr = i.loaded[k].addr => i.config[k].fp = i.loaded[k].fp

PinsInPlace(i) ==
    /\ Len(i.config) = Len(i.loaded)
    /\ \A k \in DOMAIN i.loaded : i.config[k].addr = i.loaded[k].addr
    /\ \A n \in DOMAIN i.nodes : \E k \in DOMAIN i.loaded : i.nodes[n] = i.loaded[k]
    /\ DistinctAddrs(i.loaded) =>
         \A k \in DOMAIN i.loaded : i.loaded[k].fp # NoPin => i.config[k].fp = i.loaded[k].fp

Shape(i) ==
    i \in [op : {i.op}, at : {i.at}, config : {i.config}, loaded : {i.loaded}, dirty : {i.dirty},
          nodes : {i.nodes}, done : {i.done}, refused : {i.refused}, found : {i.found}]

CliFits(i) ==
    /\ Shape(i) /\ IsCli(i)
    /\ Len(i.config) \in Len(i.loaded) .. MaxNodes
    /\ i.at = "idle" => i.done = 0 /\ i.refused = {}
    /\ DistinctIds(i.found)
    /\ i.at = "merging" => MergedOnce(i)
    /\ i.at = "checking" /\ i.op # "repin" => PinsInPlace(i)

KeptInv ==
    /\ file \in Seq(Nodes) /\ Len(file) <= MaxNodes
    /\ host \in [Hosts -> [addr : Addrs \cup {Down}, cert : Certs]]
    /\ served \subseteq Addrs \X Certs
    /\ cli = [c \in Clis |-> cli[c]] /\ \A c \in Clis : CliFits(cli[c])

LEMMA IdleFits == CliFits(Idle)
<1>1. /\ Idle.op = "none" /\ Idle.at = "idle" /\ Idle.config = <<>> /\ Idle.loaded = <<>>
      /\ Idle.dirty = FALSE /\ Idle.nodes = <<>> /\ Idle.done = 0 /\ Idle.refused = {}
      /\ Idle.found = <<>>
  BY DEF Idle
<1>2. Shape(Idle)
  BY DEF Shape, Idle
<1> HIDE DEF Idle
<1>3. <<>> \in Seq(Nodes) /\ <<>> \in Seq([id : Hosts, addr : Addrs]) /\ Len(<<>>) = 0
  OBVIOUS
<1>4. IsCli(Idle)
  <2>1. Idle.op \in Ops /\ Idle.at \in Stages /\ Idle.dirty \in BOOLEAN
    BY <1>1 DEF Ops, Stages
  <2>2. Idle.done \in 0 .. Len(Idle.nodes) /\ Idle.refused \subseteq 1 .. Len(Idle.nodes)
    BY <1>1, <1>3
  <2> HIDE DEF Idle
  <2> QED BY <1>1, <1>3, <2>1, <2>2 DEF IsCli
<1>5. Len(Idle.config) \in Len(Idle.loaded) .. MaxNodes
  BY <1>1, <1>3, NodesAssumption
<1>6. DistinctIds(Idle.found)
  BY <1>1 DEF DistinctIds
<1> QED BY <1>1, <1>2, <1>4, <1>5, <1>6 DEF CliFits

LEMMA KeptInitial == Init => KeptInv
<1> SUFFICES ASSUME Init PROVE KeptInv
  OBVIOUS
<1>1. /\ cli = [c \in Clis |-> Idle] /\ file = <<>> /\ served = NowServed
      /\ host \in [Hosts -> [addr : Addrs \cup {Down}, cert : Certs]]
  BY DEF Init
<1>2. cli = [c \in Clis |-> cli[c]] /\ \A c \in Clis : cli[c] = Idle
  BY <1>1
<1>3. NowServed \subseteq Addrs \X Certs
  BY <1>1 DEF NowServed
<1>4. <<>> \in Seq(Nodes) /\ Len(<<>>) = 0
  OBVIOUS
<1> QED BY <1>1, <1>2, <1>3, <1>4, IdleFits, NodesAssumption DEF KeptInv

(* A step of one invocation. *)
LEMMA KeptStep ==
  ASSUME KeptInv, NEW c \in Clis, NEW me, CliFits(me), Step(c, me), UNCHANGED <<host, served>>,
         file' \in Seq(Nodes), Len(file') <= MaxNodes
  PROVE  KeptInv'
<1>1. cli' = [cli EXCEPT ![c] = me]
  BY DEF Step
<1>2. cli' = [b \in Clis |-> cli'[b]] /\ \A b \in Clis : cli'[b] = IF b = c THEN me ELSE cli[b]
  BY <1>1 DEF KeptInv
<1>3. \A b \in Clis : CliFits(cli'[b])
  BY <1>2 DEF KeptInv
<1> QED BY <1>2, <1>3 DEF KeptInv

(* The file is loaded, and status, node or version turn to its nodes. *)
LEMMA StartFits ==
  ASSUME KeptInv, NEW c \in Clis, Start(c)
  PROVE  KeptInv'
<1> DEFINE me == cli[c]
<1>0. CliFits(me) /\ me.at = "idle" /\ file \in Seq(Nodes) /\ Len(file) \in Nat /\ Len(file) <= MaxNodes
  BY DEF KeptInv, Start
<1>1. PICK op \in {"status", "node", "version"} :
        \E nodes \in Targets(op) : Step(c, [Load(c, op, "checking") EXCEPT !.nodes = nodes])
  BY DEF Start
<1>2. PICK nodes \in Targets(op) : Step(c, [Load(c, op, "checking") EXCEPT !.nodes = nodes])
  BY <1>1
<1> DEFINE new == [me EXCEPT !.op = op, !.at = "checking", !.config = file, !.loaded = file,
                             !.nodes = nodes]
<1>3. /\ nodes \in Seq(Nodes) /\ Len(nodes) \in Nat
      /\ \A n \in DOMAIN nodes : \E k \in DOMAIN file : nodes[n] = file[k]
  BY <1>0, TargetsOfFile
<1>4. Shape(me)
  BY <1>0 DEF CliFits
<1>5. [Load(c, op, "checking") EXCEPT !.nodes = nodes] = new
  BY <1>4 DEF Load, Shape
<1>6. CliFits(new)
  <2>1. /\ new.op = op /\ new.at = "checking" /\ new.config = file /\ new.loaded = file
        /\ new.nodes = nodes /\ new.dirty = me.dirty /\ new.done = me.done
        /\ new.refused = me.refused /\ new.found = me.found
    BY <1>4 DEF Shape
  <2>2. Shape(new)
    BY <1>4 DEF Shape
  <2> HIDE DEF new, me
  <2>3. IsCli(new)
    <3>1. new.op \in Ops /\ new.at \in Stages
      BY <2>1 DEF Ops, Stages
    <3>2. me.done = 0 /\ me.refused = {} /\ IsCli(me)
      BY <1>0 DEF CliFits
    <3> QED BY <1>0, <1>3, <2>1, <3>1, <3>2 DEF IsCli
  <2>4. PinsInPlace(new)
    BY <1>3, <2>1 DEF PinsInPlace
  <2>5. Len(new.config) \in Len(new.loaded) .. MaxNodes
    BY <1>0, <2>1, NodesAssumption
  <2>6. DistinctIds(new.found)
    BY <1>0, <2>1 DEF CliFits
  <2> QED BY <2>1, <2>2, <2>3, <2>4, <2>5, <2>6 DEF CliFits
<1>7. Step(c, new) /\ UNCHANGED <<file, host, served>>
  BY <1>2, <1>5 DEF Start
<1> HIDE DEF new
<1> QED BY <1>0, <1>6, <1>7, KeptStep

(* --repin turns to one node of the file whose pin it has cleared. *)
LEMMA RepinFits ==
  ASSUME KeptInv, NEW c \in Clis, Repin(c)
  PROVE  KeptInv'
<1> DEFINE me == cli[c]
<1>0. CliFits(me) /\ me.at = "idle" /\ file \in Seq(Nodes) /\ Len(file) \in Nat /\ Len(file) <= MaxNodes
  BY DEF KeptInv, Repin
<1>1. PICK i \in DOMAIN file :
        Step(c, [Load(c, "repin", "checking") EXCEPT
                   !.config = SetPin(file, file[i].addr, NoPin),
                   !.nodes = <<SetPin(file, file[i].addr, NoPin)[AtAddr(file, file[i].addr)]>>])
  BY DEF Repin
<1> DEFINE cleared == SetPin(file, file[i].addr, NoPin)
           node    == cleared[AtAddr(file, file[i].addr)]
           new == [me EXCEPT !.op = "repin", !.at = "checking", !.config = cleared, !.loaded = file,
                             !.nodes = <<node>>]
<1>2. Shape(me)
  BY <1>0 DEF CliFits
<1>3. cleared \in Seq(Nodes) /\ Len(cleared) = Len(file)
  BY <1>0, SetPinIsLocal
<1>4. node \in Nodes
  <2>1. AtAddr(file, file[i].addr) \in DOMAIN file
    BY <1>0, FindsAddr
  <2>2. DOMAIN cleared = DOMAIN file
    BY <1>0, <1>3
  <2> HIDE DEF cleared
  <2> QED BY <1>3, <2>1, <2>2
<1>5. Step(c, [Load(c, "repin", "checking") EXCEPT !.config = cleared, !.nodes = <<node>>])
  BY <1>1
<1> HIDE DEF cleared, node
<1>6. [Load(c, "repin", "checking") EXCEPT !.config = cleared, !.nodes = <<node>>] = new
  BY <1>2 DEF Load, Shape
<1>7. CliFits(new)
  <2>1. /\ new.op = "repin" /\ new.at = "checking" /\ new.config = cleared /\ new.loaded = file
        /\ new.nodes = <<node>> /\ new.dirty = me.dirty /\ new.done = me.done
        /\ new.refused = me.refused /\ new.found = me.found
    BY <1>2 DEF Shape
  <2>2. Shape(new)
    BY <1>2 DEF Shape
  <2> HIDE DEF new, me
  <2>3. <<node>> \in Seq(Nodes) /\ Len(<<node>>) = 1
    BY <1>4
  <2>4. IsCli(new)
    <3>1. new.op \in Ops /\ new.at \in Stages
      BY <2>1 DEF Ops, Stages
    <3>2. me.done = 0 /\ me.refused = {} /\ IsCli(me)
      BY <1>0 DEF CliFits
    <3> QED BY <1>0, <1>3, <2>1, <2>3, <3>1, <3>2 DEF IsCli
  <2>5. Len(new.config) \in Len(new.loaded) .. MaxNodes
    BY <1>0, <1>3, <2>1, NodesAssumption
  <2>6. DistinctIds(new.found)
    BY <1>0, <2>1 DEF CliFits
  <2> QED BY <2>1, <2>2, <2>4, <2>5, <2>6 DEF CliFits
<1>8. Step(c, new) /\ UNCHANGED <<file, host, served>>
  BY <1>5, <1>6 DEF Repin
<1> HIDE DEF new
<1> QED BY <1>0, <1>7, <1>8, KeptStep

(* discover searches for hosts, finds each once, and loads the file when   *)
(* the search is over.                                                     *)
LEMMA SearchFits ==
  ASSUME KeptInv, NEW c \in Clis, Discover(c) \/ (\E h \in Hosts : Find(c, h)) \/ EndSearch(c)
  PROVE  KeptInv'
<1> DEFINE me == cli[c]
<1>0. /\ CliFits(me) /\ file \in Seq(Nodes) /\ Len(file) \in Nat /\ Len(file) <= MaxNodes
      /\ UNCHANGED <<file, host, served>>
  <2>1. UNCHANGED <<file, host, served>>
    BY DEF Discover, Find, EndSearch
  <2>2. CliFits(me) /\ file \in Seq(Nodes) /\ Len(file) <= MaxNodes
    BY DEF KeptInv
  <2> QED BY <2>1, <2>2
<1>1. Shape(me) /\ IsCli(me) /\ DistinctIds(me.found)
  BY <1>0 DEF CliFits
<1>2. CASE Discover(c)
  <2> DEFINE new == [me EXCEPT !.op = "discover", !.at = "searching"]
  <2>1. /\ new.op = "discover" /\ new.at = "searching" /\ new.config = me.config
        /\ new.loaded = me.loaded /\ new.nodes = me.nodes /\ new.dirty = me.dirty
        /\ new.done = me.done /\ new.refused = me.refused /\ new.found = me.found
    BY <1>1 DEF Shape
  <2>2. Shape(new) /\ Step(c, new)
    BY <1>1, <1>2 DEF Shape, Discover
  <2> HIDE DEF new, me
  <2>3. IsCli(new)
    <3>1. new.op \in Ops /\ new.at \in Stages
      BY <2>1 DEF Ops, Stages
    <3> QED BY <1>1, <2>1, <3>1 DEF IsCli
  <2>4. CliFits(new)
    BY <1>0, <2>1, <2>2, <2>3 DEF CliFits
  <2> QED BY <1>0, <2>2, <2>4, KeptStep
<1>3. ASSUME NEW h \in Hosts, Find(c, h)
      PROVE  KeptInv'
  <2> DEFINE record == [id |-> h, addr |-> host[h].addr]
             new    == [me EXCEPT !.found = Append(@, record)]
  <2>1. /\ new.op = me.op /\ new.at = me.at /\ new.config = me.config
        /\ new.loaded = me.loaded /\ new.nodes = me.nodes /\ new.dirty = me.dirty
        /\ new.done = me.done /\ new.refused = me.refused /\ new.found = Append(me.found, record)
    BY <1>1 DEF Shape
  <2>2. Shape(new) /\ Step(c, new) /\ me.at = "searching"
    BY <1>1, <1>3 DEF Shape, Find
  <2>3. record \in [id : Hosts, addr : Addrs] /\ record.id = h
    BY <1>3 DEF Find, KeptInv
  <2>4. \A i \in DOMAIN me.found : me.found[i].id # h
    BY <1>3 DEF Find
  <2>5. me.found \in Seq([id : Hosts, addr : Addrs])
    BY <1>1 DEF IsCli
  <2> HIDE DEF new, me, record
  <2>6. Append(me.found, record) \in Seq([id : Hosts, addr : Addrs])
    BY <2>3, <2>5
  <2>7. DistinctIds(Append(me.found, record))
    <3>1. /\ DOMAIN me.found = 1 .. Len(me.found) /\ Len(me.found) \in Nat
          /\ DOMAIN Append(me.found, record) = 1 .. (Len(me.found) + 1)
          /\ \A i \in DOMAIN me.found : Append(me.found, record)[i] = me.found[i]
          /\ Append(me.found, record)[Len(me.found) + 1] = record
      BY <2>3, <2>5
    <3>2. \A i \in DOMAIN Append(me.found, record) : i \in DOMAIN me.found \/ i = Len(me.found) + 1
      BY <3>1
    <3> QED BY <1>1, <2>3, <2>4, <3>1, <3>2 DEF DistinctIds
  <2>8. IsCli(new)
    BY <1>1, <2>1, <2>6 DEF IsCli
  <2>9. CliFits(new)
    BY <1>0, <2>1, <2>2, <2>7, <2>8 DEF CliFits
  <2> QED BY <1>0, <2>2, <2>9, KeptStep
<1>4. CASE EndSearch(c)
  <2> DEFINE new == [me EXCEPT !.op = "discover", !.at = "merging", !.config = file, !.loaded = file]
  <2>1. /\ new.op = "discover" /\ new.at = "merging" /\ new.config = file
        /\ new.loaded = file /\ new.nodes = me.nodes /\ new.dirty = me.dirty
        /\ new.done = me.done /\ new.refused = me.refused /\ new.found = me.found
    BY <1>1 DEF Shape
  <2>2. Shape(new) /\ Step(c, new)
    BY <1>1, <1>4 DEF Shape, EndSearch, Load
  <2> HIDE DEF new, me
  <2>3. IsCli(new)
    <3>1. new.op \in Ops /\ new.at \in Stages
      BY <2>1 DEF Ops, Stages
    <3> QED BY <1>0, <1>1, <2>1, <3>1 DEF IsCli
  <2>4. MergedOnce(new)
    BY <2>1 DEF MergedOnce
  <2>5. Len(new.config) \in Len(new.loaded) .. MaxNodes
    BY <1>0, <2>1, NodesAssumption
  <2>6. CliFits(new)
    BY <1>1, <2>1, <2>2, <2>3, <2>4, <2>5 DEF CliFits
  <2> QED BY <1>0, <2>2, <2>6, KeptStep
<1> QED BY <1>2, <1>3, <1>4

(* One found daemon is merged. *)
LEMMA MergeNextFits ==
  ASSUME KeptInv, NEW c \in Clis, MergeNext(c)
  PROVE  KeptInv'
<1> DEFINE me     == cli[c]
           first  == Head(me.found)
           d      == [name |-> IF first.id \in Anonymous THEN NoName ELSE first.id, addr |-> first.addr]
           merged == Merge(me.config, d)
           new    == [me EXCEPT !.found = Tail(@), !.config = merged, !.dirty = @ \/ merged # me.config]
<1>0. /\ CliFits(me) /\ file \in Seq(Nodes) /\ Len(file) <= MaxNodes /\ UNCHANGED <<file, host, served>>
      /\ me.at = "merging" /\ me.found # <<>> /\ Len(merged) <= MaxNodes /\ Step(c, new)
  BY DEF KeptInv, MergeNext
<1>1. Shape(me) /\ IsCli(me) /\ DistinctIds(me.found) /\ MergedOnce(me)
      /\ Len(me.config) \in Len(me.loaded) .. MaxNodes
  BY <1>0 DEF CliFits
<1>2. me.found \in Seq([id : Hosts, addr : Addrs]) /\ me.config \in Seq(Nodes) /\ me.loaded \in Seq(Nodes)
  BY <1>1 DEF IsCli
<1>3. /\ new.op = me.op /\ new.at = me.at /\ new.config = merged
      /\ new.loaded = me.loaded /\ new.nodes = me.nodes /\ new.dirty = (me.dirty \/ merged # me.config)
      /\ new.done = me.done /\ new.refused = me.refused /\ new.found = Tail(me.found)
  BY <1>1 DEF Shape
<1>4. Shape(new)
  BY <1>1 DEF Shape
<1> HIDE DEF me
<1>5. /\ first = me.found[1] /\ 1 \in DOMAIN me.found
      /\ Tail(me.found) \in Seq([id : Hosts, addr : Addrs])
      /\ \A j \in DOMAIN Tail(me.found) : /\ j + 1 \in DOMAIN me.found /\ j + 1 # 1
                                          /\ Tail(me.found)[j] = me.found[j + 1]
  BY <1>0, <1>2
<1>6. first \in [id : Hosts, addr : Addrs]
  <2>1. ASSUME NEW S, NEW f \in Seq(S), 1 \in DOMAIN f
        PROVE  f[1] \in S
    BY <2>1
  <2>2. me.found[1] \in [id : Hosts, addr : Addrs]
    BY <1>2, <1>5, <2>1
  <2> QED BY <1>5, <2>2
<1>7. d \in [name : Hosts \cup {NoName}, addr : Addrs]
  <2> HIDE DEF first
  <2> QED BY <1>6
<1>8. DistinctIds(Tail(me.found)) /\ \A j \in DOMAIN Tail(me.found) : Tail(me.found)[j].id # first.id
  <2> HIDE DEF first
  <2>1. \A j, k \in DOMAIN Tail(me.found) : j # k => j + 1 # k + 1
    BY <1>5
  <2> QED BY <1>1, <1>5, <2>1 DEF DistinctIds
<1>9. d.name = NoName \/ d.name = first.id
  OBVIOUS
<1> HIDE DEF d, first, merged, new
<1>10. merged \in Seq(Nodes) /\ Len(merged) \in Nat /\ Len(merged) >= Len(me.config)
  BY <1>2, <1>7, MergeAddsOnly DEF merged
<1>11. MergedOnce(new)
  <2>1. ASSUME NEW k \in DOMAIN me.loaded
        PROVE  \/ merged[k] = me.loaded[k]
               \/ /\ \/ merged[k].name = NoName
                     \/ \A j \in DOMAIN Tail(me.found) : Tail(me.found)[j].id # merged[k].name
                  /\ merged[k].addr = me.loaded[k].addr => merged[k].fp = me.loaded[k].fp
    <3>1. k \in DOMAIN me.config
      BY <1>1, <1>2
    <3>2. CASE merged[k] = me.config[k]
      BY <1>1, <1>5, <3>2 DEF MergedOnce
    <3>3. CASE merged[k] # me.config[k]
      <4>1. /\ merged[k].name = d.name
            /\ merged[k].addr = me.config[k].addr => merged[k].fp = me.config[k].fp
            /\ merged[k].addr = me.config[k].addr \/ (d.name # NoName /\ me.config[k].name = d.name)
        BY <1>2, <1>7, <3>1, <3>3, MergeIsLocal DEF merged
      <4>2. \/ merged[k].name = NoName
            \/ \A j \in DOMAIN Tail(me.found) : Tail(me.found)[j].id # merged[k].name
        BY <1>8, <1>9, <4>1
      <4>3. merged[k].addr = me.loaded[k].addr => merged[k].fp = me.loaded[k].fp
        <5>1. CASE me.config[k] = me.loaded[k]
          BY <4>1, <5>1
        <5>2. CASE me.config[k] # me.loaded[k]
          <6>1. /\ me.config[k].name = NoName \/ \A j \in DOMAIN me.found : me.found[j].id # me.config[k].name
                /\ me.config[k].addr = me.loaded[k].addr => me.config[k].fp = me.loaded[k].fp
            BY <1>1, <5>2 DEF MergedOnce
          <6>2. merged[k].addr = me.config[k].addr
            BY <1>5, <1>9, <4>1, <6>1
          <6> QED BY <4>1, <6>1, <6>2
        <5> QED BY <5>1, <5>2
      <4> QED BY <4>2, <4>3
    <3> QED BY <3>2, <3>3
  <2> QED BY <1>3, <2>1 DEF MergedOnce
<1>12. IsCli(new)
  <2>1. (me.dirty \/ merged # me.config) \in BOOLEAN
    OBVIOUS
  <2>2. new.dirty \in BOOLEAN
    BY <1>3, <2>1, Zenon
  <2> QED BY <1>1, <1>3, <1>5, <1>10, <2>2 DEF IsCli
<1>13. Len(new.config) \in Len(new.loaded) .. MaxNodes
  <2>1. Len(me.config) \in Nat /\ Len(me.loaded) \in Nat
    BY <1>2
  <2> QED BY <1>0, <1>1, <1>3, <1>10, <2>1, NodesAssumption
<1>14. CliFits(new)
  <2>1. new.at = "merging" /\ DistinctIds(new.found)
    BY <1>0, <1>3, <1>8
  <2> QED BY <1>4, <1>11, <1>12, <1>13, <2>1 DEF CliFits
<1> QED BY <1>0, <1>14, KeptStep

(* check_pin for one node: what it learns goes to the node it is about. *)
LEMMA CheckFits ==
  ASSUME KeptInv, NEW c \in Clis, CheckPin(c)
  PROVE  KeptInv'
<1> DEFINE me   == cli[c]
           node == me.nodes[me.done + 1]
           pin  == Serves(node.addr)
<1>0. /\ CliFits(me) /\ file \in Seq(Nodes) /\ Len(file) <= MaxNodes /\ UNCHANGED <<file, host, served>>
      /\ me.at = "checking" /\ me.done < Len(me.nodes)
  BY DEF KeptInv, CheckPin, Checking
<1>1. Shape(me) /\ IsCli(me) /\ DistinctIds(me.found) /\ Len(me.config) \in Len(me.loaded) .. MaxNodes
  BY <1>0 DEF CliFits
<1>2. /\ me.op \in Ops /\ me.at \in Stages /\ me.config \in Seq(Nodes) /\ me.loaded \in Seq(Nodes)
      /\ me.nodes \in Seq(Nodes) /\ me.dirty \in BOOLEAN /\ me.done \in 0 .. Len(me.nodes)
      /\ me.refused \subseteq 1 .. Len(me.nodes) /\ me.found \in Seq([id : Hosts, addr : Addrs])
  BY <1>1 DEF IsCli
<1>3. /\ me.done + 1 \in 1 .. Len(me.nodes) /\ me.done + 1 \in 0 .. Len(me.nodes)
      /\ me.done + 1 \in DOMAIN me.nodes /\ node \in Nodes
  BY <1>0, <1>2
<1>4. CASE /\ Learns(node, pin)
           /\ Step(c, [me EXCEPT !.done = @ + 1, !.config = SetPin(@, node.addr, pin), !.dirty = TRUE])
  <2> DEFINE new == [me EXCEPT !.done = @ + 1, !.config = SetPin(@, node.addr, pin), !.dirty = TRUE]
  <2>1. /\ new.op = me.op /\ new.at = me.at /\ new.config = SetPin(me.config, node.addr, pin)
        /\ new.loaded = me.loaded /\ new.nodes = me.nodes /\ new.dirty = TRUE
        /\ new.done = me.done + 1 /\ new.refused = me.refused /\ new.found = me.found
    BY <1>1 DEF Shape
  <2>2. Shape(new) /\ Step(c, new)
    BY <1>1, <1>4 DEF Shape
  <2>3. pin \in Certs /\ node.fp = NoPin
    <3>1. pin # Down /\ node.fp = NoPin
      BY <1>4 DEF Learns
    <3>2. PICK h \in Hosts : pin = host[h].cert
      BY <3>1 DEF Serves
    <3> QED BY <3>1, <3>2 DEF KeptInv
  <2> HIDE DEF new, me, node, pin
  <2>4. /\ new.config \in Seq(Nodes) /\ Len(new.config) = Len(me.config)
        /\ \A i \in DOMAIN me.config :
              /\ new.config[i].addr = me.config[i].addr
              /\ me.config[i].addr # node.addr => new.config[i].fp = me.config[i].fp
    BY <1>2, <2>1, <2>3, SetPinIsLocal
  <2>5. IsCli(new)
    BY <1>2, <1>3, <2>1, <2>4 DEF IsCli
  <2>6. ASSUME me.op # "repin"
        PROVE  PinsInPlace(new)
    <3>1. PinsInPlace(me)
      BY <1>0, <2>6 DEF CliFits
    <3>2. /\ Len(me.config) = Len(me.loaded) /\ DOMAIN me.loaded = DOMAIN me.config
          /\ \A k \in DOMAIN me.loaded : me.config[k].addr = me.loaded[k].addr
      BY <1>2, <3>1 DEF PinsInPlace
    <3>3. \E k \in DOMAIN me.loaded : node = me.loaded[k]
      BY <1>3, <3>1 DEF PinsInPlace, node
    <3>4. PICK k \in DOMAIN me.loaded : node = me.loaded[k]
      BY <3>3
    <3>5. ASSUME DistinctAddrs(me.loaded), NEW i \in DOMAIN me.loaded, me.loaded[i].fp # NoPin
          PROVE  new.config[i].fp = me.loaded[i].fp
      <4>1. i # k
        BY <2>3, <3>4, <3>5
      <4>2. me.config[i].addr # node.addr
        BY <3>2, <3>4, <3>5, <4>1 DEF DistinctAddrs
      <4>3. me.config[i].fp = me.loaded[i].fp
        BY <3>1, <3>5 DEF PinsInPlace
      <4> QED BY <2>4, <3>2, <4>2, <4>3
    <3>6. Len(new.config) = Len(new.loaded)
      BY <2>1, <2>4, <3>2
    <3>7. \A i \in DOMAIN new.loaded : new.config[i].addr = new.loaded[i].addr
      BY <2>1, <2>4, <3>2
    <3>8. \A n \in DOMAIN new.nodes : \E i \in DOMAIN new.loaded : new.nodes[n] = new.loaded[i]
      BY <2>1, <3>1 DEF PinsInPlace
    <3>9. DistinctAddrs(new.loaded) =>
            \A i \in DOMAIN new.loaded : new.loaded[i].fp # NoPin => new.config[i].fp = new.loaded[i].fp
      BY <2>1, <3>5
    <3> QED BY <3>6, <3>7, <3>8, <3>9 DEF PinsInPlace
  <2>7. CliFits(new)
    BY <1>0, <1>1, <2>1, <2>2, <2>4, <2>5, <2>6 DEF CliFits
  <2> QED BY <1>0, <2>2, <2>7, KeptStep DEF me
<1>5. ASSUME NEW refused, refused \subseteq 1 .. Len(me.nodes),
             Step(c, [me EXCEPT !.done = @ + 1, !.refused = refused])
      PROVE  KeptInv'
  <2> DEFINE new == [me EXCEPT !.done = @ + 1, !.refused = refused]
  <2>1. /\ new.op = me.op /\ new.at = me.at /\ new.config = me.config
        /\ new.loaded = me.loaded /\ new.nodes = me.nodes /\ new.dirty = me.dirty
        /\ new.done = me.done + 1 /\ new.refused = refused /\ new.found = me.found
    BY <1>1 DEF Shape
  <2>2. Shape(new) /\ Step(c, new)
    BY <1>1, <1>5 DEF Shape
  <2> HIDE DEF new, me
  <2>3. IsCli(new)
    BY <1>2, <1>3, <1>5, <2>1 DEF IsCli
  <2>4. PinsInPlace(me) => PinsInPlace(new)
    BY <2>1 DEF PinsInPlace
  <2>5. CliFits(new)
    BY <1>0, <1>1, <2>1, <2>2, <2>3, <2>4 DEF CliFits
  <2> QED BY <1>0, <2>2, <2>5, KeptStep DEF me
<1>6. /\ [[me EXCEPT !.done = @ + 1] EXCEPT !.config = SetPin(@, node.addr, pin), !.dirty = TRUE]
           = [me EXCEPT !.done = @ + 1, !.config = SetPin(@, node.addr, pin), !.dirty = TRUE]
      /\ [[me EXCEPT !.done = @ + 1] EXCEPT !.refused = @ \cup {me.done + 1}]
           = [me EXCEPT !.done = @ + 1, !.refused = me.refused \cup {me.done + 1}]
      /\ [me EXCEPT !.done = @ + 1] = [me EXCEPT !.done = @ + 1, !.refused = me.refused]
  BY <1>1 DEF Shape
<1>7. \/ /\ Learns(node, pin)
         /\ Step(c, [[me EXCEPT !.done = @ + 1] EXCEPT !.config = SetPin(@, node.addr, pin), !.dirty = TRUE])
      \/ Step(c, [me EXCEPT !.done = @ + 1])
      \/ Step(c, [[me EXCEPT !.done = @ + 1] EXCEPT !.refused = @ \cup {me.done + 1}])
  BY DEF CheckPin
<1>8. me.refused \cup {me.done + 1} \subseteq 1 .. Len(me.nodes)
  BY <1>2, <1>3
<1> QED BY <1>2, <1>4, <1>5, <1>6, <1>7, <1>8

(* The copy is saved or not, and the requests follow. *)
LEMMA SaveFits ==
  ASSUME KeptInv, NEW c \in Clis,
         Save(c) \/ SaveFails(c) \/ RepinFails(c) \/ Request(c)
  PROVE  KeptInv'
<1> DEFINE me == cli[c]
           ask == [me EXCEPT !.at = "requesting", !.done = 0]
           go  == [me EXCEPT !.done = @ + 1]
<1>0. /\ CliFits(me) /\ file \in Seq(Nodes) /\ Len(file) <= MaxNodes
  BY DEF KeptInv
<1>1. Shape(me) /\ IsCli(me) /\ DistinctIds(me.found) /\ Len(me.config) \in Len(me.loaded) .. MaxNodes
  BY <1>0 DEF CliFits
<1>2. me.config \in Seq(Nodes) /\ me.nodes \in Seq(Nodes) /\ me.done \in 0 .. Len(me.nodes)
      /\ me.loaded \in Seq(Nodes)
  BY <1>1 DEF IsCli
<1>3. UNCHANGED <<host, served>>
  BY DEF Save, SaveFails, RepinFails, Request
<1>4. file' \in Seq(Nodes) /\ Len(file') <= MaxNodes
  <2>1. file' = file \/ file' = me.config
    BY DEF Save, SaveFails, RepinFails, Request
  <2>2. Len(me.config) <= MaxNodes
    BY <1>1, <1>2
  <2> QED BY <1>0, <1>2, <2>1, <2>2
<1>5. Step(c, Idle) \/ Step(c, ask) \/ (me.at = "requesting" /\ me.done + 1 < Len(me.nodes) /\ Step(c, go))
  BY DEF Save, SaveFails, RepinFails, Request
<1>6. CASE Step(c, Idle)
  BY <1>3, <1>4, <1>6, IdleFits, KeptStep
<1>7. CASE Step(c, ask)
  <2>1. /\ ask.op = me.op /\ ask.at = "requesting" /\ ask.config = me.config
        /\ ask.loaded = me.loaded /\ ask.nodes = me.nodes /\ ask.dirty = me.dirty
        /\ ask.done = 0 /\ ask.refused = me.refused /\ ask.found = me.found
    BY <1>1 DEF Shape
  <2>2. Shape(ask)
    BY <1>1 DEF Shape
  <2> HIDE DEF me, ask
  <2>3. IsCli(ask)
    <3>1. ask.at \in Stages /\ 0 \in 0 .. Len(me.nodes)
      BY <1>2, <2>1 DEF Stages
    <3> QED BY <1>1, <2>1, <3>1 DEF IsCli
  <2>4. CliFits(ask)
    BY <1>1, <2>1, <2>2, <2>3 DEF CliFits
  <2> QED BY <1>3, <1>4, <1>7, <2>4, KeptStep
<1>8. CASE me.at = "requesting" /\ me.done + 1 < Len(me.nodes) /\ Step(c, go)
  <2>1. /\ go.op = me.op /\ go.at = me.at /\ go.config = me.config
        /\ go.loaded = me.loaded /\ go.nodes = me.nodes /\ go.dirty = me.dirty
        /\ go.done = me.done + 1 /\ go.refused = me.refused /\ go.found = me.found
    BY <1>1 DEF Shape
  <2>2. Shape(go)
    BY <1>1 DEF Shape
  <2> HIDE DEF me, go
  <2>3. IsCli(go)
    <3>1. me.done + 1 \in 0 .. Len(me.nodes)
      BY <1>2, <1>8
    <3> QED BY <1>1, <2>1, <3>1 DEF IsCli
  <2>4. CliFits(go)
    BY <1>1, <1>8, <2>1, <2>2, <2>3 DEF CliFits
  <2> QED BY <1>3, <1>4, <1>8, <2>4, KeptStep
<1> QED BY <1>5, <1>6, <1>7, <1>8

(* A host leaves, moves or gets a new certificate. *)
LEMMA HostChangeFits ==
  ASSUME KeptInv, NEW h \in Hosts, Change(h)
  PROVE  KeptInv'
<1>1. host' \in [Hosts -> [addr : Addrs \cup {Down}, cert : Certs]]
  BY DEF Change, KeptInv
<1>2. NowServed' \subseteq Addrs \X Certs
  BY <1>1 DEF NowServed
<1>3. served' \subseteq Addrs \X Certs /\ file' = file /\ cli' = cli
  BY <1>2 DEF Change, KeptInv
<1> QED BY <1>1, <1>3 DEF KeptInv

LEMMA KeptInductive == KeptInv /\ [Next]_vars => KeptInv'
<1> SUFFICES ASSUME KeptInv, [Next]_vars PROVE KeptInv'
  OBVIOUS
<1>1. CASE UNCHANGED vars
  BY <1>1 DEF KeptInv, vars
<1> QED BY <1>1, StartFits, RepinFits, SearchFits, MergeNextFits, CheckFits, SaveFits,
           HostChangeFits DEF Next

LEMMA KeptAlways == Spec => []KeptInv
BY KeptInitial, KeptInductive, PTL DEF Spec

(* The file, the hosts and every invocation keep to their types: no        *)
(* invocation gets past the nodes it is about, refuses a node that is not  *)
(* among them, or makes the list longer than the profile may be.           *)
THEOREM NodeListTypeCorrect == Spec => []TypeOK
<1>1. KeptInv => TypeOK
  <2> SUFFICES ASSUME KeptInv PROVE TypeOK
    OBVIOUS
  <2>1. DOMAIN cli = Clis /\ \A c \in Clis : IsCli(cli[c])
    BY DEF KeptInv, CliFits
  <2> QED BY <2>1 DEF KeptInv, TypeOK
<1> QED BY <1>1, KeptAlways, PTL

(* An invocation loses no node that nobody else wrote since it read it,    *)
(* and, as long as no two nodes it read have one address, status, node,    *)
(* version and discover -u leave such a node its pin while it keeps its    *)
(* address: only --repin gives one up.                                     *)
THEOREM SavesKeepPins == Spec => UntouchedIsKept
<1> DEFINE Kept == \A c \in Clis :
             Saves(c) =>
               LET read == cli[c].loaded
               IN  \A i \in DOMAIN file :
                      i \in DOMAIN read /\ file[i] = read[i] =>
                        /\ i \in DOMAIN file'
                        /\ cli[c].op # "repin" /\ DistinctAddrs(read) =>
                             (file[i].fp # NoPin /\ file'[i].addr = file[i].addr =>
                                file'[i].fp = file[i].fp)
<1>1. KeptInv => Kept
  <2> SUFFICES ASSUME KeptInv, NEW c \in Clis, Saves(c),
                      NEW i \in DOMAIN file, i \in DOMAIN cli[c].loaded,
                      file[i] = cli[c].loaded[i]
               PROVE  /\ i \in DOMAIN file'
                      /\ cli[c].op # "repin" /\ DistinctAddrs(cli[c].loaded) =>
                           (file[i].fp # NoPin /\ file'[i].addr = file[i].addr =>
                              file'[i].fp = file[i].fp)
    OBVIOUS
  <2>1. CliFits(cli[c]) /\ file' = cli[c].config
    BY DEF KeptInv, Saves
  <2>2. cli[c].at = "merging" \/ cli[c].at = "checking"
    BY DEF Saves, Settled
  <2>3. i \in DOMAIN file'
    <3>1. cli[c].loaded \in Seq(Nodes) /\ cli[c].config \in Seq(Nodes)
      BY <2>1 DEF CliFits, IsCli
    <3>2. Len(cli[c].config) \in Len(cli[c].loaded) .. MaxNodes
      BY <2>1 DEF CliFits
    <3> QED BY <2>1, <3>1, <3>2, NodesAssumption
  <2>4. CASE cli[c].at = "merging"
    <3>1. MergedOnce(cli[c])
      BY <2>1, <2>4 DEF CliFits
    <3> QED BY <2>1, <2>3, <3>1 DEF MergedOnce
  <2>5. CASE cli[c].at = "checking"
    <3>1. cli[c].op # "repin" => PinsInPlace(cli[c])
      BY <2>1, <2>5 DEF CliFits
    <3> QED BY <2>1, <2>3, <3>1 DEF PinsInPlace
  <2> QED BY <2>2, <2>4, <2>5
<1>2. KeptInv /\ [Next]_vars => [Kept]_vars
  BY <1>1
<1>3. Spec => [][Kept]_vars
  BY <1>2, KeptAlways, PTL DEF Spec
<1> QED BY <1>3 DEF UntouchedIsKept
=============================================================================
