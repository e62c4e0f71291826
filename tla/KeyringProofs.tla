---------------------------- MODULE KeyringProofs ----------------------------
(***************************************************************************)
(* What holds of the keyring for any number of invocations that overlap,   *)
(* of key pairs, failed calls and kills.                                   *)
(***************************************************************************)
EXTENDS Keyring, TLAPS

Ops      == {"none", "init", "client", "daemon", "migrate", "connect"}
AllNames == {"caCert", "caKey", "clientCert", "clientKey"}

(* What an account holds. *)
Kind(a) == IF a \in {"caCert", "clientCert"} THEN Certs ELSE Keys

Invocations == [op : Ops, flag : BOOLEAN, at : Stages, cert : Certs \cup {None}, key : Keys \cup {None},
                ca : Certs \cup {None}, leaf : Certs \cup {None}, i : 1 .. 4,
                current : Certs \cup Keys \cup {None}, value : Certs \cup Keys \cup {None},
                ready : BOOLEAN, alone : BOOLEAN]

(* An invocation has what its step works on. *)
MeOK(me) ==
    /\ me \in Invocations
    /\ me.at \in {"setCert", "setKey", "leaf"} => me.cert \in Certs /\ me.key \in Keys
    /\ me.at \in {"setClientCert", "setClientKey"} => me.leaf \in Certs
    /\ me.at \in {"delete", "set"} => me.value \in Kind(Account(me))

StoreTypes ==
    /\ store \in Entries /\ legacy \in Entries
    /\ keys \in 2 .. MaxKeys /\ faults \in 0 .. MaxFaults /\ overlapped \in BOOLEAN
    /\ owed \subseteq AllNames

KeyTypes ==
    /\ StoreTypes
    /\ cli \in [Clis -> Invocations] /\ \A c \in Clis : MeOK(cli[c])

LEMMA FourAccounts == /\ Len(Accounts) = 4
                      /\ \A i \in 1 .. 4 : Accounts[i] \in AllNames
                      /\ Accounts[1] = "caCert" /\ Accounts[2] = "caKey"
                      /\ Accounts[3] = "clientCert" /\ Accounts[4] = "clientKey"
BY DEF Accounts, AllNames

LEMMA EntryKinds ==
  ASSUME NEW s \in Entries, NEW a \in AllNames
  PROVE  /\ s[a] \in Kind(a) \cup {None}
         /\ \A v \in Kind(a) \cup {None} : [s EXCEPT ![a] = v] \in Entries
<1>1. a = "caCert" \/ a = "caKey" \/ a = "clientCert" \/ a = "clientKey"
  BY DEF AllNames
<1>2. CASE a = "caCert"
  BY <1>2 DEF Entries, Kind
<1>3. CASE a = "caKey"
  BY <1>3 DEF Entries, Kind
<1>4. CASE a = "clientCert"
  BY <1>4 DEF Entries, Kind
<1>5. CASE a = "clientKey"
  BY <1>5 DEF Entries, Kind
<1> QED BY <1>1, <1>2, <1>3, <1>4, <1>5

LEMMA IdleOK == MeOK(Idle) /\ Idle.at = "idle" /\ Idle.op = "none"
BY DEF MeOK, Idle, Invocations, Ops, Stages

(* After a step of one invocation: the others may no longer be alone. *)
LEMMA Others ==
  ASSUME cli \in [Clis -> Invocations], NEW c \in Clis, NEW me, Step(c, me) \/ WriteStep(c, me)
  PROVE  /\ cli' = [d \in Clis |-> cli'[d]] /\ cli'[c] = me
         /\ \A d \in Clis \ {c} : cli'[d] = cli[d] \/ cli'[d] = [cli[d] EXCEPT !.alone = FALSE]
         /\ WriteStep(c, me) => \A d \in Clis \ {c} : cli'[d].at = "idle" \/ ~cli'[d].alone
<1>1. CASE Step(c, me) /\ ~WriteStep(c, me)
  BY <1>1 DEF Step
<1>2. CASE WriteStep(c, me)
  <2>1. cli' = [d \in Clis |-> IF d = c THEN me
                  ELSE IF Active(d) THEN [cli[d] EXCEPT !.alone = FALSE] ELSE cli[d]]
    BY <1>2 DEF WriteStep
  <2>2. \A d \in Clis : [cli[d] EXCEPT !.alone = FALSE].alone = FALSE
    BY DEF Invocations
  <2> QED BY <2>1, <2>2 DEF Active
<1> QED BY <1>1, <1>2

(* An invocation that others have overtaken keeps its type. *)
LEMMA OvertakenOK == ASSUME NEW me, MeOK(me)
  PROVE  MeOK([me EXCEPT !.alone = FALSE])
<1> DEFINE new == [me EXCEPT !.alone = FALSE]
<1>1. me \in Invocations
  BY DEF MeOK
<1>2. new \in Invocations
  BY <1>1 DEF Invocations
<1>3. /\ new.at = me.at /\ new.cert = me.cert /\ new.key = me.key /\ new.leaf = me.leaf
      /\ new.value = me.value /\ new.i = me.i
  BY <1>1 DEF Invocations
<1> QED BY <1>2, <1>3 DEF MeOK, Account

LEMMA CliTypes ==
  ASSUME KeyTypes, NEW c \in Clis, NEW me, MeOK(me), Step(c, me) \/ WriteStep(c, me)
  PROVE  cli' \in [Clis -> Invocations] /\ \A d \in Clis : MeOK(cli'[d])
<1>1. \A d \in Clis : MeOK(cli'[d])
  <2> SUFFICES ASSUME NEW d \in Clis PROVE MeOK(cli'[d])
    OBVIOUS
  <2>1. cli'[c] = me /\ (d # c => cli'[d] = cli[d] \/ cli'[d] = [cli[d] EXCEPT !.alone = FALSE])
    BY Others DEF KeyTypes
  <2>2. MeOK(cli[d])
    BY DEF KeyTypes
  <2> QED BY <2>1, <2>2, OvertakenOK
<1>2. cli' = [d \in Clis |-> cli'[d]]
  BY Others DEF KeyTypes
<1> QED BY <1>1, <1>2 DEF MeOK

LEMMA StoreOK ==
  ASSUME KeyTypes, NEW a \in AllNames, NEW v \in Kind(a) \cup {None}, Set(a, v)
  PROVE  store' \in Entries
BY EntryKinds DEF KeyTypes, StoreTypes, Set

(* The CA is there. *)
LEMMA HaveCAOK ==
  ASSUME NEW me, me \in Invocations, me.cert \in Certs, me.key \in Keys
  PROVE  MeOK(HaveCA(me))
<1>1. MeOK(Goto(me, "done")) /\ MeOK(Goto(me, "leaf"))
  BY DEF MeOK, Goto, Invocations, Stages
<1>2. MeOK([me EXCEPT !.at = "getCert", !.ca = me.cert, !.cert = None, !.key = None])
  <2> DEFINE new == [me EXCEPT !.at = "getCert", !.ca = me.cert, !.cert = None, !.key = None]
  <2>1. new \in Invocations
    BY DEF Invocations, Stages
  <2>2. new.at = "getCert"
    BY DEF Invocations
  <2> QED BY <2>1, <2>2 DEF MeOK
<1> QED BY <1>1, <1>2 DEF HaveCA

(* The next account is taken up. *)
LEMMA NextAccountOK ==
  ASSUME NEW me, MeOK(me), NEW good \in BOOLEAN
  PROVE  MeOK(NextAccount(me, good)) /\ NextAccount(me, good).at \in {"lookup", "done"}
<1> DEFINE ready == me.ready /\ (good \/ Account(me) \notin CAEntries)
           next  == [me EXCEPT !.current = None, !.value = None, !.ready = ready]
<1>1. ready \in BOOLEAN
  BY Zenon
<1>2. next \in Invocations /\ next.i = me.i /\ me.i \in 1 .. 4
  <2>1. me \in Invocations
    BY DEF MeOK
  <2> HIDE DEF ready
  <2> QED BY <1>1, <2>1 DEF Invocations
<1>3. CASE me.i < 4
  <2>1. NextAccount(me, good) = [next EXCEPT !.i = @ + 1, !.at = "lookup"]
    BY <1>3, FourAccounts DEF NextAccount, MeOK, Invocations
  <2>2. me.i + 1 \in 1 .. 4
    BY <1>2, <1>3
  <2> HIDE DEF next
  <2>3. [next EXCEPT !.i = @ + 1, !.at = "lookup"] \in Invocations
    BY <1>2, <2>2 DEF Invocations, Stages
  <2>4. [next EXCEPT !.i = @ + 1, !.at = "lookup"].at = "lookup"
    BY <1>2 DEF Invocations
  <2> QED BY <2>1, <2>3, <2>4 DEF MeOK
<1>4. CASE ~(me.i < 4)
  <2>1. NextAccount(me, good) = Goto(next, "done")
    BY <1>4, FourAccounts DEF NextAccount, MeOK, Invocations
  <2> HIDE DEF next
  <2> QED BY <1>2, <2>1 DEF MeOK, Invocations, Stages, Goto
<1> QED BY <1>3, <1>4

(* A step that works on nothing. *)
LEMMA GotoOK ==
  ASSUME NEW me, me \in Invocations,
         NEW at \in Stages \ {"setCert", "setKey", "leaf", "setClientCert", "setClientKey", "delete", "set"}
  PROVE  MeOK(Goto(me, at)) /\ Goto(me, at).at = at
<1>1. Goto(me, at) \in Invocations /\ Goto(me, at).at = at
  BY DEF Goto, Invocations
<1> QED BY <1>1 DEF MeOK

(* The account an invocation of ca migrate is at. *)
LEMMA AccountOK == ASSUME NEW me \in Invocations
                   PROVE  Account(me) \in AllNames
BY FourAccounts DEF Account, Invocations

LEMMA FaultTypes ==
  ASSUME StoreTypes, NoFault \/ (Fault /\ UNCHANGED overlapped), store' \in Entries, legacy' \in Entries,
         keys' \in 2 .. MaxKeys, owed' \subseteq AllNames
  PROVE  StoreTypes'
<1>1. overlapped' \in BOOLEAN
  BY Zenon DEF StoreTypes, NoFault, Fault
<1>2. faults' \in 0 .. MaxFaults
  BY FaultsAssumption DEF StoreTypes, NoFault, Fault
<1> QED BY <1>1, <1>2 DEF StoreTypes

LEMMA StartTypes ==
  ASSUME KeyTypes, NEW c \in Clis, Start(c)
  PROVE  KeyTypes'
<1>1. PICK op \in Ops \ {"none"}, flag \in BOOLEAN, at \in {"lookup", "identity", "deleteCert", "getCert", "exists"} :
        Step(c, [Idle EXCEPT !.op = op, !.flag = flag, !.at = at])
  <2>1. PICK op \in {"init", "client", "daemon", "migrate", "connect"}, flag \in BOOLEAN :
          Step(c, [Idle EXCEPT !.op = op, !.flag = flag,
                        !.at = CASE op = "migrate"          -> "lookup"
                                 [] op = "connect"          -> "identity"
                                 [] op = "init" /\ flag     -> "deleteCert"
                                 [] op = "client" /\ flag   -> "getCert"
                                 [] op = "daemon"           -> "getCert"
                                 [] OTHER                   -> "exists"])
    BY DEF Start
  <2> DEFINE at == CASE op = "migrate"          -> "lookup"
                     [] op = "connect"          -> "identity"
                     [] op = "init" /\ flag     -> "deleteCert"
                     [] op = "client" /\ flag   -> "getCert"
                     [] op = "daemon"           -> "getCert"
                     [] OTHER                   -> "exists"
  <2>2. at \in {"lookup", "identity", "deleteCert", "getCert", "exists"}
    OBVIOUS
  <2>3. Step(c, [Idle EXCEPT !.op = op, !.flag = flag, !.at = at])
    BY <2>1
  <2> HIDE DEF at
  <2> QED BY <2>2, <2>3 DEF Ops
<1> DEFINE me == [Idle EXCEPT !.op = op, !.flag = flag, !.at = at]
<1>2. me \in Invocations /\ me.at = at
  <2>1. Idle \in Invocations /\ at \in Stages
    BY IdleOK DEF MeOK, Stages
  <2> QED BY <2>1 DEF Invocations
<1>3. MeOK(me)
  BY <1>2 DEF MeOK
<1>4. StoreTypes'
  <2>1. overlapped' \in BOOLEAN
    BY Zenon DEF Start
  <2> QED BY <2>1 DEF Start, KeyTypes, StoreTypes
<1> QED BY <1>1, <1>3, <1>4, CliTypes DEF KeyTypes

(* ca init and the look at what is there. *)
LEMMA InitTypes ==
  ASSUME KeyTypes, NEW c \in Clis, Exists(c) \/ DeleteOld(c)
  PROVE  KeyTypes'
<1>0. cli[c] \in Invocations /\ store \in Entries
  BY DEF KeyTypes, StoreTypes
<1>1. MeOK(Idle) /\ MeOK(Goto(cli[c], "getCert")) /\ MeOK(Goto(cli[c], "deleteKey"))
  BY <1>0, IdleOK, GotoOK DEF Stages
<1>2. CASE Exists(c)
  <2>1. Step(c, Idle) \/ Step(c, Goto(cli[c], "getCert"))
    BY <1>2 DEF Exists
  <2>2. StoreTypes'
    BY <1>2, FaultTypes DEF Exists, KeyTypes, StoreTypes
  <2> QED BY <1>1, <2>1, <2>2, CliTypes DEF KeyTypes
<1>3. CASE DeleteOld(c)
  <2>1. \E at \in {"getCert", "deleteKey"} : Step(c, Goto(cli[c], at)) \/ WriteStep(c, Goto(cli[c], at))
    BY <1>3 DEF DeleteOld
  <2>2. store' \in Entries
    <3>1. store' = store \/ \E a \in AllNames : store' = [store EXCEPT ![a] = None]
      BY <1>3 DEF DeleteOld, Set, AllNames
    <3> QED BY <1>0, <3>1, EntryKinds
  <2>3. StoreTypes'
    BY <1>3, <2>2, FaultTypes DEF DeleteOld, KeyTypes, StoreTypes
  <2> QED BY <1>1, <2>1, <2>3, CliTypes DEF KeyTypes
<1> QED BY <1>2, <1>3

(* ensure_ca. *)
LEMMA EnsureTypes ==
  ASSUME KeyTypes, NEW c \in Clis, GetCert(c) \/ GetKey(c) \/ SetCert(c) \/ SetKey(c)
  PROVE  KeyTypes'
<1> DEFINE me == cli[c]
<1>0. me \in Invocations /\ MeOK(me) /\ store \in Entries /\ StoreTypes
  BY DEF KeyTypes, StoreTypes
<1>1. CASE GetCert(c)
  <2>1. store.caCert \in Certs \cup {None}
    BY <1>0 DEF Entries
  <2>2. MeOK([me EXCEPT !.cert = store.caCert, !.at = "getKey"])
    <3> DEFINE new == [me EXCEPT !.cert = store.caCert, !.at = "getKey"]
    <3>1. new \in Invocations /\ new.at = "getKey"
      BY <1>0, <2>1 DEF Invocations, Stages
    <3> QED BY <3>1 DEF MeOK
  <2>3. StoreTypes'
    BY <1>0, <1>1, FaultTypes DEF GetCert, StoreTypes
  <2> QED BY <1>1, <2>2, <2>3, CliTypes DEF GetCert, Get, KeyTypes
<1>2. CASE GetKey(c)
  <2>1. CASE Complete(me.cert, Get("caKey"))
    <3> DEFINE new == [me EXCEPT !.key = store.caKey]
    <3>1. store.caKey \in Keys /\ me.cert \in Certs
      BY <1>0, <2>1 DEF Entries, Complete, Get, Invocations
    <3>2. new \in Invocations /\ new.cert = me.cert /\ new.key = store.caKey
      BY <1>0, <3>1 DEF Invocations
    <3>3. MeOK(HaveCA(new))
      BY <3>1, <3>2, HaveCAOK
    <3>4. Step(c, HaveCA(new)) /\ keys' = keys
      BY <1>2, <2>1 DEF GetKey, Get
    <3>5. StoreTypes'
      BY <1>0, <1>2, <3>4, FaultTypes DEF GetKey, StoreTypes
    <3> QED BY <3>3, <3>4, <3>5, CliTypes DEF KeyTypes
  <2>2. CASE ~Complete(me.cert, Get("caKey"))
    <3> DEFINE new == [me EXCEPT !.cert = [key |-> keys', by |-> keys'], !.key = keys', !.at = "setCert"]
    <3>1. keys < MaxKeys /\ keys' = keys + 1 /\ Step(c, new)
      BY <1>2, <2>2 DEF GetKey
    <3>2. keys' \in 2 .. MaxKeys /\ keys' \in Keys
      BY <1>0, <3>1, KeysAssumption DEF StoreTypes, Keys
    <3>3. [key |-> keys', by |-> keys'] \in Certs
      BY <3>2 DEF Certs
    <3>4. new \in Invocations /\ new.at = "setCert" /\ new.cert \in Certs /\ new.key \in Keys
      BY <1>0, <3>2, <3>3 DEF Invocations, Stages
    <3>5. MeOK(new)
      BY <3>4 DEF MeOK
    <3>6. StoreTypes'
      BY <1>0, <1>2, <3>2, FaultTypes DEF GetKey, StoreTypes
    <3> QED BY <3>1, <3>5, <3>6, CliTypes DEF KeyTypes
  <2> QED BY <2>1, <2>2
<1>3. CASE SetCert(c)
  <2>1. me.cert \in Certs /\ me.key \in Keys
    BY <1>0, <1>3 DEF SetCert, MeOK
  <2>2. store' \in Entries
    BY <1>3, <2>1, StoreOK DEF SetCert, AllNames, Kind
  <2>3. MeOK(Goto(me, "setKey"))
    <3>1. /\ Goto(me, "setKey") \in Invocations /\ Goto(me, "setKey").at = "setKey"
          /\ Goto(me, "setKey").cert = me.cert /\ Goto(me, "setKey").key = me.key
      BY <1>0 DEF Goto, Invocations, Stages
    <3> QED BY <2>1, <3>1 DEF MeOK
  <2>4. StoreTypes'
    BY <1>0, <1>3, <2>2, FaultTypes DEF SetCert, StoreTypes
  <2> QED BY <1>3, <2>3, <2>4, CliTypes DEF SetCert, KeyTypes
<1>4. CASE SetKey(c)
  <2>1. me.cert \in Certs /\ me.key \in Keys
    BY <1>0, <1>4 DEF SetKey, MeOK
  <2>2. store' \in Entries
    BY <1>4, <2>1, StoreOK DEF SetKey, AllNames, Kind
  <2>3. MeOK(HaveCA(me))
    BY <1>0, <2>1, HaveCAOK
  <2>4. StoreTypes'
    BY <1>0, <1>4, <2>2, FaultTypes DEF SetKey, StoreTypes
  <2> QED BY <1>4, <2>3, <2>4, CliTypes DEF SetKey, KeyTypes
<1> QED BY <1>1, <1>2, <1>3, <1>4

(* A new leaf, and the client's entries. *)
LEMMA LeafTypes ==
  ASSUME KeyTypes, NEW c \in Clis, IssueLeaf(c) \/ StoreLeaf(c)
  PROVE  KeyTypes'
<1> DEFINE me == cli[c]
<1>0. me \in Invocations /\ MeOK(me) /\ store \in Entries /\ StoreTypes
  BY DEF KeyTypes, StoreTypes
<1>1. CASE IssueLeaf(c)
  <2> DEFINE leaf == Signed(me, keys')
             at   == IF me.op = "client" THEN "setClientCert" ELSE "done"
             new  == [me EXCEPT !.leaf = leaf, !.at = at]
  <2>1. keys' \in 2 .. MaxKeys /\ keys' \in Keys /\ me.key \in Keys
    BY <1>0, <1>1, KeysAssumption DEF IssueLeaf, StoreTypes, Keys, MeOK
  <2>2. leaf \in Certs /\ at \in Stages
    BY <2>1 DEF Signed, Certs, Stages
  <2>3. Step(c, new)
    BY <1>1 DEF IssueLeaf
  <2> HIDE DEF leaf, at
  <2>4. new \in Invocations /\ new.leaf = leaf /\ new.at = at
    BY <1>0, <2>2 DEF Invocations
  <2>5. at \in {"setClientCert", "done"}
    BY DEF at
  <2>6. MeOK(new)
    BY <2>2, <2>4, <2>5 DEF MeOK
  <2>7. StoreTypes'
    BY <1>0, <1>1, <2>1, FaultTypes DEF IssueLeaf, StoreTypes
  <2> QED BY <2>3, <2>6, <2>7, CliTypes DEF KeyTypes
<1>2. CASE StoreLeaf(c)
  <2>1. me.leaf \in Certs /\ me.leaf.key \in Keys
    BY <1>0, <1>2 DEF StoreLeaf, MeOK, Certs
  <2>2. store' \in Entries
    <3>1. CASE Set("clientCert", me.leaf)
      BY <2>1, <3>1, StoreOK DEF AllNames, Kind
    <3>2. CASE Set("clientKey", me.leaf.key)
      BY <2>1, <3>2, StoreOK DEF AllNames, Kind
    <3> QED BY <1>2, <3>1, <3>2 DEF StoreLeaf
  <2>3. MeOK(Goto(me, "setClientKey")) /\ MeOK(Goto(me, "done"))
    <3>1. /\ Goto(me, "setClientKey") \in Invocations /\ Goto(me, "setClientKey").at = "setClientKey"
          /\ Goto(me, "setClientKey").leaf = me.leaf
      BY <1>0 DEF Goto, Invocations, Stages
    <3> QED BY <1>0, <2>1, <3>1, GotoOK DEF MeOK, Stages
  <2>4. \E at \in {"setClientKey", "done"} : WriteStep(c, Goto(me, at))
    BY <1>2 DEF StoreLeaf
  <2>5. StoreTypes'
    BY <1>0, <1>2, <2>2, FaultTypes DEF StoreLeaf, StoreTypes
  <2> QED BY <2>3, <2>4, <2>5, CliTypes DEF KeyTypes
<1> QED BY <1>1, <1>2

(* ca migrate. *)
LEMMA MigrateTypes ==
  ASSUME KeyTypes, NEW c \in Clis, Lookup(c) \/ ReadLegacy(c) \/ DeleteLegacy(c) \/ SetMigrated(c)
  PROVE  KeyTypes'
<1> DEFINE me == cli[c]
           a  == Account(me)
<1>0. /\ me \in Invocations /\ MeOK(me) /\ StoreTypes /\ store \in Entries /\ legacy \in Entries
      /\ a \in AllNames /\ owed \subseteq AllNames
  BY AccountOK DEF KeyTypes, StoreTypes
<1>1. \A good \in BOOLEAN : MeOK(NextAccount(me, good))
  BY <1>0, NextAccountOK
<1>2. store[a] \in Kind(a) \cup {None} /\ legacy[a] \in Kind(a) \cup {None} /\ Kind(a) \subseteq Certs \cup Keys
  BY <1>0, EntryKinds DEF Kind
<1>3. CASE Lookup(c)
  <2> DEFINE new == [me EXCEPT !.current = store[a], !.at = "legacy"]
  <2>1. new \in Invocations /\ new.at = "legacy"
    BY <1>0, <1>2 DEF Invocations, Stages
  <2>2. MeOK(new)
    BY <2>1 DEF MeOK
  <2>3. Step(c, new) \/ Step(c, NextAccount(me, FALSE))
    BY <1>3 DEF Lookup, Get
  <2>4. StoreTypes'
    BY <1>0, <1>3, FaultTypes DEF Lookup, StoreTypes
  <2> QED BY <1>1, <2>2, <2>3, <2>4, CliTypes DEF KeyTypes
<1>4. CASE ReadLegacy(c)
  <2> DEFINE good(v) == IF me.current = None THEN v # None ELSE v \in {None, me.current}
             Moved(v) == [me EXCEPT !.value = v, !.at = "delete"]
  <2>0. ASSUME NEW v PROVE good(v) \in BOOLEAN
    <3>1. CASE me.current = None
      BY <3>1, Zenon
    <3>2. CASE me.current # None
      <4>1. (v \in {None, me.current}) \in BOOLEAN
        OBVIOUS
      <4> QED BY <3>2, <4>1, Zenon
    <3> QED BY <3>1, <3>2
  <2>1. \E v \in {None, legacy[a]} : \/ (v # None /\ Step(c, Moved(v)))
                                      \/ Step(c, NextAccount(me, good(v)))
                                      \/ Step(c, NextAccount(me, FALSE))
    <3> DEFINE Decide(v) == IF MovesValue(me, v) THEN Moved(v) ELSE NextAccount(me, good(v))
    <3>1. \/ Step(c, Decide(LegacyValue(a, FALSE)))
          \/ Step(c, Decide(LegacyValue(a, TRUE)))
          \/ Step(c, NextAccount(me, FALSE))
      BY <1>4 DEF ReadLegacy
    <3>2. LegacyValue(a, FALSE) = legacy[a] /\ LegacyValue(a, TRUE) = None
      BY DEF LegacyValue
    <3>3. ASSUME NEW v, Step(c, Decide(v))
          PROVE  (v # None /\ Step(c, Moved(v))) \/ Step(c, NextAccount(me, good(v)))
      <4> HIDE DEF Moved, good
      <4>1. CASE MovesValue(me, v)
        BY <3>3, <4>1 DEF MovesValue
      <4>2. CASE ~MovesValue(me, v)
        BY <3>3, <4>2
      <4> QED BY <4>1, <4>2
    <3> HIDE DEF Decide, Moved, good
    <3> QED BY <3>1, <3>2, <3>3
  <2> HIDE DEF good
  <2> PICK v \in {None, legacy[a]} : \/ (v # None /\ Step(c, Moved(v)))
                                     \/ Step(c, NextAccount(me, good(v)))
                                     \/ Step(c, NextAccount(me, FALSE))
    BY <2>1
  <2>2. CASE v # None /\ Step(c, Moved(v))
    <3>1. v \in Kind(a) /\ v \in Certs \cup Keys \cup {None} /\ "delete" \in Stages
      BY <1>2, <2>2 DEF Stages
    <3>2. Moved(v) \in Invocations
      BY <1>0, <3>1 DEF Invocations
    <3>3. Moved(v).at = "delete" /\ Moved(v).value = v /\ Moved(v).i = me.i
      BY <1>0 DEF Invocations
    <3>4. MeOK(Moved(v))
      <4> HIDE DEF Moved
      <4> QED BY <3>1, <3>2, <3>3 DEF MeOK, Account
    <3>5. StoreTypes'
      BY <1>0, <1>4, FaultTypes DEF ReadLegacy, StoreTypes
    <3> HIDE DEF Moved
    <3> QED BY <2>2, <3>4, <3>5, CliTypes DEF KeyTypes
  <2>3. CASE \E g \in BOOLEAN : Step(c, NextAccount(me, g))
    <3>1. StoreTypes'
      BY <1>0, <1>4, FaultTypes DEF ReadLegacy, StoreTypes
    <3> QED BY <1>1, <2>3, <3>1, CliTypes DEF KeyTypes
  <2> HIDE DEF Moved
  <2> QED BY <2>0, <2>2, <2>3
<1>5. CASE DeleteLegacy(c)
  <2>1. me.value \in Kind(a)
    BY <1>0, <1>5 DEF DeleteLegacy, MeOK
  <2>2. MeOK(Goto(me, "set"))
    <3>1. /\ Goto(me, "set") \in Invocations /\ Goto(me, "set").at = "set"
          /\ Goto(me, "set").value = me.value /\ Goto(me, "set").i = me.i
      BY <1>0 DEF Goto, Invocations, Stages
    <3> QED BY <2>1, <3>1 DEF MeOK, Account
  <2>3. legacy' \in Entries
    <3>1. legacy' = legacy \/ legacy' = [legacy EXCEPT ![a] = None]
      BY <1>5 DEF DeleteLegacy
    <3> QED BY <1>0, <3>1, EntryKinds
  <2>4. Step(c, Goto(me, "set")) \/ WriteStep(c, Goto(me, "set")) \/ Step(c, NextAccount(me, FALSE))
    BY <1>5 DEF DeleteLegacy
  <2>5. StoreTypes'
    BY <1>0, <1>5, <2>3, FaultTypes DEF DeleteLegacy, StoreTypes
  <2> QED BY <1>1, <2>2, <2>4, <2>5, CliTypes DEF KeyTypes
<1>6. CASE SetMigrated(c)
  <2>1. me.value \in Kind(a)
    BY <1>0, <1>6 DEF SetMigrated, MeOK
  <2>2. store' \in Entries
    BY <1>0, <1>6, <2>1, StoreOK DEF SetMigrated
  <2>3. WriteStep(c, NextAccount(me, TRUE)) \/ Step(c, NextAccount(me, FALSE))
    BY <1>6 DEF SetMigrated
  <2>4. StoreTypes'
    BY <1>0, <1>6, <2>2, FaultTypes DEF SetMigrated, StoreTypes
  <2> QED BY <1>1, <2>3, <2>4, CliTypes DEF KeyTypes
<1> QED BY <1>3, <1>4, <1>5, <1>6

(* build_client, and the ways an invocation ends. *)
LEMMA OtherTypes ==
  ASSUME KeyTypes, NEW c \in Clis, Connect(c) \/ Finish(c) \/ Fails(c) \/ GenerationFails(c)
  PROVE  KeyTypes'
<1> DEFINE me == cli[c]
<1>0. me \in Invocations /\ StoreTypes /\ store \in Entries /\ MeOK(Idle)
  BY IdleOK DEF KeyTypes, StoreTypes
<1>1. StoreTypes'
  BY <1>0, FaultTypes DEF Connect, Finish, Fails, GenerationFails, StoreTypes
<1>2. CASE Step(c, Idle)
  BY <1>0, <1>1, <1>2, CliTypes DEF KeyTypes
<1>3. CASE Connect(c) /\ ~Step(c, Idle)
  <2>1. \/ Step(c, [me EXCEPT !.leaf = store.clientCert, !.at = "identityKey"])
        \/ Step(c, [me EXCEPT !.key = store.clientKey, !.at = "root"])
        \/ Step(c, [me EXCEPT !.ca = store.caCert, !.at = "done"])
    BY <1>3 DEF Connect, Get
  <2>2. store.clientCert \in Certs \cup {None} /\ store.clientKey \in Keys \cup {None}
        /\ store.caCert \in Certs \cup {None}
    BY <1>0 DEF Entries
  <2>3. MeOK([me EXCEPT !.leaf = store.clientCert, !.at = "identityKey"])
    <3> DEFINE v   == store.clientCert
               new == [me EXCEPT !.leaf = v, !.at = "identityKey"]
    <3>1. v \in Certs \cup {None} /\ "identityKey" \in Stages
      BY <2>2 DEF Stages
    <3> HIDE DEF v
    <3>2. new \in Invocations
      BY <1>0, <3>1 DEF Invocations
    <3>3. new.at = "identityKey"
      BY <1>0 DEF Invocations
    <3> HIDE DEF new
    <3>4. MeOK(new)
      BY <3>2, <3>3 DEF MeOK
    <3> QED BY <3>4 DEF new, v
  <2>4. MeOK([me EXCEPT !.key = store.clientKey, !.at = "root"])
    <3> DEFINE v   == store.clientKey
               new == [me EXCEPT !.key = v, !.at = "root"]
    <3>1. v \in Keys \cup {None} /\ "root" \in Stages
      BY <2>2 DEF Stages
    <3> HIDE DEF v
    <3>2. new \in Invocations
      BY <1>0, <3>1 DEF Invocations
    <3>3. new.at = "root"
      BY <1>0 DEF Invocations
    <3> HIDE DEF new
    <3>4. MeOK(new)
      BY <3>2, <3>3 DEF MeOK
    <3> QED BY <3>4 DEF new, v
  <2>5. MeOK([me EXCEPT !.ca = store.caCert, !.at = "done"])
    <3> DEFINE v   == store.caCert
               new == [me EXCEPT !.ca = v, !.at = "done"]
    <3>1. v \in Certs \cup {None} /\ "done" \in Stages
      BY <2>2 DEF Stages
    <3> HIDE DEF v
    <3>2. new \in Invocations
      BY <1>0, <3>1 DEF Invocations
    <3>3. new.at = "done"
      BY <1>0 DEF Invocations
    <3> HIDE DEF new
    <3>4. MeOK(new)
      BY <3>2, <3>3 DEF MeOK
    <3> QED BY <3>4 DEF new, v
  <2> QED BY <1>1, <2>1, <2>3, <2>4, <2>5, CliTypes DEF KeyTypes
<1> QED BY <1>2, <1>3 DEF Finish, Fails, GenerationFails

LEMMA KeyTypesInductive == KeyTypes /\ [Next]_vars => KeyTypes'
<1> SUFFICES ASSUME KeyTypes, [Next]_vars PROVE KeyTypes'
  OBVIOUS
<1>1. CASE UNCHANGED vars
  BY <1>1 DEF KeyTypes, StoreTypes, vars
<1> QED BY <1>1, StartTypes, InitTypes, EnsureTypes, LeafTypes, MigrateTypes, OtherTypes DEF Next

LEMMA KeyTypesInitial == Init => KeyTypes
<1> SUFFICES ASSUME Init PROVE KeyTypes
  OBVIOUS
<1>1. Nothing \in Entries /\ Nothing = [caCert |-> None, caKey |-> None, clientCert |-> None, clientKey |-> None]
  BY DEF Nothing, Entries
<1>2. Old \in Entries
  BY KeysAssumption DEF Old, Entries, Certs, Keys
<1>3. owed \subseteq AllNames
  BY <1>1 DEF Init, Old, AllNames
<1>4. StoreTypes
  <2>1. store \in Entries /\ legacy \in Entries
    BY <1>1, <1>2 DEF Init
  <2>2. keys \in 2 .. MaxKeys
    BY KeysAssumption DEF Init
  <2>3. faults \in 0 .. MaxFaults
    BY FaultsAssumption DEF Init
  <2>4. overlapped \in BOOLEAN
    BY DEF Init
  <2> QED BY <1>3, <2>1, <2>2, <2>3, <2>4 DEF StoreTypes
<1>5. cli = [c \in Clis |-> Idle] /\ Idle \in Invocations /\ MeOK(Idle)
  BY IdleOK DEF Init, MeOK
<1> QED BY <1>4, <1>5 DEF KeyTypes

(* Types: no entry of another kind under an account's name, and no step    *)
(* works on a CA, a leaf or a legacy value the invocation does not have.   *)
THEOREM KeyringTypeCorrect == Spec => []TypeOK
<1>1. KeyTypes => TypeOK
  <2> SUFFICES ASSUME KeyTypes, NEW c \in Clis PROVE IsCli(cli[c])
    BY DEF KeyTypes, StoreTypes, TypeOK, AllNames
  <2>1. cli[c] \in Invocations /\ MeOK(cli[c])
    BY DEF KeyTypes
  <2>2. cli[c].at \in {"setCert", "setKey", "leaf"} => cli[c].cert # None /\ cli[c].key # None
    BY <2>1, NoneAssumption DEF MeOK
  <2>3. cli[c].at \in {"delete", "set"} => cli[c].value # None
    BY <2>1, NoneAssumption DEF MeOK, Kind
  <2> QED BY <2>1, <2>2, <2>3, FourAccounts DEF IsCli, Invocations, Ops
<1> QED BY <1>1, KeyTypesInitial, KeyTypesInductive, PTL DEF Spec
=============================================================================
