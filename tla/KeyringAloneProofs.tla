------------------------- MODULE KeyringAloneProofs -------------------------
(***************************************************************************)
(* What an invocation may rely on while nobody else writes to the keyring, *)
(* and what ca migrate keeps: for any number of invocations that overlap,  *)
(* of key pairs, failed calls and kills.                                   *)
(***************************************************************************)
EXTENDS KeyringProofs, FiniteSetTheorems

-----------------------------------------------------------------------------
(* What an invocation knows while nobody else writes.                      *)

(* Each step belongs to a command. *)
OpFits(me) ==
    /\ me.at = "idle" => me.op = "none"
    /\ me.at = "exists" => me.op \in {"init", "client"} /\ ~me.flag
    /\ me.at \in {"deleteCert", "deleteKey"} => me.op = "init" /\ me.flag
    /\ me.at \in {"getCert", "getKey", "setCert", "setKey"} => me.op \in {"init", "client", "daemon"}
    /\ me.at = "leaf" => me.op \in {"client", "daemon"}
    /\ me.at \in {"setClientCert", "setClientKey"} => me.op = "client"
    /\ me.at \in {"lookup", "legacy", "delete", "set"} => me.op = "migrate"
    /\ me.at \in {"identity", "identityKey", "root"} => me.op = "connect"
    /\ me.op = "migrate" /\ me.at = "done" => me.i = 4

(* ensure_ca: it makes a CA only in place of one that is not whole, and    *)
(* the second call of cert issue --kind daemon finds what the first found. *)
CAFits(me, s) ==
    /\ me.at = "getKey" => me.cert = s.caCert
    /\ me.at = "setCert" => ~Complete(s.caCert, s.caKey)
    /\ me.at = "setKey" => me.cert = s.caCert
    /\ me.at \in {"setCert", "setKey"} =>
         me.cert.key = me.key /\ s.caKey # me.key /\ (me.op = "daemon" => me.ca = None)
    /\ me.at = "leaf" => me.key = s.caKey /\ Complete(s.caCert, s.caKey)
    /\ me.op = "daemon" /\ me.ca # None => me.ca = s.caCert /\ s.caKey # None
    /\ me.op = "daemon" /\ me.at \in {"leaf", "done"} => me.ca # None

(* The leaf: signed with the key of the CA, and stored as far as it is. *)
LeafFits(me, s, f) ==
    /\ me.op = "daemon" /\ me.at = "done" => me.leaf.by = s.caKey
    /\ me.op = "client" /\ me.at \in {"setClientCert", "setClientKey", "done"} =>
         me.leaf.by = s.caKey /\ Complete(s.caCert, s.caKey)
    /\ me.op = "client" /\ me.at \in {"setClientKey", "done"} => s.clientCert = me.leaf
    /\ me.op = "client" /\ me.at = "done" => s.clientKey = me.leaf.key
    /\ me.op = "client" /\ me.at # "exists" /\ me.at \notin {"setClientKey", "done"} /\ ~me.flag /\ f = 0 =>
         s.clientCert = None

(* A CA entry that counts as migrated is there. *)
ReadyFits(me, s) ==
    me.op = "migrate" /\ me.ready /\ ~me.flag =>
      /\ me.i > 1 \/ me.at = "done" => s.caCert # None
      /\ me.i > 2 \/ me.at = "done" => s.caKey # None

(* ca migrate: what it saw of an account is still so. *)
MigrateFits(me, s) ==
    /\ me.at = "legacy" => me.current = s[Account(me)]
    /\ me.at \in {"delete", "set"} => s[Account(me)] = None
    /\ ReadyFits(me, s)

Fits(me, s, f) ==
    OpFits(me) /\ (me.alone => CAFits(me, s) /\ LeafFits(me, s, f) /\ MigrateFits(me, s))

(* The key of a CA, where there is one, is of a key pair made so far. *)
Fresh ==
    /\ store.caKey \in 1 .. keys \cup {None} /\ legacy.caKey \in 1 .. keys \cup {None}
    /\ \A c \in Clis : LET me == cli[c] IN
         /\ me.at \in {"setCert", "setKey"} => me.key \in 1 .. keys
         /\ me.at \in {"delete", "set"} /\ Account(me) = "caKey" => me.value \in 1 .. keys

AloneInv == Fresh /\ \A c \in Clis : Fits(cli[c], store, faults)

LEMMA IdleFits == ASSUME NEW s, NEW f PROVE Fits(Idle, s, f)
BY DEF Fits, OpFits, CAFits, LeafFits, MigrateFits, ReadyFits, Idle

(* An invocation keeps what it knows over a step of another.               *)
LEMMA OthersFit ==
  ASSUME KeyTypes, \A d \in Clis : Fits(cli[d], store, faults),
         NEW c \in Clis, NEW new, Step(c, new) \/ WriteStep(c, new),
         store' # store => WriteStep(c, new), faults' = 0 => faults = 0,
         Fits(new, store', faults')
  PROVE  \A d \in Clis : Fits(cli'[d], store', faults')
<1> SUFFICES ASSUME NEW d \in Clis PROVE Fits(cli'[d], store', faults')
  OBVIOUS
<1>0. /\ cli'[c] = new /\ (d # c => cli'[d] = cli[d] \/ cli'[d] = [cli[d] EXCEPT !.alone = FALSE])
      /\ WriteStep(c, new) /\ d # c => cli'[d].at = "idle" \/ ~cli'[d].alone
  BY Others DEF KeyTypes
<1>1. cli[d] \in Invocations /\ Fits(cli[d], store, faults)
  BY DEF KeyTypes
<1>2. CASE d = c
  BY <1>0, <1>2
<1>3. CASE d # c /\ cli'[d] = [cli[d] EXCEPT !.alone = FALSE]
  <2>1. /\ ~cli'[d].alone /\ cli'[d].op = cli[d].op /\ cli'[d].at = cli[d].at /\ cli'[d].flag = cli[d].flag
        /\ cli'[d].i = cli[d].i
    BY <1>1, <1>3 DEF Invocations
  <2> QED BY <1>1, <2>1 DEF Fits, OpFits
<1>4. CASE d # c /\ cli'[d] = cli[d] /\ (cli'[d].at = "idle" \/ ~cli'[d].alone)
  <2>1. CASE ~cli[d].alone
    BY <1>1, <1>4, <2>1 DEF Fits
  <2>2. CASE cli[d].at = "idle"
    BY <1>1, <1>4, <2>2 DEF Fits, OpFits, CAFits, LeafFits, MigrateFits, ReadyFits
  <2> QED BY <1>4, <2>1, <2>2
<1>5. CASE d # c /\ cli'[d] = cli[d] /\ store' = store
  BY <1>1, <1>5 DEF Fits, LeafFits
<1> QED BY <1>0, <1>2, <1>3, <1>4, <1>5

LEMMA FaultsOnlyGrow ==
  ASSUME KeyTypes, NoFault \/ Fault
  PROVE  faults' = 0 => faults = 0
BY DEF KeyTypes, StoreTypes, NoFault, Fault

(* The end of an invocation. *)
LEMMA EndFits ==
  ASSUME KeyTypes, AloneInv, NEW c \in Clis, Step(c, Idle), store' = store, NoFault \/ Fault
  PROVE  \A d \in Clis : Fits(cli'[d], store', faults')
BY IdleFits, OthersFit, FaultsOnlyGrow DEF AloneInv

(* What a command begins with. *)
LEMMA StartIs ==
  ASSUME NEW c, Start(c)
  PROVE  \E op \in {"init", "client", "daemon", "migrate", "connect"}, flag \in BOOLEAN,
            at \in {"lookup", "identity", "deleteCert", "getCert", "exists"} :
           /\ Step(c, [Idle EXCEPT !.op = op, !.flag = flag, !.at = at])
           /\ at = "lookup" => op = "migrate"
           /\ at = "identity" => op = "connect"
           /\ at = "deleteCert" => op = "init" /\ flag
           /\ at = "getCert" => (op = "client" /\ flag) \/ op = "daemon"
           /\ at = "exists" => op \in {"init", "client"} /\ ~flag
<1>1. PICK op \in {"init", "client", "daemon", "migrate", "connect"}, flag \in BOOLEAN :
        /\ op \in {"connect", "daemon"} => ~flag
        /\ Step(c, [Idle EXCEPT !.op = op, !.flag = flag,
                      !.at = CASE op = "migrate"          -> "lookup"
                               [] op = "connect"          -> "identity"
                               [] op = "init" /\ flag     -> "deleteCert"
                               [] op = "client" /\ flag   -> "getCert"
                               [] op = "daemon"           -> "getCert"
                               [] OTHER                   -> "exists"])
  BY DEF Start
<1> DEFINE at == CASE op = "migrate"          -> "lookup"
                   [] op = "connect"          -> "identity"
                   [] op = "init" /\ flag     -> "deleteCert"
                   [] op = "client" /\ flag   -> "getCert"
                   [] op = "daemon"           -> "getCert"
                   [] OTHER                   -> "exists"
<1>2. /\ at \in {"lookup", "identity", "deleteCert", "getCert", "exists"}
      /\ at = "lookup" => op = "migrate"
      /\ at = "identity" => op = "connect"
      /\ at = "deleteCert" => op = "init" /\ flag
      /\ at = "getCert" => (op = "client" /\ flag) \/ op = "daemon"
      /\ at = "exists" => op \in {"init", "client"} /\ ~flag
  BY <1>1
<1>3. Step(c, [Idle EXCEPT !.op = op, !.flag = flag, !.at = at])
  BY <1>1
<1> HIDE DEF at
<1> QED BY <1>2, <1>3

LEMMA StartFits ==
  ASSUME KeyTypes, AloneInv, NEW c \in Clis, Start(c)
  PROVE  \A d \in Clis : Fits(cli'[d], store', faults')
<1>1. PICK op \in {"init", "client", "daemon", "migrate", "connect"}, flag \in BOOLEAN,
           at \in {"lookup", "identity", "deleteCert", "getCert", "exists"} :
        /\ Step(c, [Idle EXCEPT !.op = op, !.flag = flag, !.at = at])
        /\ at = "lookup" => op = "migrate"
        /\ at = "identity" => op = "connect"
        /\ at = "deleteCert" => op = "init" /\ flag
        /\ at = "getCert" => (op = "client" /\ flag) \/ op = "daemon"
        /\ at = "exists" => op \in {"init", "client"} /\ ~flag
  BY StartIs
<1> DEFINE new == [Idle EXCEPT !.op = op, !.flag = flag, !.at = at]
<1>2. /\ new.op = op /\ new.flag = flag /\ new.at = at /\ new.i = 1 /\ new.ca = None
  BY DEF Idle
<1>3. Fits(new, store', faults')
  <2> HIDE DEF new
  <2> QED BY <1>1, <1>2 DEF Fits, OpFits, CAFits, LeafFits, MigrateFits, ReadyFits
<1>4. store' = store /\ faults' = faults
  BY DEF Start
<1> HIDE DEF new
<1> QED BY <1>1, <1>3, <1>4, OthersFit DEF AloneInv, new

(* ca init and the look at what there is. *)
LEMMA InitFits ==
  ASSUME KeyTypes, AloneInv, NEW c \in Clis, Exists(c) \/ DeleteOld(c)
  PROVE  \A d \in Clis : Fits(cli'[d], store', faults')
<1> DEFINE me == cli[c]
<1>0. me \in Invocations /\ Fits(me, store, faults) /\ faults \in Nat /\ store \in Entries
  BY DEF KeyTypes, StoreTypes, AloneInv
<1>1. CASE Exists(c) /\ ~Step(c, Idle)
  <2> DEFINE new == Goto(me, "getCert")
  <2>1. /\ Step(c, new) /\ store' = store /\ (NoFault \/ Fault) /\ me.at = "exists"
        /\ faults' = 0 => ~Present(me.op)
    BY <1>0, <1>1 DEF Exists, Fault, NoFault
  <2>2. /\ new.at = "getCert" /\ new.op = me.op /\ new.flag = me.flag /\ new.alone = me.alone
        /\ new.ca = me.ca
    BY <1>0 DEF Goto, Invocations
  <2>3. me.op = "client" /\ faults' = 0 => store.clientCert = None
    BY <2>1 DEF Present, Get
  <2>4. Fits(new, store', faults')
    <3> HIDE DEF new
    <3> QED BY <1>0, <2>1, <2>2, <2>3 DEF Fits, OpFits, CAFits, LeafFits, MigrateFits, ReadyFits
  <2> HIDE DEF new
  <2> QED BY <2>1, <2>4, OthersFit, FaultsOnlyGrow DEF AloneInv
<1>2. CASE Exists(c) /\ Step(c, Idle)
  <2>1. store' = store /\ (NoFault \/ Fault)
    BY <1>2 DEF Exists
  <2> QED BY <1>2, <2>1, EndFits
<1>3. CASE DeleteOld(c)
  <2>1. PICK at \in {"deleteKey", "getCert"} :
             /\ Step(c, Goto(me, at)) \/ WriteStep(c, Goto(me, at))
             /\ store' # store => WriteStep(c, Goto(me, at))
    BY <1>3 DEF DeleteOld
  <2> DEFINE new == Goto(me, at)
  <2>2. new.at = at /\ new.op = me.op /\ new.flag = me.flag /\ new.ca = me.ca
    BY <1>0 DEF Goto, Invocations
  <2>3. me.op = "init" /\ me.flag
    BY <1>0, <1>3 DEF DeleteOld, Fits, OpFits
  <2>4. Fits(new, store', faults')
    <3> HIDE DEF new
    <3> QED BY <2>2, <2>3 DEF Fits, OpFits, CAFits, LeafFits, MigrateFits, ReadyFits
  <2>5. NoFault \/ Fault
    BY <1>3 DEF DeleteOld
  <2> HIDE DEF new
  <2> QED BY <2>1, <2>4, <2>5, OthersFit, FaultsOnlyGrow DEF AloneInv, new
<1> QED BY <1>1, <1>2, <1>3

(* The CA is there: both entries are what the invocation has. *)
LEMMA HaveCAFits ==
  ASSUME NEW me, me \in Invocations, NEW s, NEW f, me.cert = s.caCert, me.key = s.caKey,
         me.cert # None, me.key # None,
         me.op \in {"init", "client", "daemon"}, me.at \in {"getKey", "setKey"},
         me.alone /\ me.op = "daemon" /\ me.ca # None => me.ca = s.caCert,
         me.alone /\ me.op = "client" /\ ~me.flag /\ f = 0 => s.clientCert = None
  PROVE  Fits(HaveCA(me), s, f)
<1>1. CASE me.op = "init"
  <2>1. Goto(me, "done").at = "done" /\ Goto(me, "done").op = "init"
    BY <1>1 DEF Goto, Invocations
  <2>2. HaveCA(me) = Goto(me, "done")
    BY <1>1 DEF HaveCA
  <2> QED BY <2>1, <2>2 DEF Fits, OpFits, CAFits, LeafFits, MigrateFits, ReadyFits
<1>2. CASE me.op = "daemon" /\ me.ca = None
  <2> DEFINE new == [me EXCEPT !.at = "getCert", !.ca = me.cert, !.cert = None, !.key = None]
  <2>1. new.at = "getCert" /\ new.op = "daemon" /\ new.ca = me.cert
    BY <1>2 DEF Invocations
  <2>2. HaveCA(me) = new
    BY <1>2 DEF HaveCA
  <2> HIDE DEF new
  <2> QED BY <2>1, <2>2 DEF Fits, OpFits, CAFits, LeafFits, MigrateFits, ReadyFits
<1>3. CASE me.op = "client" \/ (me.op = "daemon" /\ me.ca # None)
  <2> DEFINE new == Goto(me, "leaf")
  <2>1. /\ new.at = "leaf" /\ new.op = me.op /\ new.ca = me.ca /\ new.key = me.key
        /\ new.flag = me.flag /\ new.alone = me.alone
    BY DEF Goto, Invocations
  <2>2. HaveCA(me) = new
    BY <1>3 DEF HaveCA
  <2> HIDE DEF new
  <2> QED BY <1>3, <2>1, <2>2 DEF Fits, Complete, OpFits, CAFits, LeafFits, MigrateFits, ReadyFits
<1> QED BY <1>1, <1>2, <1>3

(* When others write, only the command of the invocation is known.         *)
LEMMA HaveCAOp ==
  ASSUME NEW me, me \in Invocations, NEW s, NEW f, ~me.alone, me.op \in {"init", "client", "daemon"}
  PROVE  Fits(HaveCA(me), s, f)
<1> DEFINE new == HaveCA(me)
<1>1. /\ ~new.alone /\ new.op = me.op /\ new.at \in {"done", "getCert", "leaf"}
      /\ new.at = "leaf" => new.op # "init"
  BY DEF HaveCA, Goto, Invocations
<1> HIDE DEF new
<1>2. Fits(new, s, f)
  BY <1>1 DEF Fits, OpFits
<1> QED BY <1>2 DEF new

(* ensure_ca. *)
LEMMA EnsureFits ==
  ASSUME KeyTypes, AloneInv, NEW c \in Clis, GetCert(c) \/ GetKey(c) \/ SetCert(c) \/ SetKey(c)
  PROVE  \A d \in Clis : Fits(cli'[d], store', faults')
<1> DEFINE me == cli[c]
<1>0. /\ me \in Invocations /\ MeOK(me) /\ Fits(me, store, faults) /\ store \in Entries /\ keys \in Nat
      /\ Fresh
  BY DEF KeyTypes, StoreTypes, AloneInv
<1>00. me.op \in {"init", "client", "daemon"} /\ faults' = faults
  BY <1>0 DEF GetCert, GetKey, SetCert, SetKey, NoFault, Fits, OpFits
<1>1. CASE GetCert(c)
  <2> DEFINE new == [me EXCEPT !.cert = store.caCert, !.at = "getKey"]
  <2>1. Step(c, new) /\ store' = store /\ me.at = "getCert"
    BY <1>1 DEF GetCert, Get
  <2>2. /\ new.at = "getKey" /\ new.cert = store.caCert /\ new.op = me.op /\ new.ca = me.ca
        /\ new.flag = me.flag /\ new.alone = me.alone
    BY <1>0 DEF Invocations
  <2>3. Fits(new, store', faults')
    <3> HIDE DEF new
    <3> QED BY <1>0, <1>00, <2>1, <2>2 DEF Fits, OpFits, CAFits, LeafFits, MigrateFits, ReadyFits
  <2> HIDE DEF new
  <2> QED BY <1>00, <2>1, <2>3, OthersFit DEF AloneInv
<1>2. CASE GetKey(c) /\ Complete(me.cert, store.caKey)
  <2> DEFINE has == [me EXCEPT !.key = store.caKey]
  <2>1. Step(c, HaveCA(has)) /\ store' = store /\ me.at = "getKey"
    BY <1>2 DEF GetKey, Get
  <2>2. store.caKey \in Keys
    BY <1>0, <1>2 DEF Complete, Entries
  <2>3. has \in Invocations /\ has.key = store.caKey /\ has.cert = me.cert /\ has.op = me.op
    BY <1>0, <2>2 DEF Invocations
  <2>4. has.ca = me.ca /\ has.flag = me.flag /\ has.alone = me.alone /\ has.at = "getKey"
    BY <1>0, <2>1 DEF Invocations
  <2> HIDE DEF has
  <2>5. CASE me.alone
    <3>1. has.cert = store.caCert /\ has.cert # None /\ has.key # None
      BY <1>0, <1>2, <2>1, <2>3, <2>5 DEF Fits, CAFits, Complete
    <3>2. has.op = "daemon" /\ has.ca # None => has.ca = store.caCert
      BY <1>0, <2>3, <2>4, <2>5 DEF Fits, CAFits
    <3>3. has.op = "client" /\ ~has.flag /\ faults = 0 => store.clientCert = None
      BY <1>0, <2>1, <2>3, <2>4, <2>5 DEF Fits, LeafFits
    <3>4. Fits(HaveCA(has), store, faults)
      BY <1>00, <2>3, <2>4, <3>1, <3>2, <3>3, HaveCAFits
    <3> QED BY <1>00, <2>1, <3>4, OthersFit DEF AloneInv
  <2>6. CASE ~me.alone
    <3>1. Fits(HaveCA(has), store, faults)
      BY <1>00, <2>3, <2>4, <2>6, HaveCAOp
    <3> QED BY <1>00, <2>1, <3>1, OthersFit DEF AloneInv
  <2> QED BY <2>5, <2>6
<1>3. CASE GetKey(c) /\ ~Complete(me.cert, store.caKey)
  <2> DEFINE made == [key |-> keys', by |-> keys']
             new  == [me EXCEPT !.cert = made, !.key = keys', !.at = "setCert"]
  <2>1. Step(c, new) /\ store' = store /\ me.at = "getKey" /\ keys' = keys + 1
    BY <1>3 DEF GetKey, Get
  <2>2. /\ new.at = "setCert" /\ new.cert = made /\ new.key = keys' /\ new.op = me.op /\ new.ca = me.ca
        /\ new.flag = me.flag /\ new.alone = me.alone
    BY <1>0 DEF Invocations
  <2>3. made.key = keys'
    OBVIOUS
  <2>4. store.caKey # keys'
    <3>1. store.caKey \in 1 .. keys \cup {None}
      BY <1>0 DEF Fresh
    <3>2. keys' \in Keys
      BY <1>0, <1>3, <2>1, KeysAssumption DEF GetKey, Keys, Get
    <3> QED BY <1>0, <2>1, <3>1, <3>2, NoneAssumption
  <2>5. Fits(new, store', faults')
    <3> HIDE DEF new, made
    <3>1. OpFits(new) /\ (me.alone => LeafFits(new, store, faults) /\ MigrateFits(new, store))
      BY <1>0, <1>00, <2>1, <2>2 DEF Fits, OpFits, LeafFits, MigrateFits, ReadyFits
    <3>2. me.alone => CAFits(new, store)
      <4> SUFFICES ASSUME me.alone PROVE CAFits(new, store)
        OBVIOUS
      <4>1. ~Complete(store.caCert, store.caKey)
        BY <1>0, <1>3, <2>1 DEF Fits, CAFits
      <4>2. me.op = "daemon" => me.ca = None
        BY <1>0, <2>1, <4>1, NoneAssumption DEF Fits, CAFits, Complete
      <4> QED BY <2>2, <2>3, <2>4, <4>1, <4>2 DEF CAFits
    <3> QED BY <1>00, <2>1, <2>2, <3>1, <3>2 DEF Fits
  <2> HIDE DEF new
  <2> QED BY <1>00, <2>1, <2>5, OthersFit DEF AloneInv
<1>4. CASE SetCert(c)
  <2> DEFINE new == Goto(me, "setKey")
  <2>1. WriteStep(c, new) /\ store' = [store EXCEPT !.caCert = me.cert] /\ me.at = "setCert"
    BY <1>4 DEF SetCert, Set
  <2>2. /\ store'.caCert = me.cert /\ store'.caKey = store.caKey /\ store'.clientCert = store.clientCert
    BY <1>0, <2>1 DEF Entries
  <2>3. /\ new.at = "setKey" /\ new.cert = me.cert /\ new.key = me.key /\ new.op = me.op /\ new.ca = me.ca
        /\ new.flag = me.flag /\ new.alone = me.alone
    BY <1>0 DEF Goto, Invocations
  <2>4. Fits(new, store', faults')
    <3> HIDE DEF new
    <3>1. OpFits(new)
      BY <1>00, <2>3 DEF OpFits
    <3>2. me.alone => CAFits(new, store')
      BY <1>0, <2>1, <2>2, <2>3 DEF Fits, CAFits
    <3>3. me.alone => LeafFits(new, store', faults') /\ MigrateFits(new, store')
      BY <1>0, <1>00, <2>1, <2>2, <2>3 DEF Fits, LeafFits, MigrateFits, ReadyFits
    <3> QED BY <2>3, <3>1, <3>2, <3>3 DEF Fits
  <2> HIDE DEF new
  <2> QED BY <1>00, <2>1, <2>4, OthersFit DEF AloneInv
<1>5. CASE SetKey(c)
  <2>1. WriteStep(c, HaveCA(me)) /\ store' = [store EXCEPT !.caKey = me.key] /\ me.at = "setKey"
    BY <1>5 DEF SetKey, Set
  <2>2. /\ store'.caCert = store.caCert /\ store'.caKey = me.key /\ store'.clientCert = store.clientCert
        /\ me.cert # None /\ me.key # None
    BY <1>0, <2>1, NoneAssumption DEF Entries, MeOK
  <2>3. CASE me.alone
    <3>1. me.cert = store'.caCert /\ (me.op = "daemon" => me.ca = None)
      BY <1>0, <2>1, <2>2, <2>3 DEF Fits, CAFits
    <3>2. me.op = "client" /\ ~me.flag /\ faults' = 0 => store'.clientCert = None
      BY <1>0, <1>00, <2>1, <2>2, <2>3 DEF Fits, LeafFits
    <3>3. Fits(HaveCA(me), store', faults')
      BY <1>0, <1>00, <2>1, <2>2, <3>1, <3>2, HaveCAFits
    <3> QED BY <1>00, <2>1, <3>3, OthersFit DEF AloneInv
  <2>4. CASE ~me.alone
    <3>1. Fits(HaveCA(me), store', faults')
      BY <1>0, <1>00, <2>4, HaveCAOp
    <3> QED BY <1>00, <2>1, <3>1, OthersFit DEF AloneInv
  <2> QED BY <2>3, <2>4
<1> QED BY <1>1, <1>2, <1>3, <1>4, <1>5

(* cert issue. *)
LEMMA IssueFits ==
  ASSUME KeyTypes, AloneInv, NEW c \in Clis, IssueLeaf(c) \/ StoreLeaf(c)
  PROVE  \A d \in Clis : Fits(cli'[d], store', faults')
<1> DEFINE me == cli[c]
<1>0. /\ me \in Invocations /\ MeOK(me) /\ Fits(me, store, faults) /\ store \in Entries
      /\ faults' = faults
  BY DEF KeyTypes, StoreTypes, AloneInv, IssueLeaf, StoreLeaf, NoFault
<1>1. CASE IssueLeaf(c)
  <2> DEFINE signed == [key |-> keys', by |-> me.key]
             at     == IF me.op = "client" THEN "setClientCert" ELSE "done"
             new    == [me EXCEPT !.leaf = signed, !.at = at]
  <2>1. Step(c, new) /\ store' = store /\ me.at = "leaf"
    BY <1>1 DEF IssueLeaf, Signed
  <2>2. /\ new.at = at /\ new.leaf = signed /\ new.op = me.op /\ new.ca = me.ca
        /\ new.flag = me.flag /\ new.alone = me.alone
    BY <1>0 DEF Invocations
  <2>3. signed.by = me.key /\ me.op \in {"client", "daemon"}
    BY <1>0, <2>1 DEF Fits, OpFits
  <2>4. (at = "setClientCert" /\ me.op = "client") \/ (at = "done" /\ me.op = "daemon")
    BY <2>3
  <2>5. Fits(new, store', faults')
    <3> HIDE DEF new, signed, at
    <3>1. OpFits(new)
      BY <2>2, <2>4 DEF OpFits
    <3>2. me.alone => CAFits(new, store)
      BY <1>0, <2>1, <2>2, <2>4 DEF Fits, CAFits
    <3>3. me.alone => LeafFits(new, store, faults) /\ MigrateFits(new, store)
      BY <1>0, <2>1, <2>2, <2>3, <2>4 DEF Fits, CAFits, LeafFits, MigrateFits, ReadyFits
    <3> QED BY <1>0, <2>1, <2>2, <3>1, <3>2, <3>3 DEF Fits
  <2> HIDE DEF new
  <2> QED BY <1>0, <2>1, <2>5, OthersFit DEF AloneInv
<1>2. CASE StoreLeaf(c)
  <2>0. me.op = "client" /\ me.at \in {"setClientCert", "setClientKey"}
    BY <1>0, <1>2 DEF StoreLeaf, Fits, OpFits
  <2> DEFINE at  == IF me.at = "setClientCert" THEN "setClientKey" ELSE "done"
             new == Goto(me, at)
  <2>1. /\ WriteStep(c, new)
        /\ store' = IF me.at = "setClientCert" THEN [store EXCEPT !.clientCert = me.leaf]
                                               ELSE [store EXCEPT !.clientKey = me.leaf.key]
    BY <1>2, <2>0 DEF StoreLeaf, Set
  <2>2. /\ store'.caCert = store.caCert /\ store'.caKey = store.caKey
        /\ me.at = "setClientCert" => store'.clientCert = me.leaf
        /\ me.at = "setClientKey" => store'.clientCert = store.clientCert /\ store'.clientKey = me.leaf.key
    BY <1>0, <2>0, <2>1 DEF Entries
  <2>3. /\ new.at = at /\ new.leaf = me.leaf /\ new.op = me.op /\ new.alone = me.alone
        /\ at \in {"setClientKey", "done"} /\ (at = "done" <=> me.at = "setClientKey")
    BY <1>0, <2>0 DEF Goto, Invocations
  <2>4. Fits(new, store', faults')
    <3> HIDE DEF new, at
    <3>1. OpFits(new) /\ CAFits(new, store') /\ MigrateFits(new, store')
      BY <2>0, <2>3 DEF OpFits, CAFits, MigrateFits, ReadyFits
    <3>2. me.alone => LeafFits(new, store', faults')
      BY <1>0, <2>0, <2>2, <2>3 DEF Fits, LeafFits
    <3> QED BY <2>3, <3>1, <3>2 DEF Fits
  <2> HIDE DEF new
  <2> QED BY <1>0, <2>1, <2>4, OthersFit DEF AloneInv
<1> QED BY <1>1, <1>2

(* The account after this one, or the end.                                 *)
LEMMA NextAccountIs ==
  ASSUME NEW me, MeOK(me), NEW good \in BOOLEAN
  PROVE  LET new == NextAccount(me, good) IN
         /\ new.ready = (me.ready /\ (good \/ Account(me) \notin CAEntries))
         /\ new.op = me.op /\ new.flag = me.flag /\ new.alone = me.alone
         /\ \/ me.i < 4 /\ new.i = me.i + 1 /\ new.at = "lookup"
            \/ me.i = 4 /\ new.i = 4 /\ new.at = "done"
<1> DEFINE ready == me.ready /\ (good \/ Account(me) \notin CAEntries)
           next  == [me EXCEPT !.current = None, !.value = None, !.ready = ready]
           new   == NextAccount(me, good)
<1>0. me \in Invocations /\ me.i \in 1 .. 4
  BY DEF MeOK, Invocations
<1>1. ready \in BOOLEAN
  BY Zenon
<1>2. next \in Invocations /\ next.i = me.i /\ next.ready = ready /\ next.op = me.op
      /\ next.flag = me.flag /\ next.alone = me.alone
  <2> HIDE DEF ready
  <2> QED BY <1>0, <1>1 DEF Invocations
<1> SUFFICES /\ new.ready = ready /\ new.op = me.op /\ new.flag = me.flag /\ new.alone = me.alone
             /\ \/ me.i < 4 /\ new.i = me.i + 1 /\ new.at = "lookup"
                \/ me.i = 4 /\ new.i = 4 /\ new.at = "done"
  BY Zenon
<1>3. CASE me.i < 4
  <2>1. new = [next EXCEPT !.i = @ + 1, !.at = "lookup"]
    BY <1>2, <1>3, FourAccounts DEF NextAccount
  <2> HIDE DEF next, new
  <2> QED BY <1>2, <1>3, <2>1 DEF Invocations
<1>4. CASE me.i = 4
  <2>1. new = Goto(next, "done")
    BY <1>2, <1>4, FourAccounts DEF NextAccount
  <2> HIDE DEF next, new
  <2> QED BY <1>2, <1>4, <2>1 DEF Invocations, Goto
<1> QED BY <1>0, <1>3, <1>4

LEMMA AccountIs == ASSUME NEW me, me.i \in 1 .. 4
  PROVE  Account(me) = IF me.i = 1 THEN "caCert" ELSE IF me.i = 2 THEN "caKey"
                       ELSE IF me.i = 3 THEN "clientCert" ELSE "clientKey"
BY FourAccounts DEF Account

(* The next account: a CA entry counts as good only if it is there.        *)
LEMMA NextAccountFits ==
  ASSUME NEW me, MeOK(me), NEW s, NEW f, NEW good \in BOOLEAN, me.op = "migrate", me.at # "done",
         me.alone => ReadyFits(me, s), good /\ me.alone /\ ~me.flag => s[Account(me)] # None
  PROVE  Fits(NextAccount(me, good), s, f)
<1> DEFINE ready == me.ready /\ (good \/ Account(me) \notin CAEntries)
           new   == NextAccount(me, good)
<1>0. me.i \in 1 .. 4
  BY DEF MeOK, Invocations
<1>3. /\ new.ready = ready /\ new.op = "migrate" /\ new.flag = me.flag /\ new.alone = me.alone
      /\ \/ me.i < 4 /\ new.i = me.i + 1 /\ new.at = "lookup"
         \/ me.i = 4 /\ new.i = 4 /\ new.at = "done"
  BY NextAccountIs
<1>4. Account(me) = IF me.i = 1 THEN "caCert" ELSE IF me.i = 2 THEN "caKey"
                    ELSE IF me.i = 3 THEN "clientCert" ELSE "clientKey"
  BY <1>0, AccountIs
<1>5. ASSUME me.alone, ready, ~me.flag
      PROVE  /\ new.i > 1 => s.caCert # None
             /\ new.i > 2 \/ new.at = "done" => s.caKey # None
  <2>1. me.ready /\ (good \/ Account(me) \notin CAEntries)
    BY <1>5
  <2>2. (me.i > 1 => s.caCert # None) /\ (me.i > 2 => s.caKey # None)
    BY <1>5, <2>1 DEF MigrateFits, ReadyFits
  <2> HIDE DEF ready, new
  <2>3. CASE me.i = 1
    BY <1>3, <1>4, <1>5, <2>1, <2>3 DEF CAEntries
  <2>4. CASE me.i = 2
    BY <1>3, <1>4, <1>5, <2>1, <2>2, <2>4 DEF CAEntries
  <2>5. CASE me.i > 2
    BY <1>0, <1>3, <2>2, <2>5
  <2> QED BY <1>0, <2>3, <2>4, <2>5
<1>6. Fits(new, s, f)
  <2> HIDE DEF new, ready
  <2>1. OpFits(new) /\ CAFits(new, s) /\ LeafFits(new, s, f)
    BY <1>3 DEF OpFits, CAFits, LeafFits
  <2>2. me.alone => MigrateFits(new, s)
    BY <1>0, <1>3, <1>5 DEF MigrateFits, ReadyFits
  <2> QED BY <1>3, <2>1, <2>2 DEF Fits
<1> QED BY <1>6 DEF new

(* What the current account knows matters to ca migrate only. *)
LEMMA MigrateOnly ==
  ASSUME NEW me, NEW s, NEW f, me.op = "migrate", OpFits(me), me.alone => MigrateFits(me, s)
  PROVE  Fits(me, s, f)
BY DEF Fits, OpFits, CAFits, LeafFits

(* ca migrate. *)
LEMMA MigrateStepFits ==
  ASSUME KeyTypes, AloneInv, NEW c \in Clis, Lookup(c) \/ ReadLegacy(c) \/ DeleteLegacy(c) \/ SetMigrated(c)
  PROVE  \A d \in Clis : Fits(cli'[d], store', faults')
<1> DEFINE me == cli[c]
           a  == Account(me)
<1>0. /\ me \in Invocations /\ MeOK(me) /\ Fits(me, store, faults) /\ store \in Entries
      /\ a \in AllNames /\ me.alone \in BOOLEAN /\ me.i \in 1 .. 4
  BY AccountOK DEF KeyTypes, StoreTypes, AloneInv, Invocations
<1>1. me.op = "migrate" /\ me.at \in {"lookup", "legacy", "delete", "set"} /\ (me.alone => MigrateFits(me, store))
  BY <1>0 DEF Lookup, ReadLegacy, DeleteLegacy, SetMigrated, Fits, OpFits
<1>2. NoFault \/ Fault
  BY DEF Lookup, ReadLegacy, DeleteLegacy, SetMigrated
<1>3. ASSUME Step(c, NextAccount(me, FALSE)), store' = store
      PROVE  \A d \in Clis : Fits(cli'[d], store', faults')
  <2>1. Fits(NextAccount(me, FALSE), store', faults')
    BY <1>0, <1>1, <1>3, NextAccountFits DEF MigrateFits
  <2> QED BY <1>2, <1>3, <2>1, OthersFit, FaultsOnlyGrow DEF AloneInv
<1>4. CASE Lookup(c)
  <2> DEFINE new == [me EXCEPT !.current = store[a], !.at = "legacy"]
  <2>1. store' = store /\ (Step(c, new) \/ Step(c, NextAccount(me, FALSE))) /\ me.at = "lookup"
    BY <1>4 DEF Lookup, Get
  <2>2. new.at = "legacy" /\ new.op = "migrate" /\ new.current = store[a]
    BY <1>0, <1>1 DEF Invocations
  <2>3. new.i = me.i /\ new.ready = me.ready /\ new.flag = me.flag /\ new.alone = me.alone
    BY <1>0 DEF Invocations
  <2>4. Account(new) = a
    BY <2>3 DEF Account
  <2>5. Fits(new, store', faults')
    <3> HIDE DEF new
    <3>1. OpFits(new)
      BY <2>2 DEF OpFits
    <3>2. me.alone => MigrateFits(new, store)
      BY <1>1, <2>1, <2>2, <2>3, <2>4 DEF MigrateFits, ReadyFits
    <3> QED BY <2>1, <2>2, <2>3, <3>1, <3>2, MigrateOnly
  <2>6. CASE Step(c, new)
    <3> HIDE DEF new
    <3> QED BY <1>2, <2>1, <2>5, <2>6, OthersFit, FaultsOnlyGrow DEF AloneInv
  <2> QED BY <1>3, <2>1, <2>6
<1>5. CASE ReadLegacy(c)
  <2> DEFINE good(v) == IF me.current = None THEN v # None ELSE v \in {None, me.current}
             Moved(v) == [me EXCEPT !.value = v, !.at = "delete"]
             Decide(v) == IF MovesValue(me, v) THEN Moved(v) ELSE NextAccount(me, good(v))
  <2>1. /\ store' = store /\ me.at = "legacy"
        /\ \/ Step(c, NextAccount(me, FALSE))
           \/ \E v \in {None, legacy[a]} : Step(c, Decide(v))
    BY <1>5 DEF ReadLegacy, LegacyValue
  <2>2. me.alone => me.current = store[a]
    BY <1>1, <2>1 DEF MigrateFits, ReadyFits
  <2>3. ASSUME NEW v, Step(c, Decide(v)) PROVE \A d \in Clis : Fits(cli'[d], store', faults')
    <3>1. CASE MovesValue(me, v)
      <4> DEFINE new == Moved(v)
      <4>1. Step(c, new) /\ me.current = None
        BY <2>3, <3>1 DEF MovesValue
      <4>2. new.at = "delete" /\ new.op = "migrate" /\ new.i = me.i
        BY <1>0, <1>1 DEF Invocations
      <4>3. new.ready = me.ready /\ new.flag = me.flag /\ new.alone = me.alone
        BY <1>0 DEF Invocations
      <4>4. Account(new) = a
        BY <4>2 DEF Account
      <4> HIDE DEF new
      <4>5. OpFits(new)
        BY <4>2 DEF OpFits
      <4>6. me.alone => MigrateFits(new, store)
        BY <1>1, <2>1, <2>2, <4>1, <4>2, <4>3, <4>4 DEF MigrateFits, ReadyFits
      <4>7. Fits(new, store', faults')
        BY <2>1, <4>2, <4>3, <4>5, <4>6, MigrateOnly
      <4> QED BY <1>2, <2>1, <4>1, <4>7, OthersFit, FaultsOnlyGrow DEF AloneInv
    <3>2. CASE ~MovesValue(me, v)
      <4>1. Step(c, NextAccount(me, good(v)))
        BY <2>3, <3>2
      <4>2. good(v) \in BOOLEAN
        <5>1. CASE me.current = None
          BY <5>1, Zenon
        <5>2. CASE me.current # None
          <6>1. (v \in {None, me.current}) \in BOOLEAN
            OBVIOUS
          <6> QED BY <5>2, <6>1, Zenon
        <5> QED BY <5>1, <5>2
      <4>3. good(v) /\ me.alone /\ ~me.flag => store[a] # None
        BY <2>2, <3>2 DEF MovesValue
      <4> HIDE DEF good
      <4>4. Fits(NextAccount(me, good(v)), store', faults')
        BY <1>0, <1>1, <2>1, <4>2, <4>3, NextAccountFits DEF MigrateFits
      <4> QED BY <1>2, <2>1, <4>1, <4>4, OthersFit, FaultsOnlyGrow DEF AloneInv
    <3> QED BY <3>1, <3>2
  <2> HIDE DEF Decide
  <2> QED BY <1>3, <2>1, <2>3
<1>6. CASE DeleteLegacy(c)
  <2> DEFINE new == Goto(me, "set")
  <2>1. /\ store' = store /\ me.at = "delete"
        /\ Step(c, new) \/ WriteStep(c, new) \/ Step(c, NextAccount(me, FALSE))
    BY <1>6 DEF DeleteLegacy
  <2>2. new.at = "set" /\ new.op = "migrate" /\ new.i = me.i
    BY <1>0, <1>1 DEF Goto, Invocations
  <2>3. new.ready = me.ready /\ new.flag = me.flag /\ new.alone = me.alone
    BY <1>0 DEF Goto, Invocations
  <2>4. Account(new) = a
    BY <2>2 DEF Account
  <2> HIDE DEF new
  <2>5. OpFits(new)
    BY <2>2 DEF OpFits
  <2>6. me.alone => MigrateFits(new, store)
    BY <1>1, <2>1, <2>2, <2>3, <2>4 DEF MigrateFits, ReadyFits
  <2>7. Fits(new, store', faults')
    BY <2>1, <2>2, <2>3, <2>5, <2>6, MigrateOnly
  <2>8. CASE Step(c, new) \/ WriteStep(c, new)
    BY <1>2, <2>1, <2>7, <2>8, OthersFit, FaultsOnlyGrow DEF AloneInv
  <2> QED BY <1>3, <2>1, <2>8
<1>7. CASE SetMigrated(c) /\ ~(Step(c, NextAccount(me, FALSE)) /\ store' = store)
  <2>1. store' = [store EXCEPT ![a] = me.value] /\ WriteStep(c, NextAccount(me, TRUE)) /\ me.at = "set"
    BY <1>7 DEF SetMigrated, Set
  <2>2. me.value # None
    BY <1>0, <2>1, NoneAssumption DEF MeOK, Kind
  <2>3. store'[a] = me.value /\ \A b \in AllNames : store[b] # None => store'[b] # None
    BY <1>0, <2>1, <2>2 DEF Entries, AllNames
  <2>4. me.alone => ReadyFits(me, store')
    BY <1>1, <2>1, <2>3 DEF MigrateFits, ReadyFits, AllNames
  <2>5. Fits(NextAccount(me, TRUE), store', faults')
    BY <1>0, <1>1, <2>1, <2>2, <2>3, <2>4, NextAccountFits
  <2> QED BY <1>2, <2>1, <2>5, OthersFit, FaultsOnlyGrow DEF AloneInv
<1>8. CASE SetMigrated(c) /\ Step(c, NextAccount(me, FALSE)) /\ store' = store
  BY <1>3, <1>8
<1> QED BY <1>4, <1>5, <1>6, <1>7, <1>8

(* build_client, and the ways an invocation ends. *)
LEMMA OtherFits ==
  ASSUME KeyTypes, AloneInv, NEW c \in Clis, Connect(c) \/ Finish(c) \/ Fails(c) \/ GenerationFails(c)
  PROVE  \A d \in Clis : Fits(cli'[d], store', faults')
<1> DEFINE me == cli[c]
<1>0. me \in Invocations /\ Fits(me, store, faults)
  BY DEF KeyTypes, AloneInv
<1>1. store' = store /\ (NoFault \/ Fault)
  BY DEF Connect, Finish, Fails, GenerationFails
<1>2. CASE Step(c, Idle)
  BY <1>1, <1>2, EndFits
<1>3. CASE Connect(c) /\ ~Step(c, Idle)
  <2>1. me.op = "connect"
    BY <1>0, <1>3 DEF Connect, Fits, OpFits
  <2>2. ASSUME NEW new, Step(c, new), new.op = "connect", new.at \in {"identityKey", "root", "done"}
        PROVE  \A d \in Clis : Fits(cli'[d], store', faults')
    <3>1. Fits(new, store', faults')
      BY <2>2 DEF Fits, OpFits, CAFits, LeafFits, MigrateFits, ReadyFits
    <3> QED BY <1>1, <2>2, <3>1, OthersFit, FaultsOnlyGrow DEF AloneInv
  <2> DEFINE leaf == [me EXCEPT !.leaf = store.clientCert, !.at = "identityKey"]
             key  == [me EXCEPT !.key = store.clientKey, !.at = "root"]
             root == [me EXCEPT !.ca = store.caCert, !.at = "done"]
  <2>3. Step(c, leaf) \/ Step(c, key) \/ Step(c, root)
    BY <1>3 DEF Connect, Get
  <2>4. /\ leaf.op = "connect" /\ leaf.at = "identityKey" /\ key.op = "connect" /\ key.at = "root"
        /\ root.op = "connect" /\ root.at = "done"
    BY <1>0, <2>1 DEF Invocations
  <2> HIDE DEF leaf, key, root
  <2> QED BY <2>2, <2>3, <2>4
<1> QED BY <1>2, <1>3 DEF Finish, Fails, GenerationFails

-----------------------------------------------------------------------------
(* Keys are new when they are made. *)

LEMMA FreshStep ==
  ASSUME KeyTypes, Fresh, NEW c \in Clis, NEW new \in Invocations, Step(c, new) \/ WriteStep(c, new),
         keys' \in Nat, keys' >= keys,
         store'.caKey \in 1 .. keys' \cup {None}, legacy'.caKey \in 1 .. keys' \cup {None},
         new.at \in {"setCert", "setKey"} => new.key \in 1 .. keys',
         new.at \in {"delete", "set"} /\ Account(new) = "caKey" => new.value \in 1 .. keys'
  PROVE  Fresh'
<1> SUFFICES ASSUME NEW d \in Clis
             PROVE  /\ cli'[d].at \in {"setCert", "setKey"} => cli'[d].key \in 1 .. keys'
                    /\ cli'[d].at \in {"delete", "set"} /\ Account(cli'[d]) = "caKey" => cli'[d].value \in 1 .. keys'
  BY DEF Fresh
<1>1. cli'[c] = new /\ (d # c => cli'[d] = cli[d] \/ cli'[d] = [cli[d] EXCEPT !.alone = FALSE])
  BY Others DEF KeyTypes
<1>2. CASE d = c
  BY <1>1, <1>2
<1>3. CASE d # c
  <2>1. cli[d] \in Invocations /\ keys \in Nat
    BY DEF KeyTypes, StoreTypes
  <2>2. /\ cli'[d].at = cli[d].at /\ cli'[d].key = cli[d].key /\ cli'[d].value = cli[d].value
        /\ cli'[d].i = cli[d].i
    BY <1>1, <1>3, <2>1 DEF Invocations
  <2>3. Account(cli'[d]) = Account(cli[d])
    BY <2>2 DEF Account
  <2> QED BY <2>1, <2>2, <2>3 DEF Fresh
<1> QED BY <1>2, <1>3

(* A step of any invocation is a step or a write with what it becomes.     *)
LEMMA StepsAre ==
  ASSUME KeyTypes, NEW c \in Clis,
         \/ Start(c) \/ Exists(c) \/ DeleteOld(c) \/ GetCert(c) \/ GetKey(c) \/ SetCert(c) \/ SetKey(c)
         \/ IssueLeaf(c) \/ StoreLeaf(c) \/ Lookup(c) \/ ReadLegacy(c) \/ DeleteLegacy(c) \/ SetMigrated(c)
         \/ Connect(c) \/ Finish(c) \/ Fails(c) \/ GenerationFails(c)
  PROVE  Step(c, cli'[c]) \/ WriteStep(c, cli'[c])
<1>1. \E new : Step(c, new) \/ WriteStep(c, new)
  <2>1. CASE Start(c)
    BY <2>1 DEF Start
  <2>2. CASE Exists(c) \/ DeleteOld(c)
    BY <2>2 DEF Exists, DeleteOld
  <2>3. CASE GetCert(c) \/ SetCert(c) \/ SetKey(c)
    BY <2>3 DEF GetCert, SetCert, SetKey
  <2>4. CASE GetKey(c)
    BY <2>4 DEF GetKey
  <2>5. CASE IssueLeaf(c) \/ StoreLeaf(c)
    BY <2>5 DEF IssueLeaf, StoreLeaf
  <2>6. CASE Lookup(c) \/ DeleteLegacy(c) \/ SetMigrated(c)
    BY <2>6 DEF Lookup, DeleteLegacy, SetMigrated
  <2>7. CASE ReadLegacy(c)
    BY <2>7 DEF ReadLegacy
  <2>8. CASE Connect(c) \/ Finish(c) \/ Fails(c) \/ GenerationFails(c)
    BY <2>8 DEF Connect, Finish, Fails, GenerationFails
  <2> QED BY <2>1, <2>2, <2>3, <2>4, <2>5, <2>6, <2>7, <2>8
<1> QED BY <1>1, Others DEF KeyTypes

LEMMA HaveCAAt == ASSUME NEW me \in Invocations
  PROVE  HaveCA(me).at \in {"done", "getCert", "leaf"}
BY DEF HaveCA, Goto, Invocations

(* A step that makes no key and moves none into the hands of an invocation. *)
LEMMA FreshQuiet ==
  ASSUME KeyTypes, KeyTypes', Fresh, NEW c \in Clis, Step(c, cli'[c]) \/ WriteStep(c, cli'[c]),
         keys' = keys \/ keys' = keys + 1,
         store'.caKey \in {store.caKey, None}, legacy'.caKey \in {legacy.caKey, None},
         cli'[c].at \notin {"setCert", "setKey", "delete", "set"}
  PROVE  Fresh'
<1>1. keys \in Nat /\ keys' \in Nat /\ keys' >= keys /\ cli'[c] \in Invocations
  BY DEF KeyTypes, StoreTypes
<1>2. store'.caKey \in 1 .. keys' \cup {None} /\ legacy'.caKey \in 1 .. keys' \cup {None}
  BY <1>1 DEF Fresh
<1> QED BY <1>1, <1>2, FreshStep

LEMMA FreshInductive ==
  ASSUME KeyTypes, KeyTypes', AloneInv, NEW c \in Clis,
         \/ Start(c) \/ Exists(c) \/ DeleteOld(c) \/ GetCert(c) \/ GetKey(c) \/ SetCert(c) \/ SetKey(c)
         \/ IssueLeaf(c) \/ StoreLeaf(c) \/ Lookup(c) \/ ReadLegacy(c) \/ DeleteLegacy(c) \/ SetMigrated(c)
         \/ Connect(c) \/ Finish(c) \/ Fails(c) \/ GenerationFails(c)
  PROVE  Fresh'
<1> DEFINE me == cli[c]
           new == cli'[c]
<1>0. /\ me \in Invocations /\ MeOK(me) /\ store \in Entries /\ legacy \in Entries /\ keys \in Nat /\ Fresh
      /\ new \in Invocations /\ Account(me) \in AllNames /\ keys' \in Nat
  BY AccountOK DEF KeyTypes, StoreTypes, AloneInv
<1>1. Step(c, new) \/ WriteStep(c, new)
  BY StepsAre
<1>2. ASSUME NEW x, Step(c, x) \/ WriteStep(c, x) PROVE new = x
  BY <1>2, Others DEF KeyTypes
<1>3. \A at : Goto(me, at).at = at /\ Goto(me, at).key = me.key /\ Goto(me, at).value = me.value
              /\ Account(Goto(me, at)) = Account(me)
  BY <1>0 DEF Goto, Account, Invocations
<1>4. Idle.at = "idle" /\ \A good \in BOOLEAN : NextAccount(me, good).at \in {"lookup", "done"}
  BY <1>0, IdleOK, NextAccountOK
<1> HIDE DEF new
<1>5. CASE Start(c)
  <2>1. PICK op \in {"init", "client", "daemon", "migrate", "connect"}, flag \in BOOLEAN,
             at \in {"lookup", "identity", "deleteCert", "getCert", "exists"} :
          Step(c, [Idle EXCEPT !.op = op, !.flag = flag, !.at = at])
    BY <1>5, StartIs
  <2>2. new.at = at
    BY <1>2, <2>1 DEF Idle
  <2> QED BY <1>1, <1>5, <2>2, FreshQuiet, <1>0 DEF Start, new
<1>6. CASE Exists(c)
  <2>1. new.at \in {"idle", "getCert"}
    BY <1>2, <1>3, <1>4, <1>6 DEF Exists
  <2> QED BY <1>0, <1>1, <1>6, <2>1, FreshQuiet DEF Exists, new
<1>7. CASE DeleteOld(c)
  <2>1. new.at \in {"deleteKey", "getCert"}
    BY <1>2, <1>3, <1>7 DEF DeleteOld
  <2>2. store' = store \/ \E a \in AllNames : store' = [store EXCEPT ![a] = None]
    BY <1>7 DEF DeleteOld, Set, AllNames
  <2>3. store'.caKey \in {store.caKey, None}
    BY <1>0, <2>2 DEF Entries, AllNames
  <2> QED BY <1>0, <1>1, <1>7, <2>1, <2>3, FreshQuiet DEF DeleteOld, new
<1>8. CASE GetCert(c)
  <2>1. new.at = "getKey"
    <3>1. new = [me EXCEPT !.cert = store.caCert, !.at = "getKey"]
      BY <1>2, <1>8 DEF GetCert, Get
    <3> QED BY <1>0, <3>1 DEF Invocations
  <2> QED BY <1>0, <1>1, <1>8, <2>1, FreshQuiet DEF GetCert, new
<1>9. CASE GetKey(c) /\ Complete(me.cert, store.caKey)
  <2>1. new = HaveCA([me EXCEPT !.key = store.caKey]) /\ keys' = keys
    BY <1>2, <1>9 DEF GetKey, Get
  <2>2. [me EXCEPT !.key = store.caKey] \in Invocations
    BY <1>0 DEF Invocations, Entries
  <2>3. new.at \in {"done", "getCert", "leaf"}
    BY <2>1, <2>2, HaveCAAt
  <2> QED BY <1>0, <1>1, <1>9, <2>1, <2>3, FreshQuiet DEF GetKey, new
<1>10. CASE GetKey(c) /\ ~Complete(me.cert, store.caKey)
  <2>1. /\ new = [me EXCEPT !.cert = [key |-> keys', by |-> keys'], !.key = keys', !.at = "setCert"]
        /\ keys' = keys + 1 /\ store' = store /\ legacy' = legacy
    BY <1>2, <1>10 DEF GetKey, Get
  <2>2. new.key = keys' /\ new.at = "setCert"
    BY <1>0, <2>1 DEF Invocations
  <2>3. keys' \in 1 .. keys' /\ 1 .. keys \subseteq 1 .. keys'
    BY <1>0, <2>1
  <2>4. store'.caKey \in 1 .. keys' \cup {None} /\ legacy'.caKey \in 1 .. keys' \cup {None}
    BY <1>0, <2>1, <2>3 DEF Fresh
  <2>5. keys' >= keys /\ new.key \in 1 .. keys' /\ new.at \notin {"delete", "set"}
    BY <1>0, <2>1, <2>2, <2>3
  <2> QED BY <1>0, <1>1, <2>4, <2>5, FreshStep
<1>11. CASE SetCert(c)
  <2>1. /\ new = Goto(me, "setKey") /\ store' = [store EXCEPT !.caCert = me.cert]
        /\ keys' = keys /\ legacy' = legacy /\ me.at = "setCert"
    BY <1>2, <1>11 DEF SetCert, Set
  <2>2. store'.caKey = store.caKey
    BY <1>0, <2>1 DEF Entries
  <2>3. me.key \in 1 .. keys
    BY <1>0, <2>1 DEF Fresh
  <2> QED BY <1>0, <1>1, <1>3, <2>1, <2>2, <2>3, FreshStep DEF new, Fresh
<1>12. CASE SetKey(c)
  <2>1. /\ new = HaveCA(me) /\ store' = [store EXCEPT !.caKey = me.key]
        /\ keys' = keys /\ legacy' = legacy /\ me.at = "setKey"
    BY <1>2, <1>12 DEF SetKey, Set
  <2>2. store'.caKey = me.key
    BY <1>0, <2>1 DEF Entries
  <2>3. me.key \in 1 .. keys /\ new.at \in {"done", "getCert", "leaf"}
    BY <1>0, <2>1, HaveCAAt DEF Fresh
  <2> QED BY <1>0, <1>1, <2>1, <2>2, <2>3, FreshStep DEF new, Fresh
<1>13. CASE IssueLeaf(c)
  <2> DEFINE leaf == Signed(me, keys')
             at   == IF me.op = "client" THEN "setClientCert" ELSE "done"
  <2>1. new = [me EXCEPT !.leaf = leaf, !.at = at]
    BY <1>2, <1>13 DEF IssueLeaf
  <2>2. new.at = at
    BY <1>0, <2>1 DEF Invocations
  <2> QED BY <1>0, <1>1, <1>13, <2>2, FreshQuiet DEF IssueLeaf, new
<1>14. CASE StoreLeaf(c)
  <2>1. new.at \in {"setClientKey", "done"}
    BY <1>2, <1>3, <1>14 DEF StoreLeaf
  <2>2. store' = [store EXCEPT !.clientCert = me.leaf] \/ store' = [store EXCEPT !.clientKey = me.leaf.key]
    BY <1>14 DEF StoreLeaf, Set
  <2>3. store'.caKey = store.caKey
    BY <1>0, <2>2 DEF Entries
  <2> QED BY <1>0, <1>1, <1>14, <2>1, <2>3, FreshQuiet DEF StoreLeaf, new
<1>15. CASE Lookup(c)
  <2>1. new.at \in {"legacy", "lookup", "done"}
    <3>1. new = [me EXCEPT !.current = store[Account(me)], !.at = "legacy"] \/ new = NextAccount(me, FALSE)
      BY <1>2, <1>15 DEF Lookup, Get
    <3>2. [me EXCEPT !.current = store[Account(me)], !.at = "legacy"].at = "legacy"
      BY <1>0 DEF Invocations
    <3> QED BY <1>4, <3>1, <3>2
  <2> QED BY <1>0, <1>1, <1>15, <2>1, FreshQuiet DEF Lookup, new
<1>16. CASE ReadLegacy(c)
  <2>0. store' = store /\ legacy' = legacy /\ keys' = keys
    BY <1>16 DEF ReadLegacy
  <2>1. CASE new.at \notin {"setCert", "setKey", "delete", "set"}
    BY <1>0, <1>1, <2>0, <2>1, FreshQuiet DEF new
  <2>2. CASE new.at \in {"setCert", "setKey", "delete", "set"}
    <3> DEFINE good(v) == IF me.current = None THEN v # None ELSE v \in {None, me.current}
               Moved(v) == [me EXCEPT !.value = v, !.at = "delete"]
               Decide(v) == IF MovesValue(me, v) THEN Moved(v) ELSE NextAccount(me, good(v))
    <3>1. \/ Step(c, NextAccount(me, FALSE))
          \/ \E v \in {None, legacy[Account(me)]} : Step(c, Decide(v))
      BY <1>16 DEF ReadLegacy, LegacyValue
    <3>2. PICK v \in {None, legacy[Account(me)]} : new = Decide(v)
      BY <1>2, <1>4, <2>2, <3>1
    <3>3. ASSUME ~MovesValue(me, v) PROVE FALSE
      <4>1. new = NextAccount(me, good(v))
        BY <3>2, <3>3
      <4>2. good(v) \in BOOLEAN
        <5>1. CASE me.current = None
          BY <5>1, Zenon
        <5>2. CASE me.current # None
          <6>1. (v \in {None, me.current}) \in BOOLEAN
            OBVIOUS
          <6> QED BY <5>2, <6>1, Zenon
        <5> QED BY <5>1, <5>2
      <4> HIDE DEF good
      <4> QED BY <1>4, <2>2, <4>1, <4>2
    <3>4. v # None /\ new = Moved(v)
      BY <3>2, <3>3 DEF MovesValue
    <3>5. new.at = "delete" /\ new.value = legacy[Account(me)] /\ new.value # None /\ new.i = me.i
      BY <1>0, <3>4 DEF Invocations
    <3>6. Account(new) = Account(me)
      BY <3>5 DEF Account
    <3>7. Account(new) = "caKey" => new.value \in 1 .. keys'
      BY <1>0, <2>0, <3>5, <3>6 DEF Fresh
    <3>8. store'.caKey \in 1 .. keys' \cup {None} /\ legacy'.caKey \in 1 .. keys' \cup {None}
      BY <1>0, <2>0 DEF Fresh
    <3>9. keys' >= keys
      BY <1>0, <2>0
    <3>10. new.at \notin {"setCert", "setKey"}
      BY <3>5
    <3> HIDE DEF good, Moved, Decide
    <3> QED BY <1>0, <1>1, <3>7, <3>8, <3>9, <3>10, FreshStep
  <2> QED BY <2>1, <2>2
<1>17. CASE DeleteLegacy(c)
  <2>1. /\ store' = store /\ keys' = keys /\ me.at = "delete"
        /\ legacy' = legacy \/ legacy' = [legacy EXCEPT ![Account(me)] = None]
        /\ new = Goto(me, "set") \/ new = NextAccount(me, FALSE)
    BY <1>2, <1>17 DEF DeleteLegacy
  <2>2. legacy'.caKey \in {legacy.caKey, None}
    BY <1>0, <2>1 DEF Entries, AllNames
  <2>3. CASE new = Goto(me, "set")
    BY <1>0, <1>1, <1>3, <2>1, <2>2, <2>3, FreshStep DEF Fresh, new
  <2>4. CASE new = NextAccount(me, FALSE)
    BY <1>0, <1>1, <1>4, <2>1, <2>2, <2>4, FreshQuiet DEF new
  <2> QED BY <2>1, <2>3, <2>4
<1>18. CASE SetMigrated(c)
  <2>1. /\ legacy' = legacy /\ keys' = keys /\ me.at = "set" /\ new.at \in {"lookup", "done"}
        /\ store' = store \/ store' = [store EXCEPT ![Account(me)] = me.value]
    BY <1>2, <1>4, <1>18 DEF SetMigrated, Set
  <2>2. store'.caKey \in 1 .. keys \cup {None}
    <3>1. CASE Account(me) = "caKey"
      BY <1>0, <2>1, <3>1 DEF Entries, Fresh
    <3>2. CASE Account(me) # "caKey"
      BY <1>0, <2>1, <3>2 DEF Entries, Fresh, AllNames
    <3> QED BY <3>1, <3>2
  <2> QED BY <1>0, <1>1, <2>1, <2>2, FreshStep DEF Fresh, new
<1>19. CASE Connect(c) \/ Finish(c) \/ Fails(c) \/ GenerationFails(c)
  <2>1. \/ new = Idle
        \/ new = [me EXCEPT !.leaf = store.clientCert, !.at = "identityKey"]
        \/ new = [me EXCEPT !.key = store.clientKey, !.at = "root"]
        \/ new = [me EXCEPT !.ca = store.caCert, !.at = "done"]
    BY <1>2, <1>19 DEF Connect, Get, Finish, Fails, GenerationFails
  <2>2. new.at \in {"idle", "identityKey", "root", "done"}
    BY <1>0, <1>4, <2>1 DEF Invocations
  <2> QED BY <1>0, <1>1, <1>19, <2>2, FreshQuiet DEF Connect, Finish, Fails, GenerationFails, new
<1> QED BY <1>5, <1>6, <1>7, <1>8, <1>9, <1>10, <1>11, <1>12, <1>13, <1>14, <1>15, <1>16, <1>17, <1>18, <1>19

LEMMA AloneInductive ==
  ASSUME KeyTypes, AloneInv, [Next]_vars
  PROVE  AloneInv'
<1>1. CASE UNCHANGED vars
  BY <1>1 DEF AloneInv, Fresh, vars
<1>2. CASE Next
  <2>1. KeyTypes'
    BY KeyTypesInductive
  <2>2. (\A d \in Clis : Fits(cli[d], store, faults))'
    BY <1>2, StartFits, InitFits, EnsureFits, IssueFits, MigrateStepFits, OtherFits DEF Next
  <2>3. Fresh'
    BY <1>2, <2>1, FreshInductive DEF Next
  <2> QED BY <2>2, <2>3 DEF AloneInv
<1> QED BY <1>1, <1>2

LEMMA AloneAlways == Spec => [](KeyTypes /\ AloneInv)
<1>1. Init => AloneInv
  <2> SUFFICES ASSUME Init PROVE AloneInv
    OBVIOUS
  <2>1. store.caKey \in 1 .. keys \cup {None} /\ legacy.caKey \in 1 .. keys \cup {None}
    BY DEF Init, Nothing, Old
  <2>2. \A c \in Clis : cli[c] = Idle
    BY DEF Init
  <2> QED BY <2>1, <2>2, IdleFits, IdleOK DEF AloneInv, Fresh
<1> QED BY <1>1, KeyTypesInitial, KeyTypesInductive, AloneInductive, PTL DEF Spec

(* ca migrate reports the CA as ready only if both entries are there.      *)
THEOREM ReadyOnlyWithCA == Spec => []ReadyCAIsThere
<1>1. KeyTypes /\ AloneInv => ReadyCAIsThere
  BY DEF AloneInv, Fits, MigrateFits, ReadyFits, ReadyCAIsThere
<1> QED BY <1>1, AloneAlways, PTL

(* A whole CA is replaced by ca init --force only, and a client            *)
(* certificate only with --force unless the look at the keyring failed.    *)
THEOREM OnlyForceReplaces == Spec => ReplacedByForceOnly
<1> DEFINE Keeps(c) ==
        cli'[c].at # cli[c].at /\ cli[c].alone /\ ~(cli[c].op = "init" /\ cli[c].flag) =>
          /\ Complete(store.caCert, store.caKey) /\ store.caCert.key = store.caKey =>
               store'.caCert = store.caCert /\ store'.caKey = store.caKey
          /\ store.clientCert # None /\ ~cli[c].flag /\ faults = 0 =>
               store'.clientCert = store.clientCert
<1>1. ASSUME KeyTypes, AloneInv, Next, NEW c \in Clis PROVE Keeps(c)
  <2>1. PICK d \in Clis :
         \/ Start(d) \/ Exists(d) \/ DeleteOld(d) \/ GetCert(d) \/ GetKey(d) \/ SetCert(d) \/ SetKey(d)
         \/ IssueLeaf(d) \/ StoreLeaf(d) \/ Lookup(d) \/ ReadLegacy(d) \/ DeleteLegacy(d) \/ SetMigrated(d)
         \/ Connect(d) \/ Finish(d) \/ Fails(d) \/ GenerationFails(d)
    BY <1>1 DEF Next
  <2>2. CASE d # c
    <3>1. cli'[c] = cli[c] \/ cli'[c] = [cli[c] EXCEPT !.alone = FALSE]
      BY <1>1, <2>1, <2>2, StepsAre, Others DEF KeyTypes
    <3>2. cli[c] \in Invocations
      BY <1>1 DEF KeyTypes
    <3>3. cli'[c].at = cli[c].at
      BY <3>1, <3>2 DEF Invocations
    <3> QED BY <3>3
  <2>3. CASE d = c /\ store' = store
    BY <2>3
  <2>4. CASE d = c /\ store' # store
    <3> DEFINE me == cli[c]
               a  == Account(me)
    <3> SUFFICES ASSUME me.alone, ~(me.op = "init" /\ me.flag) PROVE Keeps(c)
      OBVIOUS
    <3>0. /\ me \in Invocations /\ MeOK(me) /\ store \in Entries /\ a \in AllNames
          /\ OpFits(me) /\ CAFits(me, store) /\ LeafFits(me, store, faults) /\ MigrateFits(me, store)
      BY <1>1, AccountOK DEF KeyTypes, StoreTypes, AloneInv, Fits
    <3>1. DeleteOld(c) \/ SetCert(c) \/ SetKey(c) \/ StoreLeaf(c) \/ SetMigrated(c)
      BY <2>1, <2>4 DEF Start, Exists, GetCert, GetKey, IssueLeaf, Lookup, ReadLegacy, DeleteLegacy,
                        Connect, Finish, Fails, GenerationFails
    <3>2. CASE DeleteOld(c)
      BY <3>0, <3>2 DEF DeleteOld, OpFits
    <3>3. CASE SetCert(c)
      <4>1. me.at = "setCert" /\ store' = [store EXCEPT !.caCert = me.cert]
        BY <3>3 DEF SetCert, Set
      <4>2. store'.clientCert = store.clientCert /\ ~Complete(store.caCert, store.caKey)
        BY <3>0, <4>1 DEF Entries, CAFits
      <4> QED BY <4>2
    <3>4. CASE SetKey(c)
      <4>1. me.at = "setKey" /\ store' = [store EXCEPT !.caKey = me.key]
        BY <3>4 DEF SetKey, Set
      <4>2. store'.clientCert = store.clientCert /\ store.caCert.key # store.caKey
        BY <3>0, <4>1 DEF Entries, CAFits
      <4> QED BY <4>2
    <3>5. CASE StoreLeaf(c)
      <4>1. \/ me.at = "setClientCert" /\ store' = [store EXCEPT !.clientCert = me.leaf]
            \/ me.at = "setClientKey" /\ store' = [store EXCEPT !.clientKey = me.leaf.key]
        BY <3>5 DEF StoreLeaf, Set
      <4>2. store'.caCert = store.caCert /\ store'.caKey = store.caKey
        BY <3>0, <4>1 DEF Entries
      <4>3. ~me.flag /\ faults = 0 => store.clientCert = None \/ store'.clientCert = store.clientCert
        BY <3>0, <4>1 DEF Entries, OpFits, LeafFits
      <4> QED BY <4>2, <4>3
    <3>6. CASE SetMigrated(c)
      <4>1. me.at = "set" /\ store' = [store EXCEPT ![a] = me.value]
        BY <2>4, <3>6 DEF SetMigrated, Set
      <4>2. store[a] = None
        BY <3>0, <4>1 DEF MigrateFits
      <4>3. \A b \in AllNames : store[b] # None => store'[b] = store[b]
        BY <3>0, <4>1, <4>2 DEF Entries, AllNames
      <4> QED BY <4>3 DEF Complete, AllNames
    <3> QED BY <3>1, <3>2, <3>3, <3>4, <3>5, <3>6
  <2> QED BY <2>2, <2>3, <2>4
<1>2. KeyTypes /\ AloneInv /\ [Next]_vars => [\A c \in Clis : Keeps(c)]_vars
  BY <1>1
<1>3. [](KeyTypes /\ AloneInv) /\ [][Next]_vars => ReplacedByForceOnly
  BY <1>2, PTL DEF ReplacedByForceOnly
<1> QED BY <1>3, AloneAlways DEF Spec

-----------------------------------------------------------------------------
(* ca migrate loses no credential unless a call fails. *)

(* A value in the hands of an invocation stays there over another step.    *)
LEMMA InHand ==
  ASSUME KeyTypes, NEW c \in Clis, NEW new, Step(c, new) \/ WriteStep(c, new),
         NEW d \in Clis, d # c, cli[d].at = "set"
  PROVE  cli'[d].at = "set" /\ Account(cli'[d]) = Account(cli[d])
<1>1. cli'[d] = cli[d] \/ cli'[d] = [cli[d] EXCEPT !.alone = FALSE]
  BY Others DEF KeyTypes
<1>2. cli[d] \in Invocations
  BY DEF KeyTypes
<1>3. cli'[d].at = cli[d].at /\ cli'[d].i = cli[d].i
  BY <1>1, <1>2 DEF Invocations
<1> QED BY <1>3 DEF Account

(* An account whose legacy value is in the old store, in the hands of a    *)
(* migration, or has been stored.                                          *)
Safe(a) == \/ legacy[a] # None \/ a \notin owed
           \/ \E c \in Clis : cli[c].at = "set" /\ Account(cli[c]) = a

LEMMA LostAreNames == ASSUME KeyTypes, KeyTypes'
                      PROVE  /\ Lost = {a \in AllNames : ~Safe(a)}
                             /\ Lost' = {a \in AllNames : ~Safe(a)'}
<1>1. owed \subseteq AllNames /\ owed' \subseteq AllNames
  BY DEF KeyTypes, StoreTypes
<1>2. Lost = {a \in AllNames : ~Safe(a)}
  BY <1>1 DEF Lost, Safe
<1>3. Lost' = {a \in AllNames : ~Safe(a)'}
  BY <1>1 DEF Lost, Safe
<1> QED BY <1>2, <1>3

LEMMA NamesAreFinite == ASSUME NEW S \in SUBSET AllNames
                        PROVE  IsFiniteSet(S) /\ Cardinality(S) \in Nat
<1>1. IsFiniteSet(AllNames)
  <2>1. AllNames = ((({} \cup {"caCert"}) \cup {"caKey"}) \cup {"clientCert"}) \cup {"clientKey"}
    BY DEF AllNames
  <2>2. IsFiniteSet({} \cup {"caCert"})
    BY FS_EmptySet, FS_AddElement
  <2>3. IsFiniteSet(({} \cup {"caCert"}) \cup {"caKey"})
    BY <2>2, FS_AddElement
  <2>4. IsFiniteSet((({} \cup {"caCert"}) \cup {"caKey"}) \cup {"clientCert"})
    BY <2>3, FS_AddElement
  <2>5. IsFiniteSet(((({} \cup {"caCert"}) \cup {"caKey"}) \cup {"clientCert"}) \cup {"clientKey"})
    BY <2>4, FS_AddElement
  <2> QED BY <2>1, <2>5
<1>2. IsFiniteSet(S)
  BY <1>1, FS_Subset
<1> QED BY <1>2, FS_CardinalityType

(* A step loses nothing, or it is a failure and loses what it had in hand. *)
LEMMA LosesInHand ==
  ASSUME KeyTypes, KeyTypes', Next
  PROVE  \/ faults' >= faults /\ (\A a \in AllNames : Safe(a) => Safe(a)')
         \/ faults' = faults + 1 /\ (\E m \in AllNames : \A a \in AllNames \ {m} : Safe(a) => Safe(a)')
<1>1. PICK c \in Clis :
         \/ Start(c) \/ Exists(c) \/ DeleteOld(c) \/ GetCert(c) \/ GetKey(c) \/ SetCert(c) \/ SetKey(c)
         \/ IssueLeaf(c) \/ StoreLeaf(c) \/ Lookup(c) \/ ReadLegacy(c) \/ DeleteLegacy(c) \/ SetMigrated(c)
         \/ Connect(c) \/ Finish(c) \/ Fails(c) \/ GenerationFails(c)
  BY DEF Next
<1> DEFINE me == cli[c]
<1>0. PICK mine : mine = Account(me)
  OBVIOUS
<1>2. Step(c, cli'[c]) \/ WriteStep(c, cli'[c])
  BY <1>1, StepsAre
<1>3. me \in Invocations /\ faults \in Nat /\ legacy \in Entries /\ mine \in AllNames
  BY <1>0, AccountOK DEF KeyTypes, StoreTypes
<1>4. faults' = faults \/ faults' = faults + 1
  <2>1. CASE Start(c) \/ Exists(c) \/ DeleteOld(c) \/ GetCert(c) \/ GetKey(c) \/ SetCert(c) \/ SetKey(c)
    BY <2>1 DEF Fault, NoFault, Start, Exists, DeleteOld, GetCert, GetKey, SetCert, SetKey
  <2>2. CASE IssueLeaf(c) \/ StoreLeaf(c) \/ Lookup(c) \/ ReadLegacy(c) \/ DeleteLegacy(c) \/ SetMigrated(c)
    BY <2>2 DEF Fault, NoFault, IssueLeaf, StoreLeaf, Lookup, ReadLegacy, DeleteLegacy, SetMigrated
  <2>3. CASE Connect(c) \/ Finish(c) \/ Fails(c) \/ GenerationFails(c)
    BY <2>3 DEF Fault, NoFault, Connect, Finish, Fails, GenerationFails
  <2> QED BY <1>1, <2>1, <2>2, <2>3
<1>5. ASSUME NEW a \in AllNames, NEW d \in Clis, d # c, cli[d].at = "set", Account(cli[d]) = a
      PROVE  Safe(a)'
  BY <1>2, <1>5, InHand DEF Safe
<1>6. CASE SetMigrated(c)
  <2>1. /\ legacy' = legacy /\ me.at = "set"
        /\ owed' = owed \ {mine} \/ (owed' = owed /\ faults' = faults + 1)
    BY <1>0, <1>6 DEF SetMigrated, Fault
  <2>2. \A a \in AllNames \ {mine} : Safe(a) => Safe(a)'
    BY <1>0, <1>5, <2>1 DEF Safe
  <2>3. owed' = owed \ {mine} => Safe(mine)'
    BY DEF Safe
  <2> QED BY <1>3, <1>4, <2>1, <2>2, <2>3
<1>7. CASE DeleteLegacy(c)
  <2>1. me.at = "delete" /\ owed' = owed
    BY <1>7 DEF DeleteLegacy
  <2>2. ASSUME NEW a \in AllNames, legacy'[a] = legacy[a], Safe(a) PROVE Safe(a)'
    BY <1>5, <2>1, <2>2 DEF Safe
  <2>3. CASE legacy' = [legacy EXCEPT ![mine] = None] /\ WriteStep(c, Goto(me, "set"))
    <3>1. cli'[c] = Goto(me, "set")
      BY <2>3, Others DEF KeyTypes
    <3>2. cli'[c].at = "set" /\ cli'[c].i = me.i
      BY <1>3, <3>1 DEF Goto, Invocations
    <3>3. Account(cli'[c]) = mine
      BY <1>0, <3>2 DEF Account
    <3>4. Safe(mine)'
      BY <3>2, <3>3 DEF Safe
    <3>5. \A a \in AllNames \ {mine} : legacy'[a] = legacy[a]
      BY <1>3, <2>3 DEF Entries, AllNames
    <3> QED BY <1>3, <1>4, <2>2, <3>4, <3>5
  <2>4. CASE legacy' = legacy
    BY <1>3, <1>4, <2>2, <2>4
  <2> QED BY <1>0, <1>7, <2>3, <2>4 DEF DeleteLegacy
<1>8. CASE ~SetMigrated(c) /\ ~DeleteLegacy(c)
  <2>1. legacy' = legacy /\ owed' = owed
    BY <1>1, <1>8 DEF Start, Exists, DeleteOld, GetCert, GetKey, SetCert, SetKey, IssueLeaf,
         StoreLeaf, Lookup, ReadLegacy, Connect, Finish, Fails, GenerationFails
  <2>2. me.at # "set" \/ Fails(c)
    BY <1>1, <1>8 DEF Start, Active, Exists, DeleteOld, GetCert, GetKey, SetCert, SetKey, IssueLeaf,
         StoreLeaf, Lookup, ReadLegacy, Connect, Finish, GenerationFails
  <2>3. CASE me.at # "set"
    <3>1. \A a \in AllNames : Safe(a) => Safe(a)'
      BY <1>5, <2>1, <2>3 DEF Safe
    <3> QED BY <1>3, <1>4, <3>1
  <2>4. CASE Fails(c)
    <3>1. faults' = faults + 1
      BY <2>4 DEF Fails, Fault
    <3>2. \A a \in AllNames \ {mine} : Safe(a) => Safe(a)'
      BY <1>0, <1>5, <2>1 DEF Safe
    <3> QED BY <1>3, <3>1, <3>2
  <2> QED BY <2>2, <2>3, <2>4
<1> QED BY <1>6, <1>7, <1>8

(* ca migrate, overlapped by whatever other commands: each failure or kill *)
(* costs at most one legacy credential, and without any nothing is lost.   *)
THEOREM MigrationKeeps == Spec => []LossesAreFailures
<1>1. Init => LossesAreFailures
  <2> SUFFICES ASSUME Init PROVE LossesAreFailures
    OBVIOUS
  <2>1. Lost = {}
    BY DEF Init, Lost
  <2> QED BY <2>1, FS_EmptySet DEF Init, LossesAreFailures
<1>2. ASSUME KeyTypes, KeyTypes', LossesAreFailures, [Next]_vars PROVE LossesAreFailures'
  <2>1. CASE UNCHANGED vars
    BY <1>2, <2>1 DEF LossesAreFailures, Lost, vars
  <2>2. CASE Next
    <3>0. Lost = {a \in AllNames : ~Safe(a)} /\ Lost' = {a \in AllNames : ~Safe(a)'}
      BY <1>2, LostAreNames
    <3>1. Lost = {a \in AllNames : ~Safe(a)} /\ IsFiniteSet(Lost) /\ Cardinality(Lost) \in Nat
      BY <3>0, NamesAreFinite
    <3>2. Lost' = {a \in AllNames : ~Safe(a)'} /\ IsFiniteSet(Lost') /\ Cardinality(Lost') \in Nat
      BY <3>0, NamesAreFinite
    <3>3. faults \in Nat /\ faults' \in Nat /\ Cardinality(Lost) <= faults
      BY <1>2 DEF KeyTypes, StoreTypes, LossesAreFailures
    <3>4. CASE faults' >= faults /\ \A a \in AllNames : Safe(a) => Safe(a)'
      <4>1. Lost' \subseteq Lost
        BY <3>1, <3>2, <3>4
      <4>2. Cardinality(Lost') <= Cardinality(Lost)
        BY <3>1, <4>1, FS_Subset
      <4> QED BY <3>1, <3>2, <3>3, <3>4, <4>2 DEF LossesAreFailures
    <3>5. ASSUME faults' = faults + 1, NEW m \in AllNames,
                 \A a \in AllNames \ {m} : Safe(a) => Safe(a)'
          PROVE  LossesAreFailures'
      <4>1. Lost' \subseteq Lost \cup {m}
        BY <3>1, <3>2, <3>5
      <4>2. /\ IsFiniteSet(Lost \cup {m})
            /\ Cardinality(Lost \cup {m}) = Cardinality(Lost) \/ Cardinality(Lost \cup {m}) = Cardinality(Lost) + 1
        BY <3>1, FS_AddElement
      <4>3. Cardinality(Lost') <= Cardinality(Lost \cup {m})
        BY <4>1, <4>2, FS_Subset
      <4> QED BY <3>1, <3>2, <3>3, <3>5, <4>2, <4>3 DEF LossesAreFailures
    <3> QED BY <1>2, <2>2, <3>4, <3>5, LosesInHand
  <2> QED BY <1>2, <2>1, <2>2
<1> QED BY <1>1, <1>2, KeyTypesInitial, KeyTypesInductive, PTL DEF Spec

-----------------------------------------------------------------------------
(* What holds while invocations do not overlap: of the CA up to the first  *)
(* failure, of the client's identity until then.  SoleInv is inductive     *)
(* together with KeyTypes and AloneInv.                                    *)

(* What ca migrate works on is what the older version left behind.         *)
OldEntries(l) == \A a \in AllNames : l[a] \in {None, Old[a]}

Plain(me) ==
    /\ me.at = "idle" => me = Idle
    /\ me.at \in {"delete", "set"} => me.value = Old[Account(me)] /\ ~me.flag

OldInUse(s) == s.caCert = Old.caCert \/ s.caKey = Old.caKey

(* The CA, up to the first failure: its entries match except while the key *)
(* of a new one is still to be written.  A lone key stays behind only where *)
(* the certificate has just been deleted; that failure is the one allowed. *)
CAHolds(me, s, f) ==
    /\ f <= 1 /\ me.at # "setKey" => Match(s.caCert, s.caKey) \/ OldInUse(s)
    /\ f = 0 /\ me.at # "deleteKey" /\ s.caCert = None => s.caKey \in {None, Old.caKey}
    /\ f = 0 /\ me.at = "setKey" => s.caKey \in {None, Old.caKey}

Whole(e) == (e.clientCert = None <=> e.clientKey = None) /\ Match(e.clientCert, e.clientKey)

(* Both stores hold whole client identities, and a migration that has come *)
(* to the client's key has left no certificate behind.                     *)
BothWhole(me, s, l) ==
    /\ me.at # "setClientKey" /\ (me.at = "set" => me.i < 3)
    /\ Whole(s) /\ Whole(l)
    /\ me.op = "migrate" /\ ~me.flag /\ me.i = 4 /\ me.at # "done" =>
         s.clientCert # None \/ l.clientCert = None

(* A migration holds the client's certificate ...                          *)
CertInHand(me, s, l) ==
    /\ me.at = "set" /\ me.i = 3
    /\ s.clientCert = None /\ s.clientKey = None
    /\ l.clientCert = None /\ l.clientKey = Old.clientKey

(* ... or has stored it and is about to bring the key after it.            *)
CertMoved(me, s, l) ==
    /\ me.op = "migrate" /\ ~me.flag /\ me.i = 4 /\ me.at \in {"lookup", "legacy", "delete", "set"}
    /\ s.clientCert = Old.clientCert /\ s.clientKey = None
    /\ l.clientCert = None
    /\ l.clientKey = IF me.at = "set" THEN None ELSE Old.clientKey

(* The client's identity, as long as nothing has failed.                   *)
ClientHolds(me, s, l) ==
    \/ BothWhole(me, s, l)
    \/ me.at = "setClientKey" /\ Whole(l)
    \/ CertInHand(me, s, l)
    \/ CertMoved(me, s, l)

(* What a command that connects has read so far.                           *)
ConnectHolds(me, s) ==
    me.op = "connect" => /\ me.at = "identityKey" => me.leaf # None /\ me.leaf = s.clientCert
                         /\ me.at \in {"root", "done"} => me.leaf.key = me.key

SoleFits(me, s, l, f) ==
    /\ me.alone
    /\ me.at = "delete" => l[Account(me)] # None
    /\ CAHolds(me, s, f)
    /\ f = 0 => ClientHolds(me, s, l) /\ ConnectHolds(me, s)

(* No invocation but c is under way.                                       *)
Sole(c) == \A d \in Clis : Active(d) => d = c

SoleInv ==
    /\ OldEntries(legacy) /\ \A c \in Clis : Plain(cli[c])
    /\ ~overlapped => /\ \A c \in Clis : Active(c) => Sole(c) /\ SoleFits(cli[c], store, legacy, faults)
                      /\ (\A c \in Clis : ~Active(c)) => SoleFits(Idle, store, legacy, faults)

(* A step that leaves the CA's entries alone. *)
LEMMA CAQuiet ==
  ASSUME NEW me, NEW new, NEW s, NEW s2, NEW f \in Nat, NEW f2 \in Nat, CAHolds(me, s, f),
         s2.caCert = s.caCert, s2.caKey = s.caKey, f2 >= f, new.at # "setKey",
         me.at \in {"setKey", "deleteKey"} => f2 > f
  PROVE  CAHolds(new, s2, f2)
<1>1. ASSUME f2 <= 1 PROVE Match(s.caCert, s.caKey) \/ OldInUse(s)
  <2>1. f <= 1
    BY <1>1
  <2>2. CASE me.at = "setKey"
    <3>1. f = 0
      BY <1>1, <2>2
    <3> QED BY <2>2, <3>1 DEF CAHolds, Match, OldInUse
  <2> QED BY <2>1, <2>2 DEF CAHolds
<1>2. ASSUME f2 = 0, s.caCert = None PROVE s.caKey \in {None, Old.caKey}
  <2>1. f = 0 /\ me.at # "deleteKey"
    BY <1>2
  <2> QED BY <1>2, <2>1 DEF CAHolds
<1> QED BY <1>1, <1>2 DEF CAHolds, OldInUse

(* A step outside of ca migrate that leaves the client's entries alone.    *)
LEMMA ClientQuiet ==
  ASSUME NEW me, NEW new, NEW s, NEW s2, NEW l, ClientHolds(me, s, l),
         s2.clientCert = s.clientCert, s2.clientKey = s.clientKey,
         me.at \notin {"setClientKey", "lookup", "legacy", "delete", "set"},
         new.at \notin {"setClientKey", "set"}, new.op = "migrate" => new.i = 1 \/ new.at = "done"
  PROVE  ClientHolds(new, s2, l)
<1>1. BothWhole(me, s, l)
  BY DEF ClientHolds, CertInHand, CertMoved
<1> QED BY <1>1 DEF ClientHolds, BothWhole, Whole

(* Both, for a step that is none of ca migrate's and writes nothing.       *)
LEMMA SoleQuiet ==
  ASSUME KeyTypes, NEW me, NEW new, NEW f2 \in Nat,
         SoleFits(me, store, legacy, faults), f2 >= faults, f2 > faults \/ f2 = faults,
         new.alone, new.at \notin {"setKey", "setClientKey", "delete", "set"},
         f2 = faults => me.at \notin {"setKey", "deleteKey", "setClientKey", "lookup", "legacy", "delete", "set"},
         new.op = "migrate" => new.i = 1 \/ new.at = "done",
         f2 = 0 => ConnectHolds(new, store)
  PROVE  SoleFits(new, store, legacy, f2)
<1>0. faults \in Nat
  BY DEF KeyTypes, StoreTypes
<1>1. me.at \in {"setKey", "deleteKey"} => f2 > faults
  OBVIOUS
<1>2. CAHolds(new, store, f2)
  BY <1>0, <1>1, CAQuiet DEF SoleFits
<1>3. f2 = 0 => ClientHolds(new, store, legacy)
  <2> SUFFICES ASSUME f2 = 0 PROVE ClientHolds(new, store, legacy)
    OBVIOUS
  <2>1. faults = 0 /\ f2 = faults
    BY <1>0
  <2> QED BY <2>1, ClientQuiet DEF SoleFits
<1> QED BY <1>2, <1>3 DEF SoleFits

(* The end of an invocation. *)
LEMMA SoleEnds ==
  ASSUME KeyTypes, NEW me, NEW f2 \in Nat, SoleFits(me, store, legacy, faults),
         f2 > faults \/ f2 = faults,
         f2 = faults => me.at \notin {"setKey", "deleteKey", "setClientKey", "lookup", "legacy", "delete", "set"}
  PROVE  SoleFits(Idle, store, legacy, f2)
<1>1. Idle.alone /\ Idle.at = "idle" /\ Idle.op = "none"
  BY DEF Idle
<1>2. f2 >= faults
  BY DEF KeyTypes, StoreTypes
<1>3. ConnectHolds(Idle, store)
  BY <1>1 DEF ConnectHolds
<1> HIDE DEF Idle
<1> QED BY <1>1, <1>2, <1>3, SoleQuiet

LEMMA FaultCounts ==
  ASSUME KeyTypes, NoFault \/ Fault
  PROVE  /\ faults \in Nat /\ faults' \in Nat /\ faults' >= faults
         /\ NoFault => faults' = faults
         /\ Fault => faults' > faults
BY DEF KeyTypes, StoreTypes, NoFault, Fault

(* What a step of c keeps: what is migrated is what the older version left *)
(* behind, and what c may rely on while it is the only one.                *)
SoleKept(c) ==
    /\ Plain(cli'[c]) /\ OldEntries(legacy')
    /\ SoleFits(cli[c], store, legacy, faults) => SoleFits(cli'[c], store', legacy', faults')

LEMMA StartKeeps ==
  ASSUME KeyTypes, NEW c \in Clis, Plain(cli[c]), OldEntries(legacy), Start(c)
  PROVE  SoleKept(c)
<1>1. PICK op \in {"init", "client", "daemon", "migrate", "connect"}, flag \in BOOLEAN,
           at \in {"lookup", "identity", "deleteCert", "getCert", "exists"} :
        Step(c, [Idle EXCEPT !.op = op, !.flag = flag, !.at = at])
  BY StartIs
<1> DEFINE new == [Idle EXCEPT !.op = op, !.flag = flag, !.at = at]
<1>2. cli'[c] = new
  BY <1>1, Others DEF KeyTypes
<1>3. new.op = op /\ new.at = at /\ new.i = 1 /\ new.alone
  BY DEF Idle
<1>4. /\ store' = store /\ legacy' = legacy /\ faults' = faults /\ faults \in Nat /\ cli[c].at = "idle"
  BY DEF Start, Active, KeyTypes, StoreTypes
<1> HIDE DEF new
<1>5. ConnectHolds(new, store)
  BY <1>3 DEF ConnectHolds
<1>6. Plain(new)
  BY <1>3 DEF Plain
<1>7. ASSUME SoleFits(cli[c], store, legacy, faults) PROVE SoleFits(new, store, legacy, faults)
  BY <1>3, <1>4, <1>5, <1>7, SoleQuiet
<1> QED BY <1>2, <1>4, <1>6, <1>7 DEF SoleKept

(* A step that writes nothing, none of ca migrate's.                       *)
LEMMA QuietKeeps ==
  ASSUME KeyTypes, NEW c \in Clis, OldEntries(legacy), NEW new, Step(c, new),
         NoFault \/ Fault, store' = store, legacy' = legacy,
         new.alone = cli[c].alone, new.at \notin {"idle", "setKey", "setClientKey", "delete", "set"},
         NoFault => cli[c].at \notin {"setKey", "deleteKey", "setClientKey", "lookup", "legacy", "delete", "set"},
         new.op # "migrate",
         SoleFits(cli[c], store, legacy, faults) /\ faults' = 0 => ConnectHolds(new, store)
  PROVE  SoleKept(c)
<1>1. cli'[c] = new
  BY Others DEF KeyTypes
<1>2. Plain(new)
  BY DEF Plain
<1>3. ASSUME SoleFits(cli[c], store, legacy, faults) PROVE SoleFits(new, store, legacy, faults')
  <2>1. /\ faults' \in Nat /\ faults' >= faults /\ (faults' > faults \/ faults' = faults)
        /\ faults' = faults => ~Fault
    BY FaultCounts DEF Fault
  <2>2. new.alone
    BY <1>3 DEF SoleFits
  <2> QED BY <1>3, <2>1, <2>2, SoleQuiet
<1> QED BY <1>1, <1>2, <1>3 DEF SoleKept

LEMMA EndKeeps ==
  ASSUME KeyTypes, NEW c \in Clis, OldEntries(legacy), Step(c, Idle),
         NoFault \/ Fault, store' = store, legacy' = legacy,
         NoFault => cli[c].at \notin {"setKey", "deleteKey", "setClientKey", "lookup", "legacy", "delete", "set"}
  PROVE  SoleKept(c)
<1>1. cli'[c] = Idle
  BY Others DEF KeyTypes
<1>2. Plain(Idle)
  BY DEF Plain, Idle
<1>3. ASSUME SoleFits(cli[c], store, legacy, faults) PROVE SoleFits(Idle, store, legacy, faults')
  <2>1. /\ faults' \in Nat /\ (faults' > faults \/ faults' = faults)
        /\ faults' = faults => ~Fault
    BY FaultCounts DEF Fault
  <2> QED BY <1>3, <2>1, SoleEnds
<1> QED BY <1>1, <1>2, <1>3 DEF SoleKept

(* ca init and the look at what there is. *)
LEMMA InitKeeps ==
  ASSUME KeyTypes, AloneInv, NEW c \in Clis, OldEntries(legacy), Exists(c) \/ DeleteOld(c)
  PROVE  SoleKept(c)
<1> DEFINE me == cli[c]
<1>0. me \in Invocations /\ store \in Entries /\ OpFits(me) /\ me.op \in {"init", "client"}
  BY DEF KeyTypes, StoreTypes, AloneInv, Fits, OpFits, Exists, DeleteOld
<1>1. \A at : Goto(me, at).at = at /\ Goto(me, at).op = me.op /\ Goto(me, at).alone = me.alone
  BY <1>0 DEF Goto, Invocations
<1>2. \A at : ConnectHolds(Goto(me, at), store)
  BY <1>0, <1>1 DEF ConnectHolds
<1>3. CASE Exists(c)
  <2>1. /\ store' = store /\ legacy' = legacy /\ (NoFault \/ Fault) /\ me.at = "exists"
        /\ Step(c, Idle) \/ Step(c, Goto(me, "getCert"))
    BY <1>3 DEF Exists
  <2>2. CASE Step(c, Idle)
    BY <2>1, <2>2, EndKeeps
  <2>3. CASE Step(c, Goto(me, "getCert"))
    BY <1>0, <1>1, <1>2, <2>1, <2>3, QuietKeeps
  <2> QED BY <2>1, <2>2, <2>3
<1>4. CASE DeleteOld(c) /\ store' = store /\ Fault
  <2>1. PICK at \in {"deleteKey", "getCert"} : Step(c, Goto(me, at)) \/ WriteStep(c, Goto(me, at))
    BY <1>4 DEF DeleteOld
  <2> DEFINE new == Goto(me, at)
  <2>2. cli'[c] = new /\ legacy' = legacy
    BY <1>4, <2>1, Others DEF DeleteOld, KeyTypes
  <2>3. Plain(new)
    BY <1>1 DEF Plain
  <2>4. ASSUME SoleFits(me, store, legacy, faults) PROVE SoleFits(new, store, legacy, faults')
    <3>1. faults' \in Nat /\ faults' > faults /\ faults' >= faults /\ faults' # faults
      BY <1>4, FaultCounts
    <3> QED BY <1>0, <1>1, <1>2, <2>4, <3>1, SoleQuiet DEF SoleFits
  <2> QED BY <1>4, <2>2, <2>3, <2>4 DEF SoleKept
<1>5. CASE DeleteOld(c) /\ ~(store' = store /\ Fault)
  <2> DEFINE at  == IF me.at = "deleteCert" THEN "deleteKey" ELSE "getCert"
             new == Goto(me, at)
  <2>1. /\ WriteStep(c, new) /\ NoFault /\ legacy' = legacy /\ me.at \in {"deleteCert", "deleteKey"}
        /\ store' = [store EXCEPT ![IF me.at = "deleteCert" THEN "caCert" ELSE "caKey"] = None]
    BY <1>5 DEF DeleteOld, Set
  <2>2. cli'[c] = new /\ faults' = faults /\ faults \in Nat
    BY <2>1, Others, FaultCounts DEF KeyTypes
  <2>3. new.at = at /\ new.op = me.op /\ new.alone = me.alone /\ ConnectHolds(new, store')
    BY <1>0, <1>1 DEF ConnectHolds
  <2>4. /\ me.at = "deleteCert" => store'.caCert = None
        /\ me.at = "deleteKey" => store'.caKey = None
        /\ store'.clientCert = store.clientCert /\ store'.clientKey = store.clientKey
    BY <1>0, <2>1 DEF Entries
  <2>5. at \in {"deleteKey", "getCert"} /\ (me.at = "deleteCert" => at = "deleteKey")
    OBVIOUS
  <2> HIDE DEF new, at
  <2>6. Plain(new)
    BY <2>3, <2>5 DEF Plain
  <2>7. ASSUME SoleFits(me, store, legacy, faults) PROVE SoleFits(new, store', legacy, faults)
    <3>1. CAHolds(new, store', faults)
      BY <2>1, <2>3, <2>4, <2>5 DEF CAHolds, Match
    <3>2. faults = 0 => ClientHolds(new, store', legacy)
      BY <1>0, <2>1, <2>3, <2>4, <2>5, <2>7, ClientQuiet DEF SoleFits
    <3> QED BY <2>3, <2>5, <2>7, <3>1, <3>2 DEF SoleFits
  <2> QED BY <2>1, <2>2, <2>6, <2>7 DEF SoleKept
<1> QED BY <1>3, <1>4, <1>5

LEMMA HaveCAIs == ASSUME NEW me \in Invocations
  PROVE  HaveCA(me).at \in {"done", "getCert", "leaf"} /\ HaveCA(me).op = me.op /\ HaveCA(me).alone = me.alone
BY DEF HaveCA, Goto, Invocations

(* ensure_ca: the certificate of a new CA goes where no key is, or where   *)
(* no certificate and the old key is.                                      *)
LEMMA EnsureKeeps ==
  ASSUME KeyTypes, AloneInv, NEW c \in Clis, OldEntries(legacy),
         GetCert(c) \/ GetKey(c) \/ SetCert(c) \/ SetKey(c)
  PROVE  SoleKept(c)
<1> DEFINE me == cli[c]
<1>0. /\ me \in Invocations /\ MeOK(me) /\ store \in Entries /\ me.op \in {"init", "client", "daemon"}
      /\ NoFault /\ legacy' = legacy /\ faults' = faults /\ faults \in Nat
      /\ me.alone => CAFits(me, store)
  BY DEF KeyTypes, StoreTypes, AloneInv, Fits, OpFits, GetCert, GetKey, SetCert, SetKey, NoFault
<1>1. ASSUME NEW new, new.op = me.op PROVE ConnectHolds(new, store) /\ ConnectHolds(new, store')
  BY <1>0, <1>1 DEF ConnectHolds
<1>2. CASE GetCert(c)
  <2> DEFINE new == [me EXCEPT !.cert = store.caCert, !.at = "getKey"]
  <2>1. Step(c, new) /\ store' = store /\ me.at = "getCert"
    BY <1>2 DEF GetCert, Get
  <2>2. new.at = "getKey" /\ new.op = me.op /\ new.alone = me.alone
    BY <1>0 DEF Invocations
  <2> HIDE DEF new
  <2> QED BY <1>0, <1>1, <2>1, <2>2, QuietKeeps
<1>3. CASE GetKey(c)
  <2>1. PICK new : /\ Step(c, new) /\ store' = store /\ me.at = "getKey"
                   /\ new.at \in {"done", "getCert", "leaf", "setCert"} /\ new.op = me.op /\ new.alone = me.alone
    <3>1. CASE Complete(me.cert, store.caKey)
      <4> DEFINE has == [me EXCEPT !.key = store.caKey]
      <4>1. has \in Invocations /\ has.op = me.op /\ has.alone = me.alone
        BY <1>0 DEF Invocations, Entries
      <4>2. Step(c, HaveCA(has)) /\ store' = store /\ me.at = "getKey"
        BY <1>3, <3>1 DEF GetKey, Get
      <4> HIDE DEF has
      <4> QED BY <4>1, <4>2, HaveCAIs
    <3>2. CASE ~Complete(me.cert, store.caKey)
      <4> DEFINE new == [me EXCEPT !.cert = [key |-> keys', by |-> keys'], !.key = keys', !.at = "setCert"]
      <4>1. Step(c, new) /\ store' = store /\ me.at = "getKey"
        BY <1>3, <3>2 DEF GetKey, Get
      <4>2. new.at = "setCert" /\ new.op = me.op /\ new.alone = me.alone
        BY <1>0 DEF Invocations
      <4> HIDE DEF new
      <4> QED BY <4>1, <4>2
    <3> QED BY <3>1, <3>2
  <2> QED BY <1>0, <1>1, <2>1, QuietKeeps
<1>4. CASE SetCert(c)
  <2> DEFINE new == Goto(me, "setKey")
  <2>1. WriteStep(c, new) /\ store' = [store EXCEPT !.caCert = me.cert] /\ me.at = "setCert"
    BY <1>4 DEF SetCert, Set
  <2>2. cli'[c] = new /\ new.at = "setKey" /\ new.op = me.op /\ new.alone = me.alone
    BY <1>0, <2>1, Others DEF KeyTypes, Goto, Invocations
  <2>3. /\ store'.caCert = me.cert /\ me.cert # None /\ store'.caKey = store.caKey
        /\ store'.clientCert = store.clientCert /\ store'.clientKey = store.clientKey
    BY <1>0, <2>1, NoneAssumption DEF Entries, MeOK
  <2> HIDE DEF new
  <2>4. Plain(new)
    BY <2>2 DEF Plain
  <2>5. ASSUME SoleFits(me, store, legacy, faults) PROVE SoleFits(new, store', legacy, faults)
    <3>1. ~Complete(store.caCert, store.caKey)
      BY <1>0, <2>1, <2>5 DEF SoleFits, CAFits
    <3>2. faults = 0 => store.caKey \in {None, Old.caKey}
      BY <2>1, <2>5, <3>1 DEF SoleFits, CAHolds, Complete
    <3>3. CAHolds(new, store', faults)
      BY <2>2, <2>3, <3>2 DEF CAHolds
    <3>4. ASSUME faults = 0 PROVE ClientHolds(new, store', legacy)
      <4>1. new.op # "migrate" /\ new.at \notin {"setClientKey", "set"}
        BY <1>0, <2>2
      <4>2. ClientHolds(me, store, legacy)
        BY <2>5, <3>4 DEF SoleFits
      <4>3. me.at \notin {"setClientKey", "lookup", "legacy", "delete", "set"}
        BY <2>1
      <4> HIDE DEF me
      <4> QED BY <2>3, <4>1, <4>2, <4>3, ClientQuiet
    <3> QED BY <1>1, <2>2, <2>5, <3>3, <3>4 DEF SoleFits
  <2> QED BY <1>0, <2>2, <2>4, <2>5 DEF SoleKept
<1>5. CASE SetKey(c)
  <2> DEFINE new == HaveCA(me)
  <2>1. WriteStep(c, new) /\ store' = [store EXCEPT !.caKey = me.key] /\ me.at = "setKey"
    BY <1>5 DEF SetKey, Set
  <2>2. cli'[c] = new /\ new.at \in {"done", "getCert", "leaf"} /\ new.op = me.op /\ new.alone = me.alone
    BY <1>0, <2>1, Others, HaveCAIs DEF KeyTypes
  <2>3. /\ store'.caCert = store.caCert /\ store'.caKey = me.key
        /\ store'.clientCert = store.clientCert /\ store'.clientKey = store.clientKey
        /\ me.cert # None /\ me.key # None
    BY <1>0, <2>1, NoneAssumption DEF Entries, MeOK
  <2> HIDE DEF new
  <2>4. Plain(new)
    BY <2>2 DEF Plain
  <2>5. ASSUME SoleFits(me, store, legacy, faults) PROVE SoleFits(new, store', legacy, faults)
    <3>1. store'.caCert = me.cert /\ me.cert.key = me.key
      BY <1>0, <2>1, <2>3, <2>5 DEF SoleFits, CAFits
    <3>2. CAHolds(new, store', faults)
      BY <2>2, <2>3, <3>1 DEF CAHolds, Match
    <3>3. ASSUME faults = 0 PROVE ClientHolds(new, store', legacy)
      <4>1. new.op # "migrate" /\ new.at \notin {"setClientKey", "set"}
        BY <1>0, <2>2
      <4>2. ClientHolds(me, store, legacy)
        BY <2>5, <3>3 DEF SoleFits
      <4>3. me.at \notin {"setClientKey", "lookup", "legacy", "delete", "set"}
        BY <2>1
      <4> HIDE DEF me
      <4> QED BY <2>3, <4>1, <4>2, <4>3, ClientQuiet
    <3> QED BY <1>1, <2>2, <2>5, <3>2, <3>3 DEF SoleFits
  <2> QED BY <1>0, <2>2, <2>4, <2>5 DEF SoleKept
<1> QED BY <1>2, <1>3, <1>4, <1>5

(* cert issue. *)
LEMMA LeafKeeps ==
  ASSUME KeyTypes, AloneInv, NEW c \in Clis, OldEntries(legacy), IssueLeaf(c) \/ StoreLeaf(c)
  PROVE  SoleKept(c)
<1> DEFINE me == cli[c]
<1>0. /\ me \in Invocations /\ MeOK(me) /\ store \in Entries /\ me.op \in {"client", "daemon"}
      /\ NoFault /\ legacy' = legacy /\ faults' = faults /\ faults \in Nat
      /\ me.alone => LeafFits(me, store, faults)
  BY DEF KeyTypes, StoreTypes, AloneInv, Fits, OpFits, IssueLeaf, StoreLeaf, NoFault
<1>1. ASSUME NEW new, new.op = me.op PROVE ConnectHolds(new, store) /\ ConnectHolds(new, store')
  BY <1>0, <1>1 DEF ConnectHolds
<1>2. CASE IssueLeaf(c)
  <2> DEFINE leaf == Signed(me, keys')
             at   == IF me.op = "client" THEN "setClientCert" ELSE "done"
             new  == [me EXCEPT !.leaf = leaf, !.at = at]
  <2>1. Step(c, new) /\ store' = store /\ me.at = "leaf"
    BY <1>2 DEF IssueLeaf
  <2>2. new.at = at /\ at \in {"setClientCert", "done"} /\ new.op = me.op /\ new.alone = me.alone
    BY <1>0 DEF Invocations
  <2> HIDE DEF new
  <2> QED BY <1>0, <1>1, <2>1, <2>2, QuietKeeps
<1>3. CASE StoreLeaf(c) /\ me.at = "setClientCert"
  <2> DEFINE new == Goto(me, "setClientKey")
  <2>1. WriteStep(c, new) /\ store' = [store EXCEPT !.clientCert = me.leaf]
    BY <1>3 DEF StoreLeaf, Set
  <2>2. cli'[c] = new /\ new.at = "setClientKey" /\ new.op = me.op /\ new.alone = me.alone
    BY <1>0, <2>1, Others DEF KeyTypes, Goto, Invocations
  <2>3. store'.caCert = store.caCert /\ store'.caKey = store.caKey
    BY <1>0, <2>1 DEF Entries
  <2> HIDE DEF new
  <2>4. Plain(new)
    BY <2>2 DEF Plain
  <2>5. ASSUME SoleFits(me, store, legacy, faults) PROVE SoleFits(new, store', legacy, faults)
    <3>1. CAHolds(new, store', faults)
      <4>1. CAHolds(me, store, faults) /\ faults >= faults
        BY <1>0, <2>5 DEF SoleFits
      <4> QED BY <1>0, <1>3, <2>2, <2>3, <4>1, CAQuiet
    <3>2. faults = 0 => Whole(legacy)
      BY <1>3, <2>5 DEF SoleFits, ClientHolds, BothWhole, CertInHand, CertMoved
    <3> QED BY <1>1, <2>2, <2>5, <3>1, <3>2 DEF SoleFits, ClientHolds
  <2> QED BY <1>0, <2>2, <2>4, <2>5 DEF SoleKept
<1>4. CASE StoreLeaf(c) /\ me.at = "setClientKey"
  <2> DEFINE new == Goto(me, "done")
  <2>1. WriteStep(c, new) /\ store' = [store EXCEPT !.clientKey = me.leaf.key]
    BY <1>4 DEF StoreLeaf, Set
  <2>2. cli'[c] = new /\ new.at = "done" /\ new.op = me.op /\ new.alone = me.alone
    BY <1>0, <2>1, Others DEF KeyTypes, Goto, Invocations
  <2>3. /\ store'.caCert = store.caCert /\ store'.caKey = store.caKey
        /\ store'.clientCert = store.clientCert /\ store'.clientKey = me.leaf.key
    BY <1>0, <2>1 DEF Entries
  <2>4. me.op = "client" /\ me.leaf # None /\ me.leaf.key # None
    BY <1>0, <1>4, NoneAssumption DEF AloneInv, Fits, OpFits, MeOK, Certs
  <2> HIDE DEF new
  <2>5. Plain(new)
    BY <2>2 DEF Plain
  <2>6. ASSUME SoleFits(me, store, legacy, faults) PROVE SoleFits(new, store', legacy, faults)
    <3>1. CAHolds(new, store', faults)
      <4>1. CAHolds(me, store, faults) /\ faults >= faults
        BY <1>0, <2>6 DEF SoleFits
      <4> QED BY <1>0, <1>4, <2>2, <2>3, <4>1, CAQuiet
    <3>2. faults = 0 => Whole(legacy)
      BY <1>4, <2>6 DEF SoleFits, ClientHolds, BothWhole, CertInHand, CertMoved
    <3>3. store'.clientCert = me.leaf
      BY <1>0, <1>4, <2>3, <2>4, <2>6 DEF SoleFits, LeafFits
    <3>4. Whole(store')
      BY <2>3, <2>4, <3>3 DEF Whole, Match
    <3> QED BY <1>1, <2>2, <2>4, <2>6, <3>1, <3>2, <3>4 DEF SoleFits, ClientHolds, BothWhole
  <2> QED BY <1>0, <2>2, <2>5, <2>6 DEF SoleKept
<1> QED BY <1>2, <1>3, <1>4 DEF StoreLeaf

(* build_client, and the ways an invocation ends. *)
LEMMA OtherKeeps ==
  ASSUME KeyTypes, AloneInv, NEW c \in Clis, OldEntries(legacy),
         Connect(c) \/ Finish(c) \/ Fails(c) \/ GenerationFails(c)
  PROVE  SoleKept(c)
<1> DEFINE me == cli[c]
<1>0. me \in Invocations /\ OpFits(me) /\ store \in Entries /\ store' = store /\ legacy' = legacy
  BY DEF KeyTypes, StoreTypes, AloneInv, Fits, Connect, Finish, Fails, GenerationFails
<1>1. CASE Step(c, Idle)
  <2>1. NoFault \/ Fault
    BY DEF Connect, Finish, Fails, GenerationFails
  <2>2. NoFault => me.at \notin {"setKey", "deleteKey", "setClientKey", "lookup", "legacy", "delete", "set"}
    <3>1. ~(NoFault /\ Fault)
      BY FaultCounts DEF Fault, NoFault, KeyTypes, StoreTypes
    <3> QED BY <3>1 DEF Connect, Finish, Fails, GenerationFails
  <2> QED BY <1>0, <1>1, <2>1, <2>2, EndKeeps
<1>2. CASE Connect(c) /\ ~Step(c, Idle)
  <2>0. /\ NoFault /\ me.op = "connect" /\ me.at \in {"identity", "identityKey", "root"}
        /\ faults \in Nat /\ faults' = faults
    BY <1>0, <1>2, FaultCounts DEF Connect, OpFits
  <2>1. CASE me.at = "identity"
    <3> DEFINE new == [me EXCEPT !.leaf = store.clientCert, !.at = "identityKey"]
    <3>1. Step(c, new) /\ store.clientCert # None
      BY <1>2, <2>1 DEF Connect, Get
    <3>2. new.op = "connect" /\ new.at = "identityKey" /\ new.alone = me.alone /\ new.leaf = store.clientCert
      BY <1>0, <2>0 DEF Invocations
    <3> HIDE DEF new
    <3>3. ConnectHolds(new, store)
      BY <3>1, <3>2 DEF ConnectHolds
    <3> QED BY <1>0, <2>0, <2>1, <3>1, <3>2, <3>3, QuietKeeps
  <2>2. CASE me.at = "identityKey"
    <3> DEFINE new == [me EXCEPT !.key = store.clientKey, !.at = "root"]
    <3>1. Step(c, new) /\ store.clientKey # None
      BY <1>2, <2>2 DEF Connect, Get
    <3>2. /\ new.op = "connect" /\ new.at = "root" /\ new.alone = me.alone /\ new.key = store.clientKey
          /\ new.leaf = me.leaf
      BY <1>0, <2>0 DEF Invocations
    <3> HIDE DEF new
    <3>3. ASSUME SoleFits(me, store, legacy, faults), faults' = 0 PROVE ConnectHolds(new, store)
      <4>1. /\ me.leaf # None /\ me.leaf = store.clientCert
            /\ ClientHolds(me, store, legacy)
        BY <2>0, <2>2, <3>3 DEF SoleFits, ConnectHolds
      <4>2. Match(store.clientCert, store.clientKey)
        BY <2>0, <2>2, <4>1 DEF ClientHolds, BothWhole, CertInHand, CertMoved, Whole
      <4> QED BY <3>1, <3>2, <4>1, <4>2 DEF ConnectHolds, Match
    <3> QED BY <1>0, <2>0, <2>2, <3>1, <3>2, <3>3, QuietKeeps
  <2>3. CASE me.at = "root"
    <3> DEFINE new == [me EXCEPT !.ca = store.caCert, !.at = "done"]
    <3>1. Step(c, new)
      BY <1>2, <2>3 DEF Connect, Get
    <3>2. /\ new.op = "connect" /\ new.at = "done" /\ new.alone = me.alone /\ new.key = me.key
          /\ new.leaf = me.leaf
      BY <1>0, <2>0 DEF Invocations
    <3> HIDE DEF new
    <3>3. ASSUME SoleFits(me, store, legacy, faults), faults' = 0 PROVE ConnectHolds(new, store)
      BY <2>0, <2>3, <3>2, <3>3 DEF SoleFits, ConnectHolds
    <3> QED BY <1>0, <2>0, <2>3, <3>1, <3>2, <3>3, QuietKeeps
  <2> QED BY <2>0, <2>1, <2>2, <2>3
<1> QED BY <1>1, <1>2 DEF Finish, Fails, GenerationFails

(* A step of ca migrate that leaves the keyring alone: what is to show of  *)
(* the client's entries is to show only if nothing has failed.             *)
LEMMA MigrateQuiet ==
  ASSUME KeyTypes, NEW c \in Clis, OldEntries(legacy'), NEW new, Step(c, new) \/ WriteStep(c, new),
         NoFault \/ Fault, store' = store, Plain(new),
         cli[c].op = "migrate", cli[c].at \in {"lookup", "legacy", "delete", "set"},
         new.alone = cli[c].alone, new.op = "migrate", new.at # "setKey",
         SoleFits(cli[c], store, legacy, faults) => (new.at = "delete" => legacy'[Account(new)] # None),
         SoleFits(cli[c], store, legacy, faults) /\ NoFault /\ faults = 0 => ClientHolds(new, store, legacy')
  PROVE  SoleKept(c)
<1>1. cli'[c] = new
  BY Others DEF KeyTypes
<1>2. ASSUME SoleFits(cli[c], store, legacy, faults) PROVE SoleFits(new, store, legacy', faults')
  <2>1. /\ faults \in Nat /\ faults' \in Nat /\ faults' >= faults
        /\ faults' = 0 => NoFault /\ faults = 0
    BY FaultCounts
  <2>2. CAHolds(new, store, faults')
    <3>1. CAHolds(cli[c], store, faults)
      BY <1>2 DEF SoleFits
    <3> QED BY <2>1, <3>1, CAQuiet
  <2>3. ConnectHolds(new, store)
    BY DEF ConnectHolds
  <2> QED BY <1>2, <2>1, <2>2, <2>3 DEF SoleFits
<1> QED BY <1>1, <1>2 DEF SoleKept

(* The next account is taken up, or there is none.                         *)
LEMMA NextPlain ==
  ASSUME NEW me, MeOK(me), NEW good \in BOOLEAN
  PROVE  Plain(NextAccount(me, good)) /\ NextAccount(me, good).at \in {"lookup", "done"}
<1> DEFINE new == NextAccount(me, good)
<1>1. new.at \in {"lookup", "done"}
  BY NextAccountOK
<1> HIDE DEF new
<1>2. Plain(new)
  BY <1>1 DEF Plain
<1> QED BY <1>1, <1>2 DEF new

(* An account that is not moved: the client's entries were whole, or the   *)
(* key that belongs to the certificate would have been moved.              *)
LEMMA SkippedHolds ==
  ASSUME NEW me, MeOK(me), NEW s \in Entries, NEW l, OldEntries(l), NEW good \in BOOLEAN, ClientHolds(me, s, l),
         me.op = "migrate", me.at = "legacy", me.current = s[Account(me)],
         ~MovesValue(me, l[Account(me)])
  PROVE  ClientHolds(NextAccount(me, good), s, l)
<1> DEFINE new == NextAccount(me, good)
<1>0. me.i \in 1 .. 4
  BY DEF MeOK, Invocations
<1>1. /\ new.op = "migrate" /\ new.flag = me.flag /\ new.at \in {"lookup", "done"}
      /\ \/ me.i < 4 /\ new.i = me.i + 1 /\ new.at = "lookup"
         \/ me.i = 4 /\ new.i = 4 /\ new.at = "done"
  BY NextAccountIs
<1> SUFFICES ClientHolds(new, s, l)
  OBVIOUS
<1> HIDE DEF new
<1>2. CASE BothWhole(me, s, l)
  <2>1. CASE me.i = 3
    <3>1. Account(me) = "clientCert"
      BY <2>1, AccountIs
    <3>2. s.clientCert # None \/ l.clientCert = None \/ me.flag
      BY <3>1 DEF MovesValue
    <3> QED BY <1>1, <1>2, <2>1, <3>2 DEF ClientHolds, BothWhole
  <2>2. CASE me.i # 3
    <3>1. new.i = 4 => new.at = "done"
      BY <1>0, <1>1, <2>2
    <3> QED BY <1>1, <1>2, <3>1 DEF ClientHolds, BothWhole
  <2> QED BY <2>1, <2>2
<1>3. CASE CertMoved(me, s, l)
  <2>1. Account(me) = "clientKey"
    BY <1>3, AccountIs DEF CertMoved
  <2>2. me.current = None /\ l[Account(me)] = Old.clientKey /\ ~me.flag
    BY <1>3, <2>1 DEF CertMoved
  <2>3. Old.clientKey # None
    BY KeysAssumption, NoneAssumption DEF Old, Keys
  <2> QED BY <2>2, <2>3 DEF MovesValue
<1>4. ~CertInHand(me, s, l)
  BY DEF CertInHand
<1> QED BY <1>2, <1>3, <1>4 DEF ClientHolds

(* The look at the keyring and at the old store. *)
LEMMA LookKeeps ==
  ASSUME KeyTypes, AloneInv, NEW c \in Clis, OldEntries(legacy), Lookup(c) \/ ReadLegacy(c)
  PROVE  SoleKept(c)
<1> DEFINE me == cli[c]
           a  == Account(me)
<1>0. /\ me \in Invocations /\ MeOK(me) /\ me.op = "migrate" /\ me.i \in 1 .. 4 /\ a \in AllNames
      /\ me.at \in {"lookup", "legacy"} /\ store \in Entries /\ (me.alone => MigrateFits(me, store))
  BY AccountOK DEF KeyTypes, StoreTypes, AloneInv, Fits, OpFits, Invocations, Lookup, ReadLegacy
<1>1. /\ store' = store /\ legacy' = legacy /\ (NoFault \/ Fault) /\ OldEntries(legacy')
      /\ ~(NoFault /\ Fault)
  <2>1. ~(NoFault /\ Fault)
    BY DEF Fault, NoFault, KeyTypes, StoreTypes
  <2> QED BY <2>1 DEF Lookup, ReadLegacy
<1>2. \A good \in BOOLEAN :
        LET new == NextAccount(me, good) IN
          /\ Plain(new) /\ new.at \in {"lookup", "done"}
          /\ new.op = "migrate" /\ new.alone = me.alone
  BY <1>0, NextPlain, NextAccountIs
<1>3. ASSUME Step(c, NextAccount(me, FALSE)), Fault PROVE SoleKept(c)
  <2> DEFINE new == NextAccount(me, FALSE)
  <2>1. Plain(new) /\ new.at \in {"lookup", "done"} /\ new.op = "migrate" /\ new.alone = me.alone
    BY <1>2
  <2> HIDE DEF new
  <2> QED BY <1>0, <1>1, <1>3, <2>1, MigrateQuiet DEF new
<1>4. CASE Lookup(c) /\ NoFault
  <2> DEFINE new == [me EXCEPT !.current = store[a], !.at = "legacy"]
  <2>1. Step(c, new) /\ me.at = "lookup"
    BY <1>1, <1>4 DEF Lookup, Get
  <2>2. new.at = "legacy" /\ new.op = "migrate" /\ new.i = me.i /\ new.alone = me.alone /\ new.flag = me.flag
    BY <1>0 DEF Invocations
  <2> HIDE DEF new
  <2>3. Plain(new)
    BY <2>2 DEF Plain
  <2>4. ClientHolds(me, store, legacy) => ClientHolds(new, store, legacy)
    BY <1>0, <2>1, <2>2 DEF ClientHolds, BothWhole, CertInHand, CertMoved
  <2> QED BY <1>0, <1>1, <2>1, <2>2, <2>3, <2>4, MigrateQuiet DEF SoleFits
<1>5. CASE ReadLegacy(c)
  <2> DEFINE good(v) == IF me.current = None THEN v # None ELSE v \in {None, me.current}
             Moved(v) == [me EXCEPT !.value = v, !.at = "delete"]
             Decide(v) == IF MovesValue(me, v) THEN Moved(v) ELSE NextAccount(me, good(v))
  <2>1. /\ me.at = "legacy"
        /\ \/ Step(c, NextAccount(me, FALSE)) /\ Fault
           \/ Step(c, Decide(None)) /\ Fault
           \/ Step(c, Decide(legacy[a]))
    BY <1>5 DEF ReadLegacy, LegacyValue
  <2>2. ASSUME NEW v PROVE good(v) \in BOOLEAN
    <3>1. CASE me.current = None
      BY <3>1, Zenon
    <3>2. CASE me.current # None
      <4>1. (v \in {None, me.current}) \in BOOLEAN
        OBVIOUS
      <4> QED BY <3>2, <4>1, Zenon
    <3> QED BY <3>1, <3>2
  <2>3. CASE Step(c, Decide(None)) /\ Fault
    <3> DEFINE new == NextAccount(me, good(None))
    <3>1. Step(c, new)
      BY <2>3 DEF MovesValue
    <3>2. Plain(new) /\ new.at \in {"lookup", "done"} /\ new.op = "migrate" /\ new.alone = me.alone
      <4>1. good(None) \in BOOLEAN
        BY <2>2
      <4> HIDE DEF good
      <4> QED BY <1>2, <4>1
    <3> HIDE DEF new
    <3> QED BY <1>0, <1>1, <2>3, <3>1, <3>2, MigrateQuiet
  <2>4. CASE Step(c, Decide(legacy[a])) /\ ~MovesValue(me, legacy[a])
    <3> DEFINE g   == good(legacy[a])
               new == NextAccount(me, g)
    <3>1. Step(c, new) /\ g \in BOOLEAN
      BY <2>2, <2>4
    <3> HIDE DEF good, g
    <3>2. Plain(new) /\ new.at \in {"lookup", "done"} /\ new.op = "migrate" /\ new.alone = me.alone
      BY <1>2, <3>1
    <3>3. SoleFits(me, store, legacy, faults) /\ faults = 0 => ClientHolds(new, store, legacy)
      <4>1. SoleFits(me, store, legacy, faults) => me.current = store[a]
        BY <1>0, <2>1 DEF SoleFits, MigrateFits
      <4> QED BY <1>0, <2>1, <2>4, <3>1, <4>1, SkippedHolds DEF SoleFits
    <3> HIDE DEF new
    <3> QED BY <1>0, <1>1, <3>1, <3>2, <3>3, MigrateQuiet
  <2>5. CASE Step(c, Decide(legacy[a])) /\ MovesValue(me, legacy[a])
    <3> DEFINE new == Moved(legacy[a])
    <3>1. Step(c, new) /\ legacy[a] # None /\ ~me.flag
      BY <2>5 DEF MovesValue
    <3>2. /\ new.at = "delete" /\ new.op = "migrate" /\ new.i = me.i /\ new.alone = me.alone
          /\ new.flag = me.flag /\ new.value = legacy[a]
      BY <1>0 DEF Invocations
    <3>3. Account(new) = a
      BY <3>2 DEF Account
    <3> HIDE DEF new
    <3>4. Plain(new)
      BY <1>0, <3>1, <3>2, <3>3 DEF Plain, OldEntries
    <3>5. ClientHolds(me, store, legacy) => ClientHolds(new, store, legacy)
      BY <1>0, <2>1, <3>2 DEF ClientHolds, BothWhole, CertInHand, CertMoved
    <3> QED BY <1>0, <1>1, <3>1, <3>2, <3>3, <3>4, <3>5, MigrateQuiet DEF SoleFits
  <2> QED BY <1>3, <2>1, <2>3, <2>4, <2>5
<1>6. CASE Lookup(c) /\ ~NoFault
  BY <1>3, <1>6 DEF Lookup
<1> QED BY <1>4, <1>5, <1>6

(* The old entry is deleted: the client's certificate goes first, its key  *)
(* is still there.                                                         *)
LEMMA DeleteKeeps ==
  ASSUME KeyTypes, AloneInv, NEW c \in Clis, OldEntries(legacy), Plain(cli[c]), DeleteLegacy(c)
  PROVE  SoleKept(c)
<1> DEFINE me == cli[c]
           a  == Account(me)
<1>0. /\ me \in Invocations /\ MeOK(me) /\ me.op = "migrate" /\ me.i \in 1 .. 4 /\ a \in AllNames
      /\ me.at = "delete" /\ store \in Entries /\ legacy \in Entries /\ (me.alone => MigrateFits(me, store))
  BY AccountOK DEF KeyTypes, StoreTypes, AloneInv, Fits, OpFits, Invocations, DeleteLegacy
<1>1. /\ store' = store /\ (NoFault \/ Fault) /\ ~(NoFault /\ Fault)
      /\ legacy' = legacy \/ legacy' = [legacy EXCEPT ![a] = None]
  <2>1. ~(NoFault /\ Fault)
    BY DEF Fault, NoFault, KeyTypes, StoreTypes
  <2> QED BY <2>1 DEF DeleteLegacy
<1>2. OldEntries(legacy')
  BY <1>0, <1>1 DEF OldEntries, Entries, AllNames
<1>3. CASE Step(c, NextAccount(me, FALSE)) /\ Fault
  <2> DEFINE new == NextAccount(me, FALSE)
  <2>1. Plain(new) /\ new.at \in {"lookup", "done"} /\ new.op = "migrate" /\ new.alone = me.alone
    BY <1>0, NextPlain, NextAccountIs
  <2> HIDE DEF new
  <2> QED BY <1>0, <1>1, <1>2, <1>3, <2>1, MigrateQuiet DEF new
<1>4. CASE Step(c, Goto(me, "set")) \/ WriteStep(c, Goto(me, "set"))
  <2> DEFINE new == Goto(me, "set")
  <2>1. /\ new.at = "set" /\ new.op = "migrate" /\ new.i = me.i /\ new.alone = me.alone
        /\ new.flag = me.flag /\ new.value = me.value
    BY <1>0 DEF Goto, Invocations
  <2>2. Account(new) = a
    BY <2>1 DEF Account
  <2>3. NoFault => legacy' = [legacy EXCEPT ![a] = None]
    BY <1>0, <1>1 DEF DeleteLegacy
  <2> HIDE DEF new
  <2>4. Plain(new)
    BY <1>0, <2>1, <2>2 DEF Plain
  <2>5. ASSUME SoleFits(me, store, legacy, faults), NoFault, faults = 0
        PROVE  ClientHolds(new, store, legacy')
    <3>1. ClientHolds(me, store, legacy) /\ legacy[a] = Old[a] /\ store[a] = None /\ legacy[a] # None
      BY <1>0, <2>5 DEF SoleFits, OldEntries, MigrateFits
    <3>2. legacy' = [legacy EXCEPT ![a] = None] /\ ~me.flag
      BY <1>0, <2>3, <2>5 DEF Plain
    <3>3. CASE me.i < 3
      <4>1. a \notin {"clientCert", "clientKey"}
        BY <1>0, <3>3, AccountIs
      <4>2. legacy'.clientCert = legacy.clientCert /\ legacy'.clientKey = legacy.clientKey
        BY <1>0, <3>2, <4>1 DEF Entries
      <4>3. BothWhole(me, store, legacy)
        BY <1>0, <3>1, <3>3 DEF ClientHolds, CertInHand, CertMoved
      <4> QED BY <2>1, <3>3, <4>2, <4>3 DEF ClientHolds, BothWhole, Whole
    <3>4. CASE me.i = 3
      <4>1. a = "clientCert"
        BY <3>4, AccountIs
      <4>2. BothWhole(me, store, legacy)
        BY <1>0, <3>1, <3>4 DEF ClientHolds, CertInHand, CertMoved
      <4>3. store.clientCert = None /\ store.clientKey = None
        BY <3>1, <4>1, <4>2 DEF BothWhole, Whole
      <4>4. legacy.clientKey = Old.clientKey
        BY <3>1, <4>1, <4>2 DEF BothWhole, Whole, OldEntries, AllNames
      <4>5. legacy'.clientCert = None /\ legacy'.clientKey = Old.clientKey
        BY <1>0, <3>2, <4>1, <4>4 DEF Entries
      <4> QED BY <2>1, <3>4, <4>3, <4>5 DEF ClientHolds, CertInHand
    <3>5. CASE me.i = 4
      <4>1. a = "clientKey"
        BY <3>5, AccountIs
      <4>2. ~BothWhole(me, store, legacy)
        BY <1>0, <3>1, <3>2, <3>5, <4>1 DEF BothWhole, Whole
      <4>3. CertMoved(me, store, legacy)
        BY <1>0, <3>1, <4>2 DEF ClientHolds, CertInHand
      <4>4. legacy'.clientCert = None /\ legacy'.clientKey = None
        BY <1>0, <3>2, <4>1, <4>3 DEF Entries, CertMoved
      <4> QED BY <2>1, <3>2, <3>5, <4>3, <4>4 DEF ClientHolds, CertMoved
    <3> QED BY <1>0, <3>3, <3>4, <3>5
  <2> QED BY <1>0, <1>1, <1>2, <1>4, <2>1, <2>4, <2>5, MigrateQuiet DEF new
<1> QED BY <1>3, <1>4 DEF DeleteLegacy

(* The value is stored: of the CA, the old one is in use from here on; of  *)
(* the client, the key arrives after its certificate.                      *)
LEMMA StoredHolds ==
  ASSUME KeyTypes, NEW me, MeOK(me), OldEntries(legacy), Plain(me), NEW s, me.op = "migrate", me.at = "set",
         s = [store EXCEPT ![Account(me)] = me.value], NEW f \in Nat, SoleFits(me, store, legacy, f)
  PROVE  SoleFits(NextAccount(me, TRUE), s, legacy, f)
<1> DEFINE a   == Account(me)
           new == NextAccount(me, TRUE)
<1>0. /\ me.i \in 1 .. 4 /\ store \in Entries /\ legacy \in Entries /\ a \in AllNames
      /\ me.value = Old[a] /\ ~me.flag /\ me.alone
  BY AccountOK DEF KeyTypes, StoreTypes, MeOK, Invocations, Plain, SoleFits
<1>1. /\ new.op = "migrate" /\ new.flag = me.flag /\ new.alone = me.alone
      /\ \/ me.i < 4 /\ new.i = me.i + 1 /\ new.at = "lookup"
         \/ me.i = 4 /\ new.i = 4 /\ new.at = "done"
  BY NextAccountIs
<1>2. /\ Old.caCert # None /\ Old.caKey # None /\ Old.clientCert # None /\ Old.clientKey # None
      /\ Old.clientCert.key = Old.clientKey
  BY KeysAssumption, NoneAssumption DEF Old, Keys, Certs
<1> SUFFICES SoleFits(new, s, legacy, f)
  OBVIOUS
<1> HIDE DEF new
<1>3. CAHolds(new, s, f)
  <2>1. CASE a = "caCert"
    <3>1. s.caCert = Old.caCert
      BY <1>0, <2>1 DEF Entries
    <3> QED BY <1>1, <1>2, <3>1 DEF CAHolds, OldInUse
  <2>2. CASE a = "caKey"
    <3>1. s.caKey = Old.caKey
      BY <1>0, <2>2 DEF Entries
    <3> QED BY <1>1, <1>2, <3>1 DEF CAHolds, OldInUse
  <2>3. CASE a \notin {"caCert", "caKey"}
    <3>1. s.caCert = store.caCert /\ s.caKey = store.caKey
      BY <1>0, <2>3 DEF Entries
    <3>2. CAHolds(me, store, f) /\ new.at # "setKey"
      BY <1>1 DEF SoleFits
    <3> QED BY <3>1, <3>2 DEF CAHolds, OldInUse
  <2> QED BY <2>1, <2>2, <2>3
<1>4. ASSUME f = 0 PROVE ClientHolds(new, s, legacy)
  <2>0. ClientHolds(me, store, legacy)
    BY <1>4 DEF SoleFits
  <2>1. CASE me.i < 3
    <3>1. a \notin {"clientCert", "clientKey"}
      BY <1>0, <2>1, AccountIs
    <3>2. s.clientCert = store.clientCert /\ s.clientKey = store.clientKey
      BY <1>0, <3>1 DEF Entries
    <3>3. BothWhole(me, store, legacy)
      BY <2>0, <2>1 DEF ClientHolds, CertInHand, CertMoved
    <3>4. new.i # 4 /\ new.at = "lookup"
      BY <1>0, <1>1, <2>1
    <3> QED BY <3>2, <3>3, <3>4 DEF ClientHolds, BothWhole, Whole
  <2>2. CASE me.i = 3
    <3>1. a = "clientCert"
      BY <2>2, AccountIs
    <3>2. CertInHand(me, store, legacy)
      BY <2>0, <2>2 DEF ClientHolds, BothWhole, CertMoved
    <3>3. s.clientCert = Old.clientCert /\ s.clientKey = None
      BY <1>0, <3>1, <3>2 DEF Entries, CertInHand
    <3>4. new.i = 4 /\ new.at = "lookup"
      BY <1>1, <2>2
    <3> QED BY <1>0, <1>1, <3>2, <3>3, <3>4 DEF ClientHolds, CertInHand, CertMoved
  <2>3. CASE me.i = 4
    <3>1. a = "clientKey"
      BY <2>3, AccountIs
    <3>2. CertMoved(me, store, legacy)
      BY <2>0, <2>3 DEF ClientHolds, BothWhole, CertInHand
    <3>3. s.clientCert = Old.clientCert /\ s.clientKey = Old.clientKey
      BY <1>0, <3>1, <3>2 DEF Entries, CertMoved
    <3>4. legacy.clientCert = None /\ legacy.clientKey = None
      BY <3>2 DEF CertMoved
    <3>5. Whole(s) /\ Whole(legacy)
      BY <1>2, <3>3, <3>4 DEF Whole, Match
    <3>6. new.at = "done"
      BY <1>1, <2>3
    <3> QED BY <3>5, <3>6 DEF ClientHolds, BothWhole
  <2> QED BY <1>0, <2>1, <2>2, <2>3
<1> QED BY <1>0, <1>1, <1>3, <1>4 DEF SoleFits, ConnectHolds

LEMMA StoreKeeps ==
  ASSUME KeyTypes, AloneInv, NEW c \in Clis, OldEntries(legacy), Plain(cli[c]), SetMigrated(c)
  PROVE  SoleKept(c)
<1> DEFINE me == cli[c]
<1>0. /\ me \in Invocations /\ MeOK(me) /\ me.op = "migrate" /\ me.at = "set" /\ legacy' = legacy
      /\ faults \in Nat
  BY DEF KeyTypes, StoreTypes, AloneInv, Fits, OpFits, SetMigrated
<1>1. \A good \in BOOLEAN :
        LET new == NextAccount(me, good) IN
          /\ Plain(new) /\ new.at \in {"lookup", "done"}
          /\ new.op = "migrate" /\ new.alone = me.alone
  BY <1>0, NextPlain, NextAccountIs
<1>2. CASE Step(c, NextAccount(me, FALSE)) /\ Fault /\ store' = store
  <2> DEFINE new == NextAccount(me, FALSE)
  <2>1. Plain(new) /\ new.at \in {"lookup", "done"} /\ new.op = "migrate" /\ new.alone = me.alone
    BY <1>1
  <2>2. ~NoFault
    BY <1>2 DEF Fault, NoFault, KeyTypes, StoreTypes
  <2> HIDE DEF new
  <2> QED BY <1>0, <1>2, <2>1, <2>2, MigrateQuiet DEF new
<1>3. CASE WriteStep(c, NextAccount(me, TRUE)) /\ NoFault /\ Set(Account(me), me.value)
  <2> DEFINE new == NextAccount(me, TRUE)
  <2>1. cli'[c] = new /\ faults' = faults
    BY <1>3, Others DEF KeyTypes, NoFault
  <2>2. Plain(new)
    BY <1>1
  <2>3. SoleFits(me, store, legacy, faults) => SoleFits(new, store', legacy, faults)
    BY <1>0, <1>3, StoredHolds DEF Set
  <2> HIDE DEF new
  <2> QED BY <1>0, <2>1, <2>2, <2>3 DEF SoleKept
<1> QED BY <1>2, <1>3 DEF SetMigrated

LEMMA StepKeeps ==
  ASSUME KeyTypes, AloneInv, NEW c \in Clis, OldEntries(legacy), Plain(cli[c]),
         \/ Start(c) \/ Exists(c) \/ DeleteOld(c) \/ GetCert(c) \/ GetKey(c) \/ SetCert(c) \/ SetKey(c)
         \/ IssueLeaf(c) \/ StoreLeaf(c) \/ Lookup(c) \/ ReadLegacy(c) \/ DeleteLegacy(c) \/ SetMigrated(c)
         \/ Connect(c) \/ Finish(c) \/ Fails(c) \/ GenerationFails(c)
  PROVE  SoleKept(c)
BY StartKeeps, InitKeeps, EnsureKeeps, LeafKeeps, LookKeeps, DeleteKeeps, StoreKeeps, OtherKeeps

(* An overlap stays on record; without one, only the start of a command    *)
(* makes an invocation active, and only when none is.                      *)
LEMMA OneAtATime ==
  ASSUME KeyTypes, NEW c \in Clis, ~overlapped',
         \/ Start(c) \/ Exists(c) \/ DeleteOld(c) \/ GetCert(c) \/ GetKey(c) \/ SetCert(c) \/ SetKey(c)
         \/ IssueLeaf(c) \/ StoreLeaf(c) \/ Lookup(c) \/ ReadLegacy(c) \/ DeleteLegacy(c) \/ SetMigrated(c)
         \/ Connect(c) \/ Finish(c) \/ Fails(c) \/ GenerationFails(c)
  PROVE  ~overlapped /\ (Active(c) \/ \A d \in Clis : ~Active(d))
<1>1. CASE Start(c)
  <2>1. overlapped' = (overlapped \/ \E d \in Clis : Active(d))
    BY <1>1 DEF Start
  <2> QED BY <2>1, Zenon
<1>2. CASE Exists(c) \/ DeleteOld(c) \/ GetCert(c) \/ GetKey(c) \/ SetCert(c) \/ SetKey(c)
  <2>1. cli[c].at # "idle"
    BY <1>2 DEF Exists, DeleteOld, GetCert, GetKey, SetCert, SetKey
  <2>2. overlapped' = overlapped
    BY <1>2 DEF Exists, DeleteOld, GetCert, GetKey, SetCert, SetKey, NoFault
  <2> QED BY <2>1, <2>2 DEF Active
<1>3. CASE IssueLeaf(c) \/ StoreLeaf(c) \/ Lookup(c) \/ ReadLegacy(c) \/ DeleteLegacy(c) \/ SetMigrated(c)
  <2>1. cli[c].at # "idle"
    BY <1>3 DEF IssueLeaf, StoreLeaf, Lookup, ReadLegacy, DeleteLegacy, SetMigrated
  <2>2. overlapped' = overlapped
    BY <1>3 DEF IssueLeaf, StoreLeaf, Lookup, ReadLegacy, DeleteLegacy, SetMigrated, NoFault
  <2> QED BY <2>1, <2>2 DEF Active
<1>4. CASE Connect(c) \/ Finish(c) \/ Fails(c) \/ GenerationFails(c)
  BY <1>4 DEF Connect, Finish, Fails, GenerationFails, Active, NoFault
<1> QED BY <1>1, <1>2, <1>3, <1>4

LEMMA SoleInductive ==
  ASSUME KeyTypes, AloneInv, SoleInv, [Next]_vars
  PROVE  SoleInv'
<1>1. CASE UNCHANGED vars
  BY <1>1 DEF SoleInv, Sole, Active, vars
<1>2. CASE Next
  <2>1. PICK c \in Clis :
         \/ Start(c) \/ Exists(c) \/ DeleteOld(c) \/ GetCert(c) \/ GetKey(c) \/ SetCert(c) \/ SetKey(c)
         \/ IssueLeaf(c) \/ StoreLeaf(c) \/ Lookup(c) \/ ReadLegacy(c) \/ DeleteLegacy(c) \/ SetMigrated(c)
         \/ Connect(c) \/ Finish(c) \/ Fails(c) \/ GenerationFails(c)
    BY <1>2 DEF Next
  <2>2. SoleKept(c)
    BY <2>1, StepKeeps DEF SoleInv
  <2>3. Step(c, cli'[c]) \/ WriteStep(c, cli'[c])
    BY <2>1, StepsAre
  <2>4. ASSUME NEW d \in Clis, d # c
        PROVE  /\ cli'[d].at = cli[d].at /\ Plain(cli'[d])
               /\ ~Active(d) => cli'[d] = cli[d]
    <3>1. cli'[d] = cli[d] \/ (cli'[d] = [cli[d] EXCEPT !.alone = FALSE] /\ Active(d))
      BY <2>3, <2>4 DEF KeyTypes, Step, WriteStep
    <3>2. cli[d] \in Invocations /\ Plain(cli[d])
      BY DEF KeyTypes, SoleInv
    <3>3. CASE cli'[d] = [cli[d] EXCEPT !.alone = FALSE] /\ Active(d)
      <4>1. /\ cli'[d].at = cli[d].at /\ cli'[d].value = cli[d].value /\ cli'[d].i = cli[d].i
            /\ cli'[d].flag = cli[d].flag
        BY <3>2, <3>3 DEF Invocations
      <4>2. Account(cli'[d]) = Account(cli[d])
        BY <4>1 DEF Account
      <4> QED BY <3>2, <3>3, <4>1, <4>2 DEF Plain, Active
    <3> QED BY <3>1, <3>2, <3>3
  <2>5. OldEntries(legacy') /\ \A d \in Clis : Plain(cli'[d])
    BY <2>2, <2>4 DEF SoleKept
  <2>6. ASSUME ~overlapped'
        PROVE  /\ \A d \in Clis : Active(d)' => Sole(d)' /\ SoleFits(cli'[d], store', legacy', faults')
               /\ (\A d \in Clis : ~Active(d)') => SoleFits(Idle, store', legacy', faults')
    <3>1. ~overlapped /\ (Active(c) \/ \A d \in Clis : ~Active(d))
      BY <2>1, <2>6, OneAtATime
    <3>2. Sole(c) /\ SoleFits(cli[c], store, legacy, faults)
      <4>1. CASE Active(c)
        BY <3>1, <4>1 DEF SoleInv
      <4>2. CASE \A d \in Clis : ~Active(d)
        <5>1. cli[c] = Idle
          BY <4>2 DEF SoleInv, Plain, Active
        <5> QED BY <3>1, <4>2, <5>1 DEF SoleInv, Sole
      <4> QED BY <3>1, <4>1, <4>2
    <3>3. \A d \in Clis : d # c => ~Active(d)'
      BY <2>4, <3>2 DEF Sole, Active
    <3>4. SoleFits(cli'[c], store', legacy', faults')
      BY <2>2, <3>2 DEF SoleKept
    <3>5. ~Active(c)' => cli'[c] = Idle
      BY <2>5 DEF Plain, Active
    <3> QED BY <3>3, <3>4, <3>5 DEF Sole
  <2> QED BY <2>5, <2>6 DEF SoleInv
<1> QED BY <1>1, <1>2

LEMMA SoleAlways == Spec => [](KeyTypes /\ AloneInv /\ SoleInv)
<1>1. Init => SoleInv
  <2> SUFFICES ASSUME Init PROVE SoleInv
    OBVIOUS
  <2>1. /\ Nothing.caCert = None /\ Nothing.caKey = None
        /\ Nothing.clientCert = None /\ Nothing.clientKey = None
        /\ store = Nothing /\ legacy \in {Nothing, Old} /\ faults = 0
        /\ \A c \in Clis : cli[c] = Idle
    BY DEF Init, Nothing
  <2>2. OldEntries(legacy)
    BY <2>1 DEF OldEntries, AllNames
  <2>3. Whole(store) /\ Whole(legacy)
    <3>1. Whole(Nothing)
      BY <2>1 DEF Whole, Match
    <3>2. Whole(Old)
      BY KeysAssumption, NoneAssumption DEF Whole, Match, Old, Keys, Certs
    <3> QED BY <2>1, <3>1, <3>2
  <2>4. Plain(Idle) /\ Idle.at = "idle" /\ Idle.op = "none" /\ Idle.alone
    BY DEF Plain, Idle
  <2>5. SoleFits(Idle, store, legacy, faults)
    BY <2>1, <2>3, <2>4 DEF SoleFits, CAHolds, Match, ClientHolds, BothWhole, ConnectHolds
  <2> QED BY <2>1, <2>2, <2>4, <2>5 DEF SoleInv, Active
<1>2. KeyTypes /\ AloneInv /\ SoleInv /\ [Next]_vars => SoleInv'
  BY SoleInductive
<1> QED BY <1>1, <1>2, AloneAlways, PTL DEF Spec

(* No single failure or kill leaves a CA certificate next to the key of    *)
(* another CA, unless invocations overlap or ca migrate moves one of the   *)
(* two on its own.                                                         *)
THEOREM OneFaultKeeps == Spec => []OneFaultKeepsCA
<1>1. KeyTypes /\ AloneInv /\ SoleInv => OneFaultKeepsCA
  <2> SUFFICES ASSUME KeyTypes, SoleInv, faults <= 1, ~overlapped, ~OldCAInUse,
                      \A c \in Clis : cli[c].at # "setKey"
               PROVE  Match(store.caCert, store.caKey)
    BY DEF OneFaultKeepsCA
  <2>1. \E me : SoleFits(me, store, legacy, faults) /\ me.at # "setKey"
    <3>1. Idle.at # "setKey"
      BY DEF Idle
    <3>2. CASE \E c \in Clis : Active(c)
      BY <3>2 DEF SoleInv
    <3>3. CASE \A c \in Clis : ~Active(c)
      BY <3>1, <3>3 DEF SoleInv
    <3> QED BY <3>2, <3>3
  <2> QED BY <2>1 DEF SoleFits, CAHolds, OldCAInUse, OldInUse
<1> QED BY <1>1, SoleAlways, PTL

(* cert issue that reports success, while nobody else wrote: the entries   *)
(* are the new pair, the leaf is signed with the key that is the CA's and  *)
(* goes out with the certificate that is the CA's; and the two belong      *)
(* together unless two failures, an overlap or ca migrate mixed two CAs.   *)
THEOREM IssuesConsistently == Spec => []IssuedIsConsistent
<1>1. ASSUME KeyTypes, AloneInv, OneFaultKeepsCA, SoleInv,
             NEW c \in Clis, cli[c].at = "done", cli[c].alone, cli[c].op \in {"client", "daemon"}
      PROVE  /\ cli[c].op = "client" => /\ store.clientCert = cli[c].leaf
                                        /\ store.clientKey = cli[c].leaf.key
             /\ cli[c].op = "daemon" => cli[c].ca = store.caCert
             /\ cli[c].leaf.by = store.caKey
             /\ faults <= 1 /\ ~overlapped /\ ~OldCAInUse => cli[c].leaf.by = store.caCert.key
  <2> DEFINE me == cli[c]
  <2>1. /\ CAFits(me, store) /\ LeafFits(me, store, faults)
        /\ me.at = "done" /\ me.op \in {"client", "daemon"}
    BY <1>1 DEF AloneInv, Fits
  <2> HIDE DEF me
  <2>2. /\ me.op = "client" => store.clientCert = me.leaf /\ store.clientKey = me.leaf.key
        /\ me.op = "daemon" => me.ca = store.caCert /\ store.caKey # None
        /\ me.leaf.by = store.caKey /\ store.caCert # None
    BY <2>1 DEF CAFits, LeafFits, Complete
  <2>3. ASSUME faults <= 1, ~overlapped, ~OldCAInUse
        PROVE  Match(store.caCert, store.caKey)
    <3>1. \A d \in Clis : cli[d].at # "setKey"
      BY <1>1, <2>3 DEF SoleInv, Sole, Active
    <3> QED BY <1>1, <2>3, <3>1 DEF OneFaultKeepsCA
  <2>4. store.caKey # None
    BY <2>1, <2>2 DEF LeafFits, Complete
  <2>5. faults <= 1 /\ ~overlapped /\ ~OldCAInUse => me.leaf.by = store.caCert.key
    BY <2>2, <2>3, <2>4 DEF Match
  <2> QED BY <2>2, <2>5 DEF me
<1>2. KeyTypes /\ AloneInv /\ OneFaultKeepsCA /\ SoleInv => IssuedIsConsistent
  BY <1>1 DEF IssuedIsConsistent
<1> QED BY <1>2, OneFaultKeeps, SoleAlways, PTL

(* A client that could be built from three separate reads has the key of   *)
(* its certificate, after any sequence of issue, re-issue and migration    *)
(* without a failed call or an overlap.                                    *)
THEOREM IdentityKept == Spec => []IdentityMatches
<1>1. KeyTypes /\ AloneInv /\ SoleInv => IdentityMatches
  BY DEF SoleInv, SoleFits, ConnectHolds, IdentityMatches, Active
<1> QED BY <1>1, SoleAlways, PTL
=============================================================================
