------------------------------ MODULE Keyring ------------------------------
(***************************************************************************)
(* The cluster CA and the client certificate of the brewmble CLI: four     *)
(* entries of the OS keyring, read and written one at a time by ca init,   *)
(* ca migrate, cert issue and by every command that talks to a daemon.     *)
(* Invocations may overlap, be killed between any two of their calls, and  *)
(* single calls may fail (bound: a behaviour has overlaps or failures).    *)
(*                                                                         *)
(* A private key is the number of its key pair, a certificate the number   *)
(* of its key pair and of the one that signed it.                          *)
(***************************************************************************)
EXTENDS Naturals, Sequences, FiniteSets

CONSTANTS Clis,      \* invocations that may overlap
          None,      \* no entry
          MaxKeys,   \* bound on the key pairs made
          MaxFaults  \* bound on failed calls and killed invocations

Keys  == 1 .. MaxKeys
Certs == [key : Keys, by : Keys]

ASSUME KeysAssumption   == MaxKeys \in Nat /\ MaxKeys >= 2
ASSUME FaultsAssumption == MaxFaults \in Nat
ASSUME NoneAssumption   == None \notin Keys \cup Certs

(* MIGRATION_ACCOUNTS, in their order. *)
Accounts == <<"caCert", "caKey", "clientCert", "clientKey">>
Entries  == [caCert : Certs \cup {None}, caKey : Keys \cup {None},
             clientCert : Certs \cup {None}, clientKey : Keys \cup {None}]
CAEntries == {"caCert", "caKey"}

VARIABLES
    store,      \* the keyring
    legacy,     \* the store of older versions (macOS)
    keys,       \* the number of key pairs made so far
    cli,        \* the invocations
    faults,     \* history: failed calls and killed invocations
    overlapped, \* history: have two invocations ever overlapped?
    owed        \* history: the accounts whose legacy value has not been stored yet

vars == <<store, legacy, keys, cli, faults, overlapped, owed>>

Nothing == [a \in {"caCert", "caKey", "clientCert", "clientKey"} |-> None]

(* What an older version left behind: a CA and a client certificate. *)
Old == [caCert |-> [key |-> 1, by |-> 1], caKey |-> 1,
        clientCert |-> [key |-> 2, by |-> 1], clientKey |-> 2]

(* An invocation: its command, its --force or --dry-run flag, where it is, *)
(* the CA it read or made, the CA certificate for ca.pem, the leaf, the    *)
(* account it migrates with the two values it found, whether the CA is     *)
(* ready, and whether nobody else has written anything since it began.     *)
Idle == [op |-> "none", flag |-> FALSE, at |-> "idle", cert |-> None, key |-> None,
         ca |-> None, leaf |-> None, i |-> 1, current |-> None, value |-> None,
         ready |-> TRUE, alone |-> TRUE]

Init ==
    /\ store = Nothing /\ legacy \in {Nothing, Old} /\ keys = 2
    /\ cli = [c \in Clis |-> Idle]
    /\ faults = 0 /\ overlapped = FALSE
    /\ owed = {a \in DOMAIN legacy : legacy[a] # None}

-----------------------------------------------------------------------------
Active(c) == cli[c].at # "idle"

Step(c, me) == cli' = [cli EXCEPT ![c] = me]

(* A step that writes: the other invocations are no longer alone. *)
WriteStep(c, me) ==
    cli' = [d \in Clis |-> IF d = c THEN me
                           ELSE IF Active(d) THEN [cli[d] EXCEPT !.alone = FALSE] ELSE cli[d]]

(* Bounds: MaxFaults failures, and none in a behaviour with overlaps. *)
Fault == faults < MaxFaults /\ ~overlapped /\ faults' = faults + 1

NoFault == UNCHANGED <<faults, overlapped>>

Goto(me, at) == [me EXCEPT !.at = at]

(* CredentialStore: an entry is read, updated or added. *)
Get(a)    == store[a]
Set(a, v) == store' = [store EXCEPT ![a] = v]

(* The tool that reads the legacy store may fail: then it looks empty. *)
LegacyValue(a, toolFails) == IF toolFails THEN None ELSE legacy[a]

Account(me) == Accounts[me.i]

(* A command begins; --force skips the look at what there is. *)
Start(c) ==
    /\ ~Active(c)
    /\ \E op \in {"init", "client", "daemon", "migrate", "connect"} : \E flag \in BOOLEAN :
          /\ op \in {"connect", "daemon"} => ~flag
          /\ Step(c, [Idle EXCEPT !.op = op, !.flag = flag,
                        !.at = CASE op = "migrate"          -> "lookup"
                                 [] op = "connect"          -> "identity"
                                 [] op = "init" /\ flag     -> "deleteCert"
                                 [] op = "client" /\ flag   -> "getCert"
                                 [] op = "daemon"           -> "getCert"   \* the output files are Startup's
                                 [] OTHER                   -> "exists"])
    /\ overlapped' = (overlapped \/ \E d \in Clis : Active(d))
    /\ overlapped' => faults = 0
    /\ UNCHANGED <<store, legacy, keys, faults, owed>>

Present(op) == CASE op = "init"   -> Get("caCert") # None
                 [] op = "client" -> Get("clientCert") # None

(* Without --force: refuse if there is one already.  A look that fails     *)
(* counts as "there is none".                                              *)
Exists(c) ==
    LET me == cli[c]
    IN  /\ me.at = "exists"
        /\ \/ Step(c, IF Present(me.op) THEN Idle ELSE Goto(me, "getCert")) /\ NoFault
           \/ Step(c, Goto(me, "getCert")) /\ Fault /\ UNCHANGED overlapped
        /\ UNCHANGED <<store, legacy, keys, owed>>

(* MUTANT of DeleteOld: the key is left to be overwritten. *)
DeleteOldCertificate(c) ==
    /\ cli[c].at = "deleteCert"
    /\ Set("caCert", None) /\ WriteStep(c, Goto(cli[c], "getCert"))
    /\ NoFault /\ UNCHANGED <<legacy, keys, owed>>

(* ca init --force deletes both entries and ignores whether it could. *)
DeleteOld(c) ==
    LET me == cli[c]
        entry == IF me.at = "deleteCert" THEN "caCert" ELSE "caKey"
        next == Goto(me, IF me.at = "deleteCert" THEN "deleteKey" ELSE "getCert")
    IN  /\ me.at \in {"deleteCert", "deleteKey"}
        /\ \/ Set(entry, None) /\ WriteStep(c, next) /\ NoFault
           \/ Step(c, next) /\ Fault /\ UNCHANGED <<store, overlapped>>
        /\ UNCHANGED <<legacy, keys, owed>>

-----------------------------------------------------------------------------
(* ensure_ca.  cert issue --kind daemon calls it twice: for ca.pem, and    *)
(* again inside issue_leaf.                                                *)

HaveCA(me) ==
    CASE me.op = "init" -> Goto(me, "done")
      [] me.op = "daemon" /\ me.ca = None ->
             [me EXCEPT !.at = "getCert", !.ca = me.cert, !.cert = None, !.key = None]
      [] OTHER -> Goto(me, "leaf")

GetCert(c) ==
    /\ cli[c].at = "getCert"
    /\ Step(c, [cli[c] EXCEPT !.cert = Get("caCert"), !.at = "getKey"])
    /\ NoFault /\ UNCHANGED <<store, legacy, keys, owed>>

(* Both entries are there: this is the CA. *)
Complete(cert, key) == cert # None /\ key # None

(* The key; if an entry is missing, both are made anew. *)
GetKey(c) ==
    LET me == cli[c]
    IN  /\ me.at = "getKey"
        /\ IF Complete(me.cert, Get("caKey"))
           THEN Step(c, HaveCA([me EXCEPT !.key = Get("caKey")])) /\ UNCHANGED keys
           ELSE /\ keys < MaxKeys /\ keys' = keys + 1
                /\ Step(c, [me EXCEPT !.cert = [key |-> keys', by |-> keys'], !.key = keys',
                                      !.at = "setCert"])
        /\ NoFault /\ UNCHANGED <<store, legacy, owed>>

SetCert(c) ==
    /\ cli[c].at = "setCert"
    /\ Set("caCert", cli[c].cert)
    /\ WriteStep(c, Goto(cli[c], "setKey"))
    /\ NoFault /\ UNCHANGED <<legacy, keys, owed>>

SetKey(c) ==
    /\ cli[c].at = "setKey"
    /\ Set("caKey", cli[c].key)
    /\ WriteStep(c, HaveCA(cli[c]))
    /\ NoFault /\ UNCHANGED <<legacy, keys, owed>>

-----------------------------------------------------------------------------
(* generate_leaf uses the CA key only. *)
Signed(me, k) == [key |-> k, by |-> me.key]

(* A leaf certificate with a new key pair. *)
IssueLeaf(c) ==
    /\ cli[c].at = "leaf"
    /\ keys < MaxKeys /\ keys' = keys + 1
    /\ Step(c, [cli[c] EXCEPT !.leaf = Signed(cli[c], keys'),
                              !.at = IF cli[c].op = "client" THEN "setClientCert" ELSE "done"])
    /\ NoFault /\ UNCHANGED <<store, legacy, owed>>

(* MUTANT of StoreLeaf: a key that is there is kept. *)
StoreLeafKeepingKey(c) ==
    LET me == cli[c]
    IN  /\ \/ /\ me.at = "setClientCert"
              /\ Set("clientCert", me.leaf)
              /\ WriteStep(c, Goto(me, IF Get("clientKey") = None THEN "setClientKey" ELSE "done"))
           \/ /\ me.at = "setClientKey"
              /\ Set("clientKey", me.leaf.key)
              /\ WriteStep(c, Goto(me, "done"))
        /\ NoFault /\ UNCHANGED <<legacy, keys, owed>>

(* The client certificate and its key go to the keyring. *)
StoreLeaf(c) ==
    LET me == cli[c]
    IN  /\ \/ /\ me.at = "setClientCert"
              /\ Set("clientCert", me.leaf)
              /\ WriteStep(c, Goto(me, "setClientKey"))
           \/ /\ me.at = "setClientKey"
              /\ Set("clientKey", me.leaf.key)
              /\ WriteStep(c, Goto(me, "done"))
        /\ NoFault /\ UNCHANGED <<legacy, keys, owed>>

-----------------------------------------------------------------------------
(* ca migrate, account by account. *)

(* MUTANT of NextAccount: one account too many. *)
NextAccountPastEnd(me, good) ==
    LET next == [me EXCEPT !.current = None, !.value = None,
                           !.ready = @ /\ (good \/ Account(me) \notin CAEntries)]
    IN  IF me.i <= Len(Accounts) THEN [next EXCEPT !.i = @ + 1, !.at = "lookup"]
                                 ELSE Goto(next, "done")

(* MUTANT of NextAccount: only the CA certificate counts. *)
NextAccountCertificate(me, good) ==
    LET next == [me EXCEPT !.current = None, !.value = None,
                           !.ready = @ /\ (good \/ Account(me) # "caCert")]
    IN  IF me.i < Len(Accounts) THEN [next EXCEPT !.i = @ + 1, !.at = "lookup"]
                                ELSE Goto(next, "done")

(* This account is done; a CA entry must end up in the keyring. *)
NextAccount(me, good) ==
    LET next == [me EXCEPT !.current = None, !.value = None,
                           !.ready = @ /\ (good \/ Account(me) \notin CAEntries)]
    IN  IF me.i < Len(Accounts) THEN [next EXCEPT !.i = @ + 1, !.at = "lookup"]
                                ELSE Goto(next, "done")

(* The value in the keyring; if it cannot be read, the account has failed. *)
Lookup(c) ==
    LET me == cli[c]
    IN  /\ me.at = "lookup"
        /\ \/ Step(c, [me EXCEPT !.current = Get(Account(me)), !.at = "legacy"]) /\ NoFault
           \/ Step(c, NextAccount(me, FALSE)) /\ Fault /\ UNCHANGED overlapped
        /\ UNCHANGED <<store, legacy, keys, owed>>

(* MUTANT of MovesValue: a value that is there is replaced as well. *)
MovesAlways(me, v) == v # None /\ ~me.flag

(* Only a value that is in the legacy store alone is moved. *)
MovesValue(me, v) == me.current = None /\ v # None /\ ~me.flag

(* conflict, already present, not found, or to be moved.  A legacy store   *)
(* whose tool reports a failure looks empty; other errors fail the account. *)
ReadLegacy(c) ==
    LET me == cli[c]
        Decide(v) ==
            IF MovesValue(me, v) THEN [me EXCEPT !.value = v, !.at = "delete"]
            ELSE NextAccount(me, IF me.current = None THEN v # None
                                                      ELSE v \in {None, me.current})
    IN  /\ me.at = "legacy"
        /\ \/ Step(c, Decide(LegacyValue(Account(me), FALSE))) /\ NoFault
           \/ Step(c, Decide(LegacyValue(Account(me), TRUE))) /\ Fault /\ UNCHANGED overlapped
           \/ Step(c, NextAccount(me, FALSE)) /\ Fault /\ UNCHANGED overlapped
        /\ UNCHANGED <<store, legacy, keys, owed>>

(* First the legacy entry is deleted, or is not and nobody notices, or an  *)
(* error leaves the account failed.                                        *)
DeleteLegacy(c) ==
    LET me == cli[c]
    IN  /\ me.at = "delete"
        /\ \/ /\ legacy' = [legacy EXCEPT ![Account(me)] = None]
              /\ WriteStep(c, Goto(me, "set")) /\ NoFault
           \/ /\ Step(c, Goto(me, "set")) /\ Fault /\ UNCHANGED <<legacy, overlapped>>
           \/ /\ Step(c, NextAccount(me, FALSE)) /\ Fault /\ UNCHANGED <<legacy, overlapped>>
        /\ UNCHANGED <<store, keys, owed>>

(* MUTANT of SetMigrated: the keyring is looked at once more. *)
SetMigratedIfMissing(c) ==
    LET me == cli[c]
    IN  /\ me.at = "set"
        /\ \/ /\ Get(Account(me)) = None
              /\ Set(Account(me), me.value)
              /\ owed' = owed \ {Account(me)}
              /\ WriteStep(c, NextAccount(me, TRUE))
           \/ /\ Get(Account(me)) # None
              /\ Step(c, NextAccount(me, FALSE)) /\ UNCHANGED <<store, owed>>
        /\ NoFault /\ UNCHANGED <<legacy, keys>>

(* Then the value is stored; if that fails, the next account is taken up. *)
SetMigrated(c) ==
    LET me == cli[c]
    IN  /\ me.at = "set"
        /\ \/ /\ Set(Account(me), me.value)
              /\ owed' = owed \ {Account(me)}
              /\ WriteStep(c, NextAccount(me, TRUE)) /\ NoFault
           \/ /\ Step(c, NextAccount(me, FALSE)) /\ Fault /\ UNCHANGED <<store, owed, overlapped>>
        /\ UNCHANGED <<legacy, keys>>

-----------------------------------------------------------------------------
(* build_client: the client certificate, its key, the CA certificate.  One *)
(* that is missing ends the command.                                       *)
Connect(c) ==
    LET me == cli[c]
    IN  /\ \/ /\ me.at = "identity"
              /\ Step(c, IF Get("clientCert") = None THEN Idle
                         ELSE [me EXCEPT !.leaf = Get("clientCert"), !.at = "identityKey"])
           \/ /\ me.at = "identityKey"
              /\ Step(c, IF Get("clientKey") = None THEN Idle
                         ELSE [me EXCEPT !.key = Get("clientKey"), !.at = "root"])
           \/ /\ me.at = "root"
              /\ Step(c, IF Get("caCert") = None THEN Idle
                         ELSE [me EXCEPT !.ca = Get("caCert"), !.at = "done"])
        /\ NoFault /\ UNCHANGED <<store, legacy, keys, owed>>

(* The command has succeeded. *)
Finish(c) ==
    /\ cli[c].at = "done" /\ Step(c, Idle)
    /\ NoFault /\ UNCHANGED <<store, legacy, keys, owed>>

(* The invocation is killed, or a call fails whose error ends it. *)
Fails(c) ==
    /\ Active(c) /\ Step(c, Idle)
    /\ Fault /\ UNCHANGED <<store, legacy, keys, overlapped, owed>>

(* No key pair can be made, or the name is no DNS name. *)
GenerationFails(c) ==
    /\ cli[c].at \in {"getKey", "leaf"}
    /\ cli[c].at = "getKey" => ~Complete(cli[c].cert, Get("caKey"))
    /\ Step(c, Idle) /\ NoFault /\ UNCHANGED <<store, legacy, keys, owed>>

Next == \E c \in Clis :
    \/ Start(c) \/ Exists(c) \/ DeleteOld(c)
    \/ GetCert(c) \/ GetKey(c) \/ SetCert(c) \/ SetKey(c)
    \/ IssueLeaf(c) \/ StoreLeaf(c)
    \/ Lookup(c) \/ ReadLegacy(c) \/ DeleteLegacy(c) \/ SetMigrated(c)
    \/ Connect(c) \/ Finish(c) \/ Fails(c) \/ GenerationFails(c)

Spec == Init /\ [][Next]_vars

-----------------------------------------------------------------------------
(* Properties. *)

Stages == {"idle", "exists", "deleteCert", "deleteKey", "getCert", "getKey", "setCert", "setKey",
           "leaf", "setClientCert", "setClientKey", "lookup",
           "legacy", "delete", "set", "identity", "identityKey", "root", "done"}

IsCli(me) ==
    /\ me.op \in {"none", "init", "client", "daemon", "migrate", "connect"} /\ me.flag \in BOOLEAN
    /\ me.at \in Stages
    /\ me.cert \in Certs \cup {None} /\ me.key \in Keys \cup {None}
    /\ me.ca \in Certs \cup {None} /\ me.leaf \in Certs \cup {None}
    /\ me.i \in 1 .. Len(Accounts) /\ me.ready \in BOOLEAN /\ me.alone \in BOOLEAN
    /\ me.at \in {"setCert", "setKey", "leaf"} => me.cert # None /\ me.key # None
    /\ me.at \in {"delete", "set"} => me.value # None

(* Types: no entry of another kind under an account's name, and no step    *)
(* works on a CA, a leaf or a legacy value the invocation does not have.   *)
TypeOK ==
    /\ store \in Entries /\ legacy \in Entries
    /\ keys \in 2 .. MaxKeys /\ faults \in 0 .. MaxFaults /\ overlapped \in BOOLEAN
    /\ owed \subseteq {"caCert", "caKey", "clientCert", "clientKey"}
    /\ \A c \in Clis : IsCli(cli[c])

Match(cert, key) == cert # None /\ key # None => cert.key = key

OldCAInUse == store.caCert = Old.caCert \/ store.caKey = Old.caKey

(* The two writes of ensure_ca and of ca migrate, the two deletes of ca    *)
(* init --force: no single failure or kill anywhere leaves a CA            *)
(* certificate next to the key of another CA, unless invocations overlap   *)
(* or ca migrate moves one of the two: it looks at each on its own.        *)
OneFaultKeepsCA ==
    faults <= 1 /\ ~overlapped /\ ~OldCAInUse /\ (\A c \in Clis : cli[c].at # "setKey") =>
        Match(store.caCert, store.caKey)

(* cert issue that reports success, while nobody else wrote: the client    *)
(* entries are the new pair, a daemon's leaf goes out with the certificate *)
(* of the CA, and both are signed with the key that is the CA's.  That     *)
(* certificate verifies the leaf, unless two failures, an overlap or ca    *)
(* migrate put the certificate of one CA next to the key of another: then  *)
(* nothing notices.                                                        *)
IssuedIsConsistent ==
    \A c \in Clis : LET me == cli[c] IN
        me.at = "done" /\ me.alone /\ me.op \in {"client", "daemon"} =>
            /\ me.op = "client" => store.clientCert = me.leaf /\ store.clientKey = me.leaf.key
            /\ me.op = "daemon" => me.ca = store.caCert
            /\ me.leaf.by = store.caKey
            /\ faults <= 1 /\ ~overlapped /\ ~OldCAInUse => me.leaf.by = store.caCert.key

(* A client that could be built from three separate reads has the key of   *)
(* its certificate, after any sequence of issue, re-issue and migration.   *)
IdentityMatches ==
    \A c \in Clis : LET me == cli[c] IN
        me.at = "done" /\ me.op = "connect" /\ faults = 0 /\ ~overlapped => me.leaf.key = me.key

(* The accounts whose legacy value is nowhere any more. *)
Lost == {a \in owed : /\ legacy[a] = None
                      /\ ~\E c \in Clis : cli[c].at = "set" /\ Account(cli[c]) = a}

(* ca migrate deletes the legacy entry before it stores the value.  Each   *)
(* failure or kill costs at most the one credential in hand, and without   *)
(* any nothing is lost, also when migrations and other commands overlap.   *)
LossesAreFailures == Cardinality(Lost) <= faults

(* ca migrate reports the CA as ready only if both entries are there.      *)
ReadyCAIsThere ==
    \A c \in Clis : LET me == cli[c] IN
        me.op = "migrate" /\ me.at = "done" /\ me.ready /\ ~me.flag /\ me.alone =>
            store.caCert # None /\ store.caKey # None

(* A whole CA is replaced by ca init --force only, whatever is issued,     *)
(* migrated or interrupted; and a client certificate only with --force,    *)
(* unless the look at the keyring failed.                                  *)
ReplacedByForceOnly ==
    [][ \A c \in Clis : LET me == cli[c] IN
          cli'[c].at # me.at /\ me.alone /\ ~(me.op = "init" /\ me.flag) =>
            /\ Complete(store.caCert, store.caKey) /\ store.caCert.key = store.caKey =>
                 store'.caCert = store.caCert /\ store'.caKey = store.caKey
            /\ store.clientCert # None /\ ~me.flag /\ faults = 0 =>
                 store'.clientCert = store.clientCert ]_vars
=============================================================================
