------------------------------ MODULE PinFetch ------------------------------
(***************************************************************************)
(* The certificate pin check of the brewmble CLI: node after node, the     *)
(* socket addresses of a node are tried in turn.  A thread of its own does *)
(* the TLS handshake and the main thread waits for it with a timeout; a    *)
(* handshake that outlives its timeout goes on.  All attempts of one fetch *)
(* share the verifier in which a handshake leaves the leaf certificate.    *)
(*                                                                         *)
(* The leaf the server at the i-th address of node n presents is <<n, i>>. *)
(***************************************************************************)
EXTENDS Naturals

CONSTANTS Profile,   \* the nodes of the active profile
          Sockets,   \* bound: addresses a name resolves to
          None, Failed

ASSUME SocketsAssumption == Sockets \in Nat \ {0}
ASSUME NoneAssumption    == None # Failed /\ None \notin Profile
                            /\ {None, Failed} \cap (Profile \X (1 .. Sockets)) = {}

Attempts == Profile \X (1 .. Sockets)

VARIABLES
    todo,      \* the nodes still to be checked
    fetch,     \* the fetch going on: its node, the address tried, its step
    shake,     \* the handshake threads
    leaf,      \* the verifiers: the leaf the last handshake left
    fetched,   \* the outcome per node
    abandoned  \* history: the nodes of which a handshake was abandoned

pinVars == <<todo, fetch, shake, leaf, fetched, abandoned>>

(* nodes: whose pins are to be checked. *)
PinInit(nodes) ==
    /\ todo = nodes /\ fetch = [n |-> None, i |-> 1, at |-> "next"]
    /\ shake = [a \in Attempts |-> "none"] /\ leaf = [n \in Profile |-> None]
    /\ fetched = [n \in Profile |-> None] /\ abandoned = {}

-----------------------------------------------------------------------------
PinsOver == todo = {} /\ fetch.at = "next"

Attempt == <<fetch.n, fetch.i>>

(* MUTANT of Verifier: one for all nodes. *)
VerifierOfAll(n) == CHOOSE m \in Profile : TRUE

(* Every fetch has a verifier of its own. *)
Verifier(n) == n

(* The fetch is over. *)
Outcome(n, result) ==
    /\ fetched' = [fetched EXCEPT ![n] = result]
    /\ fetch' = [n |-> None, i |-> 1, at |-> "next"]

(* MUTANT of NextAddress: one address too many. *)
NextAddressPastEnd ==
    IF fetch.i <= Sockets
    THEN fetch' = [fetch EXCEPT !.i = @ + 1, !.at = "connect"] /\ UNCHANGED fetched
    ELSE Outcome(fetch.n, Failed)

(* The next address, or the error of the last one. *)
NextAddress ==
    IF fetch.i < Sockets
    THEN fetch' = [fetch EXCEPT !.i = @ + 1, !.at = "connect"] /\ UNCHANGED fetched
    ELSE Outcome(fetch.n, Failed)

(* The next node; without the CA, the client certificate or an address for *)
(* the node's name its check has failed.                                   *)
BeginFetch ==
    /\ fetch.at = "next"
    /\ \E n \in todo :
          /\ todo' = todo \ {n}
          /\ \/ fetch' = [n |-> n, i |-> 1, at |-> "connect"] /\ UNCHANGED fetched
             \/ Outcome(n, Failed)
    /\ UNCHANGED <<shake, leaf, abandoned>>

(* connect_timeout, then the handshake thread is spawned. *)
Connect ==
    /\ fetch.at = "connect"
    /\ \/ /\ shake' = [shake EXCEPT ![Attempt] = "running"]
          /\ fetch' = [fetch EXCEPT !.at = "wait"] /\ UNCHANGED fetched
       \/ NextAddress /\ UNCHANGED shake
    /\ UNCHANGED <<todo, leaf, abandoned>>

(* verify_server_cert accepts the leaf and keeps it. *)
Capture(a) == leaf' = [leaf EXCEPT ![Verifier(a[1])] = a]

(* A handshake thread: the certificate is verified and left in the         *)
(* verifier, the request is answered; or either fails.  Nobody sees what   *)
(* it does when the pin checks are over.                                   *)
Handshake(a) ==
    /\ ~PinsOver
    /\ \/ /\ shake[a] = "running"
          /\ \/ shake' = [shake EXCEPT ![a] = "captured"] /\ Capture(a)
             \/ shake' = [shake EXCEPT ![a] = "error"] /\ UNCHANGED leaf
       \/ /\ shake[a] = "captured" /\ UNCHANGED leaf
          /\ \E result \in {"ok", "error"} : shake' = [shake EXCEPT ![a] = result]
    /\ UNCHANGED <<todo, fetch, fetched, abandoned>>

(* The result of the attempt, and with it the leaf. *)
Receive ==
    /\ fetch.at = "wait"
    /\ \/ /\ shake[Attempt] = "ok"
          /\ Outcome(fetch.n, leaf[Verifier(fetch.n)])
          /\ leaf' = [leaf EXCEPT ![Verifier(fetch.n)] = None]
       \/ shake[Attempt] = "error" /\ NextAddress /\ UNCHANGED leaf
    /\ UNCHANGED <<todo, shake, abandoned>>

(* recv_timeout gives up; the thread goes on. *)
TimesOut ==
    /\ fetch.at = "wait" /\ NextAddress
    /\ abandoned' = abandoned \cup {fetch.n}
    /\ UNCHANGED <<todo, shake, leaf>>

(* The pin checks are over; handshakes still going on have nobody to leave *)
(* a leaf for.                                                             *)
ForgetFetches ==
    /\ PinsOver
    /\ shake' = [a \in Attempts |-> "none"] /\ leaf' = [n \in Profile |-> None]
    /\ fetched' = [n \in Profile |-> None] /\ abandoned' = {}
    /\ UNCHANGED <<todo, fetch>>

FetchStep == BeginFetch \/ Connect \/ Receive \/ TimesOut

PinNext == FetchStep \/ \E a \in Attempts : Handshake(a)

-----------------------------------------------------------------------------
(* Properties. *)

(* Types; and a handshake that succeeded has left a leaf: "no leaf         *)
(* certificate captured" cannot be, although attempts share the verifier.  *)
PinTypeOK ==
    /\ todo \subseteq Profile
    /\ fetch \in [n : Profile \cup {None}, i : 1 .. Sockets, at : {"next", "connect", "wait"}]
    /\ fetch.n = None <=> fetch.at = "next"
    /\ shake \in [Attempts -> {"none", "running", "captured", "ok", "error"}]
    /\ leaf \in [Profile -> Attempts \cup {None}]
    /\ fetch.at = "wait" /\ shake[Attempt] = "ok" => leaf[Verifier(fetch.n)] # None
    /\ fetched \in [Profile -> Attempts \cup {None, Failed}] /\ abandoned \subseteq Profile

(* fetch_fingerprint: a fingerprint that is learned for a node, or compared *)
(* with its pin, is of a certificate verified for that node in this fetch, *)
(* whatever handshakes were abandoned and when they come to their end; and *)
(* unless one was, the server that presented it has answered.              *)
PinOfThisNode ==
    \A n \in Profile : fetched[n] \in Attempts =>
        /\ fetched[n][1] = n
        /\ n \notin abandoned => shake[fetched[n]] = "ok"
=============================================================================
