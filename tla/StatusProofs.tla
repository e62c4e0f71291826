---------------------------- MODULE StatusProofs ----------------------------
(***************************************************************************)
(* What holds of every brewmble status, for any profile and number of      *)
(* addresses, workers and handshakes, however long these take.             *)
(***************************************************************************)
EXTENDS StatusFanout, TLAPS

States == {"none", "running", "captured", "ok", "error"}

(* Where each fetch is, and which threads there can be.                    *)
PinTypes ==
    /\ todo \subseteq Profile
    /\ fetch \in [n : Profile \cup {None}, i : 1 .. Sockets, at : {"next", "connect", "wait"}]
    /\ fetch.n = None <=> fetch.at = "next"
    /\ shake \in [Attempts -> States]
    /\ leaf \in [Profile -> Attempts \cup {None}]
    /\ fetched \in [Profile -> Attempts \cup {None, Failed}] /\ abandoned \subseteq Profile

(* No leaf is of another node.  A node still to be checked has no thread   *)
(* and no outcome; a node that is being checked has no outcome.            *)
FetchInv ==
    /\ \A n \in Profile : leaf[n] # None => leaf[n][1] = n
    /\ \A n \in todo : /\ n # fetch.n /\ fetched[n] = None
                       /\ \A j \in 1 .. Sockets : shake[<<n, j>>] = "none"
    /\ fetch.n # None => fetched[fetch.n] = None

(* A handshake that has verified its certificate has left it, and if none  *)
(* was abandoned it alone can have.                                        *)
ShakeInv ==
    fetch.n # None =>
        \A j \in 1 .. Sockets :
            /\ shake[<<fetch.n, j>>] \in {"captured", "ok"} => leaf[fetch.n] # None
            /\ fetch.n \notin abandoned =>
                 /\ j < fetch.i => shake[<<fetch.n, j>>] \in {"none", "error"}
                 /\ j > fetch.i => shake[<<fetch.n, j>>] = "none"
                 /\ j = fetch.i /\ fetch.at = "connect" => shake[<<fetch.n, j>>] = "none"
                 /\ shake[<<fetch.n, j>>] \in {"captured", "ok"} => leaf[fetch.n] = <<fetch.n, j>>

PinInv == PinTypes /\ FetchInv /\ ShakeInv /\ PinOfThisNode

Free == [n |-> None, i |-> 1, at |-> "next"]

LEMMA Constants == /\ Sockets \in Nat \ {0} /\ 1 \in 1 .. Sockets
                   /\ None \notin Attempts /\ Failed \notin Attempts /\ None # Failed /\ None \notin Profile
BY SocketsAssumption, NoneAssumption DEF Attempts

LEMMA AttemptOf == ASSUME NEW n \in Profile, NEW j \in 1 .. Sockets
                   PROVE  <<n, j>> \in Attempts /\ <<n, j>>[1] = n
BY DEF Attempts

LEMMA PartsOf == ASSUME NEW a \in Attempts
                 PROVE  a[1] \in Profile /\ a[2] \in 1 .. Sockets /\ a = <<a[1], a[2]>>
BY DEF Attempts

LEMMA PinInitial == ASSUME NEW nodes, nodes \subseteq Profile, PinInit(nodes)
                    PROVE  PinInv
<1>1. /\ todo = nodes /\ fetch = [n |-> None, i |-> 1, at |-> "next"]
      /\ shake = [a \in Attempts |-> "none"] /\ leaf = [n \in Profile |-> None]
      /\ fetched = [n \in Profile |-> None] /\ abandoned = {}
  BY DEF PinInit
<1>2. PinTypes
  BY <1>1, Constants DEF PinTypes, States
<1>3. FetchInv /\ ShakeInv
  BY <1>1, Constants, AttemptOf DEF FetchInv, ShakeInv
<1>4. PinOfThisNode
  BY <1>1, Constants DEF PinOfThisNode
<1> QED BY <1>2, <1>3, <1>4 DEF PinInv

(* The fetch goes on with another address, or is over. *)
LEMMA AfterAttempt ==
  ASSUME PinInv, fetch.n # None, NextAddress, shake' = shake, leaf' = leaf, todo' = todo,
         \/ abandoned' = abandoned /\ shake[Attempt] \in {"none", "error"}
         \/ abandoned' = abandoned \cup {fetch.n}
  PROVE  PinInv'
<1> DEFINE n == fetch.n
<1>0. /\ n \in Profile /\ fetch.i \in 1 .. Sockets
      /\ fetch \in [n : Profile \cup {None}, i : 1 .. Sockets, at : {"next", "connect", "wait"}]
      /\ PinTypes /\ FetchInv /\ ShakeInv /\ PinOfThisNode
  BY DEF PinInv, PinTypes
<1>1. CASE fetch.i < Sockets
  <2>1. fetch' = [fetch EXCEPT !.i = @ + 1, !.at = "connect"] /\ fetched' = fetched
    BY <1>1 DEF NextAddress
  <2>2. fetch'.n = n /\ fetch'.i = fetch.i + 1 /\ fetch'.at = "connect" /\ fetch.i + 1 \in 1 .. Sockets
    BY <1>0, <1>1, <2>1, Constants
  <2>3. PinTypes'
    BY <1>0, <2>1, <2>2 DEF PinTypes
  <2>4. FetchInv'
    BY <1>0, <2>1, <2>2 DEF FetchInv
  <2>5. PinOfThisNode'
    BY <1>0, <2>1 DEF PinOfThisNode
  <2>6. ASSUME NEW j \in 1 .. Sockets, n \notin abandoned'
        PROVE  /\ j < fetch.i + 1 => shake[<<n, j>>] \in {"none", "error"}
               /\ j > fetch.i => shake[<<n, j>>] = "none"
    <3>1. n \notin abandoned /\ shake[<<n, fetch.i>>] \in {"none", "error"}
      BY <2>6 DEF Attempt
    <3>2. j < fetch.i + 1 => j < fetch.i \/ j = fetch.i
      BY <1>0
    <3> QED BY <1>0, <3>1, <3>2 DEF ShakeInv
  <2>7. ASSUME NEW j \in 1 .. Sockets
        PROVE  j < fetch.i + 1 \/ j > fetch.i + 1 \/ j = fetch.i + 1
    BY <1>0
  <2>8. ShakeInv'
    <3>1. ASSUME NEW j \in 1 .. Sockets
          PROVE  shake[<<n, j>>] \in {"captured", "ok"} => leaf[n] # None
      BY <1>0 DEF ShakeInv
    <3>2. ASSUME NEW j \in 1 .. Sockets, n \notin abandoned'
          PROVE  shake[<<n, j>>] \notin {"captured", "ok"}
      BY <1>0, <2>6, <3>2
    <3>3. \A j \in 1 .. Sockets : j > fetch.i + 1 => j > fetch.i
      BY <1>0
    <3>4. \A j \in 1 .. Sockets : j = fetch.i + 1 => j > fetch.i
      BY <1>0
    <3> QED BY <1>0, <2>2, <2>6, <3>1, <3>2, <3>3, <3>4 DEF ShakeInv
  <2> QED BY <2>3, <2>4, <2>5, <2>8 DEF PinInv
<1>2. CASE ~(fetch.i < Sockets)
  <2>1. fetch' = Free /\ fetched' = [fetched EXCEPT ![n] = Failed]
    BY <1>2 DEF NextAddress, Outcome, Free
  <2>2. fetch'.n = None /\ fetch'.at = "next"
    BY <2>1 DEF Free
  <2>3. PinTypes'
    BY <1>0, <2>1, <2>2, Constants DEF PinTypes, Free
  <2>4. FetchInv'
    BY <1>0, <2>1, <2>2, Constants DEF FetchInv, PinTypes
  <2>5. ShakeInv'
    BY <2>2 DEF ShakeInv
  <2>6. PinOfThisNode'
    BY <1>0, <2>1, Constants DEF PinOfThisNode, PinTypes
  <2> QED BY <2>3, <2>4, <2>5, <2>6 DEF PinInv
<1> QED BY <1>1, <1>2

(* A handshake thread leaves its leaf with the node it is for. *)
LEMMA AfterHandshake ==
  ASSUME PinInv, NEW a \in Attempts, Handshake(a)
  PROVE  PinInv'
<1>0. /\ PinTypes /\ FetchInv /\ ShakeInv /\ PinOfThisNode
      /\ UNCHANGED <<todo, fetch, fetched, abandoned>>
      /\ shake[a] \in {"running", "captured"} /\ shake[a] # "none" /\ shake[a] # "ok"
  BY DEF PinInv, Handshake
<1>1. PICK s \in States \ {"none", "running"} : shake' = [shake EXCEPT ![a] = s]
  BY DEF Handshake, States
<1>2. \/ leaf' = leaf /\ (s = "error" \/ shake[a] = "captured")
      \/ leaf' = [leaf EXCEPT ![a[1]] = a] /\ s = "captured"
  BY <1>0, <1>1 DEF Handshake, Capture, Verifier, PinTypes
<1>3. a[1] \in Profile /\ a[2] \in 1 .. Sockets /\ a = <<a[1], a[2]>>
  BY PartsOf
<1>4. a[1] \notin todo
  BY <1>0, <1>3 DEF FetchInv
<1>5. PinTypes'
  BY <1>0, <1>1, <1>2, <1>3 DEF PinTypes
<1>6. FetchInv'
  <2>1. \A n \in Profile : leaf'[n] # None => leaf'[n][1] = n
    BY <1>0, <1>2, <1>3 DEF FetchInv, PinTypes
  <2>2. ASSUME NEW n \in todo, NEW j \in 1 .. Sockets
        PROVE  shake'[<<n, j>>] = shake[<<n, j>>]
    <3>1. <<n, j>> # a /\ <<n, j>> \in Attempts
      BY <1>0, <1>3, <1>4, AttemptOf DEF PinTypes
    <3> QED BY <1>0, <1>1, <3>1 DEF PinTypes
  <2> QED BY <1>0, <2>1, <2>2 DEF FetchInv
<1>7. ShakeInv'
  <2> SUFFICES ASSUME fetch.n # None, NEW j \in 1 .. Sockets
               PROVE  /\ shake'[<<fetch.n, j>>] \in {"captured", "ok"} => leaf'[fetch.n] # None
                      /\ fetch.n \notin abandoned =>
                           /\ j < fetch.i => shake'[<<fetch.n, j>>] \in {"none", "error"}
                           /\ j > fetch.i => shake'[<<fetch.n, j>>] = "none"
                           /\ j = fetch.i /\ fetch.at = "connect" => shake'[<<fetch.n, j>>] = "none"
                           /\ shake'[<<fetch.n, j>>] \in {"captured", "ok"}
                                => leaf'[fetch.n] = <<fetch.n, j>>
    BY <1>0, Zenon DEF ShakeInv
  <2>0. fetch.n \in Profile /\ <<fetch.n, j>> \in Attempts
    BY <1>0, AttemptOf DEF PinTypes
  <2>1. CASE a[1] # fetch.n
    <3>1. shake'[<<fetch.n, j>>] = shake[<<fetch.n, j>>] /\ leaf'[fetch.n] = leaf[fetch.n]
      <4>1. a # <<fetch.n, j>>
        BY <1>3, <2>1
      <4> QED BY <1>0, <1>1, <1>2, <1>3, <2>0, <2>1, <4>1 DEF PinTypes
    <3> QED BY <1>0, <3>1 DEF ShakeInv
  <2>2. CASE a[1] = fetch.n
    <3>1. a = <<fetch.n, a[2]>>
      BY <1>3, <2>2
    <3>2. /\ shake[a] = "captured" => leaf[fetch.n] # None
          /\ shake[<<fetch.n, j>>] \in {"captured", "ok"} => leaf[fetch.n] # None
      BY <1>0, <1>3, <3>1 DEF ShakeInv
    <3>3. leaf[fetch.n] # None => leaf'[fetch.n] # None
      BY <1>0, <1>2, <2>2, <2>0, Constants DEF PinTypes
    <3>4. shake'[<<fetch.n, j>>] \in {"captured", "ok"} => leaf'[fetch.n] # None
      <4>1. CASE a = <<fetch.n, j>>
        BY <1>0, <1>1, <1>2, <2>0, <2>2, <3>2, <4>1, Constants DEF PinTypes
      <4>2. CASE a # <<fetch.n, j>>
        BY <1>0, <1>1, <2>0, <3>2, <3>3, <4>2 DEF PinTypes
      <4> QED BY <4>1, <4>2
    <3>5. ASSUME fetch.n \notin abandoned
          PROVE  a[2] = fetch.i /\ fetch.at # "connect"
                 /\ (shake[a] = "captured" => leaf[fetch.n] = a)
      <4>1. /\ ~(a[2] < fetch.i) /\ ~(a[2] > fetch.i)
            /\ ~(a[2] = fetch.i /\ fetch.at = "connect")
            /\ shake[a] = "captured" => leaf[fetch.n] = a
        BY <1>0, <1>3, <3>1, <3>5 DEF ShakeInv
      <4>2. fetch.i \in Nat /\ a[2] \in Nat
        BY <1>0, <1>3 DEF PinTypes
      <4> QED BY <4>1, <4>2
    <3>6. CASE j # a[2]
      <4>1. shake'[<<fetch.n, j>>] = shake[<<fetch.n, j>>]
        BY <1>0, <1>1, <2>0, <3>1, <3>6 DEF PinTypes
      <4>2. fetch.n \notin abandoned => shake[<<fetch.n, j>>] \in {"none", "error"}
        <5>1. fetch.n \notin abandoned => j < fetch.i \/ j > fetch.i
          <6>1. fetch.i \in Nat /\ j \in Nat
            BY <1>0 DEF PinTypes
          <6> QED BY <3>5, <3>6, <6>1
        <5> QED BY <1>0, <5>1 DEF ShakeInv
      <4> QED BY <1>0, <3>4, <4>1, <4>2 DEF ShakeInv
    <3>7. CASE j = a[2]
      <4>1. ASSUME fetch.n \notin abandoned, shake'[<<fetch.n, j>>] \in {"captured", "ok"}
            PROVE  leaf'[fetch.n] = <<fetch.n, j>>
        <5>1. s # "error"
          BY <1>0, <1>1, <2>0, <3>1, <3>7, <4>1 DEF PinTypes
        <5> QED BY <1>0, <1>2, <2>0, <2>2, <3>1, <3>5, <3>7, <4>1, <5>1 DEF PinTypes
      <4>2. fetch.n \notin abandoned => ~(j < fetch.i) /\ ~(j > fetch.i) /\ fetch.at # "connect"
        <5>1. j \in Nat
          OBVIOUS
        <5> QED BY <3>5, <3>7, <5>1
      <4> QED BY <3>4, <4>1, <4>2
    <3> QED BY <3>6, <3>7
  <2> QED BY <2>1, <2>2
<1>8. PinOfThisNode'
  BY <1>0, <1>1 DEF PinOfThisNode, PinTypes
<1> QED BY <1>5, <1>6, <1>7, <1>8 DEF PinInv

(* Every step of a fetch. *)
LEMMA PinInductive == PinInv /\ (FetchStep \/ \E a \in Attempts : Handshake(a)) => PinInv'
<1> SUFFICES ASSUME PinInv, FetchStep \/ \E a \in Attempts : Handshake(a)
             PROVE  PinInv'
  OBVIOUS
<1>0. PinTypes /\ FetchInv /\ ShakeInv /\ PinOfThisNode
  BY DEF PinInv
<1>1. CASE BeginFetch
  <2>1. PICK n \in todo :
          /\ todo' = todo \ {n}
          /\ \/ fetch' = [n |-> n, i |-> 1, at |-> "connect"] /\ fetched' = fetched
             \/ fetch' = Free /\ fetched' = [fetched EXCEPT ![n] = Failed]
    BY <1>1 DEF BeginFetch, Outcome, Free
  <2>2. /\ UNCHANGED <<shake, leaf, abandoned>> /\ n \in Profile /\ n # None /\ fetch.n = None
        /\ fetched[n] = None /\ \A j \in 1 .. Sockets : shake[<<n, j>>] = "none"
    BY <1>0, <1>1, Constants DEF BeginFetch, PinTypes, FetchInv
  <2>3. CASE fetch' = [n |-> n, i |-> 1, at |-> "connect"] /\ fetched' = fetched
    <3>1. fetch'.n = n /\ fetch'.i = 1 /\ fetch'.at = "connect"
      BY <2>3
    <3>2. PinTypes'
      BY <1>0, <2>1, <2>2, <2>3, Constants DEF PinTypes
    <3>3. FetchInv'
      BY <1>0, <2>1, <2>2, <2>3, <3>1 DEF FetchInv
    <3>4. ShakeInv'
      BY <2>2, <3>1 DEF ShakeInv
    <3>5. PinOfThisNode'
      BY <1>0, <2>2, <2>3 DEF PinOfThisNode
    <3> QED BY <3>2, <3>3, <3>4, <3>5 DEF PinInv
  <2>4. CASE fetch' = Free /\ fetched' = [fetched EXCEPT ![n] = Failed]
    <3>1. fetch'.n = None /\ fetch'.at = "next"
      BY <2>4 DEF Free
    <3>2. PinTypes'
      BY <1>0, <2>1, <2>2, <2>4, <3>1, Constants DEF PinTypes, Free
    <3>3. FetchInv'
      BY <1>0, <2>1, <2>2, <2>4, <3>1, Constants DEF FetchInv, PinTypes
    <3>4. ShakeInv'
      BY <3>1 DEF ShakeInv
    <3>5. PinOfThisNode'
      BY <1>0, <2>2, <2>4, Constants DEF PinOfThisNode, PinTypes
    <3> QED BY <3>2, <3>3, <3>4, <3>5 DEF PinInv
  <2> QED BY <2>1, <2>3, <2>4
<1>2. CASE Connect
  <2>0. /\ fetch.at = "connect" /\ fetch.n # None /\ fetch.n \in Profile /\ fetch.i \in 1 .. Sockets
        /\ UNCHANGED <<todo, leaf, abandoned>> /\ Attempt \in Attempts /\ Attempt = <<fetch.n, fetch.i>>
    BY <1>0, <1>2 DEF Connect, PinTypes, Attempt, Attempts
  <2>1. CASE NextAddress /\ shake' = shake
    <3>1. CASE fetch.n \in abandoned
      BY <2>0, <2>1, <3>1, AfterAttempt
    <3>2. CASE fetch.n \notin abandoned
      <4>1. shake[Attempt] = "none"
        BY <1>0, <2>0, <3>2 DEF ShakeInv
      <4> QED BY <2>0, <2>1, <4>1, AfterAttempt
    <3> QED BY <3>1, <3>2
  <2>2. CASE /\ shake' = [shake EXCEPT ![Attempt] = "running"]
             /\ fetch' = [fetch EXCEPT !.at = "wait"] /\ fetched' = fetched
    <3>1. fetch'.n = fetch.n /\ fetch'.i = fetch.i /\ fetch'.at = "wait"
      BY <1>0, <2>2 DEF PinTypes
    <3>2. PinTypes'
      BY <1>0, <2>0, <2>2, <3>1 DEF PinTypes, States
    <3>3. FetchInv'
      <4>1. ASSUME NEW n \in todo, NEW j \in 1 .. Sockets
            PROVE  shake'[<<n, j>>] = shake[<<n, j>>]
        <5>1. <<n, j>> # Attempt /\ <<n, j>> \in Attempts
          BY <1>0, <2>0, AttemptOf DEF PinTypes, FetchInv
        <5> QED BY <1>0, <2>2, <5>1 DEF PinTypes
      <4> QED BY <1>0, <2>0, <2>2, <3>1, <4>1 DEF FetchInv
    <3>4. ShakeInv'
      <4>1. ASSUME NEW j \in 1 .. Sockets
            PROVE  IF j = fetch.i THEN shake'[<<fetch.n, j>>] = "running"
                                  ELSE shake'[<<fetch.n, j>>] = shake[<<fetch.n, j>>]
        <5>1. <<fetch.n, j>> \in Attempts /\ (j # fetch.i => <<fetch.n, j>> # Attempt)
          BY <2>0, AttemptOf
        <5> QED BY <1>0, <2>0, <2>2, <5>1 DEF PinTypes
      <4>2. \A j \in 1 .. Sockets : ~(j = fetch.i /\ j < fetch.i) /\ ~(j = fetch.i /\ j > fetch.i)
        BY <2>0
      <4> QED BY <1>0, <2>0, <3>1, <4>1, <4>2 DEF ShakeInv
    <3>5. PinOfThisNode'
      <4> SUFFICES ASSUME NEW n \in Profile, fetched[n] \in Attempts
                   PROVE  fetched[n][1] = n /\ (n \notin abandoned => shake'[fetched[n]] = "ok")
        BY <2>0, <2>2 DEF PinOfThisNode
      <4>1. fetched[n][1] = n /\ n # fetch.n /\ (n \notin abandoned => shake[fetched[n]] = "ok")
        BY <1>0, <2>0, Constants DEF PinOfThisNode, FetchInv
      <4>2. fetched[n] # Attempt
        BY <2>0, <4>1
      <4> QED BY <1>0, <2>2, <4>1, <4>2 DEF PinTypes
    <3> QED BY <3>2, <3>3, <3>4, <3>5 DEF PinInv
  <2> QED BY <1>2, <2>1, <2>2 DEF Connect
<1>3. CASE Receive
  <2>0. /\ fetch.at = "wait" /\ fetch.n # None /\ fetch.n \in Profile /\ fetch.i \in 1 .. Sockets
        /\ UNCHANGED <<todo, shake, abandoned>> /\ Attempt \in Attempts /\ Attempt = <<fetch.n, fetch.i>>
    BY <1>0, <1>3 DEF Receive, PinTypes, Attempt, Attempts
  <2>1. CASE shake[Attempt] = "error" /\ NextAddress /\ leaf' = leaf
    BY <2>0, <2>1, AfterAttempt
  <2>2. CASE /\ shake[Attempt] = "ok"
             /\ fetched' = [fetched EXCEPT ![fetch.n] = leaf[fetch.n]] /\ fetch' = Free
             /\ leaf' = [leaf EXCEPT ![fetch.n] = None]
    <3>1. fetch'.n = None /\ fetch'.at = "next"
      BY <2>2 DEF Free
    <3>2. /\ leaf[fetch.n] \in Attempts /\ leaf[fetch.n][1] = fetch.n
          /\ fetch.n \notin abandoned => leaf[fetch.n] = Attempt
      BY <1>0, <2>0, <2>2 DEF ShakeInv, FetchInv, PinTypes
    <3>3. PinTypes'
      BY <1>0, <2>0, <2>2, <3>1, <3>2, Constants DEF PinTypes, Free
    <3>4. FetchInv'
      BY <1>0, <2>0, <2>2, <3>1, Constants DEF FetchInv, PinTypes
    <3>5. ShakeInv'
      BY <3>1 DEF ShakeInv
    <3>6. PinOfThisNode'
      BY <1>0, <2>0, <2>2, <3>2 DEF PinOfThisNode, PinTypes
    <3> QED BY <3>3, <3>4, <3>5, <3>6 DEF PinInv
  <2> QED BY <1>3, <2>1, <2>2 DEF Receive, Outcome, Verifier, Free
<1>4. CASE TimesOut
  <2>1. fetch.n # None
    BY <1>0, <1>4 DEF TimesOut, PinTypes
  <2> QED BY <1>4, <2>1, AfterAttempt DEF TimesOut
<1>5. CASE \E a \in Attempts : Handshake(a)
  BY <1>5, AfterHandshake
<1> QED BY <1>1, <1>2, <1>3, <1>4, <1>5 DEF FetchStep

(* The pin checks are over. *)
LEMMA ForgetKeeps == PinInv /\ ForgetFetches => PinInv'
<1> SUFFICES ASSUME PinInv, ForgetFetches PROVE PinInv'
  OBVIOUS
<1>0. PinTypes /\ todo = {} /\ fetch.at = "next" /\ fetch.n = None
  BY DEF PinInv, ForgetFetches, PinsOver, PinTypes
<1>1. /\ todo' = todo /\ fetch' = fetch /\ abandoned' = {}
      /\ shake' = [a \in Attempts |-> "none"] /\ leaf' = [n \in Profile |-> None]
      /\ fetched' = [n \in Profile |-> None]
  BY DEF ForgetFetches
<1>2. PinTypes'
  BY <1>0, <1>1 DEF PinTypes, States
<1>3. FetchInv' /\ ShakeInv' /\ PinOfThisNode'
  BY <1>0, <1>1, Constants DEF FetchInv, ShakeInv, PinOfThisNode
<1> QED BY <1>2, <1>3 DEF PinInv
-----------------------------------------------------------------------------
(* The requests. *)

JobStates == {"none", "sent", "queued", "asking", "asked", "skipped"}

StatusTypes ==
    /\ workers \in 1 .. MaxWorkers /\ all \in BOOLEAN /\ given \subseteq Addresses
    /\ main \in {"pins", "spawn", "drop", "client", "loop", "join", "done", "failed"}
    /\ browser \in {"none", "browsing", "ended"} /\ senders \subseteq {"main", "browser"}
    /\ checked \subseteq Profile /\ seen \subseteq Addresses
    /\ jobs \in [Targets -> JobStates]
    /\ reports \subseteq [addr : Addresses, outcome : Outcomes] /\ anyFailed \in BOOLEAN

(* An address is seen when a job that asks it has begun; a job is skipped  *)
(* if its address was seen.                                                *)
SeenInv ==
    /\ AskedOnce
    /\ \A t \in Targets : Asked(t) \/ jobs[t] = "skipped" => t.addr \in seen
    /\ \A a \in seen : \E t \in Targets : Asked(t) /\ t.addr = a

(* There is one report for every job that has asked, and no other. *)
ReportInv ==
    /\ \A r \in reports : \E t \in Targets : jobs[t] = "asked" /\ t.addr = r.addr
    /\ \A t \in Targets : jobs[t] = "asked" => \E r \in reports : r.addr = t.addr
    /\ \A q, r \in reports : q.addr = r.addr => q = r
    /\ anyFailed <=> \E r \in reports : r.outcome = "failed"

(* What can be in the channel and in the pool, step by step of main. *)
PhaseInv ==
    /\ main = "pins" => \A t \in Targets : jobs[t] = "none"
    /\ main \in {"pins", "spawn"} => browser = "none"
    /\ browser = "browsing" => all /\ "browser" \in senders
    /\ \A t \in Targets : jobs[t] # "none" =>
          (t.from = "given" => t.addr \in given) /\ (t.from = "found" => all)
    /\ main \notin {"pins", "failed"} =>
          \A t \in Targets : t.from = "given" /\ t.addr \in given => jobs[t] # "none"
    /\ main \in {"join", "done"} => senders = {} /\ \A t \in Targets : jobs[t] # "sent"
    /\ main = "done" => \A t \in Targets : jobs[t] \notin {"queued", "asking"}

(* Every node of the profile that was given is going to be checked, or was.*)
CheckInv ==
    /\ main = "pins" => \A n \in Profile \cap given : n \in todo \/ n = fetch.n \/ fetched[n] # None
    /\ main # "pins" => Profile \cap given \subseteq checked

(* What is known of a step that begins and ends no request. *)
LEMMA NobodyAsks ==
  ASSUME StatusTypes, SeenInv, ReportInv, jobs' \in [Targets -> JobStates],
         UNCHANGED <<seen, reports, anyFailed>>,
         \A t \in Targets : jobs'[t] = jobs[t] \/ {jobs[t], jobs'[t]} \subseteq {"none", "sent", "queued"}
  PROVE  SeenInv' /\ ReportInv'
<1>1. \A t \in Targets : /\ jobs'[t] \in {"asking", "asked"} <=> jobs[t] \in {"asking", "asked"}
                         /\ jobs'[t] = "asked" <=> jobs[t] = "asked"
                         /\ jobs'[t] = "skipped" <=> jobs[t] = "skipped"
  OBVIOUS
<1>2. SeenInv'
  BY <1>1 DEF SeenInv, AskedOnce, Asked
<1>3. ReportInv'
  BY <1>1 DEF ReportInv
<1> QED BY <1>2, <1>3

(* A job begins: it asks, or its address was seen. *)
LEMMA JobStarts ==
  ASSUME StatusTypes, SeenInv, ReportInv, NEW t \in Targets, StartJob(t)
  PROVE  SeenInv' /\ ReportInv'
<1>0. /\ jobs[t] = "queued" /\ seen' = seen \cup {t.addr} /\ UNCHANGED <<reports, anyFailed>>
      /\ jobs' = [jobs EXCEPT ![t] = IF t.addr \in seen THEN "skipped" ELSE "asking"]
      /\ jobs \in [Targets -> JobStates]
  BY DEF StartJob, StatusTypes
<1>1. \A u \in Targets \ {t} : jobs'[u] = jobs[u]
  BY <1>0
<1>2. jobs'[t] = IF t.addr \in seen THEN "skipped" ELSE "asking"
  BY <1>0
<1>3. SeenInv'
  <2>1. AskedOnce'
    <3> SUFFICES ASSUME NEW u \in Targets, NEW v \in Targets, Asked(u)', Asked(v)', u.addr = v.addr
                 PROVE  u = v
      BY DEF AskedOnce
    <3>1. ASSUME NEW w \in Targets, Asked(w)'
          PROVE  (w = t /\ t.addr \notin seen) \/ (w # t /\ Asked(w) /\ w.addr \in seen)
      <4>1. CASE w = t
        BY <1>2, <3>1, <4>1 DEF Asked
      <4>2. CASE w # t
        BY <1>1, <3>1, <4>2 DEF Asked, SeenInv
      <4> QED BY <4>1, <4>2
    <3> QED BY <3>1 DEF SeenInv, AskedOnce
  <2>2. \A u \in Targets : Asked(u)' \/ jobs'[u] = "skipped" => u.addr \in seen'
    BY <1>0, <1>1, <1>2 DEF SeenInv, Asked
  <2>3. ASSUME NEW a \in seen'
        PROVE  \E u \in Targets : Asked(u)' /\ u.addr = a
    <3>1. CASE a \in seen
      <4>1. PICK u \in Targets : Asked(u) /\ u.addr = a
        BY <3>1 DEF SeenInv
      <4>2. u # t
        BY <1>0, <4>1 DEF Asked
      <4> QED BY <1>1, <4>1, <4>2 DEF Asked
    <3>2. CASE a \notin seen
      <4>1. a = t.addr /\ Asked(t)'
        BY <1>0, <1>2, <3>2 DEF Asked
      <4> QED BY <4>1
    <3> QED BY <3>1, <3>2
  <2> QED BY <2>1, <2>2, <2>3 DEF SeenInv
<1>4. ReportInv'
  <2>1. \A u \in Targets : jobs'[u] = "asked" <=> jobs[u] = "asked"
    BY <1>0, <1>1, <1>2
  <2> QED BY <1>0, <2>1 DEF ReportInv
<1> QED BY <1>3, <1>4

(* A request is over. *)
LEMMA JobEnds ==
  ASSUME StatusTypes, SeenInv, ReportInv, NEW t \in Targets, EndJob(t)
  PROVE  SeenInv' /\ ReportInv'
<1>0. /\ jobs[t] = "asking" /\ seen' = seen /\ jobs' = [jobs EXCEPT ![t] = "asked"]
      /\ jobs \in [Targets -> JobStates]
  BY DEF EndJob, StatusTypes
<1>1. PICK outcome \in Outcomes : /\ reports' = reports \cup {[addr |-> t.addr, outcome |-> outcome]}
                                  /\ anyFailed' = (anyFailed \/ outcome = "failed")
  BY DEF EndJob
<1>2. jobs'[t] = "asked" /\ \A u \in Targets \ {t} : jobs'[u] = jobs[u]
  BY <1>0
<1>3. SeenInv'
  <2>1. \A u \in Targets : Asked(u)' <=> Asked(u)
    BY <1>0, <1>2 DEF Asked
  <2>2. \A u \in Targets : jobs'[u] = "skipped" <=> jobs[u] = "skipped"
    BY <1>0, <1>2
  <2> QED BY <1>0, <2>1, <2>2 DEF SeenInv, AskedOnce
<1>4. ReportInv'
  <2> DEFINE new == [addr |-> t.addr, outcome |-> outcome]
  <2>1. \A r \in reports' : r \in reports \/ r = new
    BY <1>1
  <2>2. \A r \in reports' : \E u \in Targets : jobs'[u] = "asked" /\ u.addr = r.addr
    <3>1. new.addr = t.addr
      OBVIOUS
    <3>2. \A u \in Targets : jobs[u] = "asked" => jobs'[u] = "asked"
      BY <1>2
    <3> QED BY <1>2, <2>1, <3>1, <3>2 DEF ReportInv
  <2>3. \A u \in Targets : jobs'[u] = "asked" => \E r \in reports' : r.addr = u.addr
    <3>1. new.addr = t.addr /\ new \in reports' /\ reports \subseteq reports'
      BY <1>1
    <3>2. \A u \in Targets : jobs'[u] = "asked" => u = t \/ jobs[u] = "asked"
      BY <1>2
    <3> QED BY <3>1, <3>2 DEF ReportInv
  <2>4. ASSUME NEW r \in reports, r.addr = t.addr
        PROVE  FALSE
    <3>1. PICK u \in Targets : jobs[u] = "asked" /\ u.addr = t.addr
      BY <2>4 DEF ReportInv
    <3>2. u = t
      BY <1>0, <3>1 DEF SeenInv, AskedOnce, Asked
    <3> QED BY <1>0, <3>1, <3>2
  <2>5. \A q, r \in reports' : q.addr = r.addr => q = r
    <3>1. new.addr = t.addr
      OBVIOUS
    <3> QED BY <2>1, <2>4, <3>1 DEF ReportInv
  <2>6. anyFailed' <=> \E r \in reports' : r.outcome = "failed"
    <3>1. anyFailed' <=> anyFailed \/ outcome = "failed"
      BY <1>1, Zenon
    <3>2. new.outcome = outcome /\ new \in reports' /\ reports \subseteq reports'
      BY <1>1
    <3>3. (\E r \in reports' : r.outcome = "failed")
            <=> (\E r \in reports : r.outcome = "failed") \/ outcome = "failed"
      BY <2>1, <3>2
    <3>4. anyFailed <=> \E r \in reports : r.outcome = "failed"
      BY DEF ReportInv
    <3> QED BY <3>1, <3>3, <3>4
  <2> QED BY <2>2, <2>3, <2>5, <2>6 DEF ReportInv
<1> QED BY <1>3, <1>4

LEMMA AsksInductive ==
  ASSUME StatusTypes, SeenInv, ReportInv, PhaseInv, [Next]_vars, jobs' \in [Targets -> JobStates]
  PROVE  SeenInv' /\ ReportInv'
<1>1. ASSUME UNCHANGED <<jobs, seen, reports, anyFailed>>
      PROVE  SeenInv' /\ ReportInv'
  BY <1>1, NobodyAsks
<1>2. CASE CheckPins \/ SpawnBrowser \/ DropSender \/ BuildClient \/ EndLoop \/ Summary \/ EndBrowser
           \/ UNCHANGED vars \/ UNCHANGED statusVars
  BY <1>1, <1>2 DEF CheckPins, SpawnBrowser, DropSender, BuildClient, EndLoop, Summary, EndBrowser,
                    vars, statusVars
<1>3. CASE SendGiven
  <2>1. UNCHANGED <<seen, reports, anyFailed>> /\ \A t \in Targets : jobs[t] = "none"
    BY <1>3 DEF SendGiven, PhaseInv
  <2>2. \A t \in Targets : jobs'[t] \in {"none", "sent"}
    BY <1>3, <2>1 DEF SendGiven
  <2>3. \A t \in Targets : {jobs[t], jobs'[t]} \subseteq {"none", "sent", "queued"}
    BY <2>1, <2>2
  <2> QED BY <2>1, <2>3, NobodyAsks
<1>4. CASE SpawnJob \/ SendFound
  <2>1. UNCHANGED <<seen, reports, anyFailed>>
    BY <1>4 DEF SpawnJob, SendFound
  <2>2. PICK t \in Targets, s \in {"sent", "queued"} :
           jobs[t] \in {"none", "sent"} /\ jobs' = [jobs EXCEPT ![t] = s]
    BY <1>4 DEF SpawnJob, SendFound, Targets
  <2>3. \A u \in Targets : jobs'[u] = jobs[u] \/ {jobs[u], jobs'[u]} \subseteq {"none", "sent", "queued"}
    BY <2>2 DEF StatusTypes
  <2> QED BY <2>1, <2>3, NobodyAsks
<1>5. CASE JobStep
  BY <1>5, JobStarts, JobEnds DEF JobStep
<1> QED BY <1>2, <1>3, <1>4, <1>5 DEF Next, MainStep

(* Types, and the phases of main. *)
LEMMA PhaseInductive ==
  ASSUME StatusTypes, PhaseInv, PinTypes, [Next]_vars
  PROVE  StatusTypes' /\ PhaseInv'
<1>1. CASE UNCHANGED statusVars
  BY <1>1 DEF statusVars, StatusTypes, PhaseInv
<1>2. CASE SendGiven
  <2>1. /\ main = "pins" /\ browser = "none" /\ main' \in {"spawn", "failed"} /\ checked' \subseteq Profile
        /\ UNCHANGED <<workers, all, given, browser, senders, seen, reports, anyFailed>>
        /\ \A t \in Targets : jobs[t] = "none"
    BY <1>2 DEF SendGiven, PhaseInv
  <2>2. CASE main' = "spawn" /\ jobs' = [t \in Targets |-> IF t.addr \in given /\ t.from = "given"
                                                          THEN "sent" ELSE "none"]
    <3>1. jobs' \in [Targets -> JobStates]
      BY <2>2 DEF JobStates
    <3> QED BY <2>1, <2>2, <3>1 DEF StatusTypes, PhaseInv
  <2>3. CASE main' = "failed" /\ jobs' = jobs
    BY <2>1, <2>3 DEF StatusTypes, PhaseInv
  <2> QED BY <1>2, <2>2, <2>3 DEF SendGiven
<1>3. CASE SpawnBrowser
  <2>1. main = "spawn" /\ main' = "drop" /\ UNCHANGED <<workers, all, given, checked, jobs, seen, reports, anyFailed>>
    BY <1>3 DEF SpawnBrowser
  <2>2. \/ all /\ browser' = "browsing" /\ senders' = senders \cup {"browser"}
        \/ browser' = browser /\ senders' = senders
    BY <1>3 DEF SpawnBrowser
  <2>3. StatusTypes'
    BY <2>1, <2>2 DEF StatusTypes
  <2>4. PhaseInv'
    BY <2>1, <2>2 DEF PhaseInv
  <2> QED BY <2>3, <2>4
<1>4. CASE DropSender \/ BuildClient
  <2>1. /\ main \in {"drop", "client"} /\ main' \in {"client", "loop", "failed"}
        /\ senders' \subseteq senders /\ ("browser" \in senders => "browser" \in senders')
        /\ UNCHANGED <<workers, all, given, browser, checked, jobs, seen, reports, anyFailed>>
    BY <1>4 DEF DropSender, BuildClient
  <2> QED BY <2>1 DEF StatusTypes, PhaseInv
<1>5. CASE EndLoop \/ Summary
  <2>1. /\ UNCHANGED <<workers, all, given, browser, senders, checked, jobs, seen, reports, anyFailed>>
        /\ senders = {} /\ \A t \in Targets : jobs[t] # "sent"
        /\ \/ main = "loop" /\ main' = "join"
           \/ main = "join" /\ main' = "done" /\ \A t \in Targets : jobs[t] \notin {"queued", "asking"}
    BY <1>5 DEF EndLoop, Summary, Disconnected, PhaseInv
  <2> QED BY <2>1 DEF StatusTypes, PhaseInv
<1>6. CASE SpawnJob
  <2>1. PICK t \in Targets : jobs[t] = "sent" /\ jobs' = [jobs EXCEPT ![t] = "queued"]
    BY <1>6 DEF SpawnJob
  <2>2. main = "loop" /\ UNCHANGED <<workers, all, given, main, browser, senders, checked, seen, reports, anyFailed>>
    BY <1>6 DEF SpawnJob
  <2>3. jobs' \in [Targets -> JobStates] /\ \A u \in Targets : jobs'[u] = "none" <=> jobs[u] = "none"
    BY <2>1 DEF StatusTypes, JobStates
  <2> QED BY <2>2, <2>3 DEF StatusTypes, PhaseInv
<1>7. ASSUME NEW t \in Targets, StartJob(t) \/ EndJob(t), Running
      PROVE  StatusTypes' /\ PhaseInv'
  <2>1. /\ jobs[t] \in {"queued", "asking"} /\ seen' \in {seen, seen \cup {t.addr}}
        /\ \E s \in {"asking", "skipped", "asked"} : jobs' = [jobs EXCEPT ![t] = s]
        /\ UNCHANGED <<workers, all, given, main, browser, senders, checked>>
    BY <1>7 DEF StartJob, EndJob
  <2>2. t.addr \in Addresses
    BY DEF Targets
  <2>3. /\ jobs' \in [Targets -> JobStates]
        /\ \A u \in Targets : (jobs'[u] = "none" <=> jobs[u] = "none") /\ (jobs'[u] = "sent" <=> jobs[u] = "sent")
    BY <2>1 DEF StatusTypes, JobStates
  <2>4. reports' \subseteq [addr : Addresses, outcome : Outcomes] /\ anyFailed' \in BOOLEAN
    <3>1. CASE StartJob(t)
      BY <3>1 DEF StartJob, StatusTypes
    <3>2. CASE EndJob(t)
      <4>1. PICK outcome \in Outcomes : /\ reports' = reports \cup {[addr |-> t.addr, outcome |-> outcome]}
                                        /\ anyFailed' = (anyFailed \/ outcome = "failed")
        BY <3>2 DEF EndJob
      <4>2. anyFailed' \in BOOLEAN
        BY <4>1, Zenon
      <4> QED BY <2>2, <4>1, <4>2 DEF StatusTypes
    <3> QED BY <1>7, <3>1, <3>2
  <2>5. StatusTypes'
    BY <2>1, <2>2, <2>3, <2>4 DEF StatusTypes
  <2>6. main # "pins" /\ main # "done"
    BY <1>7, <2>1 DEF PhaseInv, Running
  <2>7. PhaseInv'
    BY <2>1, <2>3, <2>6 DEF PhaseInv
  <2> QED BY <2>5, <2>7
<1>8. CASE SendFound
  <2>1. PICK t \in Targets : t.from = "found" /\ jobs[t] = "none" /\ jobs' = [jobs EXCEPT ![t] = "sent"]
    BY <1>8 DEF SendFound, Targets
  <2>2. /\ browser = "browsing" /\ all /\ "browser" \in senders /\ main \notin {"pins", "spawn", "join", "done"}
        /\ UNCHANGED <<workers, all, given, main, browser, senders, checked, seen, reports, anyFailed>>
    BY <1>8 DEF SendFound, PhaseInv
  <2>3. /\ jobs' \in [Targets -> JobStates] /\ jobs'[t] = "sent"
        /\ \A u \in Targets : u = t \/ jobs'[u] = jobs[u]
    BY <2>1 DEF StatusTypes, JobStates
  <2>4. StatusTypes'
    BY <2>2, <2>3 DEF StatusTypes
  <2>5. \A u \in Targets : jobs'[u] # "none" =>
          (u.from = "given" => u.addr \in given) /\ (u.from = "found" => all)
    BY <2>1, <2>2, <2>3 DEF PhaseInv
  <2>6. \A u \in Targets : jobs[u] # "none" => jobs'[u] # "none"
    BY <2>1, <2>3
  <2>7. PhaseInv'
    BY <2>2, <2>5, <2>6 DEF PhaseInv
  <2> QED BY <2>4, <2>7
<1>9. CASE EndBrowser
  <2>1. /\ browser' = "ended" /\ senders' = senders \ {"browser"} /\ main \notin {"pins", "spawn"}
        /\ UNCHANGED <<workers, all, given, main, checked, jobs, seen, reports, anyFailed>>
    BY <1>9 DEF EndBrowser, PhaseInv
  <2> QED BY <2>1 DEF StatusTypes, PhaseInv
<1> QED BY <1>1, <1>2, <1>3, <1>4, <1>5, <1>6, <1>7, <1>8, <1>9
        DEF Next, MainStep, JobStep, CheckPins, vars, statusVars

(* A node to be checked is checked until its outcome is there. *)
LEMMA CheckGoesOn ==
  ASSUME PinInv, FetchStep \/ \E a \in Attempts : Handshake(a), NEW n \in Profile,
         n \in todo \/ n = fetch.n \/ fetched[n] # None
  PROVE  n \in todo' \/ n = fetch'.n \/ fetched'[n] # None
<1>0. PinTypes /\ FetchInv /\ ShakeInv
  BY DEF PinInv
<1>1. ASSUME NextAddress, todo' = todo, fetch.n # None
      PROVE  n \in todo' \/ n = fetch'.n \/ fetched'[n] # None
  <2>1. CASE fetch.i < Sockets
    <3>1. fetch'.n = fetch.n /\ fetched' = fetched
      BY <1>0, <1>1, <2>1 DEF NextAddress, PinTypes
    <3> QED BY <1>1, <3>1
  <2>2. CASE ~(fetch.i < Sockets)
    <3>1. fetched' = [fetched EXCEPT ![fetch.n] = Failed]
      BY <1>1, <2>2 DEF NextAddress, Outcome
    <3>2. \A m \in Profile : fetched'[m] = IF m = fetch.n THEN Failed ELSE fetched[m]
      BY <1>0, <3>1 DEF PinTypes
    <3> QED BY <1>1, <3>2, Constants
  <2> QED BY <2>1, <2>2
<1>2. CASE BeginFetch
  <2>1. fetch.n = None /\ n # None
    BY <1>0, <1>2, Constants DEF BeginFetch, PinTypes
  <2>2. PICK m \in todo :
          /\ todo' = todo \ {m}
          /\ \/ fetch' = [n |-> m, i |-> 1, at |-> "connect"] /\ fetched' = fetched
             \/ fetched' = [fetched EXCEPT ![m] = Failed]
    BY <1>2 DEF BeginFetch, Outcome
  <2>3. fetched \in [Profile -> Attempts \cup {None, Failed}] /\ None # Failed
    BY <1>0, Constants DEF PinTypes
  <2>4. CASE n = m
    <3>1. fetch'.n = n \/ fetched'[n] # None
      BY <2>2, <2>3, <2>4
    <3> QED BY <3>1
  <2>5. CASE n # m
    <3>1. n \in todo => n \in todo'
      BY <2>2, <2>5
    <3>2. fetched'[n] = fetched[n]
      BY <2>2, <2>3, <2>5
    <3> QED BY <2>1, <3>1, <3>2
  <2> QED BY <2>4, <2>5
<1>3. CASE Connect \/ TimesOut
  <2>1. fetch.n # None /\ todo' = todo
    BY <1>0, <1>3 DEF Connect, TimesOut, PinTypes
  <2>2. NextAddress \/ (fetched' = fetched /\ fetch' = [fetch EXCEPT !.at = "wait"])
    BY <1>3 DEF Connect, TimesOut
  <2> QED BY <1>0, <1>1, <2>1, <2>2 DEF PinTypes
<1>4. CASE Receive
  <2>1. fetch.n # None /\ fetch.n \in Profile /\ fetch.i \in 1 .. Sockets /\ todo' = todo
    BY <1>0, <1>4 DEF Receive, PinTypes
  <2>2. CASE NextAddress
    BY <1>1, <2>1, <2>2
  <2>3. CASE shake[Attempt] = "ok" /\ fetched' = [fetched EXCEPT ![fetch.n] = leaf[fetch.n]]
    <3>1. leaf[fetch.n] # None
      BY <1>0, <2>1, <2>3 DEF ShakeInv, Attempt
    <3> QED BY <1>0, <2>1, <2>3, <3>1 DEF PinTypes
  <2> QED BY <1>4, <2>2, <2>3 DEF Receive, Outcome, Verifier
<1>5. CASE \E a \in Attempts : Handshake(a)
  BY <1>5 DEF Handshake
<1> QED BY <1>2, <1>3, <1>4, <1>5 DEF FetchStep

LEMMA CheckInductive ==
  ASSUME StatusTypes, PhaseInv, PinInv, CheckInv, [Next]_vars
  PROVE  CheckInv'
<1>1. CASE UNCHANGED statusVars /\ (FetchStep \/ \E a \in Attempts : Handshake(a))
  BY <1>1, CheckGoesOn DEF CheckInv, statusVars
<1>2. CASE SendGiven
  <2>1. main = "pins" /\ todo = {} /\ fetch.at = "next" /\ main' # "pins" /\ given' = given
        /\ checked' = {n \in Profile : fetched[n] # None}
    BY <1>2 DEF SendGiven, PinsOver
  <2>2. fetch.n \notin Profile
    BY <2>1, Constants DEF PinInv, PinTypes
  <2> QED BY <2>1, <2>2 DEF CheckInv
<1>3. ASSUME UNCHANGED <<pinVars, given, checked>>, main = "pins" <=> main' = "pins"
      PROVE  CheckInv'
  BY <1>3 DEF CheckInv, pinVars
<1>4. CASE SpawnBrowser \/ DropSender \/ BuildClient \/ SpawnJob \/ EndLoop \/ Summary \/ SendFound
           \/ EndBrowser \/ UNCHANGED vars
  BY <1>3, <1>4 DEF SpawnBrowser, DropSender, BuildClient, SpawnJob, EndLoop, Summary, SendFound,
                    EndBrowser, vars, statusVars
<1>5. CASE JobStep
  BY <1>3, <1>5 DEF JobStep, StartJob, EndJob
<1> QED BY <1>1, <1>2, <1>4, <1>5 DEF Next, MainStep, CheckPins

(* The pin checks go on, or are over. *)
LEMMA PinKept == PinInv /\ [Next]_vars => PinInv'
<1> SUFFICES ASSUME PinInv, [Next]_vars PROVE PinInv'
  OBVIOUS
<1>1. CASE FetchStep \/ \E a \in Attempts : Handshake(a)
  BY <1>1, PinInductive
<1>2. CASE ForgetFetches
  BY <1>2, ForgetKeeps
<1>3. CASE UNCHANGED pinVars
  BY <1>3 DEF PinInv, PinTypes, FetchInv, ShakeInv, PinOfThisNode, pinVars
<1> QED BY <1>1, <1>2, <1>3 DEF Next, MainStep, CheckPins, SendGiven, SpawnBrowser, DropSender, BuildClient,
          SpawnJob, EndLoop, Summary, JobStep, StartJob, EndJob, SendFound, EndBrowser, vars

StatusInv == PinInv /\ StatusTypes /\ SeenInv /\ ReportInv /\ PhaseInv /\ CheckInv

LEMMA StatusInitial == Init => StatusInv
<1> SUFFICES ASSUME Init PROVE StatusInv
  OBVIOUS
<1>1. /\ given \subseteq Addresses /\ PinInit(Profile \cap given) /\ all \in BOOLEAN
      /\ workers \in 1 .. MaxWorkers
      /\ main = "pins" /\ browser = "none" /\ senders = {"main"} /\ checked = {}
      /\ jobs = [t \in Targets |-> "none"] /\ seen = {} /\ reports = {} /\ anyFailed = FALSE
  BY AddressesAssumption DEF Init, NodesToValidate
<1>2. PinInv
  BY <1>1, PinInitial
<1>3. StatusTypes /\ PhaseInv
  BY <1>1 DEF StatusTypes, PhaseInv, JobStates
<1>4. SeenInv /\ ReportInv
  BY <1>1 DEF SeenInv, ReportInv, AskedOnce, Asked
<1>5. CheckInv
  BY <1>1 DEF CheckInv, PinInit
<1> QED BY <1>2, <1>3, <1>4, <1>5 DEF StatusInv

LEMMA StatusInductive == StatusInv /\ [Next]_vars => StatusInv'
<1> SUFFICES ASSUME StatusInv, [Next]_vars PROVE StatusInv'
  OBVIOUS
<1>1. PinInv' /\ PinTypes
  BY PinKept DEF StatusInv, PinInv
<1>2. StatusTypes' /\ PhaseInv'
  BY <1>1, PhaseInductive DEF StatusInv
<1>3. SeenInv' /\ ReportInv'
  BY <1>2, AsksInductive DEF StatusInv, StatusTypes
<1>4. CheckInv'
  BY CheckInductive DEF StatusInv
<1> QED BY <1>1, <1>2, <1>3, <1>4 DEF StatusInv

LEMMA StatusAlways == Spec => []StatusInv
BY StatusInitial, StatusInductive, PTL DEF Spec

(* Types, and a handshake that succeeded has left a leaf. *)
THEOREM StatusTypeCorrect == Spec => []TypeOK
<1>1. StatusInv => TypeOK
  <2> SUFFICES ASSUME StatusInv PROVE TypeOK
    OBVIOUS
  <2>1. PinTypeOK
    <3>1. ASSUME fetch.at = "wait", shake[Attempt] = "ok"
          PROVE  leaf[Verifier(fetch.n)] # None
      BY <3>1 DEF StatusInv, PinInv, PinTypes, ShakeInv, Attempt, Verifier
    <3> QED BY <3>1 DEF StatusInv, PinInv, PinTypes, PinTypeOK, States
  <2> QED BY <2>1 DEF StatusInv, StatusTypes, TypeOK, JobStates
<1> QED BY <1>1, StatusAlways, PTL

(* A fingerprint is of a certificate verified for that node in this fetch, *)
(* however many handshakes were abandoned and whenever they end.           *)
THEOREM PinsAreOfTheirNode == Spec => []PinOfThisNode
<1>1. StatusInv => PinOfThisNode
  BY DEF StatusInv, PinInv
<1> QED BY <1>1, StatusAlways, PTL

(* No address gets two requests, whoever sent it and whatever runs at the  *)
(* same time.                                                              *)
THEOREM OneRequestEach == Spec => []AskedOnce
<1>1. StatusInv => AskedOnce
  BY DEF StatusInv, SeenInv
<1> QED BY <1>1, StatusAlways, PTL

(* When the scope ends there is one report for every address given or found. *)
THEOREM NobodyIsLeftOut == Spec => []SummaryComplete
<1>1. StatusInv => SummaryComplete
  <2> SUFFICES ASSUME StatusInv, main = "done"
               PROVE  /\ {r.addr : r \in reports} = {t.addr : t \in {u \in Targets : jobs[u] # "none"}}
                      /\ given \subseteq {r.addr : r \in reports}
                      /\ \A q, r \in reports : q.addr = r.addr => q = r
                      /\ anyFailed <=> \E r \in reports : r.outcome = "failed"
    BY DEF SummaryComplete
  <2>0. StatusTypes /\ SeenInv /\ ReportInv /\ PhaseInv
    BY DEF StatusInv
  <2>1. \A t \in Targets : jobs[t] \in {"none", "asked", "skipped"}
    BY <2>0 DEF PhaseInv, StatusTypes, JobStates
  <2>2. ASSUME NEW t \in Targets, jobs[t] # "none"
        PROVE  \E r \in reports : r.addr = t.addr
    <3>1. t.addr \in seen
      BY <2>0, <2>1, <2>2 DEF SeenInv, Asked
    <3>2. PICK u \in Targets : Asked(u) /\ u.addr = t.addr
      BY <2>0, <3>1 DEF SeenInv
    <3>3. jobs[u] = "asked"
      BY <2>1, <3>2 DEF Asked
    <3> QED BY <2>0, <3>2, <3>3 DEF ReportInv
  <2>3. \A r \in reports : \E t \in Targets : jobs[t] # "none" /\ t.addr = r.addr
    BY <2>0 DEF ReportInv
  <2>4. ASSUME NEW a \in given
        PROVE  \E t \in Targets : jobs[t] # "none" /\ t.addr = a
    <3> DEFINE t == [addr |-> a, from |-> "given"]
    <3>1. t \in Targets /\ t.addr = a /\ t.from = "given"
      BY <2>0 DEF StatusTypes, Targets
    <3> QED BY <2>0, <3>1 DEF PhaseInv
  <2>5. {r.addr : r \in reports} = {t.addr : t \in {u \in Targets : jobs[u] # "none"}}
    BY <2>2, <2>3
  <2>6. given \subseteq {r.addr : r \in reports}
    BY <2>2, <2>4
  <2> QED BY <2>0, <2>5, <2>6 DEF ReportInv
<1> QED BY <1>1, StatusAlways, PTL

(* A node of the profile is asked after its certificate was fetched or     *)
(* could not be, unless --all alone has brought it up.                     *)
THEOREM ChecksBeforeAsking == Spec => []CheckedBeforeAsked
<1>1. StatusInv => CheckedBeforeAsked
  <2> SUFFICES ASSUME StatusInv, NEW t \in Targets, Asked(t), t.addr \in Profile
               PROVE  t.addr \in checked \/ (all /\ t.addr \notin given)
    BY DEF CheckedBeforeAsked
  <2>1. jobs[t] # "none" /\ t.from \in {"given", "found"}
    BY DEF Asked, Targets
  <2>2. CASE t.addr \in given
    BY <2>1, <2>2 DEF StatusInv, PhaseInv, CheckInv
  <2>3. CASE t.addr \notin given
    BY <2>1, <2>3 DEF StatusInv, PhaseInv
  <2> QED BY <2>2, <2>3
<1> QED BY <1>1, StatusAlways, PTL
=============================================================================
