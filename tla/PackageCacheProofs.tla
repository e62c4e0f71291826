------------------------- MODULE PackageCacheProofs -------------------------
(***************************************************************************)
(* The safety of PackageCache, for any number of requests, any ttl and any *)
(* pool.                                                                   *)
(***************************************************************************)
EXTENDS PackageCache, TLAPS

(* The initial state has the types. *)
LEMMA CacheTypeInitial == Init => TypeOK
BY ClockAssumption DEF Init, TypeOK, Times, ReqStates, NoCommand

(* Every step keeps the types. *)
LEMMA CacheTypeInductive == TypeOK /\ [Next]_vars => TypeOK'
<1> USE DEF TypeOK
<1> SUFFICES ASSUME TypeOK, [Next]_vars PROVE TypeOK'
    OBVIOUS
<1>1. ASSUME NEW r \in Reqs, Unavailable(r) PROVE TypeOK'
    BY <1>1 DEF Unavailable, ReqStates, Settled
<1>2. ASSUME NEW r \in Reqs, Check(r) PROVE TypeOK'
    BY <1>2 DEF Check, Spawn, ReqStates, InFlight, Updating, Simulating, Commands, Kinds
<1>3. ASSUME NEW r \in Reqs, Updated(r) PROVE TypeOK'
    BY <1>3 DEF Updated, Spawn, ReqStates, InFlight, Simulating, Commands, Kinds
<1>4. ASSUME NEW r \in Reqs, UpdateFailed(r) PROVE TypeOK'
    BY <1>4 DEF UpdateFailed, ReqStates, Settled
<1>5. ASSUME NEW r \in Reqs, Simulated(r) PROVE TypeOK'
    BY <1>5 DEF Simulated, ReqStates, Settled
<1>6. ASSUME NEW r \in Reqs, Drop(r) PROVE TypeOK'
    BY <1>6 DEF Drop, ReqStates, Settled
<1>7. ASSUME NEW r \in Reqs, StartCommand(r) PROVE TypeOK'
    BY <1>7 DEF StartCommand, Commands, NoCommand
<1>8. ASSUME NEW r \in Reqs, CommandEnds(r) PROVE TypeOK'
    BY <1>8 DEF CommandEnds, Commands, NoCommand
<1>9. CASE Tick
    BY <1>9, ClockAssumption DEF Tick, Times
<1>10. CASE Done \/ UNCHANGED vars
    BY <1>10 DEF Done, vars
<1> QED
    BY <1>1, <1>2, <1>3, <1>4, <1>5, <1>6, <1>7, <1>8, <1>9, <1>10 DEF Next, Resume

(* Every variable keeps its type; in particular last_update is a time that *)
(* the clock has reached.                                                  *)
THEOREM CacheTypeCorrect == Spec => []TypeOK
<1>1. QED
    BY CacheTypeInitial, CacheTypeInductive, PTL DEF Spec

-----------------------------------------------------------------------------
(* What the clock has to do with it: nothing lies in the future. *)
NotInFuture ==
    /\ last_update # Never => last_update <= now
    /\ refreshed # Never => refreshed <= now
    /\ \A r \in Reqs : checked[r] # Never => checked[r] <= now

(* A request that awaits an update has looked at the cache before, and if  *)
(* that update has succeeded the index was refreshed since the look.       *)
RefreshSeen ==
    \A r \in Reqs :
        req[r] = Updating =>
            /\ checked[r] # Never
            /\ command[r].kind = "update"
            /\ command[r].at = "succeeded" => refreshed # Never /\ refreshed >= checked[r]

(* What a request saw when it decided to update still holds while its      *)
(* update is queued, unless last_update has been set since.                *)
CheckedStale ==
    \A r \in Reqs :
        command[r].kind = "update" /\ command[r].at = "queued" =>
            /\ checked[r] # Never
            /\ \/ last_update = Never
               \/ TTL = 0
               \/ checked[r] <= last_update
               \/ checked[r] - last_update >= TTL

CacheInv == TypeOK /\ NotInFuture /\ RefreshSeen /\ CheckedStale

(* CacheInv holds initially. *)
LEMMA CacheInitial == Init => CacheInv
<1> SUFFICES ASSUME Init PROVE CacheInv
    OBVIOUS
<1>1. TypeOK
    BY CacheTypeInitial
<1>2. NotInFuture /\ RefreshSeen /\ CheckedStale
    BY DEF Init, NotInFuture, RefreshSeen, CheckedStale, Updating, NoCommand
<1> QED
    BY <1>1, <1>2 DEF CacheInv

(* Every step keeps the three conjuncts. *)
LEMMA CacheInductive == CacheInv /\ [Next]_vars => CacheInv'
<1> SUFFICES ASSUME CacheInv, [Next]_vars PROVE CacheInv'
    OBVIOUS
<1>t. TypeOK /\ TypeOK'
    BY CacheTypeInductive DEF CacheInv
<1>n. Never \notin Times /\ Times \subseteq Int
    BY ClockAssumption DEF Times
<1>i. /\ now \in Int /\ last_update \in Int \cup {Never}
      /\ refreshed \in Int \cup {Never}
      /\ \A r \in Reqs : checked[r] \in Int \cup {Never}
    BY <1>t, <1>n DEF TypeOK
<1> USE <1>n, ClockAssumption DEF TypeOK, CacheInv, NotInFuture, RefreshSeen, CheckedStale,
        Updating, Simulating
<1>1. ASSUME NEW r \in Reqs, Unavailable(r) PROVE CacheInv'
    BY <1>t, <1>1 DEF Unavailable
<1>2. ASSUME NEW r \in Reqs, Check(r) PROVE CacheInv'
  <2>1. NotInFuture'
    BY <1>t, <1>2 DEF Check
  <2>2. RefreshSeen'
    BY <1>t, <1>2 DEF Check, Spawn
  <2>3. CheckedStale'
    <3>1. ASSUME NEW s \in Reqs, s # r PROVE command'[s] = command[s] /\ checked'[s] = checked[s]
        BY <1>t, <1>2, <3>1 DEF Check, Spawn
    <3>2. checked'[r] = now /\ last_update' = last_update
        BY <1>t, <1>2 DEF Check
    <3>3. command'[r].kind = "update" => ~Fresh
        BY <1>t, <1>2 DEF Check, Spawn
    <3> SUFFICES ASSUME NEW s \in Reqs,
                        command'[s].kind = "update", command'[s].at = "queued"
                 PROVE /\ checked'[s] # Never
                       /\ \/ last_update' = Never
                          \/ TTL = 0
                          \/ checked'[s] <= last_update'
                          \/ checked'[s] - last_update' >= TTL
        OBVIOUS
    <3>4. CASE s = r
      <4>1. last_update = Never \/ TTL = 0 \/ now - last_update >= TTL
        BY <1>i, <3>3, <3>4 DEF Fresh
      <4> QED
        BY <1>i, <3>2, <3>4, <4>1
    <3>5. CASE s # r
        BY <1>t, <3>1, <3>2, <3>5
    <3> QED
        BY <3>4, <3>5
  <2> QED
    BY <1>t, <2>1, <2>2, <2>3
<1>3. ASSUME NEW r \in Reqs, Updated(r) PROVE CacheInv'
  <2>1. NotInFuture'
    BY <1>t, <1>3 DEF Updated
  <2>2. RefreshSeen'
    BY <1>t, <1>3 DEF Updated, Spawn
  <2>3. CheckedStale'
    <3>1. ASSUME NEW s \in Reqs, s # r PROVE command'[s] = command[s]
        BY <1>t, <1>3, <3>1 DEF Updated, Spawn
    <3>2. command'[r].kind = "simulate"
        BY <1>t, <1>3 DEF Updated, Spawn
    <3>3. checked' = checked /\ last_update' = now
        BY <1>3 DEF Updated
    <3> QED
        BY <1>t, <3>1, <3>2, <3>3
  <2> QED
    BY <1>t, <2>1, <2>2, <2>3
<1>4. ASSUME NEW r \in Reqs, UpdateFailed(r) PROVE CacheInv'
    BY <1>t, <1>4 DEF UpdateFailed
<1>5. ASSUME NEW r \in Reqs, Simulated(r) PROVE CacheInv'
    BY <1>t, <1>5 DEF Simulated
<1>6. ASSUME NEW r \in Reqs, Drop(r) PROVE CacheInv'
    BY <1>t, <1>6 DEF Drop
<1>7. ASSUME NEW r \in Reqs, StartCommand(r) PROVE CacheInv'
  <2>1. ASSUME NEW s \in Reqs
        PROVE /\ command'[s].kind = command[s].kind
              /\ command'[s].at \in {command[s].at, "running"}
    BY <1>t, <1>7 DEF StartCommand, Commands, NoCommand
  <2> QED
    BY <1>t, <1>7, <2>1 DEF StartCommand
<1>8. ASSUME NEW r \in Reqs, CommandEnds(r) PROVE CacheInv'
  <2>1. ASSUME NEW s \in Reqs
        PROVE /\ command'[s].kind = command[s].kind
              /\ s # r => command'[s] = command[s]
              /\ command'[r].at \in {"succeeded", "failed"}
    BY <1>t, <1>8 DEF CommandEnds, Commands, NoCommand
  <2>2. refreshed' \in {refreshed, now}
        /\ (command'[r].at = "succeeded" /\ command[r].kind = "update" => refreshed' = now)
    BY <1>t, <1>8 DEF CommandEnds, Commands, NoCommand
  <2>3. UNCHANGED <<now, last_update, req, checked>>
    BY <1>8 DEF CommandEnds
  <2>4. NotInFuture'
    BY <1>t, <2>2, <2>3
  <2>5. RefreshSeen'
    BY <1>t, <2>1, <2>2, <2>3
  <2>6. CheckedStale'
    BY <1>t, <2>1, <2>3
  <2> QED
    BY <1>t, <2>4, <2>5, <2>6
<1>9. CASE Tick
  <2>1. now' = now + 1
    BY <1>9 DEF Tick
  <2>2. UNCHANGED <<last_update, refreshed, req, checked, command>>
    BY <1>9 DEF Tick
  <2>3. NotInFuture'
    BY <1>i, <2>1, <2>2
  <2> QED
    BY <1>t, <2>2, <2>3
<1>10. CASE Done \/ UNCHANGED vars
    BY <1>t, <1>10 DEF Done, vars
<1> QED
    BY <1>1, <1>2, <1>3, <1>4, <1>5, <1>6, <1>7, <1>8, <1>9, <1>10 DEF Next, Resume

(* Whatever sets last_update is a request whose own update succeeded: the  *)
(* step that changes it is Updated.                                        *)
LEMMA CreditStep ==
    CacheInv /\ [Next]_vars =>
        (last_update' # last_update =>
           \E r \in Reqs :
              /\ req[r] = Updating /\ req'[r] # Updating
              /\ command[r] = [kind |-> "update", at |-> "succeeded"]
              /\ checked[r] # Never /\ refreshed # Never /\ refreshed >= checked[r])
<1> SUFFICES ASSUME CacheInv, [Next]_vars, last_update' # last_update
             PROVE \E r \in Reqs :
                      /\ req[r] = Updating /\ req'[r] # Updating
                      /\ command[r] = [kind |-> "update", at |-> "succeeded"]
                      /\ checked[r] # Never /\ refreshed # Never /\ refreshed >= checked[r]
    OBVIOUS
<1>1. PICK r \in Reqs : Updated(r)
    BY DEF Next, Resume, Unavailable, Check, UpdateFailed, Simulated, Drop, StartCommand,
           CommandEnds, Tick, Done, vars
<1>2. req[r] = Updating /\ req'[r] # Updating /\ command[r].at = "succeeded"
    BY <1>1 DEF Updated, Awaits, CacheInv, TypeOK, Updating, Simulating
<1>3. /\ command[r].kind = "update"
      /\ checked[r] # Never /\ refreshed # Never /\ refreshed >= checked[r]
    BY <1>2 DEF CacheInv, RefreshSeen
<1>4. command[r] = [kind |-> "update", at |-> "succeeded"]
    BY <1>2, <1>3 DEF CacheInv, TypeOK, Commands, NoCommand
<1> QED
    BY <1>2, <1>3, <1>4

(* The request that sets last_update does so because its own update has    *)
(* succeeded and the index was refreshed since its look at the cache,      *)
(* however many requests are dropped and commands fail.                    *)
THEOREM CreditIsEarned == Spec => CreditForRefresh
<1>1. QED
    BY CacheInitial, CacheInductive, CreditStep, PTL DEF Spec, CreditForRefresh

(* An update that starts while the index is fresh was decided on before    *)
(* last_update was set.                                                    *)
LEMMA OverlapStep ==
    CacheInv => \A r \in Reqs : StartsUpdate(r) /\ Fresh => checked[r] <= last_update
<1> SUFFICES ASSUME CacheInv, NEW r \in Reqs, StartsUpdate(r), Fresh
             PROVE checked[r] <= last_update
    OBVIOUS
<1>1. command[r].kind = "update" /\ command[r].at = "queued"
    BY DEF StartsUpdate
<1>2. checked[r] \in Int /\ last_update \in Int /\ now \in Int /\ checked[r] <= now
    BY <1>1, ClockAssumption DEF CacheInv, TypeOK, Times, NotInFuture, CheckedStale, Fresh
<1>3. TTL # 0 /\ last_update # Never /\ now - last_update < TTL
    BY ClockAssumption DEF Fresh
<1> QED
    BY <1>1, <1>2, <1>3, ClockAssumption DEF CacheInv, CheckedStale

(* Refreshing an index that is fresh takes two requests that overlap.      *)
THEOREM UpdatesOverlap == Spec => RedundantUpdateOverlaps
<1>1. QED
    BY CacheInitial, CacheInductive, OverlapStep, PTL DEF Spec, RedundantUpdateOverlaps
=============================================================================
