---------------------------- MODULE UpgradeSlot ----------------------------
(***************************************************************************)
(* What the daemon promises about POST /full-upgrade: the host has one     *)
(* upgrade slot.  A request that finds it free takes it and is answered    *)
(* "triggered"; a request that finds it taken is refused; nobody but the   *)
(* holder gives it back.                                                   *)
(***************************************************************************)
CONSTANTS Reqs,    \* the requests
          NoReq    \* "nobody holds the slot"; not a request

VARIABLES holder,  \* the request whose upgrade occupies the slot, or NoReq
          answer   \* what each request has been told so far

vars == <<holder, answer>>

Answers == {"pending", "unavailable", "refused", "triggered"}

Init == /\ holder = NoReq
        /\ answer = [r \in Reqs |-> "pending"]

Answer(r, a) == /\ answer[r] = "pending"
                /\ answer' = [answer EXCEPT ![r] = a]

(* The host has no usable package manager. *)
Reject(r) == Answer(r, "unavailable") /\ UNCHANGED holder

Refuse(r) == holder # NoReq /\ Answer(r, "refused") /\ UNCHANGED holder

Claim(r) == holder = NoReq /\ holder' = r /\ Answer(r, "triggered")

Release == holder # NoReq /\ holder' = NoReq /\ UNCHANGED answer

Next == Release \/ \E r \in Reqs : Reject(r) \/ Refuse(r) \/ Claim(r)

Spec == Init /\ [][Next]_vars
=============================================================================
