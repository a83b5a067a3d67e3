---------------------------- MODULE WebhookPromise ----------------------------
(***************************************************************************)
(* What the owner of a webhook is promised for each event: a row that is   *)
(* tried up to MaxAttempts times and then settled for good.  An attempt is *)
(* one request, or none when the throughput is used up; its outcome is     *)
(* entered in the row, or forgotten when the process dies or the row       *)
(* cannot be written, and then the attempt does not count.                 *)
(***************************************************************************)
EXTENDS Integers

CONSTANTS Delivery, MaxAttempts

VARIABLES
    row,       \* delivery -> its status and the attempts that count
    outcome,   \* delivery -> "idle", or what is known of the attempt under way
    calls,     \* delivery -> requests made
    lost       \* delivery -> attempts that were forgotten

vars == <<row, outcome, calls, lost>>

IsOpen(d)  == row[d].status \in {"pending", "attempted"}
Underway(d) == outcome[d] # "idle"

Init ==
    /\ row = [d \in Delivery |-> [status |-> "none", attempts |-> 0]]
    /\ outcome = [d \in Delivery |-> "idle"]
    /\ calls = [d \in Delivery |-> 0]
    /\ lost = [d \in Delivery |-> 0]

\* The event happens.
Accept(d) ==
    /\ row[d].status = "none"
    /\ row' = [row EXCEPT ![d] = [status |-> "pending", attempts |-> 0]]
    /\ UNCHANGED <<outcome, calls, lost>>

Call(d) ==
    /\ IsOpen(d) /\ ~Underway(d)
    /\ outcome' = [outcome EXCEPT ![d] = "waiting"]
    /\ calls' = [calls EXCEPT ![d] = @ + 1]
    /\ UNCHANGED <<row, lost>>

\* The throughput is used up.
Withhold(d) ==
    /\ IsOpen(d) /\ ~Underway(d)
    /\ outcome' = [outcome EXCEPT ![d] = "no"]
    /\ UNCHANGED <<row, calls, lost>>

Hear(d) ==
    /\ outcome[d] = "waiting"
    /\ \E heard \in {"yes", "no"} : outcome' = [outcome EXCEPT ![d] = heard]
    /\ UNCHANGED <<row, calls, lost>>

\* The row after an attempt.
Attempted(r, ok) ==
    [attempts |-> r.attempts + 1,
     status |-> CASE ok -> "succeeded"
                  [] ~ok /\ r.attempts + 1 < MaxAttempts -> "attempted"
                  [] ~ok /\ r.attempts + 1 >= MaxAttempts -> "dead_letter"]

Settle(d) ==
    /\ outcome[d] \in {"yes", "no"}
    /\ row' = [row EXCEPT ![d] = Attempted(@, outcome[d] = "yes")]
    /\ outcome' = [outcome EXCEPT ![d] = "idle"]
    /\ UNCHANGED <<calls, lost>>

\* A process takes all its attempts with it.
Forget(D) ==
    /\ \A d \in D : Underway(d)
    /\ outcome' = [d \in Delivery |-> IF d \in D THEN "idle" ELSE outcome[d]]
    /\ lost' = [d \in Delivery |-> IF d \in D THEN lost[d] + 1 ELSE lost[d]]
    /\ UNCHANGED <<row, calls>>

Next ==
    \/ \E d \in Delivery : Accept(d) \/ Call(d) \/ Withhold(d) \/ Hear(d) \/ Settle(d)
    \/ \E D \in SUBSET Delivery : Forget(D)

Spec == Init /\ [][Next]_vars
=============================================================================
