------------------------------- MODULE KtliRpc -------------------------------
(***************************************************************************)
(* What a connected KTLI session promises its client, with the threads,    *)
(* queues and sequence numbers hidden: a request that was sent completes   *)
(* once, with one final outcome, and then belongs to the client again.     *)
(***************************************************************************)
CONSTANTS Kio, ReqOnly

VARIABLES phase,    \* "idle", "pending" or "done"
          outcome   \* of a request that is done

vars == <<phase, outcome>>

Outcomes(k) == IF k \in ReqOnly THEN {"sent", "failed"}
               ELSE {"answered", "timedout", "failed"}

Init ==
    /\ phase = [k \in Kio |-> "idle"]
    /\ outcome = [k \in Kio |-> "none"]

\* ktli_send
Submit(k) ==
    /\ phase[k] = "idle"
    /\ phase' = [phase EXCEPT ![k] = "pending"]
    /\ UNCHANGED outcome

\* The session completes the request.
Complete(k) ==
    /\ phase[k] = "pending"
    /\ phase' = [phase EXCEPT ![k] = "done"]
    /\ \E o \in Outcomes(k) : outcome' = [outcome EXCEPT ![k] = o]

\* ktli_receive
Collect(k) ==
    /\ phase[k] = "done"
    /\ phase' = [phase EXCEPT ![k] = "idle"]
    /\ outcome' = [outcome EXCEPT ![k] = "none"]

Next == \E k \in Kio : Submit(k) \/ Complete(k) \/ Collect(k)

Spec == Init /\ [][Next]_vars
=============================================================================
