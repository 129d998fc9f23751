--------------------------------- MODULE Api ---------------------------------
(***************************************************************************)
(* What an API call of libkinetic promises its caller about the device,    *)
(* with memory, threads and the transport hidden: a call that is refused   *)
(* never reaches the device, a call that is acknowledged has been executed *)
(* by it, and after any other result the caller does not know.             *)
(***************************************************************************)
CONSTANT Calls

VARIABLES result,    \* "idle", "open", "refused", "acked" or "unknown"
          applied    \* has the device executed the request?

vars == <<result, applied>>

Init ==
    /\ result = [c \in Calls |-> "idle"]
    /\ applied = [c \in Calls |-> FALSE]

Return(c, from, r) ==
    /\ result[c] \in from
    /\ result' = [result EXCEPT ![c] = r]
    /\ UNCHANGED applied

Begin(c) == Return(c, {"idle"}, "open")
Refuse(c) == ~applied[c] /\ Return(c, {"idle", "open"}, "refused")
Ack(c) == applied[c] /\ Return(c, {"open"}, "acked")
Lose(c) == Return(c, {"open"}, "unknown")

\* The device may still execute a request nobody waits for any more.
Apply(c) ==
    /\ result[c] \in {"open", "unknown"}
    /\ ~applied[c]
    /\ applied' = [applied EXCEPT ![c] = TRUE]
    /\ UNCHANGED result

Next == \E c \in Calls : \/ Begin(c) \/ Refuse(c)
                         \/ Ack(c) \/ Lose(c) \/ Apply(c)

Spec == Init /\ [][Next]_vars
=============================================================================
