------------------------------ MODULE GateCall ------------------------------
(***************************************************************************)
(* What every transport of the SDK promises about one call, whatever the   *)
(* wire does: nothing is retried, so a write takes effect at most once; a  *)
(* success is reported only for a write that took effect; and a failure    *)
(* without outcome_unknown is final: the write did not and will not take   *)
(* effect.  transport.py 1-15 and errors.py 63-71 are the promise,         *)
(* UnixSocketCall, HttpRpcCall and McpCall the three implementations.      *)
(***************************************************************************)
EXTENDS Naturals

VARIABLES
    write,    \* the verb mutates the gate (fixed for the call)
    effects,  \* how many times it did
    status    \* what the caller has been told

vars == <<write, effects, status>>

(* "escaped" is an exception outside the GateError taxonomy: it says nothing. *)
Statuses == {"open", "ok", "failed", "unknown", "escaped"}

TypeOK ==
    /\ write \in BOOLEAN
    /\ effects \in {0, 1}
    /\ status \in Statuses

Init ==
    /\ write \in BOOLEAN
    /\ effects = 0
    /\ status = "open"

(* The gate may act at any time until the caller has been told it did not. *)
Effect ==
    /\ write
    /\ effects = 0
    /\ status \in {"open", "unknown", "escaped"}
    /\ effects' = 1
    /\ UNCHANGED <<write, status>>

Succeed ==
    /\ status = "open"
    /\ write => effects = 1
    /\ status' = "ok"
    /\ UNCHANGED <<write, effects>>

(* A definite failure: nothing happened, and nothing will. *)
Fail ==
    /\ status = "open"
    /\ effects = 0
    /\ status' = "failed"
    /\ UNCHANGED <<write, effects>>

(* Only a write can have an unknown outcome. *)
Lose ==
    /\ status = "open"
    /\ write
    /\ status' = "unknown"
    /\ UNCHANGED <<write, effects>>

Escape ==
    /\ status = "open"
    /\ status' = "escaped"
    /\ UNCHANGED <<write, effects>>

Next == Effect \/ Succeed \/ Fail \/ Lose \/ Escape

Spec == Init /\ [][Next]_vars

=============================================================================
