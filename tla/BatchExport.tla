---------------------------- MODULE BatchExport ----------------------------
(***************************************************************************)
(* What SendLogs (src/pkg/sender/otlp_client.go) promises its caller,      *)
(* without goroutines, retries or a semaphore: log records reach the OTLP  *)
(* endpoint in any order; the call returns once, with nil only if the      *)
(* endpoint has acknowledged every record; and it does return.             *)
(***************************************************************************)
CONSTANT Records        \* the log records handed to one call of SendLogs

VARIABLES
    exported,           \* records the endpoint has acknowledged
    outcome             \* what the call has returned, if it has

vars == <<exported, outcome>>

Outcome == {"pending", "nil", "error"}

Init ==
    /\ exported = {}
    /\ outcome = "pending"

(* Some records are acknowledged while the call is running. *)
Export ==
    /\ outcome = "pending"
    /\ \E S \in SUBSET Records : exported' = exported \cup S
    /\ UNCHANGED outcome

(* return nil *)
Succeed ==
    /\ outcome = "pending"
    /\ exported = Records
    /\ outcome' = "nil"
    /\ UNCHANGED exported

(* return err: what was acknowledged so far stays exported. *)
Fail ==
    /\ outcome = "pending"
    /\ outcome' = "error"
    /\ UNCHANGED exported

Next == Export \/ Succeed \/ Fail

SafeSpec == Init /\ [][Next]_vars

(* The call returns. *)
Returns == <>(outcome # "pending")

Spec == SafeSpec /\ Returns
=============================================================================
