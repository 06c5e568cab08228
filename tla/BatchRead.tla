----------------------------- MODULE BatchRead ------------------------------
(***************************************************************************)
(* What the handler of src/cmd/lambda/main.go wants from the goroutines it *)
(* starts for the messages of a batch, without goroutines, a semaphore or  *)
(* a lock: one message after the other is settled, in any order, either    *)
(* with all of its files or as a failure with none of them, and the        *)
(* license check sees the outcome of the whole batch.                      *)
(***************************************************************************)
CONSTANTS
    Messages,       \* the messages of the batch
    Files           \* Files[m]: the log files of m that some processor reads

VARIABLES
    todo,           \* messages that are not settled
    failures,       \* messages with a file that could not be read
    files,          \* the files whose entries were collected
    answered        \* the batch went on to the license check

vars == <<todo, failures, files, answered>>

Init ==
    /\ todo = Messages
    /\ failures = {}
    /\ files = {}
    /\ answered = FALSE

(* A message without files cannot fail. *)
Settle(m) ==
    /\ m \in todo
    /\ todo' = todo \ {m}
    /\ \/ failures' = failures /\ files' = files \cup Files[m]
       \/ Files[m] # {} /\ failures' = failures \cup {m} /\ files' = files
    /\ UNCHANGED answered

Answer ==
    /\ todo = {}
    /\ ~answered
    /\ answered' = TRUE
    /\ UNCHANGED <<todo, failures, files>>

Next == (\E m \in Messages : Settle(m)) \/ Answer

Spec == Init /\ [][Next]_vars
=============================================================================
