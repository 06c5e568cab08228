------------------------------ MODULE FileRead ------------------------------
(***************************************************************************)
(* What the ReadAndParse functions of src/pkg/processor/base.go promise    *)
(* their caller: entries are collected one by one, in any order, none of   *)
(* them twice; without an error every record of the file that parses is    *)
(* among them.                                                             *)
(***************************************************************************)
EXTENDS Naturals

CONSTANTS
    Good        \* the records of the file that parse

VARIABLES
    entries,    \* how often each record is among the entries
    verdict     \* "pending", "nil" or "error"

vars == <<entries, verdict>>

Init ==
    /\ entries = [i \in Good |-> 0]
    /\ verdict = "pending"

Collect ==
    /\ verdict = "pending"
    /\ \E i \in Good :
          /\ entries[i] = 0
          /\ entries' = [entries EXCEPT ![i] = 1]
    /\ UNCHANGED verdict

Complete == \A i \in Good : entries[i] = 1

Return ==
    /\ verdict = "pending"
    /\ \/ Complete /\ verdict' = "nil"
       \/ verdict' = "error"
    /\ UNCHANGED entries

Next == Collect \/ Return

Spec == Init /\ [][Next]_vars
=============================================================================
