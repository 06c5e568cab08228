----------------------------- MODULE MCMetering -----------------------------
(* Three messages of no, one and two records, and a container that may be  *)
(* replaced once: containers meet only in the queue, where each finds      *)
(* what another left, as the next one does here.  A unit of time is half   *)
(* an hour.                                                                *)
EXTENDS Metering, TLC

CONSTANTS m1, m2, m3, c1

MCMessages == {m1, m2, m3}
MCBytes == (m1 :> 1) @@ (m2 :> 2) @@ (m3 :> 1)
MCRecords == (m1 :> 0) @@ (m2 :> 1) @@ (m3 :> 2)
MCSentAt == (m1 :> 1) @@ (m2 :> 3) @@ (m3 :> 1)
MCContainers == {c1}

Deploy(licensed, strict, action, signalled) ==
    [licensed |-> licensed, strict |-> strict, action |-> action,
     signalled |-> signalled]

MCConfigs == {
    Deploy(FALSE, TRUE, "discard", FALSE),
    Deploy(FALSE, FALSE, "discard", FALSE),
    Deploy(TRUE, TRUE, "dlq", FALSE),
    Deploy(TRUE, FALSE, "dlq", TRUE) }
=============================================================================
