------------------------ MODULE MCCloudWatchRegistry ------------------------
(* Two containers, two resources and requests of one metric, so that a     *)
(* publication takes two requests and may fail between them.  The scale:   *)
(* heartbeats every 2, leases of 2, a tolerated skew of 2 and a window     *)
(* of 5, so that a window passes within the bound on the clock.            *)
EXTENDS CloudWatchRegistry, TLC

CONSTANTS c1, c2, a1, a2

MCContainers == {c1, c2}
MCArns == {a1, a2}
MCBatches == {{a1}, {a1, a2}}
MCDelays == {3}
MCSymmetry == Permutations(MCContainers)
=============================================================================
