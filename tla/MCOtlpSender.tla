--------------------------- MODULE MCOtlpSender ---------------------------
(* A small instance of OtlpSender: one group that needs two batches, the   *)
(* second one short, and one group that fits in a batch; two tokens for    *)
(* three workers, one retry, and one status of each class.                 *)
EXTENDS OtlpSender, TLC

CONSTANTS g1, g2

MCGroups == {g1, g2}
MCGroupSize == (g1 :> 3) @@ (g2 :> 1)
MCStatuses == {200, 400, 503}
=============================================================================
