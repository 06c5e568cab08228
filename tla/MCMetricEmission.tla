--------------------------- MODULE MCMetricEmission ---------------------------
(* A token names no region, the deployment's own, or a third one; the      *)
(* deployment is in the default region or not.                             *)
EXTENDS MetricEmission

CONSTANTS us, eu, ap, none

MCHomes == {us, eu}
MCMetadata == {none, eu, ap}
=============================================================================
