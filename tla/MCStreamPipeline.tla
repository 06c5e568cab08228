-------------------------- MODULE MCStreamPipeline --------------------------
(* Four records, the second of which does not parse, two workers, and      *)
(* channels that hold one record: every channel fills up, and the fault    *)
(* may come before, between, inside or after the records.                  *)
EXTENDS StreamPipeline

CONSTANTS w1, w2

MCWorkers == {w1, w2}
MCBad == {2}
MCReaders == {"line", "json", "parquet"}
=============================================================================
