--------------------------- MODULE MCSqsPipeline ---------------------------
(* Three messages: one the license covers, one it does not cover, in a     *)
(* bucket that looks like production, and one whose body does not parse.   *)
EXTENDS SqsPipeline, TLC

CONSTANTS m1, m2, m3, o1, u, c1, c2

MCMessages == {m1, m2, m3}
MCObjects == (m1 :> {o1}) @@ (m2 :> {u}) @@ (m3 :> {})
MCUnlicensed == {u}
MCProdBuckets == {m2}
MCContainers == {c1, c2}

Deploy(mode, action, prod, license) ==
    [mode |-> mode, action |-> action, prod |-> prod, license |-> license]

MCConfigs == {
    Deploy("auto", "dlq", FALSE, "valid"),
    Deploy("strict", "discard", TRUE, "valid"),
    Deploy("auto", "discard", FALSE, "none") }
=============================================================================
