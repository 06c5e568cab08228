---------------------------- MODULE MetricEmission ----------------------------
(***************************************************************************)
(* Where the billing metrics of an invocation go (EmitMetrics and          *)
(* PublishCrossRegionMetrics, src/pkg/license/enforcer.go).  Every         *)
(* emission is written to the log of the container's own region, as EMF.   *)
(* If the central region of the license is another one, the same values    *)
(* are put there by two requests, one for each namespace, which share a    *)
(* deadline and whose failures are ignored.  An emission says how much the *)
(* container has read since it started.                                    *)
(*                                                                         *)
(* Containers share nothing here: the module follows one, from its start.  *)
(* It may die at any step, which is the end of a behaviour.                *)
(*                                                                         *)
(* Names that every module has begin with ME, so that MetricsProofs can    *)
(* extend this module beside ActiveResources.                              *)
(***************************************************************************)
EXTENDS Naturals

CONSTANTS
    Homes,          \* the regions to run in
    Default,        \* us-east-1
    Metadata,       \* what tokens may name as their metrics_region,
    NoRegion,       \* or this
    MaxBytes        \* bound on what the container reads

Namespaces == {"product", "license"}
MERegions == {Default} \cup Homes \cup (Metadata \ {NoRegion})
Sample == [region : MERegions, space : Namespaces, bytes : 0 .. MaxBytes]

ASSUME EmissionAssumption ==
    /\ NoRegion \notin {Default} \cup Homes
    /\ MaxBytes \in Nat

VARIABLES
    home, metadata, \* the deployment: its region, and that of the token,
    named,          \* which has an ID
    total,          \* TotalBytesProcessed
    pc,             \* "idle", "emit", "product" or "license"
    claims,         \* the status of this invocation has claims
    expired,        \* the deadline of the two requests has passed
    logged,         \* the samples in the log
    stored          \* the samples put into other regions

deployment == <<home, metadata, named>>
MEvars == <<deployment, total, pc, claims, expired, logged, stored>>

(* ResolveCentralMetricsRegion: claims that name no region, and a status   *)
(* without claims, mean the default; the bug forgets the former.           *)
CentralRegion_Bug == IF claims THEN metadata ELSE Default
CentralRegion == IF claims /\ metadata # NoRegion THEN metadata ELSE Default

(* The value emitted is the container's total.                             *)
SampleFor(region, space) ==
    [region |-> region, space |-> space, bytes |-> total]

MEInit ==
    /\ home \in Homes /\ metadata \in Metadata /\ named \in BOOLEAN
    /\ total = 0
    /\ pc = "idle"
    /\ claims = FALSE
    /\ expired = FALSE
    /\ logged = {}
    /\ stored = {}

-----------------------------------------------------------------------------
(* An invocation reads its files and comes to one of the points where      *)
(* metrics are emitted.  A batch that falls back to the free grant has a   *)
(* status without claims, although the next one may have them.  The bug    *)
(* counts the bytes of each invocation from 0.                             *)
Invoke_Bug ==
    /\ pc = "idle"
    /\ total' \in {0, 1} \cap (0 .. MaxBytes)
    /\ claims' \in BOOLEAN
    /\ expired' = FALSE
    /\ pc' = "emit"
    /\ UNCHANGED <<deployment, logged, stored>>
Invoke ==
    /\ pc = "idle"
    /\ total' \in {total, total + 1} \cap (0 .. MaxBytes)
    /\ claims' \in BOOLEAN
    /\ expired' = FALSE
    /\ pc' = "emit"
    /\ UNCHANGED <<deployment, logged, stored>>

(* It returns an error, without metrics; or there are neither records nor  *)
(* bytes, violations or resources to report, here or elsewhere.            *)
InvocationFails ==
    /\ pc = "emit"
    /\ pc' = "idle"
    /\ UNCHANGED <<deployment, total, claims, expired, logged, stored>>

(* The second namespace is for licenses that have an ID. *)
Spaces == IF claims /\ named THEN Namespaces ELSE {"product"}

(* EmitCloudWatchEMF, always the first step; the bug takes the two ways    *)
(* for alternatives.                                                       *)
EmitEMF_Bug ==
    logged' = IF CentralRegion = home
              THEN logged \cup {SampleFor(home, space) : space \in Spaces}
              ELSE logged
EmitEMF == logged' = logged \cup {SampleFor(home, space) : space \in Spaces}

EmitMetrics ==
    /\ pc = "emit"
    /\ EmitEMF
    /\ pc' = IF CentralRegion = home THEN "idle" ELSE "product"
    /\ UNCHANGED <<deployment, total, claims, expired, stored>>

(* A request reaches the central region or not, and whether it does or not *)
(* its answer may come too late; after the deadline none is sent.  The     *)
(* error is logged and forgotten.                                          *)
Put(space) ==
    \/ /\ ~expired
       /\ stored' = stored \cup {SampleFor(CentralRegion, space)}
       /\ expired' \in BOOLEAN
    \/ /\ UNCHANGED stored
       /\ expired' \in {expired, TRUE}

PutProduct ==
    /\ pc = "product"
    /\ Put("product")
    /\ pc' = IF "license" \in Spaces THEN "license" ELSE "idle"
    /\ UNCHANGED <<deployment, total, claims, logged>>

PutLicense ==
    /\ pc = "license"
    /\ Put("license")
    /\ pc' = "idle"
    /\ UNCHANGED <<deployment, total, claims, logged>>

MENext ==
    \/ Invoke \/ InvocationFails
    \/ EmitMetrics \/ PutProduct \/ PutLicense

MESpec == MEInit /\ [][MENext]_MEvars

-----------------------------------------------------------------------------
METypeOK ==
    /\ home \in Homes /\ metadata \in Metadata /\ named \in BOOLEAN
    /\ total \in 0 .. MaxBytes
    /\ pc \in {"idle", "emit", "product", "license"}
    /\ claims \in BOOLEAN /\ expired \in BOOLEAN
    /\ logged \subseteq Sample /\ stored \subseteq Sample

(* Whatever is billed in a central region can be audited in the region     *)
(* where it arose: each sample put into another region is in the log of    *)
(* the container's own, in every state, also when the container dies       *)
(* between the steps of an emission.                                       *)
BilledIsLogged ==
    \A s \in stored : s.region # home /\ [s EXCEPT !.region = home] \in logged

(* Lost samples leave no gap: a sample that gets through covers every one  *)
(* before it, so that what was read in invocations that failed, or whose   *)
(* requests were lost, is in the bill as soon as one request is not.       *)
LostSamplesAreCovered ==
    [][\A s \in stored' \ stored, t \in logged \cup stored : s.bytes >= t.bytes]_MEvars

=============================================================================
