------------------------------ MODULE Metering ------------------------------
(***************************************************************************)
(* What a warm container remembers between invocations (QuotaTracker,      *)
(* src/pkg/license/quota.go): the bytes it read, the records it counted    *)
(* against the fair-use ceilings, the time of its last warning banner; and *)
(* what EmitMetrics (src/pkg/license/enforcer.go) reports of it, at the    *)
(* points where the handler of src/cmd/lambda/main.go emits.               *)
(*                                                                         *)
(* Bytes are counted as the files are read, in each file that fails too,   *)
(* and a container may be replaced at any time: its counters are lost, and *)
(* the messages it held are delivered again, to any container.             *)
(***************************************************************************)
EXTENDS Integers, FiniteSets, Functions

CONSTANTS
    Messages,
    Bytes, Records,     \* what the files of a message hold, decompressed
    SentAt,             \* the SentTimestamp of each message
    Containers,
    BatchSize, MaxReceive,
    MaxBatchRecords, MaxContainerRecords,   \* the free grant's ceilings
    Allocation,         \* max_monthly_gb of the license, in bytes
    WarningInterval,    \* FairUseWarningInterval
    Drift,              \* the clock skew Enforce tolerates
    Configs,            \* the deployments to explore, see Deployment
    MaxTime, MaxReplaced

(* licensed: under a token, or under the free grant; signalled: one of the *)
(* DIVMORA_*EXCEEDED variables says that the allocation is used up.        *)
Deployment ==
    [licensed : BOOLEAN, strict : BOOLEAN, action : {"discard", "dlq"},
     signalled : BOOLEAN]

ASSUME SizeAssumption ==
    /\ IsFiniteSet(Messages) /\ IsFiniteSet(Containers)
    /\ Bytes \in [Messages -> Nat]
    /\ Records \in [Messages -> Nat]
    /\ SentAt \in [Messages -> 1 .. MaxTime]

ASSUME LimitAssumption ==
    /\ {BatchSize, MaxReceive, MaxBatchRecords, MaxContainerRecords, MaxReplaced,
        Allocation, WarningInterval, Drift, MaxTime} \subseteq Nat
    /\ MaxTime >= 1
    /\ Configs \subseteq Deployment

VARIABLES
    config,
    now,
    receives,       \* receives[m]: how often m was received
    status,         \* status[m]: "visible", "held" or "gone"
    pc,             \* pc[c]: "idle", "read", "enforce" or "send"
    batch,          \* batch[c]: the messages of its invocation
    good,           \* good[c]: those whose records are in allEntries
    auth,           \* auth[c]: authTime
    bytes,          \* bytes[c]: bytesProcessed
    counted,        \* counted[c]: containerRecords
    warned,         \* warned[c]: lastWarningTime, 0 for never
    banners,        \* banners[c]: the banners logged, by the time Enforce took
                    \* and by the true time
    sample,         \* sample[c]: the last BytesProcessed c emitted
    ended,          \* the sum of the last samples of the containers replaced
    delivered,      \* delivered[c]: messages c settled after a full export
    settled,        \* messages settled that way, by any container
    replaced        \* number of containers replaced

queueVars   == <<now, receives, status>>
trackerVars == <<bytes, counted, warned>>
invVars     == <<batch, good, auth>>
ledgerVars  == <<sample, ended, settled, delivered>>
vars == <<config, queueVars, pc, invVars, trackerVars, banners, ledgerVars,
          replaced>>

BytesOf(S)   == FoldFunctionOnSet(+, 0, Bytes, S)
RecordsOf(S) == FoldFunctionOnSet(+, 0, Records, S)

(* init() of main.go calls Enforce once: where a variable says that the    *)
(* allocation is used up, a container logs its first banner as it starts   *)
(* (unless the token cannot be verified then).                             *)
FirstBanners(t) ==
    {{}} \cup IF config.licensed /\ config.signalled THEN {{[at |-> t, true |-> t]}}
                                                    ELSE {}
LastWarning(S, t) == IF S = {} THEN 0 ELSE t

Init ==
    /\ config \in Configs
    /\ now = 1
    /\ receives = [m \in Messages |-> 0]
    /\ status = [m \in Messages |-> "visible"]
    /\ pc = [c \in Containers |-> "idle"]
    /\ batch = [c \in Containers |-> {}]
    /\ good = [c \in Containers |-> {}]
    /\ auth = [c \in Containers |-> 0]
    /\ bytes = [c \in Containers |-> 0]
    /\ counted = [c \in Containers |-> 0]
    /\ banners \in [Containers -> FirstBanners(now)]
    /\ warned = [c \in Containers |-> LastWarning(banners[c], now)]
    /\ sample = [c \in Containers |-> 0]
    /\ ended = 0
    /\ delivered = [c \in Containers |-> {}]
    /\ settled = {}
    /\ replaced = 0

-----------------------------------------------------------------------------
Tick ==
    /\ now < MaxTime
    /\ now' = now + 1
    /\ UNCHANGED <<config, receives, status, pc, invVars, trackerVars, banners,
                   ledgerVars, replaced>>

(* The queue hands a message out MaxReceive times. *)
Receivable_Bug(m) ==
    status[m] = "visible" /\ SentAt[m] <= now /\ receives[m] <= MaxReceive
Receivable(m) ==
    status[m] = "visible" /\ SentAt[m] <= now /\ receives[m] < MaxReceive

(* An invocation starts; the time of its first message is authoritative.   *)
Start(c, B) ==
    /\ pc[c] = "idle"
    /\ B # {} /\ Cardinality(B) <= BatchSize
    /\ \A m \in B : Receivable(m)
    /\ status' = [m \in Messages |-> IF m \in B THEN "held" ELSE status[m]]
    /\ receives' = [m \in Messages |->
                        IF m \in B THEN receives[m] + 1 ELSE receives[m]]
    /\ \E m \in B : auth' = [auth EXCEPT ![c] = SentAt[m]]
    /\ batch' = [batch EXCEPT ![c] = B]
    /\ good' = [good EXCEPT ![c] = {}]
    /\ pc' = [pc EXCEPT ![c] = "read"]
    /\ UNCHANGED <<config, now, trackerVars, banners, ledgerVars, replaced>>

(* RecordBytes, called by the CountingReader of every file: the bug counts *)
(* those of this invocation only.                                          *)
RecordBytes_Bug(c, G, n) == bytes' = [bytes EXCEPT ![c] = BytesOf(G) + n]
RecordBytes(c, G, n) == bytes' = [bytes EXCEPT ![c] = @ + BytesOf(G) + n]

(* The goroutines read the messages of G to their ends, and n bytes of the *)
(* files of the others before they fail.  What they share is only added    *)
(* to, so that their order does not matter.                                *)
ReadFiles(c) ==
    /\ pc[c] = "read"
    /\ \E G \in SUBSET batch[c] : \E n \in 0 .. BytesOf(batch[c] \ G) :
          /\ good' = [good EXCEPT ![c] = G]
          /\ RecordBytes(c, G, n)
    /\ pc' = [pc EXCEPT ![c] = "enforce"]
    /\ UNCHANGED <<config, queueVars, batch, auth, counted, warned, banners,
                   ledgerVars, replaced>>

-----------------------------------------------------------------------------
(***************************************************************************)
(* Enforce, as far as it uses the tracker.                                 *)
(***************************************************************************)

EvalTime(c) ==
    IF now - auth[c] > Drift \/ auth[c] - now > Drift THEN auth[c] ELSE now

(* RecordAndCheckContainerQuota adds before it compares; a batch without   *)
(* records is not looked at.                                               *)
CeilingExceeded_Bug(c) ==
    /\ RecordsOf(good[c]) > 0
    /\ \/ RecordsOf(good[c]) > MaxBatchRecords
       \/ counted[c] > MaxContainerRecords
CeilingExceeded(c) ==
    /\ RecordsOf(good[c]) > 0
    /\ \/ RecordsOf(good[c]) > MaxBatchRecords
       \/ counted[c] + RecordsOf(good[c]) > MaxContainerRecords

(* CheckThroughputQuota. *)
ThroughputExceeded(c) == config.signalled \/ bytes[c] > Allocation

(* ShouldEmitFairUseWarningAt: the distance from the last warning to t, in *)
(* the direction of time; the bug ignores the direction.                   *)
BannerDue_Bug(c, t) ==
    warned[c] = 0 \/ t - warned[c] >= WarningInterval \/ t < warned[c]
BannerDue(c, t) ==
    warned[c] = 0 \/ t - warned[c] >= WarningInterval

LogFairUseWarning(c) ==
    LET t == EvalTime(c)
    IN  IF ThroughputExceeded(c) /\ BannerDue(c, t)
        THEN /\ warned' = [warned EXCEPT ![c] = t]
             /\ banners' = [banners EXCEPT ![c] = @ \cup {[at |-> t, true |-> now]}]
        ELSE UNCHANGED <<warned, banners>>

(* EmitMetrics reports the container's total.  (Nothing is emitted when    *)
(* there are no records, bytes, violations and resources to report, which  *)
(* is a total of 0.)                                                       *)
EmitMetrics(c) == sample' = [sample EXCEPT ![c] = bytes[c]]

(* The invocation is over; the messages of Gone leave the queue.           *)
Return(c, Gone) ==
    /\ pc' = [pc EXCEPT ![c] = "idle"]
    /\ status' = [m \in Messages |->
                    IF m \notin batch[c] THEN status[m]
                    ELSE IF m \in Gone THEN "gone" ELSE "visible"]
    /\ batch' = [batch EXCEPT ![c] = {}]
    /\ good' = [good EXCEPT ![c] = {}]
    /\ auth' = [auth EXCEPT ![c] = 0]
    /\ UNCHANGED <<config, now, receives>>

(* A deterministic license error: metrics are emitted, and the batch is    *)
(* deleted or, with the action dlq, listed.                                *)
Reject(c) ==
    /\ config.strict
    /\ EmitMetrics(c)
    /\ Return(c, IF config.action = "dlq" THEN {} ELSE batch[c])
    /\ UNCHANGED <<bytes, warned, banners, ended, settled, delivered,
                   replaced>>

(* The license, or the lack of one where production is suspected, may be   *)
(* what fails, before the files are read or after: LicenseEnforcement says *)
(* when.                                                                   *)
RejectLicense(c) ==
    /\ pc[c] \in {"read", "enforce"}
    /\ Reject(c)
    /\ UNCHANGED counted

Accept(c) ==
    /\ pc' = [pc EXCEPT ![c] = "send"]
    /\ UNCHANGED <<config, queueVars, invVars, bytes, ledgerVars, replaced>>

(* Where the mode is not strict a check that fails ends Enforce before it  *)
(* looks at the volume, and the batch is sent all the same.                *)
EnforceUnchecked(c) ==
    /\ pc[c] = "enforce"
    /\ ~config.strict
    /\ Accept(c)
    /\ UNCHANGED <<counted, warned, banners>>

EnforceLicensed(c) ==
    /\ pc[c] = "enforce"
    /\ config.licensed
    /\ LogFairUseWarning(c)
    /\ Accept(c)
    /\ UNCHANGED counted

(* Too many records, or too many resources in the registry: a rejection,   *)
(* if the mode is strict.                                                  *)
EnforceFree(c) ==
    /\ pc[c] = "enforce"
    /\ ~config.licensed
    /\ counted' = [counted EXCEPT ![c] = @ + RecordsOf(good[c])]
    /\ \/ Reject(c)
       \/ /\ ~(CeilingExceeded(c) /\ config.strict)
          /\ Accept(c)
          /\ UNCHANGED <<warned, banners>>

-----------------------------------------------------------------------------
(* SendLogs returns nil, or there is nothing to send: metrics are emitted  *)
(* and the messages that were read leave the queue.                        *)
SendSucceeds(c) ==
    /\ pc[c] = "send"
    /\ EmitMetrics(c)
    /\ Return(c, good[c])
    /\ delivered' = [delivered EXCEPT ![c] = @ \cup good[c]]
    /\ settled' = settled \cup good[c]
    /\ UNCHANGED <<trackerVars, banners, ended, replaced>>

(* SendLogs returns an error, or the token's file cannot be read: the      *)
(* handler returns the error, without metrics.                             *)
InvocationFails(c) ==
    /\ \/ pc[c] = "send" /\ RecordsOf(good[c]) > 0
       \/ pc[c] \in {"read", "enforce"} /\ config.licensed /\ config.strict
    /\ Return(c, {})
    /\ UNCHANGED <<trackerVars, banners, ledgerVars, replaced>>

(* The container is recycled, or dies: a new one starts from nothing.      *)
Replace(c) ==
    /\ replaced < MaxReplaced
    /\ replaced' = replaced + 1
    /\ Return(c, {})
    /\ bytes' = [bytes EXCEPT ![c] = 0]
    /\ counted' = [counted EXCEPT ![c] = 0]
    /\ \E S \in FirstBanners(now) :
          /\ banners' = [banners EXCEPT ![c] = S]
          /\ warned' = [warned EXCEPT ![c] = LastWarning(S, now)]
    /\ ended' = ended + sample[c]
    /\ sample' = [sample EXCEPT ![c] = 0]
    /\ delivered' = [delivered EXCEPT ![c] = {}]
    /\ UNCHANGED settled

Invocation(c) ==
    \/ ReadFiles(c)
    \/ RejectLicense(c) \/ EnforceUnchecked(c)
    \/ EnforceLicensed(c) \/ EnforceFree(c)
    \/ SendSucceeds(c) \/ InvocationFails(c)

Next ==
    \/ Tick
    \/ \E c \in Containers :
          \/ \E B \in SUBSET Messages : Start(c, B)
          \/ Invocation(c)
          \/ Replace(c)

Spec == Init /\ [][Next]_vars

-----------------------------------------------------------------------------
TypeOK ==
    /\ config \in Configs
    /\ now \in 1 .. MaxTime
    /\ receives \in [Messages -> 0 .. MaxReceive]
    /\ status \in [Messages -> {"visible", "held", "gone"}]
    /\ pc \in [Containers -> {"idle", "read", "enforce", "send"}]
    /\ {batch, good, delivered} \subseteq [Containers -> SUBSET Messages]
    /\ auth \in [Containers -> 0 .. MaxTime]
    /\ {bytes, counted, sample} \subseteq [Containers -> Nat]
    /\ warned \in [Containers -> 0 .. MaxTime]
    /\ banners \in [Containers -> SUBSET [at : 1 .. MaxTime, true : 1 .. MaxTime]]
    /\ ended \in Nat
    /\ settled \subseteq Messages
    /\ replaced \in 0 .. MaxReplaced

(* The bill can be drawn from the last BytesProcessed of each container:   *)
(* together they cover every message that was delivered and settled, and   *)
(* none exceeds what its container read, whatever was retried, failed,     *)
(* rejected or replaced in between.                                        *)
LastSamplesCoverDelivery ==
    /\ BytesOf(settled) <= ended + FoldFunctionOnSet(+, 0, sample, Containers)
    /\ \A c \in Containers : sample[c] <= bytes[c]

(* In strict mode no container delivers more records under the free grant  *)
(* than the container ceiling, in however many batches, and no batch more  *)
(* than the density ceiling.                                               *)
FreeUseIsCapped ==
    ~config.licensed /\ config.strict =>
        \A c \in Containers :
            /\ RecordsOf(delivered[c]) <= MaxContainerRecords
            /\ pc[c] = "send" => RecordsOf(good[c]) <= MaxBatchRecords

(* On the clock that Enforce takes for each batch, a container's banners   *)
(* are an interval apart, batches of any age being processed in any order. *)
BannersAreApart ==
    \A c \in Containers : \A a, b \in banners[c] :
        a # b => a.at - b.at >= WarningInterval \/ b.at - a.at >= WarningInterval

-----------------------------------------------------------------------------
(* docs/otel-aws-log-processor.md:144: "Exact byte counts are emitted via  *)
(* AWS CloudWatch Embedded Metric Format (EMF) for automated billing audit *)
(* synchronization", to be aggregated with SUM(BytesProcessed) (:202): two *)
(* samples in a row add up to no more than their container has read.       *)
SamplesAddUp ==
    [][\A c \in Containers :
          sample'[c] # 0 /\ sample' # sample => sample[c] + sample'[c] <= bytes'[c]]_vars
=============================================================================
