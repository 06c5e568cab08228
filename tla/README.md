# A verification project for otel-aws-log-processor

TLA+ specifications of the Lambda function in `src/`, configurations that check them
with TLC on small instances, and proofs that TLAPS checks for every value of the
constants. Line numbers refer to the sources of this commit.

## 1. The system

S3 writes access logs (ALB, NLB, CloudFront, WAF); an event for each object goes to an
SQS queue; a Lambda container receives a batch of messages, checks its license, reads and
parses the objects, checks the license again against what it found, sends the records to
an OTLP endpoint, and emits billing metrics. Containers run concurrently and stay warm
between invocations.

| Component (source) | State | Operations | What makes it correct |
| --- | --- | --- | --- |
| Handler (`cmd/lambda/main.go`) | response, entries, keys, buckets, features of one invocation; a semaphore, a mutex, a wait group | preflight, one goroutine per message, merge under a mutex, enforce, send, emit | nothing is deleted that was not delivered; nothing is exported that the license excludes or was not shown; everything is settled |
| Processors, event parsing, resource names (`pkg/processor`, `pkg/events`, `enforcer.go`, `pkg/utils`) | the registered processors, in order | `ParseBodyAsS3`, `Find`, `Matches`, account, region and name of a resource | a file has one processor, a resource one name |
| OTLP sender (`pkg/sender/otlp_client.go`) | offsets, semaphore channel, error channel, shared context, attempt counters | `SendLogs`, one worker per HTTP batch, `sendWithRetry` | nil means every record once; the first real error is reported; no worker is left behind; it returns |
| S3 readers (`pkg/processor/base.go`) | two channels, a wait group, an error variable | producer, worker pool, closer, collector | every record once or an error; no send on a closed channel; no deadlock |
| CloudWatch registry (`pkg/license/cloudwatch_registry.go`) | leases, known resources, heartbeat times of a container; metric data in CloudWatch | `RegisterAndCount`: filter, publish in chunks, answer from lease or query | the count misses nothing that was published long enough ago, and forgets what is idle |
| License enforcement (`pkg/license/enforcer.go`, `model.go`) | none of its own | `PreflightEnforce`, `Enforce` | strict stops exactly what is not entitled, warn stops nothing, clocks cannot be used to extend a license |
| Quota tracker and metrics (`pkg/license/quota.go`, `enforcer.go`) | atomic counters of a container | `RecordBytes`, ceilings, banner, `EmitMetrics` | the volume can be billed; the free ceilings hold; the banner is rate limited |
| Metric publication (`enforcer.go`, `model.go`) | none of its own; the log and CloudWatch in two regions | `EmitMetrics`, `PublishCrossRegionMetrics` | what is billed centrally is in the local log; lost samples leave no gap |
| Active resources (`enforcer.go`, `model.go`, `main.go`) | the `ResourceTracker`, a registry per region | `Track`, `ResolveEntitlementKey`, `ResolveRegistryRegion`, `getActiveResourceCount`, the quota check | an entitlement is counted as a whole and for itself; its quota holds for a fleet; the metric shows what was decided on |
| Version and provenance (`pkg/version`) | what the linker put in, the signatures that are found | `EvaluateProvenance`, `ReleaseTime`, `ChangeDate` | only a build that was signed as it is converts |
| Token verification, CRL (`verifier.go`) | none | pure functions over an external library | outcome only |
| Parsers, OTel conversion | none | pure functions of strings | a record parses or not |
| Queue, event source mapping, dead letter queue (`deploy/cloudformation/lambda.yaml`) | messages, receive counts | receive, delete, redrive | external, modelled as the code relies on them |

Interactions: the handler calls the readers from one goroutine per message, the readers
report bytes to the quota tracker of the container; the handler calls `Enforce` twice,
and `Enforce` calls the tracker and the registry; the registry meets the other containers
in CloudWatch only, and the handler meets them in the queue only.

Hard behaviours: goroutines that fail, cancel each other and share one error; partial
success of a send followed by redelivery; containers that die anywhere; a batch whose
messages share one license decision; timestamps of late messages that move the clock used
by the registry and the banner backwards; publication that fails halfway; metric data that
shows late. `PROJECT.json` lists these as hazards, each at its line and with the
properties that speak about it.

## 2. Modules

    BatchExport   <-- implemented by --  OtlpSender      <-- OtlpSenderProofs
         (its promise is what "Export" and "Send..." of SqsPipeline rely on)
    BatchRead     <-- implemented by --  MessageFanout   <-- MessageFanoutProofs
         (what "ProcessMessage" and "AllProcessed" of SqsPipeline rely on)
    LogFiles             (what MessageFanout reads off the name of a file)
    SqsPipeline                                          <-- SqsPipelineProofs
    FileRead      <-- implemented by --  StreamPipeline  <-- StreamPipelineProofs
         (its promise is what "ProcessMessage" of SqsPipeline relies on)
    CloudWatchRegistry                                   <-- CloudWatchRegistryProofs
    ActiveResources                                      <-- MetricsProofs
         (which registry, which key, and what is made of the count)
    LicenseEnforcement                                   <-- LicenseEnforcementProofs
         (what "Preflight", "Enforce" of SqsPipeline abstract)
    ReleaseTerms         (the change date of a build, extended by LicenseEnforcement)
    Metering                                             <-- MeteringProofs
         (what a container keeps between invocations)
    MetricEmission                                       <-- MetricsProofs
         (where Metering's samples go)
    MC*                  instances of these for TLC

A definition `X_Bug` next to `X` is a plausible wrong version of `X` (a dropped guard, an
off-by-one, a swapped order). Nothing of a specification uses it. Put in the place of `X`,
it makes the property that `PROJECT.json` names with it fail in the property's own run:
that is how we know that the property says something about this piece of code.

### OtlpSender

`Main` is the goroutine of `SendLogs`: `LaunchBatch` one turn of the slicing loop,
`LeaveDispatch` its end or the `break dispatchLoop`, `Return` the code after `wg.Wait`.
`Worker(w)` is the goroutine of a batch, named by its group and offset; `pc[w]` is
"acquire" in the select on the semaphore, "retry" at the head of the loop of
`sendWithRetry` (in the backoff sleep if `attempt[w] > 0`), "inflight" in `client.Do`,
"report" and "cancel" at the two statements of the error path, "exit" in the deferred
release. Each is a step of its own because other workers run between them. The caller's
context may end at any moment. `stored` and `acked` differ where an answer is lost.

### SqsPipeline

`pc[c]` is the place of the handler in container `c`. The goroutine of a message is one
action, since it touches shared state only in its last critical section. `Preflight`,
`Enforce`, `Reject` and `LicenseUnavailable` are the two license decisions and what the
handler makes of them; `Strict` and `LicenseMissing` are what the mode, the token and the
bucket names say. `ResolveToken` lets a configured token be absent for a moment outside
production, where `Enforce` drops the error of the first look for it (enforcer.go:470). `Export` lets any part of the entries reach the endpoint before
`SendLogs` returns, which is what `BatchExport` allows and `OtlpSender` implements. The
queue's actions (`Receive`, `Redrive`, `Settle`, `Crash`, `Release`) are external.

### MessageFanout, BatchRead, LogFiles

`MessageFanout` takes the goroutines of one batch apart that `SqsPipeline` has as one
action each. `Spawn` is a turn of the handler's loop, `Acquire` the send to `sem` and the
parsing of the body, then one step for each record (`SkipRecord`, `IgnoreObject`,
`ReadObject`, `ReadFails`), `Lock` and `Merge` the critical section, `Release` and `Finish`
the deferred calls in their order. An `append` to a slice of the handler reads it in
`Lock` and writes it in `Merge`, so that without the mutex one would be lost. `Told` is
what the handler derives for `Enforce`: accounts, features, resources, buckets.
`ParseBodyAsS3` works on what the two forms of a body hold; an SNS envelope is the body it
contains. Whether a key is escaped matters to one thing: an object whose key is still
escaped cannot be read.

`BatchRead` is the same without goroutines: messages are settled one by one, with all
files or with none and a failure, and then the batch is answered.

`LogFiles` describes a key by the parts that the patterns of the code look for, a file's
records by whether they carry an ARN, and translates `Matches`, `Find`, the account and
region of an entry, and the two functions that name a resource.

### ActiveResources

One container over any number of invocations, each one action: `DecideAside` (preflight or
`Enforce` decide without counting), `RefuseProject`, `CountTracked` (a license without a
limit), `CountDenied`, `CountUnasked` (from the lease, or after a failed query) and
`CountActive` (from CloudWatch). Other containers are an environment that writes
heartbeats; since the heartbeats are all that containers share, and steps of other
containers between two requests of an invocation could as well come before it, this loses
nothing. Time is abstract: a lease or a heartbeat may end at any moment (`LeaseEnds`,
`Expire`); what the times guarantee is the subject of `CloudWatchRegistry`. `calm` marks
the moment from which only the resources in `Lasting` write logs.

### StreamPipeline

`Producer` is the reading goroutine (line scanner, JSON decoder or parquet reader),
`Worker(w)` a goroutine of the pool, `CloseOut` the goroutine that waits for it, `Caller`
the collecting loop. A channel is a set with a capacity: no order is kept by the pool. The
fault of an object is chosen initially: between two records or inside one. The JSON
decoder's `More` notices only the latter (`Swallowed`).

### CloudWatchRegistry

Each request is an action, so that the calls of several containers interleave between
them. `evalTime` is the time the call uses: the clock, or an older `SentTimestamp`.
`points` are the metric data, with the time they carry (`at`) and the true time they were
put (`pub`); CloudWatch may hide a point for `Lag`. `touched`, `lastSeen` and `queried` are
history variables, used by properties only.

### LicenseEnforcement

A state machine of three steps, `Preflight`, `Process`, `EnforceBatch`, around a decision
written as operators in the order of the code: `Mode`, the free path `FreeUse`, the list
`Checks` of the token path whose first failing member decides, and `FallsBack`. `Entitled`
says what the terms entitle a batch to without that order. The initial states are all
batches over the constants, and all builds. A build has what `ReleaseTerms` looks at: its
version, commit, date and digest, and the signatures found for it in their order;
`SignedDates` says which dates were signed for exactly this build.

### Metering

One container's counters over a sequence of invocations. `ReadFiles` counts bytes, also
those of files that fail later; `EnforceLicensed`, `EnforceFree`, `EnforceUnchecked` and
`RejectLicense` are the paths of `Enforce` by what they do to the tracker; metrics are
emitted in `SendSucceeds` and `Reject` and not in `InvocationFails`, as in the handler. A
batch is read in one action since its goroutines only add to counters.

### MetricEmission

One emission after the other of one container: `EmitMetrics` writes the EMF record and
chooses the way on, `PutProduct` and `PutLicense` are the two `PutMetricData` requests of
`PublishCrossRegionMetrics`. `Put` lets a request be stored or not and its answer come too
late; `expired` is the deadline they share. `claims` says whether the status of this
invocation has claims, which decides on the central region, and with `named`, whether the
license has an ID, on the second request. A
container may die at any step: that is the end of a behaviour, of which every prefix is
checked.

## 3. Runs

| Run | Question | States | Outcome |
| --- | --- | --- | --- |
| `otlp_sender` | does `SendLogs` keep its promises in every interleaving? | 450 thousand | holds |
| `sqs_pipeline` | is anything lost, exported without a license, or left unsettled? | 75 thousand | holds |
| `sqs_duplicates` | "preventing duplicate logs"? | | violated |
| `stream` | do the readers deliver all or an error, safely, and end? | 4 thousand | holds |
| `stream_corrupt` | does a corrupt file always fail? | | violated |
| `registry` | how stale is a count? | 1.9 million | holds |
| `license` | are decisions exact, lax and sound where they should be? | 500 thousand | holds |
| `metering` | can the volume be billed, do ceilings and banners hold? | 2.8 million | holds |
| `metering_sum` | do the samples add up? | | violated |
| `emission` | can the bill be audited, do lost samples leave gaps? | 197 thousand | holds |
| `fanout` | do goroutines read a batch as a loop would, and does the license see all of it? | 20 thousand | holds |
| `resources` | is each entitlement counted for itself and as a whole, and its quota left again? | 55 thousand | holds |

Where a run leaves out the type invariant of its module, that is a theorem (section 4).

The violated ones each quote a sentence of the documentation or a comment that the code
does not live up to; `PROJECT.json` says under "findings" which and why.

What the passing runs show beyond that. `ExactlyOnceOnNil`: the record is in exactly one
acknowledged batch, so neither slicing nor an early exit nor a worker that aborted silently
loses or repeats one. `ErrorIsPrimary`: no worker's "context canceled" hides its cause.
`DeletedIsDelivered`: no silent loss except by the documented discard.
`UnlicensedNeverExported`: a failing batch mate cannot make the mode lax for a message.
`BoundedStaleness`: a call on an unskewed clock counts each resource that some container
covered in the window, minus a lease, a lag and a heartbeat interval; late messages,
partial publications and timeouts cost nothing. `IdleForgotten` is its converse.
`StrictIsExact`, `PreflightIsSound`, `WarnNeverStops`, `ClockDefence`: see their comments.
`LastSamplesCoverDelivery`: bills drawn from the last sample of each container cover all
that was delivered. `FreeUseIsCapped`: ceilings hold over many batches in strict mode.
`BilledIsLogged` and `LostSamplesAreCovered`: the order of log and requests, and totals
that only grow, are what makes it harmless that errors of the requests are dropped.
`ImplementsBatchRead`: no append is lost and no failed message contributes, in any
interleaving. `EnforceSeesWhatIsSent`: no record goes to the endpoint whose account,
feature, bucket or resource was not shown to the license check. `OneNamePerResource`: the
names from records and from keys agree, with two exceptions that section 6 describes.
`CountsOneEntitlement` and `FleetWithinQuota` say what the entitlement key is for: a
renewed license goes on with the count of its subscription, other licenses and other free
environments are not added, and containers that are small on their own are counted
together. `QuotaRecovers`: heartbeats are written before the quota is checked, so that a
batch that is refused counts all the same; yet nothing stays over the limit forever.
`StrictIsExact` and `ClockDefence` cover conversion too: a build that was not signed as
it is never skips the license check, whatever signature lies beside it.

### Bounds

- `MCOtlpSender`: groups of three records and one, batches of two (a full and a short one
  in one group, and a second group), two tokens for three workers so that one waits, one
  retry, one status of each class. A third retry or a fourth batch adds no new order of
  acquire, fail, cancel and abort; the proofs cover the rest.
- `MCSqsPipeline`: two containers, three messages (licensed, unlicensed in a production
  bucket, unparseable), batches of up to two, two receives, three deployments. Two
  containers and two receives are what duplicates and redelivery need.
- `MCStreamPipeline`: four records, one bad, two workers, channels of one: each channel
  fills and both sides block. A fault lies anywhere in the stream, or the file is no
  parquet file at all, which is a panic.
- `MCCloudWatchRegistry`: two containers, two resources, requests of one metric, durations
  of 2 with a window of 5 and a clock up to 8, three calls, one fault: enough for publish,
  expire and query by different containers with one late message and one failure.
- `MCMessageFanout`: an EventBridge event, a direct notification with four records (one
  without a key, one of no processor, one with an escaped key), and a body that is no
  event; 0, 1 and 2 slots for the three. Two messages in the critical section at once need
  two slots, a blocked one needs a third message.
- `MCActiveResources`: two resources with a limit of one, so that either alone is within it;
  eight deployments (a renewal, two kinds of license, a registry elsewhere, free
  environments of a project and of none, free use under a productive name, a foreign
  project, no limit), each with what the other containers run. The number of invocations is not bounded.
- `MCLicenseEnforcement`: an official build, and one of other sources that lies beside the
  official signature; every mode and token; a keyword nowhere, in one place or in two;
  one offence of each kind, and two that fall back differently; clocks before, at and after
  both dates with drifts below, at and above the tolerance; a signature of a longer commit
  id. The change date itself is not counted (`OnTheDate`), the proofs cover both.
- `MCMetering`: three messages of no, one and two records, one container that is replaced once (containers share
  nothing but the queue), two receives, time in half hours up to 4. Deadlock is not checked
  there, because the bounded clock and receive counts do stop the model; the other runs
  check it, with a `Finished`, `Done` or `Exhausted` step where the program is over.
- `MCMetricEmission`: the default region and another as home, a token that names none, the
  home or a third, with an ID or not, totals up to 3: enough for a loss, a fallback and a sample after them.

`MaxTime`, `MaxCalls`, `MaxFaults`, `MaxBytes` and `MaxReplaced` only bound exploration; the
theorems hold for any value of them.

### Fairness

`OtlpSender`: weak fairness of the main goroutine and of each worker. The Go scheduler
runs a runnable goroutine, timers fire, and the HTTP client's timeout of 30 seconds ends
every request. Nothing obliges the endpoint to accept or the caller's context to end.
`StreamPipeline`: weak fairness of each goroutine; the SDK ends a read that stalls.
`SqsPipeline`: weak fairness of each handler, of receiving and of the redrive; a container
may crash instead of progressing, and `MaxReceive` bounds how often.
`MessageFanout`: weak fairness of the handler and of each goroutine; a read of S3 ends
because the request has a deadline, and the mutex needs no more than weak fairness since
each goroutine takes it once and holds it for one step.
`ActiveResources`: logs keep coming (weak fairness of invocations), leases end, heartbeats
of resources out of use leave the window, and CloudWatch does not fail forever: strong
fairness of a query that could succeed, as failing ones come in between. The other modules
state no liveness property and no fairness.

## 4. Proofs

All from the named assumptions on the constants, which TLC evaluates for the instances.
Most are what the code requires (finitely many groups and messages, positive sizes,
`LeaseDuration` and the heartbeat interval within the tolerated drift); `NamesAssumption`
and `NamingAssumption` are about the world, and section 5 explains them.

- `OtlpSenderProofs`. The invariant `IInv` is `TypeOK`, `TokenInv` (`sem` is the number of
  workers between acquire and release; alone `sem <= MaxConcurrent` is not inductive),
  `SliceInv` (offsets are multiples of the batch size, launched workers are those below
  them, so batches are disjoint and cover what is walked), `ErrorInv` (a "canceled" cause
  needs an ended context, and the context is cancelled only after `errChan` is filled) and
  `ReturnInv` (after the return nothing runs, and nil means no error and a live context).
  `NilIsExactlyOnce`, `ErrorsArePrimary`, `ReturnIsQuiescent`, `InFlightIsBounded` follow
  from it, and `Refinement`: every step is a step of `BatchExport` or a stutter.
- `SqsPipelineProofs`. `IInv` ties the batches of the containers together: held messages
  belong to one container, entries are files of messages read, what is sent was counted in
  `exports`, a container that sends has passed `Enforce` on what it sends, and an accepted
  response has exported all its entries. The license part rests on strictness being
  monotone in the batch: what is strict for a message alone is strict for its batch.
- `StreamPipelineProofs`. `CloseInv` orders closing (`out` closes only after every worker
  ended, which needs `in` closed and empty, which needs the error stored), `PlaceInv` puts
  each good record before the producer's position in exactly one place (a channel, a
  worker's hand, the entries). `Refinement` to `FileRead` follows, with the one exception
  the module names: the fault that the JSON decoder swallows.
- `CloudWatchRegistryProofs`. The invariant relates marks, points and history: a marked
  heartbeat has a point not older; a touched resource has a point within a heartbeat
  interval; a lease that is valid for an unskewed call was taken less than a lease ago and
  knows every point that was shown then. `StalenessIsBounded` and `IdleIsForgotten` are
  action properties that follow from it. Finite set cardinality comes from
  `FiniteSetTheorems`.

- `MessageFanoutProofs`. `SemInv` (the slots are held by the goroutines between acquire and
  release), `LockInv` (the owner of the mutex is the one goroutine between `Lock` and
  `Merge`, and what it has read is still what is there: this makes `append` atomic),
  `GroupInv` (`wg` is the number of goroutines that are not gone, whence the wait),
  `ReadInv` (what a goroutine has collected is the records before its index), `GainInv`
  (what is merged is, message by message, all its files or a failure), `ToldInv` (what
  `Enforce` is told is derived from the final variables). `Refinement` to `BatchRead` and
  the four invariants follow, for any batch, bodies and number of slots.
  `OneName` needs two more facts. What is in `keys` are files that some processor reads,
  which follows from the refinement step; and the name in the records and the one in the
  key are both `NameOf` the resource (`NamesAgree`, one case for each processor), so that
  there is a surjection from resources to names.
- `LicenseEnforcementProofs`. The module has three steps and its difficulty is in the
  operators, so most lemmas are about those: `Checks` decides by its first failing member,
  the free path and the token path each agree with `Entitled`, conversion needs a signature
  for exactly this build, and the clock moves a date by the tolerated drift at most. `IInv`
  is `TypeOK`, `StateInv` (build, batch, clocks and reply are possible ones), `VerdictInv`
  (what a decision says was true at its time: before the end of the grace period, or
  converted; in warn mode no error; its clock within the drift) and `StrictIsExact`. `PreflightSound` compares
  `Enforce` with the decision on a batch from which only the buckets are known
  (`BaselineIsLess`). `ClockDefended`, `WarnHarmless` and `StrictExact` follow.
- `MeteringProofs`. `IInv` is `TypeOK`, `AuthInv` (a container at work has the time of a
  message), `BytesInv` (what is read and not settled is in the counter beyond the last
  sample, what is settled is in the samples), `RecordsInv` (what a strict container under
  the free grant delivered, or is about to, it has counted, within the ceilings) and
  `BannerInv` (the remembered time is that of the latest banner).
  `LastSamplesBill`, `FreeUse` and `BannersApart` follow. The volumes are sums over finite
  sets, written as folds; what they do when a member is added is proved by a minimal
  counterexample, with well-foundedness of the strict subsets of a finite set, since the
  library's induction theorems cannot be instantiated.
- `MetricsProofs`, about two modules. For `ActiveResources` the heart is `SameIsOneKey`:
  `Same` says in words of licenses and projects who is to be counted together,
  `ResolveEntitlementKey` computes a key through six fallbacks, and two deployments are the
  same if and only if their keys are equal. `IInv` is `TypeOK`, `KnownInv` (a license
  without a limit never has anything in a registry) and `MetricMatchesDecision`, which
  needs it: `getActiveResourceCount` prefers the registry to the tracker. A lease is taken
  by a query only (`LeaseIsTakenByQuery`), whose answer lies between what is shown and what
  is written; with `SameIsOneKey` this gives `OneEntitlement` and `QuotaCoversFleet`. For
  `MetricEmission`, `PutInv` (while requests are made, their samples are in the log) and
  `TotalInv` (no sample exceeds the total) give `BilledCanBeAudited` and, as an action
  property, `LossesAreCovered`.

Every safety invariant and action property of the passing runs is a theorem. Only
model-checked are the liveness properties (`SendLogsReturns`, `ReadReturns`,
`EveryMessageSettles`, `UnlicensedIsDeadLettered`, `BatchCompletes`, `QuotaRecovers`):
fairness and ENABLED are out of the prover's reach. No module uses a RECURSIVE operator.
The properties of the violated runs are false and have no theorem.

## 5. Assumptions worth knowing

- The visibility timeout exceeds the Lambda timeout, as the template asks; otherwise a
  message may be held twice.
- `Enforce` reads the license file twice (enforcer.go:470 and 611). `SqsPipeline` lets
  either read fail; `LicenseEnforcement` has them agree within one decision, so that its
  "unreadable" is a file that both fail to read.
- `Unlicensed` of `SqsPipeline` are objects that neither the license nor the free grant
  covers; what the grant alone covers is told apart in `LicenseEnforcement`.
- The library's `BSLPolicy.IsConverted` may count the change date itself, which
  `IsApacheConverted` does not: the constant `OnTheDate` of `ReleaseTerms` leaves that open.
  Its one grant lists the environments of `IsNonProductionEnvironment`, so that one flag
  stands for the three tests of them. `Abbreviates` says which commit ids are prefixes.
- In `SqsPipeline` a batch looks like production through its declared environment or a
  bucket name; keywords in resource names are covered by `LicenseEnforcement`.
- A registry call takes no time on the scale of minutes. The container's clock is true in
  `CloudWatchRegistry` and `Metering`; a wrong one is the subject of `LicenseEnforcement`.
- `ClockDefence` is relative to the `SentTimestamp` of the first message with one.
- `CloudWatchRegistry` has one entitlement key; keys share only the `lastActiveCount` metric.
- `NamesAssumption` of `ActiveResources`: every license names something, and a name of one
  kind is not one of another (a subscription is not called like a license or an
  organisation, no organisation "unlicensed"). The code joins names with separators and
  cannot tell them apart otherwise; here keys are tuples. The issuer has to see to it.
- `NamingAssumption` of `MessageFanout`: AWS names a file by the account and, for a load
  balancer, the region of its resource; a web ACL has an ARN in all of its records or none.
  So the account of an entry is one of its file, which the code derives for each record,
  and an ARN has a region (a certificate's without one falls back to the key's).
- S3 escapes the keys of direct notifications, so that `url.QueryUnescape` does not fail.
- A payload that cannot be marshalled or an endpoint that is no URL ends a batch like a
  status that is not retried; `OtlpSender` has no step of its own for it.
- A build date and the signed one are equal or not; `datesMatch` tolerates two seconds.
- `MAX_BATCH_SIZE` is at least 1. Nothing in the code guards it: with 0 the slicing loop
  (`otlp_client.go:165`) never ends, each turn launching a worker for an empty batch. `MAX_CONCURRENT`
  may be 0 in `MessageFanout`, where then nothing is read; elsewhere it is at least 1.
- Only the numeric clock is modelled: no leap, no sub-unit rounding of metric periods.

## 6. Divergences noted without a run

- README.md:274 and docs/otel-aws-log-processor.md:125 call `warn` the default mode,
  README.md:86 and the code say `auto`.
- docs/otel-aws-log-processor.md:148 says every batch execution emits metrics; an invocation
  whose send fails does not (main.go:520-523).
- cloudwatch_registry.go:26 calls the lease "the in-container cache duration before querying
  CloudWatch again (3 minutes)"; it is measured in `evalTime` (lines 231 and 284), which a
  late message moves back, so that a container whose calls carry late timestamps uses it
  longer. `BoundedStaleness` speaks of calls on an unskewed clock for that reason.
- docs/otel-aws-log-processor.md:191 wants metrics "aggregated into a single centralized
  region"; a batch that falls back to the free grant has a status without claims and goes
  to us-east-1 (enforcer.go:1382), whatever region the token names for the others.
- docs/otel-aws-log-processor.md:238 says ReportBatchItemFailures retries failed files. When
  `Enforce` rejects a batch and the action is discard, main.go:506 replaces the list of
  failures, so that a message whose file could not be read for a moment is acknowledged
  with the others and its file is never processed. With the action dlq (main.go:498) a
  failed message is listed twice, which is harmless.
- docs/otel-aws-log-processor.md:140 promises a warning banner "at most once every 60 minutes
  per Lambda container" (also docs/plans.md:276). quota.go:143 measures from the evalTime of
  the batch, which for a late message is its `SentTimestamp`: a batch of old messages sets
  `lastWarningTime` in the past, and a current batch right after it logs another banner.
  `BannersAreApart` holds on the clock that `Enforce` uses.
- docs/plans.md:130 defines a monitored resource as "a unique active ingress infrastructure
  endpoint", and 183 has them deduplicated. A CloudFront key without a folder
  for the distribution (accepted by cloudfront_processor_test.go:17) yields no account for
  its records, but does for the name read off the key: the distribution has two names and
  counts twice, and its account is not among those checked. A WAF key under a prefix
  `aws-waf-logs-...` gives the web ACL a second name. `OneNamePerResource` excepts both.
- model.go:653 says the registry's region is that of the license. It comes from the claims
  of the preflight (main.go:262): if the preflight fell back to the free grant while
  `Enforce` verifies, the batch is counted in the local region. The metric follows, as
  `MetricMatchesDecision` shows.
- docs/plans.md:169 has `MaxResources` "within the running Lambda container lifecycle"; it is
  counted across containers and over an hour.
- When the registry knows nothing, or after an AccessDenied, the metric shows what the
  container has tracked since it started, or what the registry knew before, while the
  decision was made on 0 (main.go:97-104, cloudwatch_registry.go:155).
- Since `BytesProcessed` is the container's total, samples under a license also count what
  the container read in batches that fell back to the free grant.

## 7. Plan

Done, in this order: sender, handler and queue, readers, registry, license decision,
metering, publication; the fan-out of a batch with its refinement, names and processors of
files, active resources, and the change date; proofs of all safety properties of these.
Left:

1. `SqsPipeline` as a composition: `Enforce` of `LicenseEnforcement` in place of its
   abstraction, and a refinement from the one to the other.
2. `BatchExport`, `FileRead` and `BatchRead` as parts of `SqsPipeline`, instead of being
   restated in its actions.

## 8. Running

    tlc -config MCOtlpSender.cfg MCOtlpSender      # and so on for each run
    tlapm OtlpSenderProofs.tla                     # and so on for each *Proofs module

## 9. Not modelled, and why

Field-level parsing and attribute building, user-agent enrichment, headers, identifiers:
pure functions with unit tests. Cryptography, claims and revocation lists, with the cache
of the latter: an external library whose source is not here. The double-checked locking of
the client caches: one invocation at a time fills them. Signing of releases: a build tool.
IAM, alarms and KMS of the stack.
