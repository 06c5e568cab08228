--------------------------- MODULE MessageFanout ----------------------------
(***************************************************************************)
(* How the handler of src/cmd/lambda/main.go reads a batch: one goroutine  *)
(* per SQS message behind a semaphore of MAX_CONCURRENT, each of which     *)
(* parses its message (src/pkg/events/s3_event.go), reads the log files it *)
(* names one after the other, and adds what it found to the variables of   *)
(* the handler under a mutex; and what the handler then tells the license  *)
(* check.                                                                  *)
(*                                                                         *)
(* What a goroutine does to its own variables in one turn of its loop is   *)
(* one step.  append(s, ...) reads s and then writes it, two steps that    *)
(* only the mutex keeps together.                                          *)
(***************************************************************************)
EXTENDS LogFiles, FiniteSets

CONSTANTS
    Messages,           \* the messages of the batch
    Buckets, Keys,      \* the names in them
    Body,               \* Body[m]: what the body of m holds
    CallerAccount,      \* the account the function runs in
    EnrichUserAgent,    \* ENRICH_USER_AGENT
    Limits              \* values of MAX_CONCURRENT to explore

(* A record of an S3 event; escaped says that the key is not the object's  *)
(* yet, as it has characters that a direct notification escapes.           *)
S3Record ==
    [bucket : Buckets \cup {NoName}, key : Keys \cup {NoKey}, escaped : BOOLEAN]

(* A body, or the Message of the SNS notification it holds: the record of  *)
(* an EventBridge event, without a bucket if it is no such event, and the  *)
(* records of a direct notification.                                       *)
ASSUME BodyAssumption ==
    Body \in [Messages -> [eventBridge : S3Record, direct : Seq(S3Record)]]

ASSUME FanoutAssumption ==
    /\ IsFiniteSet(Messages)
    /\ EnrichUserAgent \in BOOLEAN
    /\ Limits \subseteq Nat

(* How AWS names the files of a resource: their account, and the region of *)
(* a load balancer, are the resource's; only the files of a distribution   *)
(* are marked by its id and a date; the files of a resource are those of   *)
(* one service, and the records of a web ACL all have an ARN or none has.  *)
ASSUME NamingAssumption ==
    /\ IsFiniteSet(Keys)
    /\ \A k \in Keys :
          /\ KeyHasRegion(k) => k.account = k.resource.account
          /\ KeyHasRegion(k) /\ k.service = "elasticloadbalancing"
                => k.folder = k.resource.region
          /\ "dist.date" \in k.marks => k.service = "CloudFront"
    /\ \A k, l \in Keys : k.resource = l.resource =>
          /\ k.service = l.service
          /\ k.service = "WAFLogs" => k.arns = l.arns

VARIABLES
    limit,      \* maxConcurrent
    main,       \* the handler: "spawn", "wait", "enforce" or "killed"
    wg,         \* the counter of the wait group
    sem,        \* the goroutines that hold a slot of the semaphore
    mu,         \* the owner of the mutex
    pc,         \* pc[m]: where the goroutine of m is
    next,       \* next[m]: the index of its loop
    failed,     \* msgFailed
    local,      \* recordEntries, recordKeys, recordBuckets, recordFeatures
    shared,     \* what they are added to, and response.BatchItemFailures
    snap,       \* what append has read of them
    seen        \* what Enforce is told

goVars == <<sem, mu, pc, next, failed, local, shared, snap>>
vars == <<limit, main, wg, goVars, seen>>

NoOwner == "none"
ASSUME OwnerAssumption == NoOwner \notin Messages

(* The entries of a file stand for it in entries; a file is named by the   *)
(* message and the index of its record.                                    *)
Nothing == [entries |-> {}, keys |-> {}, buckets |-> {}, features |-> {}]
NothingShared ==
    [entries |-> {}, keys |-> {}, buckets |-> {}, features |-> {}, failures |-> {}]
NothingSeen == [accounts |-> {}, resources |-> {}, buckets |-> {}, features |-> {}]

Init ==
    /\ limit \in Limits
    /\ main = "spawn"
    /\ wg = 0
    /\ sem = {}
    /\ mu = NoOwner
    /\ pc = [m \in Messages |-> "new"]
    /\ next = [m \in Messages |-> 1]
    /\ failed = [m \in Messages |-> FALSE]
    /\ local = [m \in Messages |-> Nothing]
    /\ shared = NothingShared
    /\ snap = [m \in Messages |-> NothingShared]
    /\ seen = NothingSeen

-----------------------------------------------------------------------------
(***************************************************************************)
(* ParseBodyAsS3                                                           *)
(***************************************************************************)

(* Of a direct notification only the first record is looked at.            *)
IsEventBridge(b) == b.eventBridge.bucket # NoName
IsDirect(b) == b.direct # <<>> /\ b.direct[1].bucket # NoName
Parses(m) == IsEventBridge(Body[m]) \/ IsDirect(Body[m])

(* The keys of a direct notification are escaped by S3, so that they can   *)
(* all be unescaped.                                                       *)
ParseBodyAsS3(b) ==
    IF IsEventBridge(b) THEN <<b.eventBridge>>
    ELSE IF IsDirect(b)
         THEN [i \in DOMAIN b.direct |-> [b.direct[i] EXCEPT !.escaped = FALSE]]
         ELSE <<>>

Records(m) == ParseBodyAsS3(Body[m])
Bucket(f) == Records(f[1])[f[2]].bucket
KeyOf(f) == Records(f[1])[f[2]].key

(* The buckets PreflightEnforce was told of: all that are named.  The bug  *)
(* looks at the first record of a body only.                               *)
Named(m) == {m} \X DOMAIN Records(m)
PreflightBuckets_Bug ==
    {Records(m)[1].bucket : m \in {n \in Messages : Parses(n)}} \ {NoName}
PreflightBuckets ==
    (UNION {{Bucket(f) : f \in Named(m)} : m \in Messages}) \ {NoName}

-----------------------------------------------------------------------------
(***************************************************************************)
(* The goroutine of a message.                                             *)
(***************************************************************************)
Goto(m, l) == pc' = [pc EXCEPT ![m] = l]

(* The bug takes a slot too many. *)
Free_Bug == Cardinality(sem) <= limit
Free == Cardinality(sem) < limit

(* sem <- struct{}{}, and the body is parsed; one that is no S3 event is   *)
(* given up, which is no failure.  The bug returns before the deferred     *)
(* release of the slot.                                                    *)
Acquire_Bug(m) ==
    /\ pc[m] = "acquire"
    /\ Free
    /\ sem' = sem \cup {m}
    /\ Goto(m, IF Parses(m) THEN "read" ELSE "finish")
    /\ UNCHANGED <<limit, main, wg, mu, next, failed, local, shared, snap, seen>>
Acquire(m) ==
    /\ pc[m] = "acquire"
    /\ Free
    /\ sem' = sem \cup {m}
    /\ Goto(m, IF Parses(m) THEN "read" ELSE "release")
    /\ UNCHANGED <<limit, main, wg, mu, next, failed, local, shared, snap, seen>>

Current(m) == <<m, next[m]>>
Reading(m) == pc[m] = "read" /\ next[m] \in DOMAIN Records(m)

Incomplete(f) == Bucket(f) = NoName \/ KeyOf(f) = NoKey
Matched(f) == ~Incomplete(f) /\ Find(Bucket(f), KeyOf(f)) # NoProcessor

Advance(m, l) ==
    /\ next' = [next EXCEPT ![m] = @ + 1]
    /\ local' = [local EXCEPT ![m] = l]
    /\ UNCHANGED <<limit, main, wg, sem, mu, pc, failed, shared, snap, seen>>

(* A record without a bucket or a key is skipped.                          *)
SkipRecord(m) ==
    /\ Reading(m) /\ Incomplete(Current(m))
    /\ Advance(m, local[m])

WithBucket(l, f) == [l EXCEPT !.buckets = @ \cup {Bucket(f)}]
WithKey(l, f) == [WithBucket(l, f) EXCEPT !.keys = @ \cup {f}]
WithEntries(l, f) ==
    [entries |-> l.entries \cup {f},
     keys |-> l.keys \cup {f},
     buckets |-> l.buckets \cup {Bucket(f)},
     features |-> l.features \cup Features(Bucket(f), KeyOf(f), EnrichUserAgent)]

(* No processor wants the object; its bucket counts all the same.          *)
IgnoreObject(m) ==
    /\ Reading(m) /\ ~Incomplete(Current(m)) /\ ~Matched(Current(m))
    /\ Advance(m, WithBucket(local[m], Current(m)))

(* The object is read.  It may have no entries.                            *)
ReadObject(m) ==
    /\ Reading(m) /\ Matched(Current(m))
    /\ ~Records(m)[next[m]].escaped
    /\ \E l \in {WithKey(local[m], Current(m)), WithEntries(local[m], Current(m))} :
          Advance(m, l)

(* An object that cannot be read ends the loop.                            *)
ReadFails(m) ==
    /\ Reading(m) /\ Matched(Current(m))
    /\ failed' = [failed EXCEPT ![m] = TRUE]
    /\ local' = [local EXCEPT ![m] = WithBucket(@, Current(m))]
    /\ Goto(m, "lock")
    /\ UNCHANGED <<limit, main, wg, sem, mu, next, shared, snap, seen>>

EndOfMessage(m) ==
    /\ pc[m] = "read"
    /\ next[m] \notin DOMAIN Records(m)
    /\ Goto(m, "lock")
    /\ UNCHANGED <<limit, main, wg, sem, mu, next, failed, local, shared, snap, seen>>

(* mu.Lock(), after which append reads the slices.  The bug does not wait  *)
(* for the mutex.                                                          *)
Lock_Bug(m) ==
    /\ pc[m] = "lock"
    /\ mu' = m
    /\ snap' = [snap EXCEPT ![m] = shared]
    /\ Goto(m, "merge")
    /\ UNCHANGED <<limit, main, wg, sem, next, failed, local, shared, seen>>
Lock(m) ==
    /\ pc[m] = "lock"
    /\ mu = NoOwner
    /\ mu' = m
    /\ snap' = [snap EXCEPT ![m] = shared]
    /\ Goto(m, "merge")
    /\ UNCHANGED <<limit, main, wg, sem, next, failed, local, shared, seen>>

Joined(s, l) ==
    [entries |-> s.entries \cup l.entries,
     keys |-> s.keys \cup l.keys,
     buckets |-> s.buckets \cup l.buckets,
     features |-> s.features \cup l.features,
     failures |-> s.failures]
Blamed(s, m) == [s EXCEPT !.failures = @ \cup {m}]

(* A failed message is listed and adds nothing; the bug adds what was read *)
(* of it.                                                                  *)
Merged_Bug(m) ==
    IF failed[m] THEN Joined(Blamed(snap[m], m), local[m])
    ELSE Joined(snap[m], local[m])
Merged(m) ==
    IF failed[m] THEN Blamed(snap[m], m) ELSE Joined(snap[m], local[m])

(* The slices are written, mu.Unlock().                                    *)
Merge(m) ==
    /\ pc[m] = "merge"
    /\ shared' = Merged(m)
    /\ mu' = NoOwner
    /\ Goto(m, "release")
    /\ UNCHANGED <<limit, main, wg, sem, next, failed, local, snap, seen>>

(* <-sem *)
Release(m) ==
    /\ pc[m] = "release"
    /\ sem' = sem \ {m}
    /\ Goto(m, "finish")
    /\ UNCHANGED <<limit, main, wg, mu, next, failed, local, shared, snap, seen>>

(* wg.Done() *)
Finish(m) ==
    /\ pc[m] = "finish"
    /\ wg' = wg - 1
    /\ Goto(m, "gone")
    /\ UNCHANGED <<limit, main, sem, mu, next, failed, local, shared, snap, seen>>

-----------------------------------------------------------------------------
(***************************************************************************)
(* The handler.                                                            *)
(***************************************************************************)

(* wg.Add(1) and go, a message after the other; the bug leaves wg.Add to   *)
(* the goroutine, which gets to it after Wait.                             *)
Spawn_Bug(m) ==
    /\ main = "spawn"
    /\ pc[m] = "new"
    /\ Goto(m, "acquire")
    /\ UNCHANGED <<limit, main, wg, sem, mu, next, failed, local, shared, snap, seen>>
Spawn(m) ==
    /\ main = "spawn"
    /\ pc[m] = "new"
    /\ wg' = wg + 1
    /\ Goto(m, "acquire")
    /\ UNCHANGED <<limit, main, sem, mu, next, failed, local, shared, snap, seen>>

SpawnedAll ==
    /\ main = "spawn"
    /\ \A m \in Messages : pc[m] # "new"
    /\ main' = "wait"
    /\ UNCHANGED <<limit, wg, goVars, seen>>

(* wg.Wait() returns. *)
WaitOver == wg = 0

(* What the handler derives from the merged variables for Enforce.  The    *)
(* buckets fall back to those of the preflight if no message was read.     *)
(* The bug has neither this nor the feature of another account's logs.     *)
Accounts(s) ==
    ({EntryAccount(Bucket(f), KeyOf(f)) : f \in s.entries}
        \cup {KeyAccount(KeyOf(f)) : f \in s.keys}) \ {""}
CrossAccount(s) ==
    IF CallerAccount # "" /\ Accounts(s) \ {CallerAccount} # {}
    THEN {"scope.cross_account"} ELSE {}
Resources(s) ==
    {NameInEntry(Bucket(f), KeyOf(f)) : f \in s.entries}
        \cup UNION {NamesInKey(Bucket(f), KeyOf(f)) : f \in s.keys}

Told_Bug(s) ==
    [accounts |-> Accounts(s), resources |-> Resources(s),
     features |-> s.features, buckets |-> s.buckets]
Told(s) ==
    [accounts |-> Accounts(s), resources |-> Resources(s),
     features |-> s.features \cup CrossAccount(s),
     buckets |-> IF s.buckets = {} THEN PreflightBuckets ELSE s.buckets]

Wait ==
    /\ main = "wait"
    /\ WaitOver
    /\ main' = "enforce"
    /\ seen' = Told(shared)
    /\ UNCHANGED <<limit, wg, goVars>>

(* Lambda ends an invocation that takes too long.                          *)
Timeout ==
    /\ main = "wait"
    /\ main' = "killed"
    /\ UNCHANGED <<limit, wg, goVars, seen>>

-----------------------------------------------------------------------------
Goroutine(m) ==
    /\ main # "killed"
    /\ \/ Acquire(m)
       \/ SkipRecord(m) \/ IgnoreObject(m) \/ ReadObject(m) \/ ReadFails(m)
       \/ EndOfMessage(m)
       \/ Lock(m) \/ Merge(m) \/ Release(m) \/ Finish(m)

Handler == (\E m \in Messages : Spawn(m)) \/ SpawnedAll \/ Wait

Over == main \in {"enforce", "killed"} /\ UNCHANGED vars

Next == Handler \/ Timeout \/ (\E m \in Messages : Goroutine(m)) \/ Over

(* Runnable goroutines run, and a read of S3 ends, as the request has a    *)
(* deadline.  The mutex is free again and again, which is enough as each   *)
(* goroutine takes it once.                                                *)
Fairness == WF_vars(Handler) /\ \A m \in Messages : WF_vars(Goroutine(m))

Spec == Init /\ [][Next]_vars /\ Fairness

-----------------------------------------------------------------------------
File == Messages \X Nat

Collected ==
    [entries : SUBSET File, keys : SUBSET File, buckets : SUBSET Buckets,
     features : SUBSET FeatureNames]
CollectedShared ==
    [entries : SUBSET File, keys : SUBSET File, buckets : SUBSET Buckets,
     features : SUBSET FeatureNames, failures : SUBSET Messages]

TypeOK ==
    /\ limit \in Limits
    /\ main \in {"spawn", "wait", "enforce", "killed"}
    /\ wg \in Nat
    /\ sem \subseteq Messages
    /\ mu \in Messages \cup {NoOwner}
    /\ pc \in [Messages -> {"new", "acquire", "read", "lock", "merge", "release",
                            "finish", "gone"}]
    /\ next \in [Messages -> Nat]
    /\ failed \in [Messages -> BOOLEAN]
    /\ local \in [Messages -> Collected]
    /\ shared \in CollectedShared
    /\ snap \in [Messages -> CollectedShared]

(* At most MAX_CONCURRENT messages are read at a time, whatever the others *)
(* do.  A slot that is not given back, or taken without being counted,     *)
(* would show here or in BatchCompletes.                                   *)
SlotsBounded ==
    Cardinality({m \in Messages : pc[m] \in {"read", "lock", "merge", "release"}})
        <= limit

(* The license check starts when no goroutine can change what it is told   *)
(* any more: each has come to its end and gave back its slot and the lock. *)
WaitIsComplete ==
    main = "enforce" =>
        /\ \A m \in Messages : pc[m] = "gone"
        /\ sem = {} /\ mu = NoOwner

(* Enforce is told of the account, the feature, the bucket and the         *)
(* resource of every entry that goes on to the endpoint, so that no        *)
(* interleaving of the goroutines hides one from the license; and entries  *)
(* of another account are recognised as such, if the own account is known. *)
EnforceSeesWhatIsSent ==
    main = "enforce" =>
        \A f \in shared.entries :
            LET b == Bucket(f) k == KeyOf(f) IN
            /\ b \in seen.buckets
            /\ Features(b, k, EnrichUserAgent) \subseteq seen.features
            /\ NameInEntry(b, k) \in seen.resources
            /\ EntryAccount(b, k) # "" => EntryAccount(b, k) \in seen.accounts
            /\ CallerAccount # "" /\ EntryAccount(b, k) \notin {"", CallerAccount}
                  => "scope.cross_account" \in seen.features

(* The buckets Enforce decides the mode "auto" on are among those the      *)
(* preflight decided it on, and are not fewer than those of a batch that   *)
(* could not be read at all: a batch that was strict may become lax when   *)
(* messages fail, but never the other way round, after its files were      *)
(* read.                                                                   *)
EnforceBucketsWerePreflighted ==
    main = "enforce" =>
        /\ seen.buckets \subseteq PreflightBuckets
        /\ {m \in Messages : {Bucket(f) : f \in Named(m)} \ {NoName} # {}}
                \subseteq shared.failures
              => seen.buckets = PreflightBuckets

(* A resource has one name, whether it is read off the records or off the  *)
(* key of a file and in whatever order files come, or it would use up the  *)
(* quota twice.  Excepted are keys without a folder, whose records do not  *)
(* learn the account, and a prefix that looks like the name of a web ACL.  *)
OneNamePerResource ==
    LET regular == {f \in shared.keys :
                       KeyHasRegion(KeyOf(f)) /\ KeyOf(f).prefix # "aws-waf-logs-"}
    IN  Cardinality(Resources([shared EXCEPT !.keys = regular, !.entries = @ \cap regular]))
            <= Cardinality({KeyOf(f).resource : f \in regular})

(* With at least one slot the batch gets to the license check, unless      *)
(* Lambda ends the invocation.  (Without one no message is ever read.)     *)
BatchCompletes == limit > 0 => <>(main \in {"enforce", "killed"})

-----------------------------------------------------------------------------
(* The goroutines implement BatchRead: a message is settled when it is     *)
(* merged, or when its body turns out to be no S3 event.                   *)
FilesOf == [m \in Messages |-> {f \in Named(m) : Matched(f)}]

BR == INSTANCE BatchRead WITH
        Files <- FilesOf,
        todo <- {m \in Messages : pc[m] \notin {"release", "finish", "gone"}},
        failures <- shared.failures,
        files <- shared.keys,
        answered <- main = "enforce"

(* Every message of a batch contributes all of its files or is listed as a *)
(* failure and contributes none, exactly once, and the license check sees  *)
(* the outcome of all of them: reading a batch in goroutines is reading it *)
(* message by message.                                                     *)
ImplementsBatchRead == BR!Spec
=============================================================================
