------------------------ MODULE MessageFanoutProofs -------------------------
(***************************************************************************)
(* Theorems about MessageFanout, for any batch, any bodies and any         *)
(* MAX_CONCURRENT: slots and wait group are counted correctly, the license *)
(* check is told of all that is sent and of nothing else, and the          *)
(* goroutines implement BatchRead.                                         *)
(***************************************************************************)
EXTENDS MessageFanout, FiniteSetTheorems, TLAPS

Holding == {"read", "lock", "merge", "release"}
Settled == {"release", "finish", "gone"}
Running == {m \in Messages : pc[m] \notin {"new", "gone"}}

(* The semaphore holds the goroutines between acquire and release.         *)
SemInv ==
    /\ sem = {m \in Messages : pc[m] \in Holding}
    /\ Cardinality(sem) <= limit

(* Who has read the slices owns the mutex, and they are still as read.     *)
LockInv ==
    /\ \A m \in Messages : pc[m] = "merge" <=> mu = m
    /\ \A m \in Messages : pc[m] = "merge" => snap[m] = shared

(* The wait group counts the goroutines launched and not ended.            *)
GroupInv ==
    /\ wg = Cardinality(Running)
    /\ main # "spawn" => \A m \in Messages : pc[m] # "new"
    /\ main = "enforce" => \A m \in Messages : pc[m] = "gone"

(* What a goroutine holds are the files before its index.                  *)
Before(m) == {f \in Named(m) : Matched(f) /\ f[2] < next[m]}
ReadInvOf(m) ==
    /\ pc[m] \in {"new", "acquire"} => next[m] = 1 /\ local[m] = Nothing
    /\ pc[m] \in {"new", "acquire", "read"} => ~failed[m]
    /\ pc[m] = "read" => local[m].keys = Before(m) /\ next[m] >= 1
    /\ pc[m] \in {"lock", "merge"} =>
          IF failed[m] THEN FilesOf[m] # {} ELSE local[m].keys = FilesOf[m]
ReadInv == \A m \in Messages : ReadInvOf(m)

(* Entries come with their key, bucket and features, buckets from records. *)
Accompanied(s) ==
    \A f \in s.entries :
        /\ f \in s.keys /\ Bucket(f) \in s.buckets
        /\ Features(Bucket(f), KeyOf(f), EnrichUserAgent) \subseteq s.features
NamedBuckets(m) == {Bucket(f) : f \in Named(m)} \ {NoName}
GainInv ==
    /\ \A m \in Messages :
          Accompanied(local[m]) /\ local[m].buckets \subseteq NamedBuckets(m)
    /\ Accompanied(shared)
    /\ \A b \in shared.buckets :
          \E m \in Messages :
              pc[m] \in Settled /\ ~failed[m] /\ b \in NamedBuckets(m)
    /\ \A m \in shared.failures : failed[m]

(* Enforce was told what the variables hold.                               *)
ToldInv == main = "enforce" => seen = Told(shared)

IInv == TypeOK /\ SemInv /\ LockInv /\ GroupInv /\ ReadInv /\ GainInv /\ ToldInv

-----------------------------------------------------------------------------
(***************************************************************************)
(* Records, processors, features.                                          *)
(***************************************************************************)

(* The records of a message are a sequence of S3 records. *)
LEMMA RecordsType == \A m \in Messages : Records(m) \in Seq(S3Record)
<1> SUFFICES ASSUME NEW m \in Messages PROVE Records(m) \in Seq(S3Record)
  OBVIOUS
<1> DEFINE b == Body[m]
<1>1. b.eventBridge \in S3Record /\ b.direct \in Seq(S3Record)
  BY BodyAssumption
<1>2. <<b.eventBridge>> \in Seq(S3Record) /\ <<>> \in Seq(S3Record)
  BY <1>1
<1>3. [i \in DOMAIN b.direct |-> [b.direct[i] EXCEPT !.escaped = FALSE]]
        \in Seq(S3Record)
  <2>1. DOMAIN b.direct = 1 .. Len(b.direct) /\ Len(b.direct) \in Nat
    BY <1>1
  <2>2. \A i \in 1 .. Len(b.direct) :
            [b.direct[i] EXCEPT !.escaped = FALSE] \in S3Record
    <3>1. ASSUME NEW r \in S3Record PROVE [r EXCEPT !.escaped = FALSE] \in S3Record
      BY DEF S3Record
    <3> QED BY <1>1, <3>1
  <2> QED BY <2>1, <2>2
<1> QED BY <1>2, <1>3 DEF Records, ParseBodyAsS3

(* A named file has a bucket and a key of the batch. *)
LEMMA FileType ==
    ASSUME NEW m \in Messages, NEW f \in Named(m)
    PROVE  /\ f \in File /\ f = <<m, f[2]>> /\ f[2] \in DOMAIN Records(m)
           /\ f[2] \in Nat \ {0}
           /\ Bucket(f) \in Buckets \cup {NoName}
           /\ KeyOf(f) \in Keys \cup {NoKey}
<1>1. Records(m) \in Seq(S3Record)
  BY RecordsType
<1>2. DOMAIN Records(m) = 1 .. Len(Records(m)) /\ Len(Records(m)) \in Nat
  BY <1>1
<1>3. f = <<m, f[2]>> /\ f[1] = m /\ f[2] \in DOMAIN Records(m)
  BY DEF Named
<1>4. f[2] \in Nat \ {0}
  BY <1>2, <1>3
<1>5. Records(m)[f[2]] \in S3Record
  BY <1>1, <1>2, <1>3
<1> QED BY <1>3, <1>4, <1>5 DEF File, Bucket, KeyOf, S3Record

(* Find returns the name of a processor or none. *)
LEMMA FindType ==
    ASSUME NEW b, NEW k
    PROVE  Find(b, k) \in {"ALB", "NLB", "CloudFront", "WAF", "none"}
<1> DEFINE matching == {i \in 1 .. 4 : Matches(b, k)[i].match}
<1>1. CASE matching = {}
  BY <1>1 DEF Find, NoProcessor
<1>2. CASE matching # {}
  <2>1. \E i \in matching : \A j \in matching : i <= j
    <3>1. CASE 1 \in matching
      BY <3>1
    <3>2. CASE 1 \notin matching /\ 2 \in matching
      BY <3>2
    <3>3. CASE 1 \notin matching /\ 2 \notin matching /\ 3 \in matching
      BY <3>3
    <3>4. CASE 1 \notin matching /\ 2 \notin matching /\ 3 \notin matching
      BY <1>2, <3>4
    <3> QED BY <3>1, <3>2, <3>3, <3>4
  <2> DEFINE first == CHOOSE i \in matching : \A j \in matching : i <= j
  <2>2. first \in 1 .. 4
    BY <2>1
  <2>3. \A i \in 1 .. 4 : Matches(b, k)[i].name \in {"ALB", "NLB", "CloudFront", "WAF"}
    BY DEF Matches
  <2>4. Find(b, k) = Matches(b, k)[first].name
    BY <1>2 DEF Find
  <2> HIDE DEF first
  <2> QED BY <2>2, <2>3, <2>4
<1> QED BY <1>1, <1>2

(* A file that some processor reads has features. *)
LEMMA FeaturesType ==
    ASSUME NEW b, NEW k, NEW e, Find(b, k) # NoProcessor
    PROVE  Features(b, k, e) \in SUBSET FeatureNames
<1> DEFINE p == Find(b, k)
<1>1. p \in {"ALB", "NLB", "CloudFront", "WAF"}
  BY FindType DEF NoProcessor
<1> QED BY <1>1 DEF Features, FeatureNames

-----------------------------------------------------------------------------
(***************************************************************************)
(* The four fields a goroutine collects, and the five that are shared.     *)
(***************************************************************************)
Local(e, k, b, f) == [entries |-> e, keys |-> k, buckets |-> b, features |-> f]
Shared(e, k, b, f, x) ==
    [entries |-> e, keys |-> k, buckets |-> b, features |-> f, failures |-> x]

(* What a record adds to a goroutine's variables. *)
LEMMA WithFields ==
    ASSUME NEW l \in Collected, NEW f
    PROVE  /\ WithBucket(l, f) =
                Local(l.entries, l.keys, l.buckets \cup {Bucket(f)}, l.features)
           /\ WithKey(l, f) =
                Local(l.entries, l.keys \cup {f}, l.buckets \cup {Bucket(f)}, l.features)
           /\ WithEntries(l, f) =
                Local(l.entries \cup {f}, l.keys \cup {f}, l.buckets \cup {Bucket(f)},
                      l.features \cup Features(Bucket(f), KeyOf(f), EnrichUserAgent))
<1> DEFINE nb == l.buckets \cup {Bucket(f)}
           nf == l.features \cup Features(Bucket(f), KeyOf(f), EnrichUserAgent)
           l1 == Local(l.entries, l.keys, nb, l.features)
           l2 == Local(l.entries, l.keys \cup {f}, nb, l.features)
<1>1. l = Local(l.entries, l.keys, l.buckets, l.features)
  BY DEF Collected, Local
<1>2. WithBucket(l, f) = l1
  <2>1. [Local(l.entries, l.keys, l.buckets, l.features) EXCEPT !.buckets = nb] = l1
    BY DEF Local
  <2> QED BY <1>1, <2>1 DEF WithBucket
<1>3. WithKey(l, f) = l2
  <2>1. [l1 EXCEPT !.keys = l1.keys \cup {f}] = l2
    BY DEF Local
  <2> QED BY <1>2, <2>1 DEF WithKey
<1>4. WithEntries(l, f) = Local(l.entries \cup {f}, l.keys \cup {f}, nb, nf)
  BY DEF WithEntries, Local
<1> QED BY <1>2, <1>3, <1>4

(* A complete record keeps the types. *)
LEMMA WithTypes ==
    ASSUME NEW l \in Collected, NEW m \in Messages, NEW f \in Named(m), ~Incomplete(f)
    PROVE  /\ WithBucket(l, f) \in Collected
           /\ Matched(f) => WithKey(l, f) \in Collected /\ WithEntries(l, f) \in Collected
<1>1. f \in File /\ Bucket(f) \in Buckets
  BY FileType DEF Incomplete
<1>2. Matched(f) =>
        Features(Bucket(f), KeyOf(f), EnrichUserAgent) \in SUBSET FeatureNames
  BY FeaturesType DEF Matched
<1> QED BY <1>1, <1>2, WithFields DEF Collected, Local

(* What merging a message adds to the shared variables. *)
LEMMA MergedFields ==
    ASSUME NEW s \in CollectedShared, NEW l \in Collected, NEW m
    PROVE  /\ Joined(s, l) =
                Shared(s.entries \cup l.entries, s.keys \cup l.keys,
                       s.buckets \cup l.buckets, s.features \cup l.features, s.failures)
           /\ Blamed(s, m) =
                Shared(s.entries, s.keys, s.buckets, s.features, s.failures \cup {m})
<1> DEFINE r == Shared(s.entries, s.keys, s.buckets, s.features, s.failures)
<1>1. s = r
  BY DEF CollectedShared, Shared
<1>2. [r EXCEPT !.failures = r.failures \cup {m}] =
        Shared(s.entries, s.keys, s.buckets, s.features, s.failures \cup {m})
  BY DEF Shared
<1>3. Blamed(s, m) =
        Shared(s.entries, s.keys, s.buckets, s.features, s.failures \cup {m})
  BY <1>1, <1>2 DEF Blamed
<1>4. Joined(s, l) =
        Shared(s.entries \cup l.entries, s.keys \cup l.keys,
               s.buckets \cup l.buckets, s.features \cup l.features, s.failures)
  BY DEF Joined, Shared
<1> QED BY <1>3, <1>4

LEMMA MergedTypes ==
    ASSUME NEW s \in CollectedShared, NEW l \in Collected, NEW m \in Messages
    PROVE  Joined(s, l) \in CollectedShared /\ Blamed(s, m) \in CollectedShared
BY MergedFields DEF CollectedShared, Collected, Shared

(* The record a goroutine is at. *)
LEMMA CurrentType ==
    ASSUME NEW m \in Messages, Reading(m)
    PROVE  Current(m) \in Named(m) /\ Current(m)[1] = m /\ Current(m)[2] = next[m]
BY DEF Current, Reading, Named

-----------------------------------------------------------------------------
(***************************************************************************)
(* Types.                                                                  *)
(***************************************************************************)
LEMMA InitType == Init => TypeOK
<1> SUFFICES ASSUME Init PROVE TypeOK
  OBVIOUS
<1>1. Nothing \in Collected /\ NothingShared \in CollectedShared
  BY DEF Nothing, NothingShared, Collected, CollectedShared
<1> QED BY <1>1 DEF Init, TypeOK

PcNames == {"new", "acquire", "read", "lock", "merge", "release", "finish", "gone"}

LEMMA GotoType ==
    ASSUME TypeOK, NEW m \in Messages, NEW l \in PcNames, Goto(m, l)
    PROVE  pc' \in [Messages -> PcNames]
BY DEF TypeOK, Goto, PcNames

(* The step of a goroutine keeps the types; wg needs its invariant. *)
LEMMA GoroutineType ==
    ASSUME TypeOK, GroupInv, NEW m \in Messages, Goroutine(m)
    PROVE  TypeOK'
<1> USE DEF TypeOK
<1> DEFINE A(l) == Advance(m, l)
<1>1. CASE Acquire(m)
  <2>1. pc' \in [Messages -> PcNames]
    BY <1>1, GotoType DEF Acquire, PcNames
  <2> QED BY <1>1, <2>1 DEF Acquire, PcNames
<1>2. ASSUME NEW l \in Collected, Advance(m, l) PROVE TypeOK'
  BY <1>2 DEF Advance
<1>3. CASE SkipRecord(m)
  BY <1>2, <1>3 DEF SkipRecord
<1>4. CASE IgnoreObject(m)
  BY <1>2, <1>4, CurrentType, WithTypes DEF IgnoreObject
<1>5. CASE ReadObject(m)
  BY <1>2, <1>5, CurrentType, WithTypes DEF ReadObject, Matched
<1>6. CASE ReadFails(m)
  <2>1. pc' \in [Messages -> PcNames]
    BY <1>6, GotoType DEF ReadFails, PcNames
  <2>2. WithBucket(local[m], Current(m)) \in Collected
    BY <1>6, CurrentType, WithTypes DEF ReadFails, Matched
  <2> QED BY <1>6, <2>1, <2>2 DEF ReadFails, PcNames
<1>7. CASE EndOfMessage(m)
  <2>1. pc' \in [Messages -> PcNames]
    BY <1>7, GotoType DEF EndOfMessage, PcNames
  <2> QED BY <1>7, <2>1 DEF EndOfMessage, PcNames
<1>8. CASE Lock(m)
  <2>1. pc' \in [Messages -> PcNames]
    BY <1>8, GotoType DEF Lock, PcNames
  <2> QED BY <1>8, <2>1 DEF Lock, PcNames
<1>9. CASE Merge(m)
  <2>1. pc' \in [Messages -> PcNames]
    BY <1>9, GotoType DEF Merge, PcNames
  <2>2. Merged(m) \in CollectedShared
    BY MergedTypes DEF Merged
  <2> QED BY <1>9, <2>1, <2>2 DEF Merge, PcNames
<1>10. CASE Release(m)
  <2>1. pc' \in [Messages -> PcNames]
    BY <1>10, GotoType DEF Release, PcNames
  <2> QED BY <1>10, <2>1 DEF Release, PcNames
<1>11. CASE Finish(m)
  <2>1. pc' \in [Messages -> PcNames]
    BY <1>11, GotoType DEF Finish, PcNames
  <2>2. IsFiniteSet(Running) /\ m \in Running
    BY <1>11, FanoutAssumption, FS_Subset DEF Finish, Running
  <2>3. wg # 0
    BY <2>2, FS_EmptySet DEF GroupInv
  <2> QED BY <1>11, <2>1, <2>3 DEF Finish, PcNames
<1> QED BY <1>1, <1>3, <1>4, <1>5, <1>6, <1>7, <1>8, <1>9, <1>10, <1>11 DEF Goroutine

LEMMA HandlerType ==
    ASSUME TypeOK, Handler \/ Timeout
    PROVE  TypeOK'
<1> USE DEF TypeOK
<1>1. ASSUME NEW m \in Messages, Spawn(m) PROVE TypeOK'
  <2>1. pc' \in [Messages -> PcNames]
    BY <1>1, GotoType DEF Spawn, PcNames
  <2> QED BY <1>1, <2>1 DEF Spawn, PcNames
<1>2. CASE SpawnedAll
  BY <1>2 DEF SpawnedAll, goVars
<1>3. CASE Wait
  BY <1>3 DEF Wait, goVars
<1>4. CASE Timeout
  BY <1>4 DEF Timeout, goVars
<1> QED BY <1>1, <1>2, <1>3, <1>4 DEF Handler

-----------------------------------------------------------------------------
(***************************************************************************)
(* The semaphore.                                                          *)
(***************************************************************************)
LEMMA GotoEffect ==
    ASSUME TypeOK, NEW m \in Messages, NEW l, Goto(m, l)
    PROVE  pc'[m] = l /\ \A n \in Messages \ {m} : pc'[n] = pc[n]
BY DEF TypeOK, Goto

(* A step between two places that both hold a slot, or both hold none. *)
LEMMA SemKept ==
    ASSUME TypeOK, SemInv, NEW m \in Messages, NEW l, Goto(m, l),
           pc[m] \in Holding <=> l \in Holding, sem' = sem, limit' = limit
    PROVE  SemInv'
BY GotoEffect DEF SemInv

LEMMA SemStep == ASSUME TypeOK, SemInv, [Next]_vars PROVE SemInv'
<1>1. ASSUME NEW m \in Messages, Goroutine(m) PROVE SemInv'
  <2>1. CASE Acquire(m)
    <3>1. m \notin sem /\ IsFiniteSet(sem) /\ limit \in Nat
      BY <2>1, FanoutAssumption, FS_Subset DEF Acquire, SemInv, Holding, TypeOK
    <3>2. Cardinality(sem') = Cardinality(sem) + 1 /\ Cardinality(sem) \in Nat
      BY <2>1, <3>1, FS_AddElement, FS_CardinalityType DEF Acquire
    <3>3. Cardinality(sem') <= limit'
      BY <2>1, <3>1, <3>2 DEF Acquire, Free
    <3>4. pc'[m] \in Holding /\ \A n \in Messages \ {m} : pc'[n] = pc[n]
      BY <2>1, GotoEffect DEF Acquire, Holding
    <3>5. sem' = {n \in Messages : pc'[n] \in Holding}
      BY <2>1, <3>4 DEF Acquire, SemInv
    <3> QED BY <3>3, <3>5 DEF SemInv
  <2>2. CASE SkipRecord(m) \/ IgnoreObject(m) \/ ReadObject(m)
    BY <2>2 DEF SkipRecord, IgnoreObject, ReadObject, Advance, SemInv
  <2>3. CASE ReadFails(m) \/ EndOfMessage(m)
    BY <2>3, SemKept DEF ReadFails, Reading, EndOfMessage, Holding
  <2>4. CASE Lock(m) \/ Merge(m)
    BY <2>4, SemKept DEF Lock, Merge, Holding
  <2>5. CASE Release(m)
    <3>1. m \in sem /\ IsFiniteSet(sem) /\ limit \in Nat
      BY <2>5, FanoutAssumption, FS_Subset DEF Release, SemInv, Holding, TypeOK
    <3>2. Cardinality(sem') = Cardinality(sem) - 1 /\ Cardinality(sem) \in Nat
      BY <2>5, <3>1, FS_RemoveElement, FS_CardinalityType DEF Release
    <3>3. Cardinality(sem') <= limit'
      BY <2>5, <3>1, <3>2 DEF Release, SemInv
    <3>4. pc'[m] \notin Holding /\ \A n \in Messages \ {m} : pc'[n] = pc[n]
      BY <2>5, GotoEffect DEF Release, Holding
    <3>5. sem' = {n \in Messages : pc'[n] \in Holding}
      BY <2>5, <3>4 DEF Release, SemInv
    <3> QED BY <3>3, <3>5 DEF SemInv
  <2>6. CASE Finish(m)
    BY <2>6, SemKept DEF Finish, Holding
  <2> QED BY <1>1, <2>1, <2>2, <2>3, <2>4, <2>5, <2>6 DEF Goroutine
<1>2. ASSUME NEW m \in Messages, Spawn(m) PROVE SemInv'
  BY <1>2, SemKept DEF Spawn, Holding
<1>3. CASE SpawnedAll \/ Wait \/ Timeout \/ Over \/ UNCHANGED vars
  BY <1>3 DEF SpawnedAll, Wait, Timeout, Over, vars, goVars, SemInv
<1> QED BY <1>1, <1>2, <1>3 DEF Next, Handler

-----------------------------------------------------------------------------
(***************************************************************************)
(* The mutex.                                                              *)
(***************************************************************************)

(* A step that leaves the mutex and what it guards alone. *)
LEMMA LockKept ==
    ASSUME TypeOK, LockInv, NEW m \in Messages, NEW l, Goto(m, l),
           pc[m] # "merge", l # "merge", UNCHANGED <<mu, shared, snap>>
    PROVE  LockInv'
BY GotoEffect DEF LockInv

LEMMA LockStep == ASSUME TypeOK, LockInv, [Next]_vars PROVE LockInv'
<1>1. ASSUME NEW m \in Messages, Goroutine(m) PROVE LockInv'
  <2>1. CASE Acquire(m)
    BY <2>1, LockKept DEF Acquire
  <2>2. CASE SkipRecord(m) \/ IgnoreObject(m) \/ ReadObject(m)
    BY <2>2 DEF SkipRecord, IgnoreObject, ReadObject, Advance, LockInv
  <2>3. CASE ReadFails(m) \/ EndOfMessage(m)
    BY <2>3, LockKept DEF ReadFails, Reading, EndOfMessage
  <2>4. CASE Lock(m)
    <3>1. \A n \in Messages : pc[n] # "merge"
      BY <2>4, OwnerAssumption DEF Lock, LockInv
    <3>2. pc'[m] = "merge" /\ \A n \in Messages \ {m} : pc'[n] = pc[n]
      BY <2>4, GotoEffect DEF Lock
    <3>3. mu' = m /\ snap'[m] = shared /\ shared' = shared
      BY <2>4 DEF Lock, TypeOK
    <3> QED BY <3>1, <3>2, <3>3 DEF LockInv
  <2>5. CASE Merge(m)
    <3>1. \A n \in Messages \ {m} : pc[n] # "merge"
      BY <2>5 DEF Merge, LockInv
    <3>2. pc'[m] = "release" /\ \A n \in Messages \ {m} : pc'[n] = pc[n]
      BY <2>5, GotoEffect DEF Merge
    <3>3. mu' = NoOwner
      BY <2>5 DEF Merge
    <3> QED BY <3>1, <3>2, <3>3, OwnerAssumption DEF LockInv
  <2>6. CASE Release(m) \/ Finish(m)
    BY <2>6, LockKept DEF Release, Finish
  <2> QED BY <1>1, <2>1, <2>2, <2>3, <2>4, <2>5, <2>6 DEF Goroutine
<1>2. ASSUME NEW m \in Messages, Spawn(m) PROVE LockInv'
  BY <1>2, LockKept DEF Spawn
<1>3. CASE SpawnedAll \/ Wait \/ Timeout \/ Over \/ UNCHANGED vars
  BY <1>3 DEF SpawnedAll, Wait, Timeout, Over, vars, goVars, LockInv
<1> QED BY <1>1, <1>2, <1>3 DEF Next, Handler

-----------------------------------------------------------------------------
(***************************************************************************)
(* The wait group.                                                         *)
(***************************************************************************)

(* A step between two places of a goroutine that runs. *)
LEMMA GroupKept ==
    ASSUME TypeOK, GroupInv, NEW m \in Messages, NEW l, Goto(m, l),
           pc[m] \notin {"new", "gone"}, l \notin {"new", "gone"},
           UNCHANGED <<main, wg>>
    PROVE  GroupInv'
<1>1. pc'[m] = l /\ \A n \in Messages \ {m} : pc'[n] = pc[n]
  BY GotoEffect
<1>2. Running' = Running
  BY <1>1 DEF Running
<1> QED BY <1>1, <1>2 DEF GroupInv

LEMMA RunningFinite == IsFiniteSet(Running) /\ Cardinality(Running) \in Nat
BY FanoutAssumption, FS_Subset, FS_CardinalityType DEF Running

(* When the counter is at zero no goroutine runs. *)
LEMMA NobodyRuns ==
    ASSUME GroupInv, wg = 0, main # "spawn"
    PROVE  \A m \in Messages : pc[m] = "gone"
<1>1. Running = {}
  BY RunningFinite, FS_EmptySet DEF GroupInv
<1> QED BY <1>1 DEF GroupInv, Running

LEMMA GroupStep == ASSUME TypeOK, GroupInv, [Next]_vars PROVE GroupInv'
<1>1. ASSUME NEW m \in Messages, Goroutine(m) PROVE GroupInv'
  <2>1. CASE Acquire(m)
    BY <2>1, GroupKept DEF Acquire
  <2>2. CASE SkipRecord(m) \/ IgnoreObject(m) \/ ReadObject(m)
    BY <2>2 DEF SkipRecord, IgnoreObject, ReadObject, Advance, GroupInv, Running
  <2>3. CASE ReadFails(m) \/ EndOfMessage(m)
    BY <2>3, GroupKept DEF ReadFails, Reading, EndOfMessage
  <2>4. CASE Lock(m) \/ Merge(m) \/ Release(m)
    BY <2>4, GroupKept DEF Lock, Merge, Release
  <2>5. CASE Finish(m)
    <3>1. pc[m] = "finish" /\ pc'[m] = "gone"
          /\ \A n \in Messages \ {m} : pc'[n] = pc[n]
      BY <2>5, GotoEffect DEF Finish
    <3>2. m \in Running /\ Running' = Running \ {m}
      BY <3>1 DEF Running
    <3>3. Cardinality(Running') = Cardinality(Running) - 1
      BY <3>2, RunningFinite, FS_RemoveElement
    <3>4. wg' = wg - 1 /\ main' = main
      BY <2>5 DEF Finish
    <3> QED BY <3>1, <3>3, <3>4 DEF GroupInv
  <2> QED BY <1>1, <2>1, <2>2, <2>3, <2>4, <2>5 DEF Goroutine
<1>2. ASSUME NEW m \in Messages, Spawn(m) PROVE GroupInv'
  <2>1. pc[m] = "new" /\ pc'[m] = "acquire"
        /\ \A n \in Messages \ {m} : pc'[n] = pc[n]
    BY <1>2, GotoEffect DEF Spawn
  <2>2. m \notin Running /\ Running' = Running \cup {m}
    BY <2>1 DEF Running
  <2>3. Cardinality(Running') = Cardinality(Running) + 1
    BY <2>2, RunningFinite, FS_AddElement
  <2>4. wg' = wg + 1 /\ main' = main /\ main = "spawn"
    BY <1>2 DEF Spawn
  <2> QED BY <2>3, <2>4 DEF GroupInv
<1>3. CASE SpawnedAll
  BY <1>3 DEF SpawnedAll, GroupInv, goVars, Running
<1>4. CASE Wait
  <2>1. \A m \in Messages : pc[m] = "gone"
    BY <1>4, NobodyRuns DEF Wait, WaitOver
  <2> QED BY <1>4, <2>1 DEF Wait, GroupInv, goVars, Running
<1>5. CASE Timeout \/ Over \/ UNCHANGED vars
  BY <1>5 DEF Timeout, Over, vars, goVars, GroupInv, Running
<1> QED BY <1>1, <1>2, <1>3, <1>4, <1>5 DEF Next, Handler

-----------------------------------------------------------------------------
(***************************************************************************)
(* The loop over the records.                                              *)
(***************************************************************************)

(* The goroutines do not touch each other's variables. *)
LEMMA ReadKept ==
    ASSUME ReadInv, NEW n \in Messages, pc'[n] = pc[n], next'[n] = next[n],
           failed'[n] = failed[n], local'[n] = local[n]
    PROVE  ReadInvOf(n)'
BY DEF ReadInv, ReadInvOf, Before

(* A record is read or skipped. *)
LEMMA AdvanceRead ==
    ASSUME TypeOK, ReadInv, NEW m \in Messages, Reading(m),
           NEW l, Advance(m, l),
           l.keys = local[m].keys \cup (IF Matched(Current(m)) THEN {Current(m)} ELSE {})
    PROVE  ReadInv'
<1> DEFINE f == Current(m)
<1>1. /\ next'[m] = next[m] + 1 /\ local'[m] = l
      /\ pc' = pc /\ failed' = failed
      /\ \A n \in Messages \ {m} : next'[n] = next[n] /\ local'[n] = local[n]
  BY DEF Advance, TypeOK
<1>2. /\ pc[m] = "read" /\ next[m] \in Nat /\ next[m] >= 1 /\ ~failed[m]
      /\ local[m].keys = Before(m)
  BY DEF Reading, TypeOK, ReadInv, ReadInvOf
<1>3. f \in Named(m) /\ f[2] = next[m] /\ f = <<m, next[m]>>
  BY CurrentType DEF Current
<1>4. ASSUME NEW g \in Named(m) PROVE g = <<m, g[2]>> /\ g[2] \in Nat
  BY FileType
<1>5. Before(m)' = Before(m) \cup (IF Matched(f) THEN {f} ELSE {})
  <2>1. \A g \in Named(m) : g[2] < next[m] + 1 <=> g[2] < next[m] \/ g[2] = next[m]
    BY <1>2, <1>4
  <2>2. \A g \in Named(m) : g[2] = next[m] <=> g = f
    BY <1>3, <1>4
  <2>3. Before(m)' = {g \in Named(m) : Matched(g) /\ g[2] < next[m] + 1}
    BY <1>1 DEF Before
  <2> QED BY <1>3, <2>1, <2>2, <2>3 DEF Before
<1>6. ReadInvOf(m)'
  BY <1>1, <1>2, <1>5 DEF ReadInvOf
<1>7. \A n \in Messages \ {m} : ReadInvOf(n)'
  BY <1>1, ReadKept
<1> QED BY <1>6, <1>7 DEF ReadInv, ReadInvOf

LEMMA ReadStep == ASSUME TypeOK, ReadInv, [Next]_vars PROVE ReadInv'
<1>1. ASSUME NEW m \in Messages, Goroutine(m) PROVE ReadInv'
  <2> SUFFICES ReadInvOf(m)' /\ \A n \in Messages \ {m} : ReadInvOf(n)'
    BY DEF ReadInv, ReadInvOf
  <2>0. ReadInvOf(m)
    BY DEF ReadInv, ReadInvOf
  <2>1. CASE Acquire(m)
    <3>1. pc[m] = "acquire" /\ pc'[m] \in {"read", "release"}
          /\ \A n \in Messages \ {m} : pc'[n] = pc[n]
      BY <2>1, GotoEffect DEF Acquire
    <3>2. UNCHANGED <<next, failed, local>>
      BY <2>1 DEF Acquire
    <3>3. next[m] = 1 /\ local[m] = Nothing /\ ~failed[m]
      BY <2>0, <3>1 DEF ReadInvOf
    <3>4. Before(m)' = {}
      BY <3>2, <3>3, FileType DEF Before
    <3> QED BY <3>1, <3>2, <3>3, <3>4, ReadKept DEF ReadInvOf, Nothing
  <2>2. CASE SkipRecord(m) \/ IgnoreObject(m) \/ ReadObject(m)
    <3> SUFFICES ReadInv'
      BY DEF ReadInv, ReadInvOf
    <3>1. CASE SkipRecord(m)
      BY <3>1, AdvanceRead DEF SkipRecord, Matched
    <3>2. CASE IgnoreObject(m)
      <4>1. WithBucket(local[m], Current(m)).keys = local[m].keys
        BY WithFields DEF TypeOK, Local
      <4> QED BY <3>2, <4>1, AdvanceRead DEF IgnoreObject
    <3>3. CASE ReadObject(m)
      <4>1. /\ WithKey(local[m], Current(m)).keys = local[m].keys \cup {Current(m)}
            /\ WithEntries(local[m], Current(m)).keys = local[m].keys \cup {Current(m)}
        BY WithFields DEF TypeOK, Local
      <4> QED BY <3>3, <4>1, AdvanceRead DEF ReadObject
    <3> QED BY <2>2, <3>1, <3>2, <3>3
  <2>3. CASE ReadFails(m)
    <3>1. pc'[m] = "lock" /\ failed'[m] /\ next' = next
      BY <2>3, GotoEffect DEF ReadFails, TypeOK
    <3>2. Current(m) \in FilesOf[m]
      BY <2>3, CurrentType DEF ReadFails, FilesOf
    <3>3. ReadInvOf(m)'
      BY <3>1, <3>2 DEF ReadInvOf, FilesOf
    <3>4. \A n \in Messages \ {m} :
            pc'[n] = pc[n] /\ failed'[n] = failed[n] /\ local'[n] = local[n]
      BY <2>3, GotoEffect DEF ReadFails, TypeOK
    <3> QED BY <3>1, <3>3, <3>4, ReadKept
  <2>4. CASE EndOfMessage(m)
    <3>1. pc[m] = "read" /\ next[m] \notin DOMAIN Records(m)
      BY <2>4 DEF EndOfMessage
    <3>2. next[m] \in Nat /\ next[m] >= 1 /\ ~failed[m] /\ local[m].keys = Before(m)
      BY <2>0, <3>1 DEF ReadInvOf, TypeOK
    <3>3. DOMAIN Records(m) = 1 .. Len(Records(m)) /\ Len(Records(m)) \in Nat
      BY RecordsType
    <3>4. next[m] > Len(Records(m))
      BY <3>1, <3>2, <3>3
    <3>5. \A g \in Named(m) : g[2] < next[m]
      BY <3>2, <3>3, <3>4, FileType
    <3>6. Before(m) = FilesOf[m]
      BY <3>5 DEF Before, FilesOf
    <3>7. pc'[m] = "lock" /\ (\A n \in Messages \ {m} : pc'[n] = pc[n])
          /\ UNCHANGED <<next, failed, local>>
      BY <2>4, GotoEffect DEF EndOfMessage
    <3>8. ReadInvOf(m)'
      BY <3>2, <3>6, <3>7 DEF ReadInvOf, FilesOf
    <3> QED BY <3>7, <3>8, ReadKept
  <2>5. CASE Lock(m)
    <3>1. pc[m] = "lock" /\ pc'[m] = "merge"
          /\ (\A n \in Messages \ {m} : pc'[n] = pc[n])
          /\ UNCHANGED <<next, failed, local>>
      BY <2>5, GotoEffect DEF Lock
    <3> QED BY <2>0, <3>1, ReadKept DEF ReadInvOf, FilesOf
  <2>6. CASE Merge(m) \/ Release(m) \/ Finish(m)
    <3>1. pc'[m] \in {"release", "finish", "gone"}
          /\ (\A n \in Messages \ {m} : pc'[n] = pc[n])
          /\ UNCHANGED <<next, failed, local>>
      BY <2>6, GotoEffect DEF Merge, Release, Finish
    <3> QED BY <3>1, ReadKept DEF ReadInvOf
  <2> QED BY <1>1, <2>1, <2>2, <2>3, <2>4, <2>5, <2>6 DEF Goroutine
<1>2. ASSUME NEW m \in Messages, Spawn(m) PROVE ReadInv'
  <2>1. pc[m] = "new" /\ pc'[m] = "acquire"
        /\ (\A n \in Messages \ {m} : pc'[n] = pc[n])
        /\ UNCHANGED <<next, failed, local>>
    BY <1>2, GotoEffect DEF Spawn
  <2>2. ReadInvOf(m)'
    BY <2>1 DEF ReadInv, ReadInvOf
  <2>3. \A n \in Messages \ {m} : ReadInvOf(n)'
    BY <2>1, ReadKept
  <2> QED BY <2>2, <2>3 DEF ReadInv, ReadInvOf
<1>3. CASE SpawnedAll \/ Wait \/ Timeout \/ Over \/ UNCHANGED vars
  BY <1>3, ReadKept DEF SpawnedAll, Wait, Timeout, Over, vars, goVars, ReadInv, ReadInvOf
<1> QED BY <1>1, <1>2, <1>3 DEF Next, Handler

-----------------------------------------------------------------------------
(***************************************************************************)
(* What is collected.                                                      *)
(***************************************************************************)

(* Other variables, the same gains: pc may move on, but not back. *)
LEMMA GainKept ==
    ASSUME TypeOK, GainInv, UNCHANGED <<local, shared>>,
           \A n \in Messages : pc[n] \in Settled =>
                pc'[n] \in Settled /\ failed'[n] = failed[n],
           \A n \in Messages : failed[n] => failed'[n]
    PROVE  GainInv'
<1>1. /\ \A m \in Messages :
            Accompanied(local'[m]) /\ local'[m].buckets \subseteq NamedBuckets(m)
      /\ Accompanied(shared')
  BY DEF GainInv
<1>2. \A b \in shared'.buckets :
        \E m \in Messages : pc'[m] \in Settled /\ ~failed'[m] /\ b \in NamedBuckets(m)
  BY DEF GainInv
<1>3. \A m \in shared'.failures : failed'[m]
  BY DEF GainInv, TypeOK, CollectedShared
<1> QED BY <1>1, <1>2, <1>3 DEF GainInv, Accompanied, NamedBuckets

LEMMA GainAdvance ==
    ASSUME TypeOK, GainInv, NEW m \in Messages, NEW l, Advance(m, l),
           Accompanied(l), l.buckets \subseteq NamedBuckets(m)
    PROVE  GainInv'
<1>1. /\ local'[m] = l /\ \A n \in Messages \ {m} : local'[n] = local[n]
      /\ UNCHANGED <<pc, failed, shared>>
  BY DEF Advance, TypeOK
<1>2. \A n \in Messages :
        Accompanied(local'[n]) /\ local'[n].buckets \subseteq NamedBuckets(n)
  BY <1>1 DEF GainInv
<1> QED BY <1>1, <1>2 DEF GainInv, Accompanied, NamedBuckets

(* A record that is read comes with its bucket and its features. *)
LEMMA GainRecord ==
    ASSUME TypeOK, GainInv, NEW m \in Messages, NEW f \in Named(m), ~Incomplete(f)
    PROVE  /\ Accompanied(WithBucket(local[m], f))
           /\ Accompanied(WithKey(local[m], f))
           /\ Accompanied(WithEntries(local[m], f))
           /\ WithBucket(local[m], f).buckets \subseteq NamedBuckets(m)
           /\ WithKey(local[m], f).buckets \subseteq NamedBuckets(m)
           /\ WithEntries(local[m], f).buckets \subseteq NamedBuckets(m)
<1> DEFINE l == local[m]
<1>1. l \in Collected /\ Accompanied(l) /\ l.buckets \subseteq NamedBuckets(m)
  BY DEF TypeOK, GainInv
<1>2. Bucket(f) \in NamedBuckets(m)
  BY DEF NamedBuckets, Incomplete
<1>3. Accompanied(WithBucket(l, f)) /\ WithBucket(l, f).buckets \subseteq NamedBuckets(m)
  BY <1>1, <1>2, WithFields DEF Accompanied, Local
<1>4. Accompanied(WithKey(l, f)) /\ WithKey(l, f).buckets \subseteq NamedBuckets(m)
  BY <1>1, <1>2, WithFields DEF Accompanied, Local
<1>5. Accompanied(WithEntries(l, f)) /\ WithEntries(l, f).buckets \subseteq NamedBuckets(m)
  BY <1>1, <1>2, WithFields DEF Accompanied, Local
<1> QED BY <1>3, <1>4, <1>5

LEMMA GainMerge ==
    ASSUME TypeOK, LockInv, GainInv, NEW m \in Messages, Merge(m)
    PROVE  GainInv'
<1>1. pc[m] = "merge" /\ snap[m] = shared /\ UNCHANGED <<local, failed>>
  BY DEF Merge, LockInv
<1>2. pc'[m] = "release" /\ \A n \in Messages \ {m} : pc'[n] = pc[n]
  BY GotoEffect DEF Merge
<1>3. \A n \in Messages : pc[n] \in Settled => pc'[n] \in Settled
  BY <1>2 DEF Settled
<1>4. shared \in CollectedShared /\ local[m] \in Collected
  BY DEF TypeOK
<1>5. CASE failed[m]
  <2>1. shared' = Blamed(shared, m)
    BY <1>1, <1>5 DEF Merge, Merged
  <2>2. /\ shared'.entries = shared.entries /\ shared'.keys = shared.keys
        /\ shared'.buckets = shared.buckets /\ shared'.features = shared.features
        /\ shared'.failures = shared.failures \cup {m}
    BY <1>4, <2>1, MergedFields DEF Shared
  <2> QED BY <1>1, <1>3, <1>5, <2>2 DEF GainInv, Accompanied, NamedBuckets
<1>6. CASE ~failed[m]
  <2>1. shared' = Joined(shared, local[m])
    BY <1>1, <1>6 DEF Merge, Merged
  <2>2. /\ shared'.entries = shared.entries \cup local[m].entries
        /\ shared'.keys = shared.keys \cup local[m].keys
        /\ shared'.buckets = shared.buckets \cup local[m].buckets
        /\ shared'.features = shared.features \cup local[m].features
        /\ shared'.failures = shared.failures
    BY <2>1 DEF Joined
  <2>3. Accompanied(shared)'
    BY <2>2 DEF GainInv, Accompanied
  <2>4. pc'[m] \in Settled
    BY <1>2 DEF Settled
  <2>5. \A b \in shared'.buckets :
            \E n \in Messages :
                pc'[n] \in Settled /\ ~failed'[n] /\ b \in NamedBuckets(n)
    <3>1. \A b \in local[m].buckets : b \in NamedBuckets(m)
      BY DEF GainInv
    <3> QED BY <1>1, <1>3, <1>6, <2>2, <2>4, <3>1 DEF GainInv
  <2> QED BY <1>1, <2>2, <2>3, <2>5 DEF GainInv, NamedBuckets, Accompanied
<1> QED BY <1>5, <1>6

LEMMA GainStep == ASSUME TypeOK, LockInv, GainInv, [Next]_vars PROVE GainInv'
<1>1. ASSUME NEW m \in Messages, Goroutine(m) PROVE GainInv'
  <2>1. CASE Acquire(m) \/ EndOfMessage(m) \/ Lock(m)
    <3>1. pc[m] \notin Settled /\ (\A n \in Messages \ {m} : pc'[n] = pc[n])
          /\ UNCHANGED <<failed, local, shared>>
      BY <2>1, GotoEffect DEF Acquire, EndOfMessage, Lock, Settled
    <3> QED BY <3>1, GainKept
  <2>2. CASE SkipRecord(m)
    BY <2>2, GainAdvance DEF SkipRecord, GainInv
  <2>3. CASE IgnoreObject(m)
    BY <2>3, GainAdvance, GainRecord, CurrentType DEF IgnoreObject
  <2>4. CASE ReadObject(m)
    BY <2>4, GainAdvance, GainRecord, CurrentType DEF ReadObject, Matched
  <2>5. CASE ReadFails(m)
    <3>1. pc[m] = "read" /\ (\A n \in Messages \ {m} : pc'[n] = pc[n])
          /\ failed'[m] /\ (\A n \in Messages \ {m} : failed'[n] = failed[n])
      BY <2>5, GotoEffect DEF ReadFails, Reading, TypeOK
    <3>2. /\ local'[m] = WithBucket(local[m], Current(m)) /\ shared' = shared
          /\ \A n \in Messages \ {m} : local'[n] = local[n]
      BY <2>5 DEF ReadFails, TypeOK
    <3>3. Current(m) \in Named(m) /\ ~Incomplete(Current(m))
      BY <2>5, CurrentType DEF ReadFails, Matched
    <3>4. \A n \in Messages :
            Accompanied(local'[n]) /\ local'[n].buckets \subseteq NamedBuckets(n)
      BY <3>2, <3>3, GainRecord DEF GainInv
    <3>5. Accompanied(shared')
      BY <3>2 DEF GainInv
    <3>6. \A b \in shared'.buckets :
            \E n \in Messages :
                pc'[n] \in Settled /\ ~failed'[n] /\ b \in NamedBuckets(n)
      BY <3>1, <3>2 DEF GainInv, Settled
    <3>7. \A n \in shared'.failures : failed'[n]
      BY <3>1, <3>2 DEF GainInv, TypeOK, CollectedShared
    <3> QED BY <3>4, <3>5, <3>6, <3>7 DEF GainInv, Accompanied, NamedBuckets
  <2>6. CASE Merge(m)
    BY <2>6, GainMerge
  <2>7. CASE Release(m) \/ Finish(m)
    <3>1. pc'[m] \in Settled /\ (\A n \in Messages \ {m} : pc'[n] = pc[n])
          /\ UNCHANGED <<failed, local, shared>>
      BY <2>7, GotoEffect DEF Release, Finish, Settled
    <3> QED BY <3>1, GainKept
  <2> QED BY <1>1, <2>1, <2>2, <2>3, <2>4, <2>5, <2>6, <2>7 DEF Goroutine
<1>2. ASSUME NEW m \in Messages, Spawn(m) PROVE GainInv'
  <2>1. pc[m] \notin Settled /\ (\A n \in Messages \ {m} : pc'[n] = pc[n])
        /\ UNCHANGED <<failed, local, shared>>
    BY <1>2, GotoEffect DEF Spawn, Settled
  <2> QED BY <2>1, GainKept
<1>3. CASE SpawnedAll \/ Wait \/ Timeout \/ Over \/ UNCHANGED vars
  BY <1>3, GainKept DEF SpawnedAll, Wait, Timeout, Over, vars, goVars
<1> QED BY <1>1, <1>2, <1>3 DEF Next, Handler

-----------------------------------------------------------------------------
(***************************************************************************)
(* What Enforce is told.                                                   *)
(***************************************************************************)
LEMMA ToldStep == ASSUME TypeOK, GroupInv, ToldInv, [Next]_vars PROVE ToldInv'
<1>1. ASSUME NEW m \in Messages, Goroutine(m) PROVE ToldInv'
  <2>1. pc[m] \notin {"new", "gone"}
    BY <1>1 DEF Goroutine, Acquire, SkipRecord, IgnoreObject, ReadObject, ReadFails,
             Reading, EndOfMessage, Lock, Merge, Release, Finish
  <2>2. main # "enforce"
    BY <2>1 DEF GroupInv
  <2>3. main' = main
    BY <1>1 DEF Goroutine, Acquire, SkipRecord, IgnoreObject, ReadObject, ReadFails,
             Advance, EndOfMessage, Lock, Merge, Release, Finish
  <2> QED BY <2>2, <2>3 DEF ToldInv
<1>2. ASSUME NEW m \in Messages, Spawn(m) PROVE ToldInv'
  BY <1>2 DEF Spawn, ToldInv
<1>3. CASE SpawnedAll \/ Timeout
  BY <1>3 DEF SpawnedAll, Timeout, ToldInv
<1>4. CASE Wait
  BY <1>4 DEF Wait, goVars, ToldInv, Told, Accounts, CrossAccount, Resources
<1>5. CASE Over \/ UNCHANGED vars
  BY <1>5 DEF Over, vars, goVars, ToldInv, Told, Accounts, CrossAccount, Resources
<1> QED BY <1>1, <1>2, <1>3, <1>4, <1>5 DEF Next, Handler

-----------------------------------------------------------------------------
(***************************************************************************)
(* The invariant.                                                          *)
(***************************************************************************)
LEMMA InitInv == Init => IInv
<1> SUFFICES ASSUME Init PROVE IInv
  OBVIOUS
<1>1. TypeOK
  BY InitType
<1>2. SemInv
  BY FS_EmptySet, FanoutAssumption DEF Init, SemInv, Holding
<1>3. LockInv
  BY OwnerAssumption DEF Init, LockInv
<1>4. GroupInv
  <2>1. Running = {}
    BY DEF Init, Running
  <2> QED BY <2>1, FS_EmptySet DEF Init, GroupInv
<1>5. ReadInv
  BY DEF Init, ReadInv, ReadInvOf
<1>6. GainInv
  BY DEF Init, GainInv, Accompanied, Nothing, NothingShared
<1>7. ToldInv
  BY DEF Init, ToldInv
<1> QED BY <1>1, <1>2, <1>3, <1>4, <1>5, <1>6, <1>7 DEF IInv

LEMMA StepInv == IInv /\ [Next]_vars => IInv'
<1> SUFFICES ASSUME IInv, [Next]_vars PROVE IInv'
  OBVIOUS
<1>1. TypeOK'
  <2>1. CASE Over \/ UNCHANGED vars
    BY <2>1 DEF Over, vars, goVars, IInv, TypeOK
  <2> QED BY <2>1, GoroutineType, HandlerType DEF Next, IInv
<1> QED BY <1>1, SemStep, LockStep, GroupStep, ReadStep, GainStep, ToldStep DEF IInv

LEMMA AlwaysInv == Spec => []IInv
BY InitInv, StepInv, PTL DEF Spec

-----------------------------------------------------------------------------
(***************************************************************************)
(* The theorems.                                                           *)
(***************************************************************************)

(* The variables of main.go's handler and goroutines stay within their     *)
(* types; above all the counter of the wait group never gets below zero,   *)
(* where Go panics.                                                        *)
THEOREM TypeCorrect == Spec => []TypeOK
BY AlwaysInv, PTL DEF IInv

(* Never are more than MAX_CONCURRENT messages being read.                 *)
THEOREM SlotsAreBounded == Spec => []SlotsBounded
<1>1. IInv => SlotsBounded
  BY DEF IInv, SemInv, Holding, SlotsBounded
<1> QED BY <1>1, AlwaysInv, PTL

(* After wg.Wait() no goroutine runs, holds a slot or owns the mutex.      *)
THEOREM WaitCompletes == Spec => []WaitIsComplete
<1>1. IInv => WaitIsComplete
  <2> SUFFICES ASSUME IInv, main = "enforce" PROVE WaitIsComplete
    BY DEF WaitIsComplete
  <2>1. \A m \in Messages : pc[m] = "gone"
    BY DEF IInv, GroupInv
  <2>2. sem = {}
    BY <2>1 DEF IInv, SemInv, Holding
  <2>3. mu = NoOwner
    BY <2>1 DEF IInv, LockInv, TypeOK
  <2> QED BY <2>1, <2>2, <2>3 DEF WaitIsComplete
<1> QED BY <1>1, AlwaysInv, PTL

(* However the goroutines are interleaved, the license check is told of    *)
(* the bucket, features, resource and account of every entry that is sent. *)
THEOREM EnforceSees == Spec => []EnforceSeesWhatIsSent
<1>1. IInv => EnforceSeesWhatIsSent
  <2> SUFFICES ASSUME IInv, main = "enforce", NEW f \in shared.entries
               PROVE  /\ Bucket(f) \in seen.buckets
                      /\ Features(Bucket(f), KeyOf(f), EnrichUserAgent)
                            \subseteq seen.features
                      /\ NameInEntry(Bucket(f), KeyOf(f)) \in seen.resources
                      /\ EntryAccount(Bucket(f), KeyOf(f)) # "" =>
                            EntryAccount(Bucket(f), KeyOf(f)) \in seen.accounts
                      /\ /\ CallerAccount # ""
                         /\ EntryAccount(Bucket(f), KeyOf(f)) \notin {"", CallerAccount}
                         => "scope.cross_account" \in seen.features
    BY DEF EnforceSeesWhatIsSent
  <2> DEFINE a == EntryAccount(Bucket(f), KeyOf(f))
  <2>1. seen = Told(shared)
    BY DEF IInv, ToldInv
  <2>2. /\ seen.accounts = Accounts(shared)
        /\ seen.resources = Resources(shared)
        /\ seen.features = shared.features \cup CrossAccount(shared)
        /\ shared.buckets # {} => seen.buckets = shared.buckets
    BY <2>1 DEF Told
  <2>3. /\ Bucket(f) \in shared.buckets
        /\ Features(Bucket(f), KeyOf(f), EnrichUserAgent) \subseteq shared.features
    BY DEF IInv, GainInv, Accompanied
  <2>4. NameInEntry(Bucket(f), KeyOf(f)) \in Resources(shared)
    BY DEF Resources
  <2>5. a # "" => a \in Accounts(shared)
    BY DEF Accounts
  <2>6. CallerAccount # "" /\ a \notin {"", CallerAccount}
            => "scope.cross_account" \in CrossAccount(shared)
    BY <2>5 DEF CrossAccount
  <2> QED BY <2>2, <2>3, <2>4, <2>5, <2>6
<1> QED BY <1>1, AlwaysInv, PTL

(* The license check decides on buckets that the preflight has seen, and   *)
(* on all of them when no message with a bucket could be read.             *)
THEOREM EnforceBuckets == Spec => []EnforceBucketsWerePreflighted
<1>1. IInv => EnforceBucketsWerePreflighted
  <2> SUFFICES ASSUME IInv, main = "enforce" PROVE EnforceBucketsWerePreflighted
    BY DEF EnforceBucketsWerePreflighted
  <2> DEFINE all == {m \in Messages : NamedBuckets(m) # {}}
  <2>1. seen.buckets = IF shared.buckets = {} THEN PreflightBuckets ELSE shared.buckets
    BY DEF IInv, ToldInv, Told
  <2>2. \A m \in Messages : NamedBuckets(m) \subseteq PreflightBuckets
    <3> SUFFICES ASSUME NEW m \in Messages, NEW b \in NamedBuckets(m)
                 PROVE  b \in PreflightBuckets
      OBVIOUS
    <3>1. b \in {Bucket(f) : f \in Named(m)} /\ b # NoName
      BY DEF NamedBuckets
    <3>2. b \in (UNION {{Bucket(f) : f \in Named(n)} : n \in Messages})
      BY <3>1
    <3> QED BY <3>1, <3>2 DEF PreflightBuckets
  <2>3. shared.buckets \subseteq PreflightBuckets
    BY <2>2 DEF IInv, GainInv
  <2>4. ASSUME all \subseteq shared.failures PROVE shared.buckets = {}
    <3> SUFFICES ASSUME NEW b \in shared.buckets PROVE FALSE
      OBVIOUS
    <3>1. PICK m \in Messages : ~failed[m] /\ b \in NamedBuckets(m)
      BY DEF IInv, GainInv
    <3> QED BY <2>4, <3>1 DEF IInv, GainInv
  <2>5. all \subseteq shared.failures => seen.buckets = PreflightBuckets
    BY <2>1, <2>4
  <2> HIDE DEF all
  <2>6. all = {m \in Messages : {Bucket(f) : f \in Named(m)} \ {NoName} # {}}
    BY DEF all, NamedBuckets
  <2> QED BY <2>1, <2>3, <2>5, <2>6 DEF EnforceBucketsWerePreflighted
<1> QED BY <1>1, AlwaysInv, PTL

-----------------------------------------------------------------------------
(***************************************************************************)
(* The goroutines implement BatchRead.                                     *)
(***************************************************************************)
Todo == {m \in Messages : pc[m] \notin Settled}

(* A step that settles no message and merges nothing. *)
LEMMA Stutters ==
    ASSUME NEW m \in Messages, pc[m] \in Settled <=> pc'[m] \in Settled,
           \A n \in Messages \ {m} : pc'[n] = pc[n], UNCHANGED <<shared, main>>
    PROVE  UNCHANGED BR!vars
BY DEF BR!vars, Settled

(* Settling m with all or with none of its files is a step of BatchRead. *)
LEMMA Settles ==
    ASSUME NEW m \in Messages, pc[m] \notin Settled, pc'[m] \in Settled,
           \A n \in Messages \ {m} : pc'[n] = pc[n], main' = main,
           \/ /\ shared'.failures = shared.failures
              /\ shared'.keys = shared.keys \cup FilesOf[m]
           \/ /\ FilesOf[m] # {}
              /\ shared'.failures = shared.failures \cup {m}
              /\ shared'.keys = shared.keys
    PROVE  BR!Next
<1>1. m \in Todo /\ Todo' = Todo \ {m}
  BY DEF Todo
<1>2. BR!Settle(m)
  BY <1>1 DEF BR!Settle, Todo, Settled
<1> QED BY <1>2 DEF BR!Next

(* A body that does not parse has no records, hence no files. *)
LEMMA NoFiles ==
    ASSUME NEW m \in Messages, ~Parses(m)
    PROVE  FilesOf[m] = {}
<1>1. Records(m) = <<>>
  BY DEF Records, ParseBodyAsS3, Parses
<1>2. Named(m) = {}
  BY <1>1 DEF Named
<1> QED BY <1>2 DEF FilesOf

LEMMA RefineInit == Init => BR!Init
BY DEF Init, BR!Init, NothingShared

LEMMA RefineStep == IInv /\ [Next]_vars => [BR!Next]_BR!vars
<1> SUFFICES ASSUME IInv, [Next]_vars PROVE BR!Next \/ UNCHANGED BR!vars
  OBVIOUS
<1>0. TypeOK
  BY DEF IInv
<1>1. ASSUME NEW m \in Messages, Goroutine(m) PROVE BR!Next \/ UNCHANGED BR!vars
  <2>1. CASE Acquire(m)
    <3>1. pc[m] = "acquire" /\ (\A n \in Messages \ {m} : pc'[n] = pc[n])
          /\ UNCHANGED <<shared, main>>
          /\ pc'[m] = IF Parses(m) THEN "read" ELSE "release"
      BY <1>0, <2>1, GotoEffect DEF Acquire
    <3>2. CASE Parses(m)
      BY <3>1, <3>2, Stutters DEF Settled
    <3>3. CASE ~Parses(m)
      <4>1. shared'.keys = shared.keys \cup FilesOf[m]
        BY <3>1, <3>3, NoFiles
      <4> QED BY <3>1, <3>3, <4>1, Settles DEF Settled
    <3> QED BY <3>2, <3>3
  <2>2. CASE SkipRecord(m) \/ IgnoreObject(m) \/ ReadObject(m)
    BY <2>2, Stutters DEF SkipRecord, IgnoreObject, ReadObject, Advance
  <2>3. CASE ReadFails(m) \/ EndOfMessage(m) \/ Lock(m) \/ Release(m) \/ Finish(m)
    <3>1. (pc[m] \in Settled <=> pc'[m] \in Settled)
          /\ (\A n \in Messages \ {m} : pc'[n] = pc[n])
          /\ UNCHANGED <<shared, main>>
      BY <1>0, <2>3, GotoEffect
      DEF ReadFails, Reading, EndOfMessage, Lock, Release, Finish, Settled
    <3> QED BY <3>1, Stutters
  <2>4. CASE Merge(m)
    <3>1. pc[m] = "merge" /\ pc'[m] = "release" /\ main' = main
          /\ (\A n \in Messages \ {m} : pc'[n] = pc[n])
      BY <1>0, <2>4, GotoEffect DEF Merge
    <3>2. snap[m] = shared /\ shared' = Merged(m)
      BY <2>4 DEF Merge, IInv, LockInv
    <3>3. ReadInvOf(m)
      BY DEF IInv, ReadInv
    <3>4. shared \in CollectedShared /\ local[m] \in Collected
      BY <1>0 DEF TypeOK
    <3>5. CASE failed[m]
      <4>1. shared' = Blamed(shared, m)
        BY <3>2, <3>5 DEF Merged
      <4>2. shared'.failures = shared.failures \cup {m} /\ shared'.keys = shared.keys
        BY <3>4, <4>1, MergedFields DEF Shared
      <4>3. FilesOf[m] # {}
        BY <3>1, <3>3, <3>5 DEF ReadInvOf
      <4> QED BY <3>1, <4>2, <4>3, Settles DEF Settled
    <3>6. CASE ~failed[m]
      <4>1. shared' = Joined(shared, local[m])
        BY <3>2, <3>6 DEF Merged
      <4>2. shared'.failures = shared.failures
            /\ shared'.keys = shared.keys \cup local[m].keys
        BY <4>1 DEF Joined
      <4>3. local[m].keys = FilesOf[m]
        BY <3>1, <3>3, <3>6 DEF ReadInvOf
      <4> QED BY <3>1, <4>2, <4>3, Settles DEF Settled
    <3> QED BY <3>5, <3>6
  <2> QED BY <1>1, <2>1, <2>2, <2>3, <2>4 DEF Goroutine
<1>2. ASSUME NEW m \in Messages, Spawn(m) PROVE UNCHANGED BR!vars
  <2>1. (pc[m] \in Settled <=> pc'[m] \in Settled)
        /\ (\A n \in Messages \ {m} : pc'[n] = pc[n])
        /\ UNCHANGED <<shared, main>>
    BY <1>0, <1>2, GotoEffect DEF Spawn, Settled
  <2> QED BY <2>1, Stutters
<1>3. CASE Wait
  <2>1. \A m \in Messages : pc[m] = "gone"
    BY <1>3, NobodyRuns DEF Wait, WaitOver, IInv
  <2>2. /\ main = "wait" /\ main' = "enforce" /\ pc' = pc /\ shared' = shared
    BY <1>3 DEF Wait, goVars
  <2>3. BR!Answer
    BY <2>1, <2>2 DEF BR!Answer
  <2> QED BY <2>3 DEF BR!Next
<1>4. CASE SpawnedAll \/ Timeout \/ Over \/ UNCHANGED vars
  BY <1>4 DEF SpawnedAll, Timeout, Over, vars, goVars, BR!vars
<1> QED BY <1>1, <1>2, <1>3, <1>4 DEF Next, Handler

(* Reading a batch in goroutines implements reading it message by message: *)
(* each message is settled once, with all of its files or as a failure     *)
(* with none, before the license check sees the outcome.                   *)
THEOREM Refinement == Spec => ImplementsBatchRead
<1>1. Spec => BR!Init /\ [][BR!Next]_BR!vars
  BY RefineInit, RefineStep, AlwaysInv, PTL DEF Spec
<1> QED BY <1>1, PTL DEF ImplementsBatchRead, BR!Spec

-----------------------------------------------------------------------------
(***************************************************************************)
(* One name for a resource.                                                *)
(***************************************************************************)

(* A processor that is found matches.                                      *)
LEMMA FindMatches ==
    ASSUME NEW b, NEW k, Find(b, k) # NoProcessor
    PROVE  \/ Find(b, k) = "ALB" /\ ALBMatches(b, k)
           \/ Find(b, k) = "NLB" /\ NLBMatches(b, k)
           \/ Find(b, k) = "CloudFront" /\ CloudFrontMatches(b, k)
           \/ Find(b, k) = "WAF" /\ WAFMatches(b, k)
<1> DEFINE matching == {i \in 1 .. 4 : Matches(b, k)[i].match}
           first == CHOOSE i \in matching : \A j \in matching : i <= j
<1>1. matching # {} /\ Find(b, k) = Matches(b, k)[first].name
  BY DEF Find
<1>2. \E i \in matching : \A j \in matching : i <= j
  <2>1. CASE 1 \in matching
    BY <2>1
  <2>2. CASE 1 \notin matching /\ 2 \in matching
    BY <2>2
  <2>3. CASE 1 \notin matching /\ 2 \notin matching /\ 3 \in matching
    BY <2>3
  <2>4. CASE 1 \notin matching /\ 2 \notin matching /\ 3 \notin matching
    BY <1>1, <2>4
  <2> QED BY <2>1, <2>2, <2>3, <2>4
<1>3. first \in matching
  BY <1>2
<1> HIDE DEF first
<1>4. first \in 1 .. 4 /\ Matches(b, k)[first].match
  BY <1>3
<1> QED BY <1>1, <1>4 DEF Matches

ResourceOf(f) == KeyOf(f).resource

Services == {"elasticloadbalancing", "CloudFront", "WAFLogs"}

(* What the resource of a file is called.                                  *)
NameOf(k) ==
    LET r == k.resource IN
    IF k.service = "elasticloadbalancing" THEN LoadBalancer(r.region, r.account, r.id)
    ELSE IF k.service = "CloudFront" THEN Distribution(r.account, r.id)
    ELSE WebACL(IF k.arns THEN r.region ELSE "global", r.account, r.id)

(* That name is read off the records and off the key, if any is.           *)
LEMMA NamesAgree ==
    ASSUME NEW b, NEW k \in Keys, KeyHasRegion(k), k.prefix # "aws-waf-logs-",
           Find(b, k) # NoProcessor
    PROVE  /\ k.service \in Services
           /\ NameInEntry(b, k) = NameOf(k)
           /\ NamesInKey(b, k) \subseteq {NameOf(k)}
<1>1. /\ k.account # "" /\ k.folder # "" /\ k.account = k.resource.account
      /\ k.service = "elasticloadbalancing" => k.folder = k.resource.region
      /\ "dist.date" \in k.marks => k.service = "CloudFront"
  BY NamingAssumption DEF KeyHasRegion
<1>2. KeyAccount(k) = k.resource.account
  BY <1>1 DEF KeyAccount
<1>3. EntryAccount(b, k) = k.resource.account
  BY <1>2 DEF EntryAccount
<1>4. CASE Find(b, k) \in {"ALB", "NLB"}
  <2>1. k.service = "elasticloadbalancing" /\ k.marks \cap {"_app.", "_net."} # {}
    BY <1>4, FindMatches DEF ALBMatches, NLBMatches, NoProcessor
  <2>2. KeyRegion(k) = k.resource.region
    BY <1>1, <2>1 DEF KeyRegion
  <2>3. EntryRegion(b, k) = k.resource.region
    BY <1>4, <2>2 DEF EntryRegion
  <2>4. NameInEntry(b, k) = LoadBalancer(k.resource.region, k.resource.account, k.resource.id)
    BY <1>3, <1>4, <2>3 DEF NameInEntry
  <2>5. "dist.date" \notin k.marks
    BY <1>1, <2>1
  <2>6. NamesInKey(b, k)
          = {LoadBalancer(k.resource.region, k.resource.account, k.resource.id)}
    BY <1>1, <2>1, <2>2, <2>5 DEF NamesInKey
  <2> QED BY <2>1, <2>4, <2>6 DEF NameOf, Services
<1>5. CASE Find(b, k) = "CloudFront"
  <2>1. k.service = "CloudFront" /\ "dist.date" \in k.marks
    BY <1>5, FindMatches DEF CloudFrontMatches, NoProcessor
  <2>2. NameInEntry(b, k) = Distribution(k.resource.account, k.resource.id)
    BY <1>3, <1>5 DEF NameInEntry
  <2>3. NamesInKey(b, k) = {Distribution(k.resource.account, k.resource.id)}
    BY <1>1, <2>1 DEF NamesInKey
  <2> QED BY <2>1, <2>2, <2>3 DEF NameOf, Services
<1>6. CASE Find(b, k) = "WAF"
  <2>1. k.service = "WAFLogs"
    BY <1>6, FindMatches DEF WAFMatches, NoProcessor
  <2>2. EntryRegion(b, k) = IF k.arns THEN k.resource.region ELSE "global"
    BY <1>6 DEF EntryRegion
  <2>3. NameInEntry(b, k) = NameOf(k)
    BY <1>3, <1>6, <2>1, <2>2 DEF NameInEntry, NameOf
  <2>4. NamesInKey(b, k) = {}
    BY <1>1, <2>1 DEF NamesInKey
  <2> QED BY <2>1, <2>3, <2>4 DEF Services
<1> QED BY <1>4, <1>5, <1>6, FindType DEF NoProcessor

(* The files that were read are files that some processor reads.           *)
KeysInv == \A f \in shared.keys : \E m \in Messages : f \in FilesOf[m]

LEMMA KeysStep == IInv /\ KeysInv /\ [Next]_vars => KeysInv'
<1> SUFFICES ASSUME IInv, KeysInv, [Next]_vars PROVE KeysInv'
  OBVIOUS
<1>1. shared'.keys = shared.keys
        \/ \E m \in Messages : shared'.keys = shared.keys \cup FilesOf[m]
  BY RefineStep DEF BR!Next, BR!Settle, BR!Answer, BR!vars
<1> QED BY <1>1 DEF KeysInv

LEMMA AlwaysKeys == Spec => []KeysInv
<1>1. Init => KeysInv
  BY DEF Init, KeysInv, NothingShared
<1> QED BY <1>1, KeysStep, AlwaysInv, PTL DEF Spec

(* Resources have no more names than there are resources.                  *)
LEMMA NoMoreNames ==
    ASSUME NEW S, \A f \in S : KeyOf(f) \in Keys /\ KeyOf(f).service \in Services,
           NEW N, \A n \in N : \E f \in S : n = NameOf(KeyOf(f))
    PROVE  /\ IsFiniteSet({ResourceOf(f) : f \in S})
           /\ Cardinality(N) <= Cardinality({ResourceOf(f) : f \in S})
<1> DEFINE R == {ResourceOf(f) : f \in S}
           All == {NameOf(KeyOf(f)) : f \in S}
           fileOf(r) == CHOOSE f \in S : ResourceOf(f) = r
           name == [r \in R |-> NameOf(KeyOf(fileOf(r)))]
<1>1. IsFiniteSet(R)
  <2> DEFINE h == [k \in Keys |-> k.resource]
             T == {k.resource : k \in Keys}
  <2>1. h \in Surjection(Keys, T)
    BY DEF Surjection
  <2>2. IsFiniteSet(T)
    BY <2>1, NamingAssumption, FS_Surjection
  <2>3. R \subseteq T
    BY DEF ResourceOf
  <2> QED BY <2>2, <2>3, FS_Subset
<1>2. ASSUME NEW f \in S PROVE ResourceOf(f) \in R /\ name[ResourceOf(f)] = NameOf(KeyOf(f))
  <2>1. fileOf(ResourceOf(f)) \in S /\ ResourceOf(fileOf(ResourceOf(f))) = ResourceOf(f)
    OBVIOUS
  <2>2. PICK g \in S : g = fileOf(ResourceOf(f)) /\ ResourceOf(g) = ResourceOf(f)
    BY <2>1
  <2>3. NameOf(KeyOf(g)) = NameOf(KeyOf(f))
    <3>1. KeyOf(f) \in Keys /\ KeyOf(g) \in Keys /\ KeyOf(f).resource = KeyOf(g).resource
      BY <2>2 DEF ResourceOf
    <3>2. /\ KeyOf(f).service = KeyOf(g).service
          /\ KeyOf(f).service = "WAFLogs" => KeyOf(f).arns = KeyOf(g).arns
      BY <3>1, NamingAssumption
    <3>3. KeyOf(f).service \in Services
      OBVIOUS
    <3> QED BY <3>1, <3>2, <3>3 DEF NameOf, Services
  <2> QED BY <2>2, <2>3
<1>3. name \in Surjection(R, All)
  <2>1. \A r \in R : \E f \in S : r = ResourceOf(f)
    OBVIOUS
  <2>2. name \in [R -> All]
    <3> SUFFICES ASSUME NEW r \in R PROVE name[r] \in All
      OBVIOUS
    <3>1. PICK f \in S : r = ResourceOf(f)
      BY <2>1
    <3> HIDE DEF name
    <3> QED BY <1>2, <3>1
  <2>3. ASSUME NEW n \in All PROVE \E r \in R : name[r] = n
    <3>1. PICK f \in S : n = NameOf(KeyOf(f))
      OBVIOUS
    <3> HIDE DEF name, R
    <3> QED BY <1>2, <3>1
  <2> HIDE DEF name, R, All
  <2> QED BY <2>2, <2>3 DEF Surjection
<1> HIDE DEF name, R
<1>4. IsFiniteSet(All) /\ Cardinality(All) <= Cardinality(R)
  BY <1>1, <1>3, FS_Surjection
<1>5. N \subseteq All
  OBVIOUS
<1> HIDE DEF All
<1>6. /\ Cardinality(N) <= Cardinality(All) /\ Cardinality(N) \in Nat
      /\ Cardinality(All) \in Nat /\ Cardinality(R) \in Nat
  BY <1>1, <1>4, <1>5, FS_Subset, FS_CardinalityType
<1>7. Cardinality(N) <= Cardinality(R)
  BY <1>4, <1>6
<1> QED BY <1>1, <1>7 DEF R

(* For any batch whose files are named as AWS names them, a resource has   *)
(* one name, whether it is read off records or keys and in whatever order  *)
(* the goroutines add their files.                                         *)
THEOREM OneName == Spec => []OneNamePerResource
<1>1. IInv /\ KeysInv => OneNamePerResource
  <2> SUFFICES ASSUME IInv, KeysInv PROVE OneNamePerResource
    OBVIOUS
  <2> DEFINE regular == {f \in shared.keys :
                            KeyHasRegion(KeyOf(f)) /\ KeyOf(f).prefix # "aws-waf-logs-"}
             s == [shared EXCEPT !.keys = regular, !.entries = @ \cap regular]
  <2>1. ASSUME NEW f \in regular
        PROVE  /\ KeyOf(f) \in Keys /\ KeyOf(f).service \in Services
               /\ NameInEntry(Bucket(f), KeyOf(f)) = NameOf(KeyOf(f))
               /\ NamesInKey(Bucket(f), KeyOf(f)) \subseteq {NameOf(KeyOf(f))}
    <3>1. PICK m \in Messages : f \in FilesOf[m]
      BY DEF KeysInv
    <3>2. f \in Named(m) /\ Matched(f)
      BY <3>1 DEF FilesOf
    <3>3. KeyOf(f) \in Keys /\ Find(Bucket(f), KeyOf(f)) # NoProcessor
      BY <3>2, FileType DEF Matched, Incomplete
    <3> QED BY <3>3, NamesAgree
  <2>2. s.keys = regular /\ s.entries \subseteq regular
    BY DEF IInv, TypeOK, CollectedShared
  <2> HIDE DEF s, regular
  <2>3. ASSUME NEW n \in Resources(s)
        PROVE  \E f \in regular : n = NameOf(KeyOf(f))
    <3>1. \/ \E f \in s.entries : n = NameInEntry(Bucket(f), KeyOf(f))
          \/ \E f \in s.keys : n \in NamesInKey(Bucket(f), KeyOf(f))
      BY DEF Resources
    <3> QED BY <2>1, <2>2, <3>1
  <2>4. Cardinality(Resources(s)) <= Cardinality({ResourceOf(f) : f \in regular})
    BY <2>1, <2>3, NoMoreNames
  <2> QED BY <2>4 DEF OneNamePerResource, ResourceOf, s, regular
<1> QED BY <1>1, AlwaysInv, AlwaysKeys, PTL
=============================================================================
