------------------------- MODULE CloudWatchRegistry -------------------------
(***************************************************************************)
(* The distributed registry of src/pkg/license/cloudwatch_registry.go: each *)
(* Lambda container writes a heartbeat metric for the resources it has     *)
(* logs of, reads the heartbeats of all containers back, and answers from  *)
(* a lease cache in between.  One entitlement key is modelled; keys share  *)
(* nothing.                                                                *)
(*                                                                         *)
(* Every timestamp the registry uses is the evalTime of the call.  Enforce *)
(* (enforcer.go) replaces the container's clock by the SentTimestamp of    *)
(* the SQS message when the two are more than 15 minutes apart, so a late  *)
(* or redelivered message moves evalTime back, and the next one moves it   *)
(* forward again.                                                          *)
(*                                                                         *)
(* Time is in units of one's choice; a call takes no time on that scale,   *)
(* but the calls of several containers interleave at each request.         *)
(***************************************************************************)
EXTENDS Integers, FiniteSets

CONSTANTS
    Containers, Arns,
    HeartbeatInterval,  \* 1 minute
    LeaseDuration,      \* DefaultRegistryLeaseDuration, 3 minutes
    Drift,              \* the skew Enforce tolerates, 15 minutes
    SlidingWindow,      \* DefaultRegistrySlidingWindow, 1 hour
    ChunkSize,          \* metrics in one PutMetricData request, 20
    Lag,                \* CloudWatch shows a data point after at most this time
    Batches,            \* the sets of resources an invocation may have logs of
    Delays,             \* how old an anchored evalTime may be
    MaxTime,            \* bound on the clock
    MaxCalls,           \* bound on the number of calls
    MaxFaults           \* bound on failed requests and replaced containers

ASSUME DomainAssumption ==
    /\ IsFiniteSet(Arns)
    /\ Batches \subseteq SUBSET Arns
    /\ ChunkSize \in Nat \ {0}
    /\ MaxTime \in Nat
    /\ MaxCalls \in Nat
    /\ MaxFaults \in Nat

ASSUME DurationAssumption ==
    /\ HeartbeatInterval \in Nat \ {0}
    /\ LeaseDuration \in Nat \ {0}
    /\ Drift \in Nat
    /\ HeartbeatInterval <= Drift
    /\ LeaseDuration <= Drift
    /\ SlidingWindow \in Nat
    /\ Lag \in Nat \ {0}
    /\ Delays \subseteq Nat
    /\ \A d \in Delays : d > Drift

Never == -1     \* no heartbeat of the resource in lastHeartbeats
NoLease == 0    \* leaseExpiresAt.IsZero(), or no entitlementState

VARIABLES
    now,        \* the time
    points,     \* CloudWatch: data points [arn, at (Timestamp), pub (when written)]
    lastHeartbeats, \* lastHeartbeats[c][a]
    expires, known, cachedCount,   \* r.leases[key] of each container
    pc,         \* "idle", "publish" or "count"
    evalTime,   \* of the call in progress
    inputs,     \* uniqueInputs
    toPublish,  \* heartbeats still to write
    calls, faults,  \* so far, for the bounds
    touched,    \* history: <<a, t>>, a call at the true time t covered a
    lastSeen,   \* history: when a resource was last among some inputs
    queried     \* history, for the proofs: when c last got a lease

boundVars   == <<calls, faults>>
clockVars   == <<now, points>>
leaseVars   == <<expires, known, cachedCount>>
callVars    == <<pc, evalTime, inputs, toPublish>>
historyVars == <<touched, lastSeen, queried>>
vars == <<clockVars, lastHeartbeats, leaseVars, callVars, historyVars, boundVars>>

Init ==
    /\ now = 0
    /\ points = {}
    /\ lastHeartbeats = [c \in Containers |-> [a \in Arns |-> Never]]
    /\ expires = [c \in Containers |-> NoLease]
    /\ known = [c \in Containers |-> {}]
    /\ cachedCount = [c \in Containers |-> 0]
    /\ pc = [c \in Containers |-> "idle"]
    /\ evalTime = [c \in Containers |-> 0]
    /\ inputs = [c \in Containers |-> {}]
    /\ toPublish = [c \in Containers |-> {}]
    /\ calls = 0
    /\ faults = 0
    /\ touched = {}
    /\ lastSeen = [a \in Arns |-> Never]
    /\ queried = [c \in Containers |-> Never]

-----------------------------------------------------------------------------
(***************************************************************************)
(* The call: filterHeartbeatsToPublish, publishHeartbeats.                 *)
(***************************************************************************)

(* The clock of the container, or an older authoritative time.             *)
EvalTimes == {now} \cup {now - d : d \in {e \in Delays : e <= now}}

(* No heartbeat of the resource within the last minute before t.  A stored *)
(* time after t counts as recent.  The bug never renews a heartbeat.       *)
HeartbeatDue_Bug(c, a, t) == lastHeartbeats[c][a] = Never
HeartbeatDue(c, a, t) ==
    \/ lastHeartbeats[c][a] = Never
    \/ t - lastHeartbeats[c][a] >= HeartbeatInterval

Covered(A, t) == {<<a, t>> : a \in IF t = now THEN A ELSE {}}

Register(c) ==
    /\ pc[c] = "idle"
    /\ calls < MaxCalls
    /\ calls' = calls + 1
    /\ \E t \in EvalTimes, A \in Batches :
          LET due == {a \in A : HeartbeatDue(c, a, t)} IN
          /\ evalTime' = [evalTime EXCEPT ![c] = t]
          /\ inputs' = [inputs EXCEPT ![c] = A]
          /\ toPublish' = [toPublish EXCEPT ![c] = due]
          /\ touched' = touched \cup Covered(A \ due, t)
          /\ lastSeen' = [a \in Arns |-> IF a \in A THEN now ELSE lastSeen[a]]
    /\ pc' = [pc EXCEPT ![c] = "publish"]
    /\ UNCHANGED <<clockVars, lastHeartbeats, leaseVars, queried, faults>>

Chunk(c) ==
    {A \in SUBSET toPublish[c] :
        \/ Cardinality(A) = ChunkSize
        \/ A = toPublish[c] /\ Cardinality(A) < ChunkSize}

Written(c, A) == {[arn |-> a, at |-> evalTime[c], pub |-> now] : a \in A}

(* One PutMetricData request.  Its heartbeats are marked when it succeeds. *)
PutChunk(c) ==
    /\ pc[c] = "publish"
    /\ toPublish[c] # {}
    /\ \E A \in Chunk(c) :
          /\ points' = points \cup Written(c, A)
          /\ lastHeartbeats' =
                [lastHeartbeats EXCEPT
                    ![c] = [a \in Arns |-> IF a \in A THEN evalTime[c] ELSE @[a]]]
          /\ toPublish' = [toPublish EXCEPT ![c] = @ \ A]
          /\ touched' = touched \cup Covered(A, evalTime[c])
    /\ UNCHANGED <<now, leaseVars, pc, evalTime, inputs, lastSeen, queried,
                   boundVars>>

Fault == faults < MaxFaults /\ faults' = faults + 1 /\ UNCHANGED calls

(* A request fails or times out, in which case CloudWatch may have the     *)
(* data points all the same; the rest is not sent, and nothing is marked.  *)
PutFails(c) ==
    /\ pc[c] = "publish"
    /\ toPublish[c] # {}
    /\ \E A \in Chunk(c) : points' \in {points, points \cup Written(c, A)}
    /\ toPublish' = [toPublish EXCEPT ![c] = {}]
    /\ pc' = [pc EXCEPT ![c] = "count"]
    /\ Fault
    /\ UNCHANGED <<now, lastHeartbeats, leaseVars, evalTime, inputs, historyVars>>

Published(c) ==
    /\ pc[c] = "publish"
    /\ toPublish[c] = {}
    /\ pc' = [pc EXCEPT ![c] = "count"]
    /\ UNCHANGED <<clockVars, lastHeartbeats, leaseVars, evalTime, inputs, toPublish,
                   historyVars, boundVars>>

EndCall(c) ==
    /\ pc' = [pc EXCEPT ![c] = "idle"]
    /\ evalTime' = [evalTime EXCEPT ![c] = 0]
    /\ inputs' = [inputs EXCEPT ![c] = {}]
    /\ toPublish' = [toPublish EXCEPT ![c] = {}]

(* AccessDenied: the call returns 0 and the error at once.                 *)
PutDenied(c) ==
    /\ pc[c] = "publish"
    /\ toPublish[c] # {}
    /\ EndCall(c)
    /\ Fault
    /\ UNCHANGED <<clockVars, lastHeartbeats, leaseVars, historyVars>>

-----------------------------------------------------------------------------
(***************************************************************************)
(* evaluateActiveCount and fetchActiveCountFromCloudWatch.                 *)
(***************************************************************************)

LeaseValid(c) == expires[c] # NoLease /\ evalTime[c] < expires[c]

NewInputs_Bug(c) == inputs[c]
NewInputs(c) == inputs[c] \ known[c]

FromLease(c) ==
    /\ pc[c] = "count"
    /\ LeaseValid(c)
    /\ known' = [known EXCEPT ![c] = @ \cup inputs[c]]
    /\ cachedCount' = [cachedCount EXCEPT ![c] = @ + Cardinality(NewInputs(c))]
    /\ EndCall(c)
    /\ UNCHANGED <<clockVars, lastHeartbeats, expires, historyVars, boundVars>>

(* ListMetrics, then GetMetricData over [t - slidingWindow, t]: a resource *)
(* with a data point in the window is active.  CloudWatch may leave out    *)
(* points it was given less than Lag ago.                                  *)
InWindow_Bug(p, t) == p.at <= t
InWindow(p, t) == t - SlidingWindow <= p.at /\ p.at <= t

Active(P, t) == {p.arn : p \in {q \in P : InWindow(q, t)}}
Shown == {p \in points : p.pub <= now - Lag}

(* The cached lease runs from evalTime. *)
LeaseEnd(t) == t + LeaseDuration

FromCloudWatch(c) ==
    /\ pc[c] = "count"
    /\ ~LeaseValid(c)
    /\ \E active \in SUBSET Active(points, evalTime[c]) :
          /\ Active(Shown, evalTime[c]) \subseteq active
          /\ known' = [known EXCEPT ![c] = active \cup inputs[c]]
          /\ cachedCount' =
                [cachedCount EXCEPT ![c] = Cardinality(active \cup inputs[c])]
    /\ expires' = [expires EXCEPT ![c] = LeaseEnd(evalTime[c])]
    /\ queried' = [queried EXCEPT ![c] = now]
    /\ EndCall(c)
    /\ UNCHANGED <<clockVars, lastHeartbeats, touched, lastSeen, boundVars>>

(* A query fails: best effort on what is known, no new lease.              *)
QueryFails(c) ==
    /\ pc[c] = "count"
    /\ ~LeaseValid(c)
    /\ known' = [known EXCEPT ![c] = @ \cup inputs[c]]
    /\ cachedCount' =
          [cachedCount EXCEPT
              ![c] = IF @ < Cardinality(known[c] \cup inputs[c])
                     THEN Cardinality(known[c] \cup inputs[c]) ELSE @]
    /\ EndCall(c)
    /\ Fault
    /\ UNCHANGED <<clockVars, lastHeartbeats, expires, historyVars>>

-----------------------------------------------------------------------------
(* Lambda replaces an idle container: its memory is gone.                  *)
Recycle(c) ==
    /\ pc[c] = "idle"
    /\ lastHeartbeats' = [lastHeartbeats EXCEPT ![c] = [a \in Arns |-> Never]]
    /\ expires' = [expires EXCEPT ![c] = NoLease]
    /\ known' = [known EXCEPT ![c] = {}]
    /\ cachedCount' = [cachedCount EXCEPT ![c] = 0]
    /\ queried' = [queried EXCEPT ![c] = Never]
    /\ Fault
    /\ UNCHANGED <<clockVars, callVars, touched, lastSeen>>

Tick ==
    /\ now < MaxTime
    /\ \A c \in Containers : pc[c] = "idle"
    /\ now' = now + 1
    /\ UNCHANGED <<points, lastHeartbeats, leaseVars, callVars, historyVars,
                   boundVars>>

Publishing(c) == PutChunk(c) \/ PutFails(c) \/ PutDenied(c) \/ Published(c)
Counting(c) == FromLease(c) \/ FromCloudWatch(c) \/ QueryFails(c)

(* The end of a bounded behaviour. *)
Exhausted ==
    /\ now = MaxTime /\ calls = MaxCalls
    /\ \A c \in Containers : pc[c] = "idle"
    /\ UNCHANGED vars

Next ==
    \/ Tick
    \/ Exhausted
    \/ \E c \in Containers :
          Register(c) \/ Publishing(c) \/ Counting(c) \/ Recycle(c)

Spec == Init /\ [][Next]_vars

-----------------------------------------------------------------------------
Points == [arn : Arns, at : Nat, pub : Nat]

TypeOK ==
    /\ now \in Nat
    /\ points \subseteq Points
    /\ lastHeartbeats \in [Containers -> [Arns -> Nat \cup {Never}]]
    /\ expires \in [Containers -> Nat]
    /\ known \in [Containers -> SUBSET Arns]
    /\ cachedCount \in [Containers -> Nat]
    /\ pc \in [Containers -> {"idle", "publish", "count"}]
    /\ evalTime \in [Containers -> Nat]
    /\ inputs \in [Containers -> SUBSET Arns]
    /\ toPublish \in [Containers -> SUBSET Arns]
    /\ calls \in Nat /\ faults \in Nat
    /\ touched \subseteq Arns \X Nat
    /\ lastSeen \in [Arns -> Nat \cup {Never}]
    /\ queried \in [Containers -> Nat \cup {Never}]

(* The count kept by increments is the number of resources known.          *)
CountIsKnown == \A c \in Containers : cachedCount[c] = Cardinality(known[c])

(* A call that returns no error.                                           *)
Answers(c) == FromLease(c) \/ FromCloudWatch(c)

(* A call on an unskewed clock counts every resource that any container    *)
(* covered within the window, unless that was so recently that the lease   *)
(* or CloudWatch may hide it.  The throttling of heartbeats costs          *)
(* HeartbeatInterval at the far end of the window, and late messages in    *)
(* between cost nothing.                                                   *)
Recent ==
    {a \in Arns : \E t \in 0 .. now - LeaseDuration - Lag :
        now - SlidingWindow + HeartbeatInterval <= t /\ <<a, t>> \in touched}
BoundedStaleness ==
    [][\A c \in Containers :
          Answers(c) /\ evalTime[c] = now => Recent \subseteq known'[c]]_vars

(* A resource no container has seen for a window and a lease is no longer  *)
(* counted against the limit of the license.                               *)
IdleForgotten ==
    [][\A c \in Containers :
          Answers(c) /\ evalTime[c] = now =>
             \A a \in known'[c] : lastSeen[a] >= now - SlidingWindow - LeaseDuration]_vars
=============================================================================
