---------------------- MODULE CloudWatchRegistryProofs ----------------------
(***************************************************************************)
(* Theorems about CloudWatchRegistry for any number of containers and      *)
(* resources and any durations that satisfy DurationAssumption.            *)
(*                                                                         *)
(* The argument for the staleness bound follows a resource that a call     *)
(* covered at time t: there is a data point written less than a heartbeat  *)
(* interval before t (TouchInv); a lease obtained on a true clock at a     *)
(* later time q, with CloudWatch's lag in between, has seen that point     *)
(* (LeaseInv); and a lease that is valid on a true clock was obtained on a *)
(* true clock, since an anchored one ended long ago (ClockInv).            *)
(***************************************************************************)
EXTENDS CloudWatchRegistry, FiniteSetTheorems, TLAPS

-----------------------------------------------------------------------------
(* Data points bear the true time, or one more than Drift earlier, and     *)
(* their resource was seen when they were written.                         *)
PointInv ==
    \A p \in points :
       /\ p.pub <= now
       /\ p.at = p.pub \/ p.at < p.pub - Drift
       /\ lastSeen[p.arn] >= p.pub

(* A remembered heartbeat is in CloudWatch.                                *)
HeartbeatInv ==
    \A c \in Containers, a \in Arns :
       lastHeartbeats[c][a] # Never =>
          \E p \in points : p.arn = a /\ p.at = lastHeartbeats[c][a]

(* The call in progress.                                                   *)
CallInv ==
    \A c \in Containers :
       /\ pc[c] # "idle" => evalTime[c] = now \/ evalTime[c] < now - Drift
       /\ toPublish[c] \subseteq inputs[c]
       /\ pc[c] # "idle" => \A a \in inputs[c] : lastSeen[a] = now
       /\ pc[c] = "idle" => inputs[c] = {}

SeenInv == \A a \in Arns : lastSeen[a] <= now

(* A covered resource has a recent data point.                             *)
TouchInv ==
    \A a \in Arns, t \in Nat :
       <<a, t>> \in touched =>
          /\ t <= now
          /\ \E p \in points :
                /\ p.arn = a /\ p.at = p.pub
                /\ p.pub <= t /\ t - p.pub < HeartbeatInterval

Start(c) == expires[c] - LeaseDuration

(* A lease starts at the true time of its query or more than Drift before. *)
ClockInv ==
    \A c \in Containers :
       expires[c] # NoLease =>
          /\ queried[c] <= now
          /\ Start(c) = queried[c] \/ Start(c) < queried[c] - Drift

(* What a lease that starts on a true clock knows.                         *)
LeaseInv ==
    \A c \in Containers :
       expires[c] # NoLease /\ Start(c) = queried[c] =>
          /\ \A a \in Arns, t \in Nat :
                /\ <<a, t>> \in touched
                /\ Start(c) - SlidingWindow + HeartbeatInterval <= t
                /\ t <= Start(c) - Lag
                => a \in known[c]
          /\ \A a \in known[c] : lastSeen[a] >= Start(c) - SlidingWindow

IInv ==
    /\ TypeOK /\ CountIsKnown /\ PointInv /\ HeartbeatInv /\ CallInv /\ SeenInv
    /\ TouchInv /\ ClockInv /\ LeaseInv

-----------------------------------------------------------------------------
(* The invariant holds initially.                                          *)
LEMMA IInvInit == Init => IInv
<1> SUFFICES ASSUME Init PROVE IInv
  OBVIOUS
<1> USE DEF Init, Never, NoLease
<1>1. TypeOK
  BY DEF TypeOK
<1>2. CountIsKnown
  BY FS_EmptySet DEF CountIsKnown
<1>3. PointInv /\ HeartbeatInv /\ CallInv /\ SeenInv /\ TouchInv
  BY DEF PointInv, HeartbeatInv, CallInv, SeenInv, TouchInv
<1>4. ClockInv /\ LeaseInv
  BY DEF ClockInv, LeaseInv
<1>5. QED
  BY <1>1, <1>2, <1>3, <1>4 DEF IInv

(* An evalTime is the true time or more than Drift before it.              *)
LEMMA EvalTimesType ==
  ASSUME now \in Nat, NEW t \in EvalTimes
  PROVE  t \in Nat /\ (t = now \/ t < now - Drift)
<1>1. CASE t = now
  BY <1>1
<1>2. CASE t \in {now - d : d \in {e \in Delays : e <= now}}
  <2>1. PICK d \in Delays : d <= now /\ t = now - d
    BY <1>2
  <2>2. d \in Nat /\ d > Drift
    BY DurationAssumption
  <2>3. QED
    BY <2>1, <2>2, DurationAssumption
<1>3. QED
  BY <1>1, <1>2 DEF EvalTimes

(* The data points of a request.                                           *)
LEMMA WrittenType ==
  ASSUME TypeOK, NEW c \in Containers, NEW A \in SUBSET Arns
  PROVE  Written(c, A) \subseteq Points
BY DEF TypeOK, Written, Points

(* The steps preserve the types.                                           *)
LEMMA TypeStep == IInv /\ [Next]_vars => TypeOK'
<1> SUFFICES ASSUME IInv, [Next]_vars PROVE TypeOK'
  OBVIOUS
<1>0. TypeOK
  BY DEF IInv
<1> USE DEF clockVars, leaseVars, callVars, historyVars, boundVars, Never
<1>1. CASE Tick
  BY <1>0, <1>1 DEF Tick, TypeOK
<1>2. ASSUME NEW c \in Containers, Register(c) PROVE TypeOK'
  <2>1. PICK t \in EvalTimes, A \in Batches :
           LET due == {a \in A : HeartbeatDue(c, a, t)} IN
           /\ evalTime' = [evalTime EXCEPT ![c] = t]
           /\ inputs' = [inputs EXCEPT ![c] = A]
           /\ toPublish' = [toPublish EXCEPT ![c] = due]
           /\ touched' = touched \cup Covered(A \ due, t)
           /\ lastSeen' = [a \in Arns |-> IF a \in A THEN now ELSE lastSeen[a]]
    BY <1>2 DEF Register
  <2>2. t \in Nat /\ A \subseteq Arns
    BY <1>0, EvalTimesType, DomainAssumption DEF TypeOK
  <2>3. \A B \in SUBSET Arns : Covered(B, t) \subseteq Arns \X Nat
    BY <2>2 DEF Covered
  <2>4. /\ evalTime' \in [Containers -> Nat]
        /\ inputs' \in [Containers -> SUBSET Arns]
        /\ toPublish' \in [Containers -> SUBSET Arns]
    BY <1>0, <2>1, <2>2 DEF TypeOK
  <2>5. touched' \subseteq Arns \X Nat
    <3> DEFINE B == A \ {a \in A : HeartbeatDue(c, a, t)}
    <3>1. Covered(B, t) \subseteq Arns \X Nat
      BY <2>2, <2>3
    <3>2. QED
      BY <1>0, <2>1, <3>1 DEF TypeOK
  <2>6. lastSeen' \in [Arns -> Nat \cup {Never}]
    BY <1>0, <2>1 DEF TypeOK
  <2>7. QED
    BY <1>0, <1>2, <2>4, <2>5, <2>6 DEF Register, TypeOK
<1>3. ASSUME NEW c \in Containers, PutChunk(c) PROVE TypeOK'
  <2>1. PICK A \in Chunk(c) :
          /\ points' = points \cup Written(c, A)
          /\ lastHeartbeats' =
                [lastHeartbeats EXCEPT
                    ![c] = [a \in Arns |-> IF a \in A THEN evalTime[c] ELSE @[a]]]
          /\ toPublish' = [toPublish EXCEPT ![c] = @ \ A]
          /\ touched' = touched \cup Covered(A, evalTime[c])
    BY <1>3 DEF PutChunk
  <2>2. A \subseteq Arns
    BY <1>0 DEF Chunk, TypeOK
  <2>3. points' \subseteq Points
    BY <1>0, <2>1, <2>2, WrittenType DEF TypeOK
  <2>4. touched' \subseteq Arns \X Nat
    BY <1>0, <2>1, <2>2 DEF TypeOK, Covered
  <2>5. lastHeartbeats' \in [Containers -> [Arns -> Nat \cup {Never}]]
    BY <1>0, <2>1 DEF TypeOK
  <2>6. QED
    BY <1>0, <1>3, <2>1, <2>3, <2>4, <2>5 DEF PutChunk, TypeOK
<1>4. ASSUME NEW c \in Containers, PutFails(c) PROVE TypeOK'
  <2>1. PICK A \in Chunk(c) : points' \in {points, points \cup Written(c, A)}
    BY <1>4 DEF PutFails
  <2>2. A \subseteq Arns
    BY <1>0 DEF Chunk, TypeOK
  <2>3. points' \subseteq Points
    BY <1>0, <2>1, <2>2, WrittenType DEF TypeOK
  <2>4. QED
    BY <1>0, <1>4, <2>3 DEF PutFails, Fault, TypeOK
<1>5. ASSUME NEW c \in Containers, PutDenied(c) PROVE TypeOK'
  BY <1>0, <1>5 DEF PutDenied, EndCall, Fault, TypeOK
<1>6. ASSUME NEW c \in Containers, Published(c) PROVE TypeOK'
  BY <1>0, <1>6 DEF Published, TypeOK
<1>7. ASSUME NEW c \in Containers, FromLease(c) PROVE TypeOK'
  <2>1. Cardinality(NewInputs(c)) \in Nat
    BY <1>0, DomainAssumption, FS_Subset, FS_CardinalityType DEF TypeOK, NewInputs
  <2>2. QED
    BY <1>0, <1>7, <2>1 DEF FromLease, EndCall, TypeOK
<1>8. ASSUME NEW c \in Containers, FromCloudWatch(c) PROVE TypeOK'
  <2>1. PICK active \in SUBSET Active(points, evalTime[c]) :
          /\ known' = [known EXCEPT ![c] = active \cup inputs[c]]
          /\ cachedCount' =
                [cachedCount EXCEPT ![c] = Cardinality(active \cup inputs[c])]
    BY <1>8 DEF FromCloudWatch
  <2>2. Active(points, evalTime[c]) \subseteq Arns
    BY <1>0 DEF Active, TypeOK, Points
  <2>3. active \cup inputs[c] \subseteq Arns
    BY <1>0, <2>2 DEF TypeOK
  <2>4. Cardinality(active \cup inputs[c]) \in Nat
    BY <2>3, DomainAssumption, FS_Subset, FS_CardinalityType
  <2>5. LeaseEnd(evalTime[c]) \in Nat
    BY <1>0, DurationAssumption DEF LeaseEnd, TypeOK
  <2>6. QED
    BY <1>0, <1>8, <2>1, <2>3, <2>4, <2>5 DEF FromCloudWatch, EndCall, TypeOK
<1>9. ASSUME NEW c \in Containers, QueryFails(c) PROVE TypeOK'
  <2>1. Cardinality(known[c] \cup inputs[c]) \in Nat
    BY <1>0, DomainAssumption, FS_Subset, FS_CardinalityType DEF TypeOK
  <2>2. QED
    BY <1>0, <1>9, <2>1 DEF QueryFails, EndCall, Fault, TypeOK
<1>10. ASSUME NEW c \in Containers, Recycle(c) PROVE TypeOK'
  BY <1>0, <1>10 DEF Recycle, Fault, NoLease, TypeOK
<1>11. CASE UNCHANGED vars
  BY <1>0, <1>11 DEF vars, TypeOK
<1>12. QED
  BY <1>1, <1>2, <1>3, <1>4, <1>5, <1>6, <1>7, <1>8, <1>9, <1>10, <1>11
  DEF Next, Exhausted, Publishing, Counting

-----------------------------------------------------------------------------
(* Where each variable may change.                                         *)
LEMMA Frame ==
  ASSUME IInv, [Next]_vars
  PROVE  /\ now' \in {now, now + 1}
         /\ points \subseteq points'
         /\ \A a \in Arns : lastSeen'[a] \in {lastSeen[a], now}
         /\ \A a \in Arns : lastSeen'[a] >= lastSeen[a]
<1> USE DEF clockVars, leaseVars, callVars, historyVars, boundVars
<1>0. now \in Nat /\ lastSeen \in [Arns -> Nat \cup {Never}] /\ SeenInv
  BY DEF IInv, TypeOK
<1>1. now' \in {now, now + 1} /\ points \subseteq points'
  <2>1. CASE Tick
    BY <2>1 DEF Tick
  <2>2. ASSUME NEW c \in Containers,
               Register(c) \/ Publishing(c) \/ Counting(c) \/ Recycle(c)
        PROVE  now' = now /\ points \subseteq points'
    BY <2>2 DEF Register, Publishing, PutChunk, PutFails, PutDenied, Published,
          Counting, FromLease, FromCloudWatch, QueryFails, Recycle
  <2>3. CASE UNCHANGED vars
    BY <2>3 DEF vars
  <2>4. QED
    BY <2>1, <2>2, <2>3 DEF Next, Exhausted
<1>2. \A a \in Arns : lastSeen'[a] \in {lastSeen[a], now}
  <2>1. ASSUME NEW c \in Containers, Register(c)
        PROVE  \A a \in Arns : lastSeen'[a] \in {lastSeen[a], now}
    BY <2>1 DEF Register
  <2>2. ASSUME NEW c \in Containers, Publishing(c) \/ Counting(c) \/ Recycle(c)
        PROVE  lastSeen' = lastSeen
    BY <2>2 DEF Publishing, PutChunk, PutFails, PutDenied, Published,
          Counting, FromLease, FromCloudWatch, QueryFails, Recycle
  <2>3. CASE Tick
    BY <2>3 DEF Tick
  <2>4. CASE UNCHANGED vars
    BY <2>4 DEF vars
  <2>5. QED
    BY <2>1, <2>2, <2>3, <2>4 DEF Next, Exhausted
<1>3. \A a \in Arns : lastSeen'[a] >= lastSeen[a]
  BY <1>0, <1>2 DEF SeenInv, Never
<1>4. QED
  BY <1>1, <1>2, <1>3

(* The data points a request writes satisfy PointInv.                      *)
LEMMA WrittenPoint ==
  ASSUME IInv, NEW c \in Containers, pc[c] = "publish", NEW A \in Chunk(c),
         NEW p \in Written(c, A)
  PROVE  /\ p \in Points /\ p.arn \in A /\ p.at = evalTime[c] /\ p.pub = now
         /\ p.at = p.pub \/ p.at < p.pub - Drift
         /\ lastSeen[p.arn] = now
<1>1. A \subseteq toPublish[c] /\ toPublish[c] \subseteq inputs[c]
  BY DEF Chunk, IInv, CallInv
<1>2. A \subseteq Arns
  BY <1>1 DEF IInv, TypeOK
<1>3. p.arn \in A /\ p.at = evalTime[c] /\ p.pub = now
  BY DEF Written
<1>4. p \in Points
  BY <1>2, WrittenType DEF IInv
<1>5. QED
  BY <1>1, <1>3, <1>4 DEF IInv, CallInv

(* The data points keep their invariant.                                   *)
LEMMA PointStep == IInv /\ [Next]_vars => PointInv'
<1> SUFFICES ASSUME IInv, [Next]_vars, NEW p \in points'
             PROVE  /\ p.pub <= now'
                    /\ p.at = p.pub \/ p.at < p.pub - Drift
                    /\ lastSeen'[p.arn] >= p.pub
  BY DEF PointInv
<1> USE DEF clockVars, leaseVars, callVars, historyVars, boundVars
<1>0. now \in Nat /\ lastSeen \in [Arns -> Nat \cup {Never}]
      /\ points \subseteq Points
  BY DEF IInv, TypeOK
<1>1. CASE p \in points
  <2>1. p.arn \in Arns /\ p.pub \in Nat
    BY <1>0, <1>1 DEF Points
  <2>2. /\ p.pub <= now /\ lastSeen[p.arn] >= p.pub
        /\ p.at = p.pub \/ p.at < p.pub - Drift
    BY <1>1 DEF IInv, PointInv
  <2>3. lastSeen'[p.arn] \in {lastSeen[p.arn], now} /\ now' \in {now, now + 1}
    BY <2>1, Frame
  <2>4. QED
    BY <1>0, <2>1, <2>2, <2>3
<1>2. CASE p \notin points
  <2>1. \E c \in Containers : PutChunk(c) \/ PutFails(c)
    BY <1>2 DEF Next, Exhausted, Tick, Register, Publishing, PutDenied, Published,
          Counting, FromLease, FromCloudWatch, QueryFails, Recycle, vars
  <2>2. PICK c \in Containers : PutChunk(c) \/ PutFails(c)
    BY <2>1
  <2>3. PICK A \in Chunk(c) : p \in Written(c, A)
    BY <1>2, <2>2 DEF PutChunk, PutFails
  <2>4. pc[c] = "publish" /\ now' = now /\ lastSeen' = lastSeen
    BY <2>2 DEF PutChunk, PutFails
  <2>5. QED
    BY <1>0, <2>3, <2>4, WrittenPoint
<1>3. QED
  BY <1>1, <1>2

(* A heartbeat is remembered only when CloudWatch has accepted it.         *)
LEMMA HeartbeatStep == IInv /\ [Next]_vars => HeartbeatInv'
<1> SUFFICES ASSUME IInv, [Next]_vars, NEW c \in Containers, NEW a \in Arns,
                    lastHeartbeats'[c][a] # Never
             PROVE  \E p \in points' : p.arn = a /\ p.at = lastHeartbeats'[c][a]
  BY DEF HeartbeatInv
<1> USE DEF clockVars, leaseVars, callVars, historyVars, boundVars
<1>0. lastHeartbeats \in [Containers -> [Arns -> Nat \cup {Never}]]
  BY DEF IInv, TypeOK
<1>1. CASE lastHeartbeats'[c][a] = lastHeartbeats[c][a]
  BY <1>1, Frame DEF IInv, HeartbeatInv
<1>2. CASE lastHeartbeats'[c][a] # lastHeartbeats[c][a]
  <2>1. PICK d \in Containers : PutChunk(d) \/ Recycle(d)
    BY <1>2 DEF Next, Exhausted, Tick, Register, Publishing, PutFails, PutDenied,
          Published, Counting, FromLease, FromCloudWatch, QueryFails, vars
  <2>2. CASE Recycle(d)
    BY <1>0, <1>2, <2>2 DEF Recycle
  <2>3. CASE PutChunk(d)
    <3>1. PICK A \in Chunk(d) :
            /\ points' = points \cup Written(d, A)
            /\ lastHeartbeats' =
                  [lastHeartbeats EXCEPT
                      ![d] = [b \in Arns |-> IF b \in A THEN evalTime[d] ELSE @[b]]]
      BY <2>3 DEF PutChunk
    <3>2. d = c /\ a \in A /\ lastHeartbeats'[c][a] = evalTime[d]
      BY <1>0, <1>2, <3>1
    <3>3. [arn |-> a, at |-> evalTime[d], pub |-> now] \in Written(d, A)
      BY <3>2 DEF Written
    <3>4. QED
      BY <3>1, <3>2, <3>3
  <2>4. QED
    BY <2>1, <2>2, <2>3
<1>3. QED
  BY <1>1, <1>2

(* No resource is seen in the future.                                      *)
LEMMA SeenStep == IInv /\ [Next]_vars => SeenInv'
<1> SUFFICES ASSUME IInv, [Next]_vars, NEW a \in Arns
             PROVE  lastSeen'[a] <= now'
  BY DEF SeenInv
<1>1. now \in Nat /\ lastSeen[a] <= now /\ lastSeen[a] \in Nat \cup {Never}
  BY DEF IInv, SeenInv, TypeOK
<1>2. now' \in {now, now + 1} /\ lastSeen'[a] \in {lastSeen[a], now}
  BY Frame
<1>3. QED
  BY <1>1, <1>2 DEF Never

(* A call in progress keeps its clock, since time waits for it.            *)
LEMMA CallStep == IInv /\ [Next]_vars => CallInv'
<1> SUFFICES ASSUME IInv, [Next]_vars PROVE CallInv'
  OBVIOUS
<1> USE DEF clockVars, leaseVars, callVars, historyVars, boundVars
<1>0. TypeOK /\ CallInv
  BY DEF IInv
<1>1. CASE Tick
  BY <1>0, <1>1 DEF Tick, CallInv
<1>2. ASSUME NEW c \in Containers, Register(c) PROVE CallInv'
  <2>1. PICK t \in EvalTimes, A \in Batches :
           LET due == {a \in A : HeartbeatDue(c, a, t)} IN
           /\ evalTime' = [evalTime EXCEPT ![c] = t]
           /\ inputs' = [inputs EXCEPT ![c] = A]
           /\ toPublish' = [toPublish EXCEPT ![c] = due]
           /\ lastSeen' = [a \in Arns |-> IF a \in A THEN now ELSE lastSeen[a]]
    BY <1>2 DEF Register
  <2>2. (t = now \/ t < now - Drift) /\ A \subseteq Arns
    BY <1>0, EvalTimesType, DomainAssumption DEF TypeOK
  <2>3. pc' = [pc EXCEPT ![c] = "publish"] /\ now' = now
    BY <1>2 DEF Register
  <2>4. ASSUME NEW d \in Containers
        PROVE  /\ pc'[d] # "idle" => evalTime'[d] = now' \/ evalTime'[d] < now' - Drift
               /\ toPublish'[d] \subseteq inputs'[d]
               /\ pc'[d] # "idle" => \A a \in inputs'[d] : lastSeen'[a] = now'
               /\ pc'[d] = "idle" => inputs'[d] = {}
    <3>1. CASE d = c
      BY <1>0, <2>1, <2>2, <2>3, <3>1 DEF TypeOK
    <3>2. CASE d # c
      <4>1. /\ pc'[d] = pc[d] /\ evalTime'[d] = evalTime[d]
            /\ inputs'[d] = inputs[d] /\ toPublish'[d] = toPublish[d]
        BY <1>0, <2>1, <2>3, <3>2 DEF TypeOK
      <4>2. inputs[d] \subseteq Arns
        BY <1>0 DEF TypeOK
      <4>3. QED
        BY <1>0, <2>1, <2>3, <4>1, <4>2 DEF CallInv
    <3>3. QED
      BY <3>1, <3>2
  <2>5. QED
    BY <2>4 DEF CallInv
<1>3. ASSUME NEW c \in Containers, Publishing(c) \/ Counting(c) \/ Recycle(c)
      PROVE  CallInv'
  <2>1. now' = now /\ lastSeen' = lastSeen
    BY <1>3 DEF Publishing, PutChunk, PutFails, PutDenied, Published,
          Counting, FromLease, FromCloudWatch, QueryFails, Recycle
  <2>2. ASSUME NEW d \in Containers
        PROVE  /\ toPublish'[d] \subseteq inputs'[d]
               /\ pc'[d] # "idle" => /\ pc[d] # "idle"
                                     /\ evalTime'[d] = evalTime[d]
                                     /\ inputs'[d] = inputs[d]
               /\ pc'[d] = "idle" => inputs'[d] = {}
    <3>1. CASE PutChunk(c)
      BY <1>0, <3>1 DEF PutChunk, TypeOK, CallInv
    <3>2. CASE PutFails(c)
      BY <1>0, <3>2 DEF PutFails, TypeOK, CallInv
    <3>3. CASE Published(c)
      BY <1>0, <3>3 DEF Published, TypeOK, CallInv
    <3>4. CASE PutDenied(c) \/ Counting(c)
      BY <1>0, <3>4 DEF PutDenied, Counting, FromLease, FromCloudWatch, QueryFails,
            EndCall, TypeOK, CallInv
    <3>5. CASE Recycle(c)
      BY <1>0, <3>5 DEF Recycle, CallInv
    <3>6. QED
      BY <1>3, <3>1, <3>2, <3>3, <3>4, <3>5 DEF Publishing
  <2>3. QED
    BY <1>0, <2>1, <2>2 DEF CallInv
<1>4. CASE UNCHANGED vars
  BY <1>0, <1>4 DEF vars, CallInv
<1>5. QED
  BY <1>1, <1>2, <1>3, <1>4 DEF Next, Exhausted

(* What a step adds to touched is covered by a recent data point: a new    *)
(* one, or the one whose heartbeat is not due again.                       *)
LEMMA NewTouch ==
  ASSUME IInv, [Next]_vars, NEW a \in Arns, NEW t \in Nat,
         <<a, t>> \in touched', <<a, t>> \notin touched
  PROVE  /\ t = now /\ now' = now
         /\ \E p \in points' :
               /\ p.arn = a /\ p.at = p.pub
               /\ p.pub <= t /\ t - p.pub < HeartbeatInterval
<1> USE DEF clockVars, leaseVars, callVars, historyVars, boundVars
<1>0. TypeOK
  BY DEF IInv
<1>1. PICK c \in Containers : Register(c) \/ PutChunk(c)
  BY DEF Next, Exhausted, Tick, Publishing, PutFails, PutDenied,
     Published, Counting, FromLease, FromCloudWatch, QueryFails, Recycle, vars
<1>2. CASE Register(c)
  <2>1. PICK s \in EvalTimes, A \in Batches :
           LET due == {b \in A : HeartbeatDue(c, b, s)} IN
           touched' = touched \cup Covered(A \ due, s)
    BY <1>2 DEF Register
  <2>2. <<a, t>> \in Covered(A \ {b \in A : HeartbeatDue(c, b, s)}, s)
    BY <2>1
  <2>3. s = now /\ t = s /\ ~HeartbeatDue(c, a, s)
    BY <2>2 DEF Covered
  <2>4. /\ lastHeartbeats[c][a] # Never
        /\ ~(t - lastHeartbeats[c][a] >= HeartbeatInterval)
    BY <2>3 DEF HeartbeatDue
  <2>5. PICK p \in points : p.arn = a /\ p.at = lastHeartbeats[c][a]
    BY <2>4 DEF IInv, HeartbeatInv
  <2>6. p.at \in Nat /\ p.pub \in Nat /\ now \in Nat
    BY <1>0 DEF TypeOK, Points
  <2>7. p.pub <= now /\ (p.at = p.pub \/ p.at < p.pub - Drift)
    BY DEF IInv, PointInv
  <2>8. p.at = p.pub /\ t - p.pub < HeartbeatInterval
    BY <2>3, <2>4, <2>5, <2>6, <2>7, DurationAssumption
  <2>9. points' = points /\ now' = now
    BY <1>2 DEF Register
  <2>10. QED
    BY <2>3, <2>5, <2>7, <2>8, <2>9
<1>3. CASE PutChunk(c)
  <2>1. PICK A \in Chunk(c) :
          /\ points' = points \cup Written(c, A)
          /\ touched' = touched \cup Covered(A, evalTime[c])
    BY <1>3 DEF PutChunk
  <2>2. <<a, t>> \in Covered(A, evalTime[c])
    BY <2>1
  <2>3. evalTime[c] = now /\ t = now /\ a \in A
    BY <2>2 DEF Covered
  <2>4. [arn |-> a, at |-> now, pub |-> now] \in points'
    BY <2>1, <2>3 DEF Written
  <2>5. now' = now /\ now \in Nat
    BY <1>0, <1>3 DEF PutChunk, TypeOK
  <2>6. QED
    BY <2>3, <2>4, <2>5, DurationAssumption
<1>4. QED
  BY <1>1, <1>2, <1>3

(* Every covered resource keeps its data point.                            *)
LEMMA TouchStep == IInv /\ [Next]_vars => TouchInv'
<1> SUFFICES ASSUME IInv, [Next]_vars, NEW a \in Arns, NEW t \in Nat,
                    <<a, t>> \in touched'
             PROVE  /\ t <= now'
                    /\ \E p \in points' :
                          /\ p.arn = a /\ p.at = p.pub
                          /\ p.pub <= t /\ t - p.pub < HeartbeatInterval
  BY DEF TouchInv
<1>1. now \in Nat /\ now' \in {now, now + 1} /\ points \subseteq points'
  BY Frame DEF IInv, TypeOK
<1>2. CASE <<a, t>> \in touched
  BY <1>1, <1>2 DEF IInv, TouchInv
<1>3. CASE <<a, t>> \notin touched
  BY <1>1, <1>3, NewTouch
<1>4. QED
  BY <1>2, <1>3

(* A container whose lease changes either queries, or is replaced.         *)
LEMMA LeaseChange ==
  ASSUME IInv, [Next]_vars, NEW c \in Containers
  PROVE  \/ UNCHANGED <<expires[c], queried[c]>>
         \/ FromCloudWatch(c)
         \/ expires'[c] = NoLease
<1> USE DEF clockVars, leaseVars, callVars, historyVars, boundVars
<1>0. expires \in [Containers -> Nat] /\ queried \in [Containers -> Nat \cup {Never}]
  BY DEF IInv, TypeOK
<1>1. ASSUME NEW d \in Containers, FromCloudWatch(d) \/ Recycle(d)
      PROVE  \/ UNCHANGED <<expires[c], queried[c]>>
             \/ FromCloudWatch(c)
             \/ expires'[c] = NoLease
  BY <1>0, <1>1 DEF FromCloudWatch, Recycle
<1>2. CASE ~\E d \in Containers : FromCloudWatch(d) \/ Recycle(d)
  BY <1>2 DEF Next, Exhausted, Tick, Register, Publishing, PutChunk, PutFails,
     PutDenied, Published, Counting, FromLease, QueryFails, vars
<1>3. QED
  BY <1>1, <1>2

(* A query starts a lease at the evalTime of its call.                     *)
LEMMA NewLease ==
  ASSUME IInv, NEW c \in Containers, FromCloudWatch(c)
  PROVE  /\ evalTime[c] \in Nat /\ now \in Nat /\ now' = now
         /\ queried'[c] = now
         /\ Start(c)' = evalTime[c]
         /\ evalTime[c] = now \/ evalTime[c] < now - Drift
<1>1. TypeOK /\ CallInv
  BY DEF IInv
<1>2. expires'[c] = evalTime[c] + LeaseDuration /\ queried'[c] = now /\ now' = now
  BY <1>1 DEF FromCloudWatch, LeaseEnd, TypeOK, clockVars
<1>3. evalTime[c] = now \/ evalTime[c] < now - Drift
  BY <1>1 DEF FromCloudWatch, CallInv
<1>4. QED
  BY <1>1, <1>2, <1>3, DurationAssumption DEF TypeOK, Start

(* The clock of every lease stays true or far behind.                      *)
LEMMA ClockStep == IInv /\ [Next]_vars => ClockInv'
<1> SUFFICES ASSUME IInv, [Next]_vars, NEW c \in Containers, expires'[c] # NoLease
             PROVE  /\ queried'[c] <= now'
                    /\ Start(c)' = queried'[c] \/ Start(c)' < queried'[c] - Drift
  BY DEF ClockInv
<1>0. now \in Nat /\ now' \in {now, now + 1} /\ queried[c] \in Nat \cup {Never}
  BY Frame DEF IInv, TypeOK
<1>1. CASE UNCHANGED <<expires[c], queried[c]>>
  BY <1>0, <1>1 DEF IInv, ClockInv, Start, Never
<1>2. CASE FromCloudWatch(c)
  BY <1>0, <1>2, NewLease
<1>3. QED
  BY <1>1, <1>2, LeaseChange

(* A lease that starts on a true clock has seen the data point of every    *)
(* resource covered before.                                                *)
LEMMA QuerySees ==
  ASSUME IInv, NEW c \in Containers, FromCloudWatch(c), evalTime[c] = now,
         NEW a \in Arns, NEW t \in Nat, <<a, t>> \in touched,
         now - SlidingWindow + HeartbeatInterval <= t, t <= now - Lag
  PROVE  a \in known'[c]
<1>1. now \in Nat /\ points \subseteq Points /\ known \in [Containers -> SUBSET Arns]
  BY DEF IInv, TypeOK
<1>2. PICK p \in points : /\ p.arn = a /\ p.at = p.pub
                          /\ p.pub <= t /\ t - p.pub < HeartbeatInterval
  BY DEF IInv, TouchInv
<1>3. p.pub \in Nat
  BY <1>1 DEF Points
<1>4. p \in Shown /\ InWindow(p, now)
  BY <1>1, <1>2, <1>3, DurationAssumption DEF Shown, InWindow
<1>5. a \in Active(Shown, now)
  BY <1>2, <1>4 DEF Active
<1>6. PICK active \in SUBSET Active(points, evalTime[c]) :
         /\ Active(Shown, evalTime[c]) \subseteq active
         /\ known' = [known EXCEPT ![c] = active \cup inputs[c]]
  BY DEF FromCloudWatch
<1>7. QED
  BY <1>1, <1>5, <1>6

(* It knows only resources seen within its window.                         *)
LEMMA QueryFresh ==
  ASSUME IInv, NEW c \in Containers, FromCloudWatch(c), evalTime[c] = now,
         NEW a \in known'[c]
  PROVE  a \in Arns /\ lastSeen[a] >= now - SlidingWindow
<1>1. /\ now \in Nat /\ points \subseteq Points /\ known \in [Containers -> SUBSET Arns]
      /\ inputs[c] \subseteq Arns /\ lastSeen \in [Arns -> Nat \cup {Never}]
  BY DEF IInv, TypeOK
<1>2. PICK active \in SUBSET Active(points, evalTime[c]) :
         known' = [known EXCEPT ![c] = active \cup inputs[c]]
  BY DEF FromCloudWatch
<1>3. CASE a \in inputs[c]
  <2>1. lastSeen[a] = now
    BY <1>3 DEF IInv, CallInv, FromCloudWatch
  <2>2. QED
    BY <1>1, <1>3, <2>1, DurationAssumption
<1>4. CASE a \in Active(points, now)
  <2>1. PICK p \in points : InWindow(p, now) /\ p.arn = a
    BY <1>4 DEF Active
  <2>2. p.arn \in Arns /\ p.at \in Nat /\ p.pub \in Nat
    BY <1>1 DEF Points
  <2>3. p.at <= p.pub /\ lastSeen[a] >= p.pub
    BY <2>1, <2>2, DurationAssumption DEF IInv, PointInv
  <2>4. QED
    BY <1>1, <2>1, <2>2, <2>3, DurationAssumption DEF InWindow, Never
<1>5. QED
  BY <1>1, <1>2, <1>3, <1>4

(* Without a new lease, known only gains what is seen at this moment.      *)
LEMMA KnownGrows ==
  ASSUME IInv, [Next]_vars, NEW c \in Containers,
         UNCHANGED <<expires[c], queried[c]>>, expires[c] # NoLease
  PROVE  \/ FromCloudWatch(c)
         \/ /\ known[c] \subseteq known'[c]
            /\ \A a \in known'[c] \ known[c] :
                  a \in Arns /\ lastSeen[a] = now /\ lastSeen'[a] = now
<1> USE DEF clockVars, leaseVars, callVars, historyVars, boundVars
<1>0. /\ known \in [Containers -> SUBSET Arns] /\ expires \in [Containers -> Nat]
      /\ inputs[c] \subseteq Arns
  BY DEF IInv, TypeOK
<1>1. ASSUME NEW d \in Containers, FromLease(d) \/ QueryFails(d)
      PROVE  /\ known[c] \subseteq known'[c]
             /\ \A a \in known'[c] \ known[c] :
                   a \in Arns /\ lastSeen[a] = now /\ lastSeen'[a] = now
  <2>1. known' = [known EXCEPT ![d] = @ \cup inputs[d]] /\ pc[d] = "count"
        /\ lastSeen' = lastSeen
    BY <1>1 DEF FromLease, QueryFails
  <2>2. \A a \in inputs[d] : lastSeen[a] = now
    BY <2>1 DEF IInv, CallInv
  <2>3. QED
    BY <1>0, <2>1, <2>2
<1>2. ASSUME NEW d \in Containers, FromCloudWatch(d) \/ Recycle(d), ~FromCloudWatch(c)
      PROVE  known'[c] = known[c]
  BY <1>0, <1>2 DEF FromCloudWatch, Recycle
<1>3. CASE ~\E d \in Containers :
              FromLease(d) \/ QueryFails(d) \/ FromCloudWatch(d) \/ Recycle(d)
  <2>1. known' = known
    BY <1>3 DEF Next, Exhausted, Tick, Register, Publishing, PutChunk, PutFails,
       PutDenied, Published, Counting, vars
  <2>2. QED
    BY <2>1
<1>4. QED
  BY <1>1, <1>2, <1>3

(* What a lease knows stays complete and fresh.                            *)
LEMMA LeaseStep == IInv /\ [Next]_vars => LeaseInv'
<1> SUFFICES ASSUME IInv, [Next]_vars, NEW c \in Containers,
                    expires'[c] # NoLease, Start(c)' = queried'[c]
             PROVE  /\ \A a \in Arns, t \in Nat :
                          /\ <<a, t>> \in touched'
                          /\ Start(c)' - SlidingWindow + HeartbeatInterval <= t
                          /\ t <= Start(c)' - Lag
                          => a \in known'[c]
                    /\ \A a \in known'[c] :
                          lastSeen'[a] >= Start(c)' - SlidingWindow
  BY DEF LeaseInv
<1>0. /\ now \in Nat /\ known \in [Containers -> SUBSET Arns]
      /\ lastSeen \in [Arns -> Nat \cup {Never}]
      /\ expires[c] \in Nat /\ queried[c] \in Nat \cup {Never}
  BY DEF IInv, TypeOK
<1>1. CASE FromCloudWatch(c)
  <2>1. Start(c)' = now /\ evalTime[c] = now
    BY <1>1, NewLease, DurationAssumption
  <2>2. touched' = touched /\ lastSeen' = lastSeen
    BY <1>1 DEF FromCloudWatch
  <2>3. QED
    BY <1>1, <2>1, <2>2, QuerySees, QueryFresh
<1>2. CASE UNCHANGED <<expires[c], queried[c]>> /\ ~FromCloudWatch(c)
  <2>1. Start(c)' = Start(c) /\ Start(c) = queried[c] /\ expires[c] # NoLease
    BY <1>2 DEF Start
  <2>2. Start(c) \in Int /\ Start(c) <= now
    BY <1>0, <2>1, DurationAssumption DEF IInv, ClockInv, Start
  <2>3. /\ known[c] \subseteq known'[c]
        /\ \A a \in known'[c] \ known[c] : a \in Arns /\ lastSeen'[a] = now
    BY <1>2, <2>1, KnownGrows
  <2>4. ASSUME NEW a \in Arns, NEW t \in Nat, <<a, t>> \in touched',
               Start(c)' - SlidingWindow + HeartbeatInterval <= t,
               t <= Start(c)' - Lag
        PROVE  a \in known'[c]
    <3>1. <<a, t>> \in touched
      BY <1>0, <2>1, <2>2, <2>4, NewTouch, DurationAssumption
    <3>2. QED
      BY <2>1, <2>3, <2>4, <3>1 DEF IInv, LeaseInv
  <2>5. ASSUME NEW a \in known'[c]
        PROVE  lastSeen'[a] >= Start(c)' - SlidingWindow
    <3>1. CASE a \in known[c]
      <4>1. a \in Arns /\ lastSeen[a] >= Start(c) - SlidingWindow
        BY <1>0, <2>1, <3>1 DEF IInv, LeaseInv
      <4>2. lastSeen'[a] \in {lastSeen[a], now}
        BY <4>1, Frame
      <4>3. QED
        BY <1>0, <2>1, <2>2, <4>1, <4>2, DurationAssumption
    <3>2. CASE a \notin known[c]
      BY <1>0, <2>1, <2>2, <2>3, <3>2, DurationAssumption
    <3>3. QED
      BY <3>1, <3>2
  <2>6. QED
    BY <2>4, <2>5
<1>3. QED
  BY <1>1, <1>2, LeaseChange

(* Counting the new inputs of a lease one by one gives the size of the     *)
(* union.                                                                  *)
LEMMA CountNew ==
  ASSUME NEW A, NEW B, IsFiniteSet(A), IsFiniteSet(B)
  PROVE  /\ Cardinality(A \cup B) \in Nat
         /\ Cardinality(A) \in Nat
         /\ Cardinality(A) <= Cardinality(A \cup B)
         /\ Cardinality(A \cup B) = Cardinality(A) + Cardinality(B \ A)
<1>1. IsFiniteSet(A \cup B) /\ IsFiniteSet(B \ A)
  BY FS_Union, FS_Difference
<1>2. Cardinality(A \cup (B \ A)) =
         Cardinality(A) + Cardinality(B \ A) - Cardinality(A \cap (B \ A))
  BY <1>1, FS_Union
<1>3. A \cup (B \ A) = A \cup B /\ A \cap (B \ A) = {}
  OBVIOUS
<1>4. /\ Cardinality(A \cup B) \in Nat /\ Cardinality(A) \in Nat
      /\ Cardinality(B \ A) \in Nat
  BY <1>1, FS_CardinalityType
<1>5. Cardinality({}) = 0
  BY FS_EmptySet
<1>6. Cardinality(A \cup B) = Cardinality(A) + Cardinality(B \ A)
  BY <1>2, <1>3, <1>4, <1>5
<1>7. QED
  BY <1>4, <1>6

(* The cached count follows the known resources.                           *)
LEMMA CountStep == IInv /\ [Next]_vars => CountIsKnown'
<1> SUFFICES ASSUME IInv, [Next]_vars, NEW c \in Containers
             PROVE  cachedCount'[c] = Cardinality(known'[c])
  BY DEF CountIsKnown
<1> USE DEF clockVars, leaseVars, callVars, historyVars, boundVars
<1>0. /\ known \in [Containers -> SUBSET Arns] /\ inputs \in [Containers -> SUBSET Arns]
      /\ cachedCount \in [Containers -> Nat]
      /\ cachedCount[c] = Cardinality(known[c])
  BY DEF IInv, TypeOK, CountIsKnown
<1>1. IsFiniteSet(known[c]) /\ IsFiniteSet(inputs[c])
  BY <1>0, DomainAssumption, FS_Subset
<1>2. ASSUME NEW d \in Containers, FromLease(d)
      PROVE  cachedCount'[c] = Cardinality(known'[c])
  BY <1>0, <1>1, <1>2, CountNew DEF FromLease, NewInputs
<1>3. ASSUME NEW d \in Containers, FromCloudWatch(d)
      PROVE  cachedCount'[c] = Cardinality(known'[c])
  BY <1>0, <1>3 DEF FromCloudWatch
<1>4. ASSUME NEW d \in Containers, QueryFails(d)
      PROVE  cachedCount'[c] = Cardinality(known'[c])
  <2>1. CASE d = c
    <3>1. known'[c] = known[c] \cup inputs[c]
      BY <1>0, <1>4, <2>1 DEF QueryFails
    <3>2. cachedCount'[c] = IF cachedCount[c] < Cardinality(known[c] \cup inputs[c])
                            THEN Cardinality(known[c] \cup inputs[c])
                            ELSE cachedCount[c]
      BY <1>0, <1>4, <2>1 DEF QueryFails
    <3>3. /\ Cardinality(known[c] \cup inputs[c]) \in Nat
          /\ Cardinality(known[c]) \in Nat
          /\ Cardinality(known[c]) <= Cardinality(known[c] \cup inputs[c])
      BY <1>1, CountNew
    <3>4. cachedCount'[c] = Cardinality(known[c] \cup inputs[c])
      BY <1>0, <3>2, <3>3
    <3>5. QED
      BY <3>1, <3>4
  <2>2. CASE d # c
    BY <1>0, <1>4, <2>2 DEF QueryFails
  <2>3. QED
    BY <2>1, <2>2
<1>5. ASSUME NEW d \in Containers, Recycle(d)
      PROVE  cachedCount'[c] = Cardinality(known'[c])
  BY <1>0, <1>5, FS_EmptySet DEF Recycle
<1>6. CASE UNCHANGED <<known, cachedCount>>
  BY <1>0, <1>6
<1>7. QED
  BY <1>2, <1>3, <1>4, <1>5, <1>6 DEF Next, Exhausted, Tick, Register, Publishing,
     PutChunk, PutFails, PutDenied, Published, Counting, vars

-----------------------------------------------------------------------------
(* The strengthened invariant holds in every reachable state.              *)
THEOREM Inductive == Spec => []IInv
<1>1. IInv /\ [Next]_vars => IInv'
  BY TypeStep, CountStep, PointStep, HeartbeatStep, CallStep, SeenStep, TouchStep,
     ClockStep, LeaseStep
  DEF IInv
<1>2. QED
  BY IInvInit, <1>1, PTL DEF Spec

(* Every variable keeps its type.                                          *)
THEOREM TypeCorrect == Spec => []TypeOK
<1>1. IInv => TypeOK
  BY DEF IInv
<1>2. QED
  BY <1>1, Inductive, PTL

(* The count kept by increments is the number of resources known.          *)
THEOREM CountCorrect == Spec => []CountIsKnown
<1>1. IInv => CountIsKnown
  BY DEF IInv
<1>2. QED
  BY <1>1, Inductive, PTL

(* A lease that is valid on a true clock was obtained on a true clock, at  *)
(* most LeaseDuration ago.                                                 *)
LEMMA ValidLease ==
  ASSUME IInv, NEW c \in Containers, FromLease(c), evalTime[c] = now
  PROVE  /\ now \in Nat /\ Start(c) \in Int /\ expires[c] # NoLease
         /\ now - LeaseDuration < Start(c) /\ Start(c) <= now
         /\ Start(c) = queried[c]
<1>1. /\ now \in Nat /\ expires[c] \in Nat /\ queried[c] \in Nat \cup {Never}
  BY DEF IInv, TypeOK
<1>2. expires[c] # NoLease /\ now < expires[c]
  BY DEF FromLease, LeaseValid
<1>3. /\ queried[c] <= now
      /\ Start(c) = queried[c] \/ Start(c) < queried[c] - Drift
  BY <1>2 DEF IInv, ClockInv
<1>4. QED
  BY <1>1, <1>2, <1>3, DurationAssumption DEF Start, Never

(* On a true clock, whatever container c answers counts every resource     *)
(* that some container covered early enough and within the window.         *)
THEOREM StalenessIsBounded == Spec => BoundedStaleness
<1>1. ASSUME IInv, [Next]_vars, NEW c \in Containers, Answers(c), evalTime[c] = now
      PROVE  Recent \subseteq known'[c]
  <2> SUFFICES ASSUME NEW a \in Recent PROVE a \in known'[c]
    OBVIOUS
  <2>0. now \in Nat /\ known \in [Containers -> SUBSET Arns]
    BY <1>1 DEF IInv, TypeOK
  <2>1. PICK t \in 0 .. now - LeaseDuration - Lag :
           now - SlidingWindow + HeartbeatInterval <= t /\ <<a, t>> \in touched
    BY DEF Recent
  <2>2. a \in Arns /\ t \in Nat /\ t <= now - LeaseDuration - Lag
    BY <2>0, <2>1, DurationAssumption DEF Recent
  <2>3. CASE FromLease(c)
    <3>1. /\ Start(c) \in Int /\ expires[c] # NoLease /\ Start(c) = queried[c]
          /\ now - LeaseDuration < Start(c) /\ Start(c) <= now
      BY <1>1, <2>3, ValidLease
    <3>2. /\ Start(c) - SlidingWindow + HeartbeatInterval <= t
          /\ t <= Start(c) - Lag
      BY <2>0, <2>1, <2>2, <3>1, DurationAssumption
    <3>3. a \in known[c]
      BY <1>1, <2>1, <2>2, <3>1, <3>2 DEF IInv, LeaseInv
    <3>4. QED
      BY <2>0, <2>3, <3>3 DEF FromLease
  <2>4. CASE FromCloudWatch(c)
    <3>1. t <= now - Lag
      BY <2>0, <2>2, DurationAssumption
    <3>2. QED
      BY <1>1, <2>1, <2>2, <2>4, <3>1, QuerySees
  <2>5. QED
    BY <1>1, <2>3, <2>4 DEF Answers
<1>2. IInv /\ [Next]_vars =>
        [\A c \in Containers :
            Answers(c) /\ evalTime[c] = now => Recent \subseteq known'[c]]_vars
  BY <1>1
<1>3. QED
  BY Inductive, <1>2, PTL DEF Spec, BoundedStaleness

(* On a true clock, a resource that is counted was seen within the last    *)
(* window and lease.                                                       *)
THEOREM IdleIsForgotten == Spec => IdleForgotten
<1>1. ASSUME IInv, [Next]_vars, NEW c \in Containers, Answers(c), evalTime[c] = now,
             NEW a \in known'[c]
      PROVE  lastSeen[a] >= now - SlidingWindow - LeaseDuration
  <2>0. /\ now \in Nat /\ known \in [Containers -> SUBSET Arns]
        /\ inputs[c] \subseteq Arns /\ lastSeen \in [Arns -> Nat \cup {Never}]
    BY <1>1 DEF IInv, TypeOK
  <2>1. CASE FromCloudWatch(c)
    <3>1. a \in Arns /\ lastSeen[a] >= now - SlidingWindow
      BY <1>1, <2>1, QueryFresh
    <3>2. QED
      BY <2>0, <3>1, DurationAssumption DEF Never
  <2>2. CASE FromLease(c)
    <3>1. /\ Start(c) \in Int /\ expires[c] # NoLease /\ Start(c) = queried[c]
          /\ now - LeaseDuration < Start(c)
      BY <1>1, <2>2, ValidLease
    <3>2. CASE a \in known[c]
      <4>1. a \in Arns /\ lastSeen[a] >= Start(c) - SlidingWindow
        BY <1>1, <2>0, <3>1, <3>2 DEF IInv, LeaseInv
      <4>2. QED
        BY <2>0, <3>1, <4>1, DurationAssumption DEF Never
    <3>3. CASE a \in inputs[c]
      <4>1. lastSeen[a] = now
        BY <1>1, <2>2, <3>3 DEF IInv, CallInv, FromLease
      <4>2. QED
        BY <2>0, <4>1, DurationAssumption
    <3>4. QED
      BY <1>1, <2>0, <2>2, <3>2, <3>3 DEF FromLease
  <2>3. QED
    BY <1>1, <2>1, <2>2 DEF Answers
<1>2. IInv /\ [Next]_vars =>
        [\A c \in Containers :
            Answers(c) /\ evalTime[c] = now =>
               \A a \in known'[c] :
                  lastSeen[a] >= now - SlidingWindow - LeaseDuration]_vars
  BY <1>1
<1>3. QED
  BY Inductive, <1>2, PTL DEF Spec, IdleForgotten
=============================================================================
