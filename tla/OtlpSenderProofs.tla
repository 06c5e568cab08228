-------------------------- MODULE OtlpSenderProofs --------------------------
(***************************************************************************)
(* Theorems about OtlpSender for every number of groups, every group size, *)
(* every MAX_BATCH_SIZE, MAX_CONCURRENT and MAX_RETRIES.                   *)
(*                                                                         *)
(* The invariants a run checks are not inductive.  Three strengthenings    *)
(* carry them: TokenInv (what the semaphore counts), SliceInv (what the    *)
(* dispatch loop has cut so far) and ErrorInv (where an error comes from). *)
(***************************************************************************)
EXTENDS OtlpSender, FiniteSetTheorems, TLAPS

-----------------------------------------------------------------------------
(* Facts about the constants.                                              *)

(* A record is a pair of a group and an offset inside the group.           *)
LEMMA RecordShape ==
    \A r : r \in Records <=> /\ r = <<r[1], r[2]>>
                             /\ r[1] \in Groups
                             /\ r[2] \in 0 .. GroupSize[r[1]] - 1
<1>1. ASSUME NEW r, r \in Records
      PROVE  r = <<r[1], r[2]>> /\ r[1] \in Groups /\ r[2] \in 0 .. GroupSize[r[1]] - 1
  <2>1. PICK g \in Groups : r \in {g} \X (0 .. GroupSize[g] - 1)
    BY <1>1 DEF Records
  <2>2. QED  BY <2>1
<1>2. ASSUME NEW r, r = <<r[1], r[2]>>, r[1] \in Groups,
             r[2] \in 0 .. GroupSize[r[1]] - 1
      PROVE  r \in Records
  <2>1. r \in {r[1]} \X (0 .. GroupSize[r[1]] - 1)
    BY <1>2
  <2>2. QED  BY <2>1, <1>2 DEF Records
<1>3. QED  BY <1>1, <1>2

(* The slice that starts at the current offset of a group is a batch.      *)
LEMMA BatchAtOffset ==
    ASSUME NEW g \in Groups, NEW i \in Nat, i < GroupSize[g]
    PROVE  /\ <<g, i>> \in Workers
           /\ <<g, i>>[1] = g
           /\ <<g, i>>[2] = i
BY RecordShape, GroupsAssumption DEF Workers

-----------------------------------------------------------------------------
(* What the semaphore counts: one token per worker between its acquire and *)
(* its deferred release; no request goes out past the last attempt; and a  *)
(* worker is launched once, because its group's offset has moved past it.  *)
TokenInv ==
    /\ IsFiniteSet(Holding)
    /\ sem = Cardinality(Holding)
    /\ \A w \in Workers : pc[w] = "inflight" => attempt[w] <= MaxRetries
    /\ \A w \in Launched : w[2] + MaxBatchSize <= off[w[1]]

(* A step of a worker that keeps its token keeps the count.                *)
LEMMA KeepToken ==
    ASSUME TypeOK, TokenInv, NEW w \in Workers, NEW to \in HoldingPc,
           pc[w] \in HoldingPc, pc' = [pc EXCEPT ![w] = to], sem' = sem, off' = off
    PROVE  /\ IsFiniteSet(Holding') /\ sem' = Cardinality(Holding')
           /\ \A v \in Launched' : v[2] + MaxBatchSize <= off'[v[1]]
<1>1. Holding' = Holding
  BY DEF Holding, TypeOK
<1>2. Launched' = Launched
  BY DEF Launched, TypeOK, HoldingPc
<1>3. QED  BY <1>1, <1>2 DEF TokenInv

(* TypeOK and TokenInv hold initially.                                     *)
LEMMA TypeInit == Init => TypeOK /\ TokenInv
<1> SUFFICES ASSUME Init PROVE TypeOK /\ TokenInv
  OBVIOUS
<1> USE DEF Init
<1>1. mainPc \in {"dispatch", "wait", "returned"} /\ off \in [Groups -> Nat]
  OBVIOUS
<1>2. parent \in {"live", "done"} /\ cancelled \in BOOLEAN
  OBVIOUS
<1>3. sem \in 0 .. MaxConcurrent /\ attempt \in [Workers -> 0 .. MaxRetries + 1]
  BY LimitsAssumption
<1>4. errChan \in Causes \cup {"none"} /\ lastErr \in [Workers -> Causes \cup {"none"}]
  OBVIOUS
<1>5. pc \in [Workers -> WorkerPc]
  BY DEF WorkerPc
<1>6. acked \subseteq Workers /\ stored \subseteq Workers
  OBVIOUS
<1>7. result \in Causes \cup {"pending", "nil"}
  OBVIOUS
<1>8. Holding = {} /\ Launched = {}
  BY DEF Holding, HoldingPc, Launched
<1>9. QED
  BY <1>1, <1>2, <1>3, <1>4, <1>5, <1>6, <1>7, <1>8, FS_EmptySet
     DEF TypeOK, TokenInv

(* Every step preserves TypeOK and TokenInv: one case per action.          *)
LEMMA TypeStep == TypeOK /\ TokenInv /\ [Next]_vars => TypeOK' /\ TokenInv'
<1> SUFFICES ASSUME TypeOK, TokenInv, [Next]_vars
             PROVE  TypeOK' /\ TokenInv'
  OBVIOUS
<1> USE DEF mainVars, ctxVars, workerVars, remoteVars, GroupsWalked, WorkersDone,
            FinalResult, SemHasRoom, AttemptsLeft, CountAttempt
<1>1. ASSUME NEW g \in Groups, LaunchBatch(g)
      PROVE  TypeOK' /\ TokenInv'
  <2>1. off[g] \in Nat /\ off[g] < GroupSize[g]
    BY <1>1 DEF LaunchBatch, Current, TypeOK
  <2>2. <<g, off[g]>> \in Workers
    BY <2>1, BatchAtOffset
  <2>3. TypeOK'
    BY <1>1, <2>1, <2>2, LimitsAssumption DEF LaunchBatch, TypeOK, WorkerPc
  <2>4. pc[<<g, off[g]>>] = "unborn"
    BY <2>1, <2>2, BatchAtOffset, LimitsAssumption DEF TokenInv, Launched
  <2>5. Holding' = Holding
    BY <1>1, <2>2, <2>4 DEF LaunchBatch, Holding, HoldingPc, TypeOK
  <2>6. sem' = sem /\ attempt' = attempt
    BY <1>1 DEF LaunchBatch
  <2>7. \A w \in Workers : pc'[w] = "inflight" => attempt'[w] <= MaxRetries
    BY <1>1, <2>2, <2>6 DEF LaunchBatch, TypeOK, TokenInv
  <2>8. \A w \in Launched' : w[2] + MaxBatchSize <= off'[w[1]]
    <3> SUFFICES ASSUME NEW w \in Workers, pc'[w] # "unborn"
                 PROVE  w[2] + MaxBatchSize <= off'[w[1]]
      BY DEF Launched
    <3>1. w[1] \in Groups /\ w[2] \in Nat
      BY RecordShape, GroupsAssumption DEF Workers
    <3>2. off'[g] = off[g] + MaxBatchSize /\ \A h \in Groups \ {g} : off'[h] = off[h]
      BY <1>1 DEF LaunchBatch, TypeOK
    <3>3. CASE w = <<g, off[g]>>
      <4>1. w[1] = g /\ w[2] = off[g]
        BY <3>3
      <4>2. QED
        BY <4>1, <3>2, <2>1, LimitsAssumption
    <3>4. CASE w # <<g, off[g]>>
      <4>1. pc[w] # "unborn"
        BY <3>4, <1>1, <2>2 DEF LaunchBatch, TypeOK
      <4>2. w[2] + MaxBatchSize <= off[w[1]]
        BY <4>1 DEF TokenInv, Launched
      <4>3. off[w[1]] \in Nat
        BY <3>1 DEF TypeOK
      <4>4. QED
        BY <4>2, <4>3, <3>1, <3>2, LimitsAssumption
    <3>5. QED
      BY <3>3, <3>4
  <2>9. QED
    BY <2>3, <2>5, <2>6, <2>7, <2>8 DEF TokenInv
<1>2. CASE LeaveDispatch
  <2>1. TypeOK'
    BY <1>2 DEF LeaveDispatch, TypeOK
  <2>2. QED
    BY <2>1, <1>2 DEF LeaveDispatch, TokenInv, Holding, Launched
<1>3. CASE Return
  <2>1. TypeOK'
    BY <1>3 DEF Return, TypeOK, Causes
  <2>2. QED
    BY <2>1, <1>3 DEF Return, TokenInv, Holding, Launched
<1>4. CASE ParentDone
  <2>1. TypeOK'
    BY <1>4 DEF ParentDone, TypeOK
  <2>2. QED
    BY <2>1, <1>4 DEF ParentDone, TokenInv, Holding, Launched
<1>5. ASSUME NEW w \in Workers, Acquire(w)
      PROVE  TypeOK' /\ TokenInv'
  <2>1. TypeOK'
    BY <1>5, LimitsAssumption DEF Acquire, TypeOK, WorkerPc, HoldingPc
  <2>2. w \notin Holding /\ Holding' = Holding \cup {w}
    BY <1>5 DEF Acquire, Holding, HoldingPc, TypeOK
  <2>3. IsFiniteSet(Holding') /\ Cardinality(Holding') = Cardinality(Holding) + 1
    BY <2>2, FS_AddElement DEF TokenInv
  <2>4. Launched' = Launched
    BY <1>5 DEF Acquire, Launched, TypeOK
  <2>5. QED
    BY <2>1, <2>3, <2>4, <1>5 DEF Acquire, TokenInv, TypeOK
<1>6. ASSUME NEW w \in Workers, AbortAcquire(w)
      PROVE  TypeOK' /\ TokenInv'
  <2>1. TypeOK'
    BY <1>6 DEF AbortAcquire, TypeOK, WorkerPc
  <2>2. Holding' = Holding /\ Launched' = Launched
    BY <1>6 DEF AbortAcquire, Holding, HoldingPc, Launched, TypeOK
  <2>3. QED
    BY <2>1, <2>2, <1>6 DEF AbortAcquire, TokenInv, TypeOK
<1>7. ASSUME NEW w \in Workers, GiveUp(w)
      PROVE  TypeOK' /\ TokenInv'
  <2>1. TypeOK'
    BY <1>7 DEF GiveUp, TypeOK, WorkerPc, HoldingPc
  <2>2. QED
    BY <2>1, <1>7, KeepToken DEF GiveUp, HoldingPc, TokenInv, TypeOK
<1>8. ASSUME NEW w \in Workers, StopOnContext(w)
      PROVE  TypeOK' /\ TokenInv'
  <2>1. TypeOK'
    BY <1>8 DEF StopOnContext, TypeOK, WorkerPc, HoldingPc, Causes
  <2>2. QED
    BY <2>1, <1>8, KeepToken DEF StopOnContext, HoldingPc, TokenInv, TypeOK
<1>9. ASSUME NEW w \in Workers, Post(w)
      PROVE  TypeOK' /\ TokenInv'
  <2>1. TypeOK'
    BY <1>9 DEF Post, TypeOK, WorkerPc, HoldingPc
  <2>2. QED
    BY <2>1, <1>9, KeepToken DEF Post, HoldingPc, TokenInv, TypeOK
<1>10. ASSUME NEW w \in Workers, Accepted(w)
       PROVE  TypeOK' /\ TokenInv'
  <2>1. TypeOK'
    BY <1>10 DEF Accepted, TypeOK, WorkerPc, HoldingPc
  <2>2. QED
    BY <2>1, <1>10, KeepToken DEF Accepted, HoldingPc, TokenInv, TypeOK
<1>11. ASSUME NEW w \in Workers, Refused(w)
       PROVE  TypeOK' /\ TokenInv'
  <2>1. attempt[w] + 1 \in 0 .. MaxRetries + 1
    BY <1>11, LimitsAssumption DEF Refused, TokenInv, TypeOK
  <2>2. /\ \/ pc' = [pc EXCEPT ![w] = "retry"] /\ attempt' = [attempt EXCEPT ![w] = @ + 1]
           \/ pc' = [pc EXCEPT ![w] = "report"] /\ attempt' = attempt
        /\ lastErr' = [lastErr EXCEPT ![w] = "status"]
        /\ stored' \in {stored, stored \cup {w}}
        /\ pc[w] = "inflight" /\ sem' = sem /\ off' = off
    BY <1>11 DEF Refused, MayStore
  <2>3. TypeOK'
    BY <1>11, <2>1, <2>2 DEF Refused, TypeOK, WorkerPc, HoldingPc, Causes
  <2>4. PICK to \in {"retry", "report"} : pc' = [pc EXCEPT ![w] = to]
    BY <2>2
  <2>5. IsFiniteSet(Holding') /\ sem' = Cardinality(Holding')
        /\ \A v \in Launched' : v[2] + MaxBatchSize <= off'[v[1]]
    BY <2>2, <2>4, KeepToken DEF HoldingPc
  <2>6. \A v \in Workers : pc'[v] = "inflight" => attempt'[v] <= MaxRetries
    BY <2>2, <2>4 DEF TokenInv, TypeOK
  <2>7. QED
    BY <2>3, <2>5, <2>6 DEF TokenInv
<1>12. ASSUME NEW w \in Workers, NetworkError(w)
       PROVE  TypeOK' /\ TokenInv'
  <2>1. attempt[w] + 1 \in 0 .. MaxRetries + 1
    BY <1>12, LimitsAssumption DEF NetworkError, TokenInv, TypeOK
  <2>2. PICK cause \in Causes : lastErr' = [lastErr EXCEPT ![w] = cause]
    BY <1>12 DEF NetworkError, Causes
  <2>3. TypeOK'
    BY <1>12, <2>1, <2>2 DEF NetworkError, MayStore, TypeOK, WorkerPc, HoldingPc
  <2>4. QED
    BY <2>3, <1>12, KeepToken DEF NetworkError, HoldingPc, TokenInv, TypeOK
<1>13. ASSUME NEW w \in Workers, Report(w)
       PROVE  TypeOK' /\ TokenInv'
  <2>1. TypeOK'
    BY <1>13 DEF Report, TypeOK, WorkerPc, HoldingPc
  <2>2. QED
    BY <2>1, <1>13, KeepToken DEF Report, HoldingPc, TokenInv, TypeOK
<1>14. ASSUME NEW w \in Workers, CancelOthers(w)
       PROVE  TypeOK' /\ TokenInv'
  <2>1. TypeOK'
    BY <1>14 DEF CancelOthers, TypeOK, WorkerPc, HoldingPc
  <2>2. QED
    BY <2>1, <1>14, KeepToken DEF CancelOthers, HoldingPc, TokenInv, TypeOK
<1>15. ASSUME NEW w \in Workers, Exit(w)
       PROVE  TypeOK' /\ TokenInv'
  <2>1. w \in Holding /\ Holding' = Holding \ {w}
    BY <1>15 DEF Exit, Holding, HoldingPc, TypeOK
  <2>2. IsFiniteSet(Holding') /\ Cardinality(Holding') = Cardinality(Holding) - 1
    BY <2>1, FS_RemoveElement DEF TokenInv
  <2>3. Cardinality(Holding') \in Nat
    BY <2>2, FS_CardinalityType
  <2>4. sem - 1 \in 0 .. MaxConcurrent
    BY <2>2, <2>3, LimitsAssumption DEF TokenInv, TypeOK
  <2>5. TypeOK'
    BY <1>15, <2>4 DEF Exit, TypeOK, WorkerPc
  <2>6. Launched' = Launched
    BY <1>15 DEF Exit, Launched, TypeOK
  <2>7. QED
    BY <2>2, <2>5, <2>6, <1>15 DEF Exit, TokenInv, TypeOK
<1>16. CASE UNCHANGED vars
  BY <1>16 DEF vars, TypeOK, TokenInv, Holding, Launched
<1>17. QED
  BY <1>1, <1>2, <1>3, <1>4, <1>5, <1>6, <1>7, <1>8, <1>9, <1>10, <1>11,
     <1>12, <1>13, <1>14, <1>15, <1>16
     DEF Next, Main, Worker, Respond, Finished

(* Every state has its type: sem stays within the channel's capacity and   *)
(* attempt within MAX_RETRIES + 1.                                         *)
THEOREM TypeCorrect == Spec => [](TypeOK /\ TokenInv)
BY TypeInit, TypeStep, PTL DEF Spec

(* Corollary: at most MAX_CONCURRENT requests are open at any time.        *)
THEOREM InFlightIsBounded == Spec => []InFlightBounded
<1>1. TypeOK /\ TokenInv => InFlightBounded
  <2> SUFFICES ASSUME TypeOK, TokenInv PROVE InFlightBounded
    OBVIOUS
  <2>1. InFlight \subseteq Holding
    BY DEF InFlight, Holding, HoldingPc
  <2>2. Cardinality(InFlight) <= Cardinality(Holding) /\ IsFiniteSet(InFlight)
    BY <2>1, FS_Subset DEF TokenInv
  <2>3. Cardinality(InFlight) \in Nat
    BY <2>2, FS_CardinalityType
  <2>4. QED
    BY <2>2, <2>3, LimitsAssumption DEF TokenInv, TypeOK, InFlightBounded
<1>2. QED
  BY <1>1, TypeCorrect, PTL

-----------------------------------------------------------------------------
(* What the dispatch loop has cut: the batches launched so far cover each  *)
(* group up to its offset, no two of them overlap, and the loop ends early *)
(* only when the context is done.                                          *)
SliceInv ==
    /\ \A r \in Records : r[2] < off[r[1]] => \E w \in Launched : r \in Batch(w)
    /\ \A v, w \in Launched :
          v[1] = w[1] /\ v # w => \/ v[2] + MaxBatchSize <= w[2]
                                  \/ w[2] + MaxBatchSize <= v[2]
    /\ mainPc # "dispatch" =>
          SendCtxDone \/ \A g \in Groups : off[g] >= GroupSize[g]

(* Where an error comes from: whoever sees "context canceled" sees it      *)
(* because the caller's context ended or because errChan was filled before *)
(* cancel() was called; a worker that ends without a 2xx leaves the        *)
(* context done.                                                           *)
ErrorInv ==
    /\ \A w \in Workers :
          /\ attempt[w] > 0 => lastErr[w] # "none"
          /\ lastErr[w] = "canceled" => SendCtxDone
          /\ pc[w] = "report" => lastErr[w] # "none"
          /\ pc[w] = "cancel" => errChan # "none"
          /\ pc[w] \in {"exit", "done"} => w \in acked \/ SendCtxDone
          /\ w \in acked => pc[w] \in {"exit", "done"}
    /\ acked \subseteq stored
    /\ cancelled => errChan # "none"
    /\ errChan # "none" /\ parent = "live" =>
          /\ errChan # "canceled"
          /\ \E w \in Workers \ acked :
                lastErr[w] = errChan /\ pc[w] \in {"cancel", "exit", "done"}

(* What holds when SendLogs has returned.                                  *)
ReturnInv ==
    /\ mainPc # "returned" <=> result = "pending"
    /\ mainPc = "returned" =>
          /\ \A w \in Launched : pc[w] = "done"
          /\ result = IF errChan # "none" THEN errChan
                      ELSE IF parent = "done" THEN "canceled"
                      ELSE "nil"

(* SliceInv holds before anything is cut.                                  *)
LEMMA SliceInit == Init => SliceInv
<1> SUFFICES ASSUME Init PROVE SliceInv
  OBVIOUS
<1>1. Launched = {}
  BY DEF Init, Launched
<1>2. ASSUME NEW r \in Records PROVE ~(r[2] < off[r[1]])
  BY RecordShape, GroupsAssumption DEF Init
<1>3. QED
  BY <1>1, <1>2 DEF Init, SliceInv

(* Only LaunchBatch launches a worker or moves an offset.                  *)
LEMMA OnlyLaunch ==
    TypeOK /\ [Next]_vars =>
        \/ \E g \in Groups : LaunchBatch(g)
        \/ Launched' = Launched /\ off' = off
<1> SUFFICES ASSUME TypeOK, [Next]_vars, \A g \in Groups : ~LaunchBatch(g)
             PROVE  Launched' = Launched /\ off' = off
  OBVIOUS
<1> USE DEF mainVars, ctxVars, workerVars, remoteVars, GroupsWalked, WorkersDone,
            FinalResult, SemHasRoom, AttemptsLeft, CountAttempt
<1>1. CASE LeaveDispatch
  BY <1>1 DEF LeaveDispatch, Launched
<1>2. CASE Return
  BY <1>2 DEF Return, Launched
<1>3. CASE ParentDone
  BY <1>3 DEF ParentDone, Launched
<1>4. ASSUME NEW w \in Workers, Worker(w)
      PROVE  Launched' = Launched /\ off' = off
  <2>1. off' = off
    BY <1>4 DEF Worker, Respond, Acquire, AbortAcquire, GiveUp, StopOnContext,
                Post, Accepted, Refused, NetworkError, Report, CancelOthers, Exit
  <2>2. pc[w] # "unborn" /\ \E to \in WorkerPc \ {"unborn"} : pc' = [pc EXCEPT ![w] = to]
    BY <1>4 DEF Worker, Respond, Acquire, AbortAcquire, GiveUp, StopOnContext,
                Post, Accepted, Refused, NetworkError, Report, CancelOthers, Exit,
                WorkerPc, HoldingPc
  <2>3. Launched' = Launched
    BY <2>2 DEF Launched, TypeOK
  <2>4. QED
    BY <2>1, <2>3
<1>5. CASE UNCHANGED vars
  BY <1>5 DEF vars, Launched
<1>6. QED
  BY <1>1, <1>2, <1>3, <1>4, <1>5 DEF Next, Main, Finished

(* The context, once done, stays done.                                     *)
LEMMA ContextMonotone == [Next]_vars /\ SendCtxDone => SendCtxDone'
<1> SUFFICES ASSUME [Next]_vars, SendCtxDone PROVE SendCtxDone'
  OBVIOUS
<1> USE DEF mainVars, ctxVars, workerVars, remoteVars, GroupsWalked, WorkersDone,
            FinalResult, SemHasRoom, AttemptsLeft, CountAttempt,
            SendCtxDone
<1>1. ASSUME NEW w \in Workers, Worker(w)
      PROVE  SendCtxDone'
  BY <1>1 DEF Worker, Respond, Acquire, AbortAcquire, GiveUp, StopOnContext,
              Post, Accepted, Refused, NetworkError, Report, CancelOthers, Exit
<1>2. CASE Main
  BY <1>2 DEF Main, LaunchBatch, LeaveDispatch, Return
<1>3. CASE ParentDone
  BY <1>3 DEF ParentDone
<1>4. CASE UNCHANGED vars
  BY <1>4 DEF vars
<1>5. QED
  BY <1>1, <1>2, <1>3, <1>4 DEF Next, Finished

(* Every step preserves SliceInv; only LaunchBatch needs an argument.      *)
LEMMA SliceStep ==
    TypeOK /\ TokenInv /\ SliceInv /\ [Next]_vars => SliceInv'
<1> SUFFICES ASSUME TypeOK, TokenInv, SliceInv, [Next]_vars
             PROVE  SliceInv'
  OBVIOUS
<1> USE LimitsAssumption
    DEF mainVars, ctxVars, workerVars, remoteVars, GroupsWalked, WorkersDone,
        FinalResult, SemHasRoom, AttemptsLeft, CountAttempt
<1>1. ASSUME NEW g \in Groups, LaunchBatch(g)
      PROVE  SliceInv'
  <2> DEFINE n == <<g, off[g]>>
  <2>1. off[g] \in Nat /\ off[g] < GroupSize[g]
    BY <1>1 DEF LaunchBatch, Current, TypeOK
  <2>2. n \in Workers /\ n[1] = g /\ n[2] = off[g]
    BY <2>1, BatchAtOffset
  <2>3. Launched' = Launched \cup {n}
    BY <1>1, <2>2 DEF LaunchBatch, Launched, TypeOK
  <2>4. off'[g] = off[g] + MaxBatchSize /\ \A h \in Groups \ {g} : off'[h] = off[h]
    BY <1>1 DEF LaunchBatch, TypeOK
  <2>5. ASSUME NEW r \in Records, r[2] < off'[r[1]]
        PROVE  \E w \in Launched' : r \in Batch(w)
    <3>1. r[1] \in Groups /\ r[2] \in Nat
      BY RecordShape, GroupsAssumption
    <3>2. CASE r[2] < off[r[1]]
      BY <3>2, <2>3 DEF SliceInv
    <3>3. CASE ~(r[2] < off[r[1]])
      <4>1. r[1] = g
        BY <3>3, <3>1, <2>4, <2>5
      <4>2. off[g] <= r[2] /\ r[2] < off[g] + MaxBatchSize
        BY <4>1, <3>3, <3>1, <2>1, <2>4, <2>5
      <4>3. r \in Batch(n)
        BY <4>1, <4>2, <2>2 DEF Batch
      <4>4. QED
        BY <4>3, <2>3
    <3>4. QED
      BY <3>2, <3>3
  <2>6. ASSUME NEW v \in Launched, v[1] = g
        PROVE  v[2] + MaxBatchSize <= n[2]
    BY <2>6, <2>2 DEF TokenInv
  <2>7. ASSUME NEW v \in Launched', NEW w \in Launched', v[1] = w[1], v # w
        PROVE  v[2] + MaxBatchSize <= w[2] \/ w[2] + MaxBatchSize <= v[2]
    BY <2>7, <2>3, <2>6, <2>2 DEF SliceInv
  <2>8. mainPc' = "dispatch"
    BY <1>1 DEF LaunchBatch
  <2>9. QED
    BY <2>5, <2>7, <2>8 DEF SliceInv
<1>2. CASE Launched' = Launched /\ off' = off
  <2>1. mainPc' # "dispatch" =>
          SendCtxDone' \/ \A g \in Groups : off'[g] >= GroupSize[g]
    <3>1. CASE mainPc # "dispatch"
      BY <3>1, <1>2, ContextMonotone DEF SliceInv
    <3>2. CASE LeaveDispatch
      BY <3>2, ContextMonotone, <1>2 DEF LeaveDispatch
    <3>3. CASE mainPc = "dispatch" /\ ~LeaveDispatch
      <4>1. ASSUME NEW w \in Workers, Worker(w)
            PROVE  mainPc' = "dispatch"
        BY <4>1, <3>3 DEF Worker, Respond, Acquire, AbortAcquire, GiveUp,
              StopOnContext, Post, Accepted, Refused, NetworkError, Report,
              CancelOthers, Exit
      <4>2. QED
        BY <4>1, <3>3 DEF Next, Main, LaunchBatch, Return, ParentDone, Finished, vars
    <3>4. QED
      BY <3>1, <3>2, <3>3
  <2>2. QED
    BY <1>2, <2>1 DEF SliceInv
<1>3. QED
  BY <1>1, <1>2, OnlyLaunch

(* ErrorInv holds before any worker runs.                                  *)
LEMMA ErrorInit == Init => ErrorInv
BY DEF Init, ErrorInv

(* Every step preserves ErrorInv: one case per action.                     *)
LEMMA ErrorStep ==
    TypeOK /\ TokenInv /\ ErrorInv /\ [Next]_vars => ErrorInv'
<1> SUFFICES ASSUME TypeOK, TokenInv, ErrorInv, [Next]_vars
             PROVE  ErrorInv'
  OBVIOUS
<1> USE DEF mainVars, ctxVars, workerVars, remoteVars, GroupsWalked, WorkersDone,
            FinalResult, SemHasRoom, AttemptsLeft, CountAttempt,
            SendCtxDone, Causes
<1>1. ASSUME NEW g \in Groups, LaunchBatch(g)
      PROVE  ErrorInv'
  <2>1. off[g] \in Nat /\ off[g] < GroupSize[g]
    BY <1>1 DEF LaunchBatch, Current, TypeOK
  <2>2. <<g, off[g]>> \in Workers /\ pc[<<g, off[g]>>] = "unborn"
    BY <2>1, BatchAtOffset, LimitsAssumption DEF TokenInv, Launched
  <2>3. QED
    BY <1>1, <2>2 DEF LaunchBatch, TypeOK, ErrorInv
<1>2. CASE LeaveDispatch
  BY <1>2 DEF LeaveDispatch, ErrorInv
<1>3. CASE Return
  BY <1>3 DEF Return, ErrorInv
<1>4. CASE ParentDone
  BY <1>4 DEF ParentDone, ErrorInv
<1>5. ASSUME NEW w \in Workers, Acquire(w)
      PROVE  ErrorInv'
  BY <1>5 DEF Acquire, TypeOK, ErrorInv
<1>6. ASSUME NEW w \in Workers, AbortAcquire(w)
      PROVE  ErrorInv'
  BY <1>6 DEF AbortAcquire, TypeOK, ErrorInv
<1>7. ASSUME NEW w \in Workers, GiveUp(w)
      PROVE  ErrorInv'
  BY <1>7, LimitsAssumption DEF GiveUp, TypeOK, ErrorInv
<1>8. ASSUME NEW w \in Workers, StopOnContext(w)
      PROVE  ErrorInv'
  BY <1>8 DEF StopOnContext, TypeOK, ErrorInv
<1>9. ASSUME NEW w \in Workers, Post(w)
      PROVE  ErrorInv'
  BY <1>9 DEF Post, TypeOK, ErrorInv
<1>10. ASSUME NEW w \in Workers, Accepted(w)
       PROVE  ErrorInv'
  BY <1>10 DEF Accepted, TypeOK, ErrorInv
<1>11. ASSUME NEW w \in Workers, Refused(w)
       PROVE  ErrorInv'
  BY <1>11 DEF Refused, MayStore, TypeOK, ErrorInv
<1>12. ASSUME NEW w \in Workers, NetworkError(w)
       PROVE  ErrorInv'
  BY <1>12 DEF NetworkError, MayStore, TypeOK, ErrorInv
<1>13. ASSUME NEW w \in Workers, Report(w)
       PROVE  ErrorInv'
  BY <1>13 DEF Report, TypeOK, ErrorInv
<1>14. ASSUME NEW w \in Workers, CancelOthers(w)
       PROVE  ErrorInv'
  BY <1>14 DEF CancelOthers, TypeOK, ErrorInv
<1>15. ASSUME NEW w \in Workers, Exit(w)
       PROVE  ErrorInv'
  BY <1>15 DEF Exit, TypeOK, ErrorInv
<1>16. CASE UNCHANGED vars
  BY <1>16 DEF vars, ErrorInv
<1>17. QED
  BY <1>1, <1>2, <1>3, <1>4, <1>5, <1>6, <1>7, <1>8, <1>9, <1>10, <1>11,
     <1>12, <1>13, <1>14, <1>15, <1>16
     DEF Next, Main, Worker, Respond, Finished

(* ReturnInv holds initially.                                              *)
LEMMA ReturnInit == Init => ReturnInv
BY DEF Init, ReturnInv

(* Every step preserves ReturnInv: after the return nothing moves.         *)
LEMMA ReturnStep ==
    TypeOK /\ ReturnInv /\ [Next]_vars => ReturnInv'
<1> SUFFICES ASSUME TypeOK, ReturnInv, [Next]_vars
             PROVE  ReturnInv'
  OBVIOUS
<1> USE DEF mainVars, ctxVars, workerVars, remoteVars, GroupsWalked, WorkersDone,
            FinalResult, SemHasRoom, AttemptsLeft, CountAttempt
<1>1. ASSUME NEW g \in Groups, LaunchBatch(g)
      PROVE  ReturnInv'
  BY <1>1 DEF LaunchBatch, ReturnInv
<1>2. CASE LeaveDispatch
  BY <1>2 DEF LeaveDispatch, ReturnInv
<1>3. CASE Return
  <2>1. Launched' = Launched /\ result' # "pending" /\ mainPc' = "returned"
    BY <1>3 DEF Return, Launched, TypeOK, Causes
  <2>2. QED
    BY <2>1, <1>3 DEF Return, ReturnInv
<1>4. CASE ParentDone
  BY <1>4 DEF ParentDone, ReturnInv
<1>5. ASSUME NEW w \in Workers, Worker(w)
      PROVE  ReturnInv'
  <2>1. pc[w] \notin {"unborn", "done"} /\ mainPc' = mainPc /\ result' = result
    BY <1>5 DEF Worker, Respond, Acquire, AbortAcquire, GiveUp, StopOnContext,
                Post, Accepted, Refused, NetworkError, Report, CancelOthers, Exit
  <2>2. mainPc # "returned"
    BY <2>1 DEF ReturnInv, Launched
  <2>3. QED
    BY <2>1, <2>2 DEF ReturnInv
<1>6. CASE UNCHANGED vars
  BY <1>6 DEF vars, ReturnInv, Launched
<1>7. QED
  BY <1>1, <1>2, <1>3, <1>4, <1>5, <1>6 DEF Next, Main, Finished

-----------------------------------------------------------------------------
(* The inductive invariant, and what it gives at the return of SendLogs.   *)
IInv == TypeOK /\ TokenInv /\ SliceInv /\ ErrorInv /\ ReturnInv

(* IInv holds in every reachable state.                                    *)
THEOREM Inductive == Spec => []IInv
<1>1. Init => IInv
  BY TypeInit, SliceInit, ErrorInit, ReturnInit DEF IInv
<1>2. IInv /\ [Next]_vars => IInv'
  BY TypeStep, SliceStep, ErrorStep, ReturnStep DEF IInv
<1>3. QED
  BY <1>1, <1>2, PTL DEF Spec

(* When the workers have ended without an error under a live context, each *)
(* launched batch has its 2xx and the batches reach the end of each group. *)
LEMMA CleanState ==
    ASSUME IInv, mainPc # "dispatch", \A w \in Launched : pc[w] = "done",
           errChan = "none", parent # "done"
    PROVE  /\ Launched = acked
           /\ \A r \in Records : \E w \in acked : r \in Batch(w)
<1>1. ~SendCtxDone
  BY DEF IInv, ErrorInv, SendCtxDone
<1>2. Launched = acked
  BY <1>1 DEF IInv, ErrorInv, TypeOK, Launched
<1>3. ASSUME NEW r \in Records
      PROVE  \E w \in acked : r \in Batch(w)
  <2>1. off[r[1]] >= GroupSize[r[1]] /\ r[1] \in Groups
    BY <1>1, RecordShape DEF IInv, SliceInv
  <2>2. r[2] < off[r[1]]
    BY <2>1, RecordShape, GroupsAssumption DEF IInv, TypeOK
  <2>3. QED
    BY <2>2, <1>2 DEF IInv, SliceInv
<1>4. QED
  BY <1>2, <1>3

(* The state in which SendLogs has returned nil.                           *)
LEMMA NilState ==
    ASSUME IInv, result = "nil"
    PROVE  /\ Launched = acked
           /\ \A r \in Records : \E w \in acked : r \in Batch(w)
<1>1. mainPc = "returned"
  BY DEF IInv, ReturnInv
<1>2. errChan = "none" /\ parent # "done" /\ \A w \in Launched : pc[w] = "done"
  BY <1>1 DEF IInv, ReturnInv, TypeOK, Causes
<1>3. QED
  BY <1>1, <1>2, CleanState

(* SendLogs returns nil only when each record was acknowledged, in exactly *)
(* one batch, whatever the sizes, limits and answers.                      *)
THEOREM NilIsExactlyOnce == Spec => []ExactlyOnceOnNil
<1>1. IInv => ExactlyOnceOnNil
  <2> SUFFICES ASSUME IInv, result = "nil", NEW r \in Records
               PROVE  \E w \in acked : /\ r \in Batch(w)
                                       /\ \A v \in acked : r \in Batch(v) => v = w
    BY DEF ExactlyOnceOnNil
  <2>1. PICK w \in acked : r \in Batch(w)
    BY NilState
  <2>2. ASSUME NEW v \in acked, r \in Batch(v)
        PROVE  v = w
    <3>1. v \in Launched /\ w \in Launched /\ v \in Records /\ w \in Records
      BY NilState DEF IInv, TypeOK, Workers
    <3>2. v[1] = w[1] /\ v[2] \in Nat /\ w[2] \in Nat /\ r[2] \in Nat
      BY <2>1, <2>2, <3>1, RecordShape, GroupsAssumption DEF Batch
    <3>3. /\ v[2] <= r[2] /\ r[2] < v[2] + MaxBatchSize
          /\ w[2] <= r[2] /\ r[2] < w[2] + MaxBatchSize
      BY <2>1, <2>2 DEF Batch
    <3>4. ~(v[2] + MaxBatchSize <= w[2]) /\ ~(w[2] + MaxBatchSize <= v[2])
      BY <3>2, <3>3, LimitsAssumption
    <3>5. QED
      BY <3>1, <3>2, <3>4 DEF IInv, SliceInv
  <2>3. QED
    BY <2>1, <2>2
<1>2. QED
  BY <1>1, Inductive, PTL

(* The error SendLogs returns under a live context is a batch's own        *)
(* failure, never the cancellation that failure causes in the others.      *)
THEOREM ErrorsArePrimary == Spec => []ErrorIsPrimary
<1>1. IInv => ErrorIsPrimary
  BY DEF IInv, ErrorIsPrimary, ReturnInv, ErrorInv, TypeOK, Causes
<1>2. QED
  BY <1>1, Inductive, PTL

(* After the return no worker runs and no token is held.                   *)
THEOREM ReturnIsQuiescent == Spec => []QuiescentAfterReturn
<1>1. IInv => QuiescentAfterReturn
  <2> SUFFICES ASSUME IInv, mainPc = "returned"
               PROVE  Launched \subseteq {w \in Workers : pc[w] = "done"} /\ sem = 0
    BY DEF QuiescentAfterReturn
  <2>1. \A w \in Launched : pc[w] = "done"
    BY DEF IInv, ReturnInv
  <2>2. Holding = {}
    BY <2>1 DEF Holding, Launched, HoldingPc
  <2>3. QED
    BY <2>1, <2>2, FS_EmptySet DEF IInv, TokenInv, Launched
<1>2. QED
  BY <1>1, Inductive, PTL

(* SendLogs implements BatchExport.                                        *)
THEOREM Refinement == Spec => ImplementsBatchExport
<1> DEFINE exp == UNION {Batch(w) : w \in stored}
           out == IF result \in Causes THEN "error" ELSE result
<1>1. Init => Export!Init
  BY DEF Init, Export!Init, Causes
<1>2. IInv /\ [Next]_vars => [Export!Next]_(Export!vars)
  <2> SUFFICES ASSUME IInv, [Next]_vars
               PROVE  [Export!Next]_(Export!vars)
    OBVIOUS
  <2> USE DEF mainVars, ctxVars, workerVars, remoteVars, WorkersDone, FinalResult
  <2>1. \A w : Batch(w) \subseteq Records
    BY DEF Batch
  <2>2. exp \subseteq Records
    BY <2>1
  <2>3. CASE Return
    <3>1. stored' = stored /\ out = "pending" /\ result' \in Causes \cup {"nil"}
      BY <2>3 DEF Return, IInv, ReturnInv, Causes, TypeOK
    <3>2. CASE result' = "nil"
      <4>1. errChan = "none" /\ parent # "done"
        BY <2>3, <3>2 DEF Return, IInv, TypeOK, Causes
      <4>2. \A r \in Records : \E w \in acked : r \in Batch(w)
        BY <4>1, <2>3, CleanState DEF Return
      <4>3. acked \subseteq stored
        BY DEF IInv, ErrorInv
      <4>4. exp = Records
        BY <4>2, <4>3, <2>2
      <4>5. out' = "nil"
        BY <3>2 DEF Causes
      <4>6. QED
        BY <3>1, <4>4, <4>5 DEF Export!Next, Export!Succeed
    <3>3. CASE result' \in Causes
      BY <3>1, <3>3 DEF Export!Next, Export!Fail
    <3>4. QED
      BY <3>1, <3>2, <3>3
  <2>4. ASSUME NEW w \in Workers, Worker(w)
        PROVE  [Export!Next]_(Export!vars)
    <3>1. pc[w] \notin {"unborn", "done"} /\ result' = result
          /\ stored' \in {stored, stored \cup {w}}
      BY <2>4 DEF Worker, Respond, Acquire, AbortAcquire, GiveUp, StopOnContext,
            Post, Accepted, Refused, NetworkError, MayStore, Report, CancelOthers, Exit
    <3>2. out = "pending"
      BY <3>1 DEF IInv, ReturnInv, Launched, Causes
    <3>3. exp' = exp \cup exp' /\ exp' \subseteq Records
      BY <3>1, <2>1
    <3>4. QED
      BY <3>1, <3>2, <3>3 DEF Export!Next, Export!Export
  <2>5. CASE ~Return /\ \A w \in Workers : ~Worker(w)
    <3>1. stored' = stored /\ result' = result
      BY <2>5 DEF Next, Main, LaunchBatch, LeaveDispatch, ParentDone, Finished, vars
    <3>2. QED
      BY <3>1 DEF Export!vars
  <2>6. QED
    BY <2>3, <2>4, <2>5
<1>3. QED
  BY <1>1, <1>2, Inductive, PTL DEF Spec, ImplementsBatchExport, Export!SafeSpec
=============================================================================
