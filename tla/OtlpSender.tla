----------------------------- MODULE OtlpSender -----------------------------
(***************************************************************************)
(* SendLogs and sendWithRetry of src/pkg/sender/otlp_client.go.            *)
(*                                                                         *)
(* The main goroutine walks the resource groups, cuts each into batches of *)
(* MaxBatchSize records and launches one worker goroutine per batch.  The  *)
(* workers share a counting semaphore (a channel of capacity               *)
(* MaxConcurrent), a context that the first failing worker cancels, and    *)
(* an error channel of capacity 1.  A worker retries its batch until the   *)
(* endpoint answers 2xx, answers a status that is not retryable, the       *)
(* attempts run out or the context ends.                                   *)
(*                                                                         *)
(* Left out: payload contents, logging, and the time spent sleeping (a     *)
(* worker at "retry" is in its backoff sleep when attempt[w] > 0).         *)
(***************************************************************************)
EXTENDS Integers, FiniteSets

CONSTANTS
    Groups,             \* the resource keys of the entries (map "grouped")
    GroupSize,          \* GroupSize[g]: number of log records of group g
    MaxBatchSize,       \* MAX_BATCH_SIZE
    MaxConcurrent,      \* MAX_CONCURRENT, the capacity of the channel sem
    MaxRetries,         \* MAX_RETRIES
    Statuses            \* HTTP status codes the endpoint may answer with

ASSUME GroupsAssumption ==
    /\ IsFiniteSet(Groups)
    /\ GroupSize \in [Groups -> Nat \ {0}]

ASSUME LimitsAssumption ==
    /\ MaxBatchSize \in Nat \ {0}
    /\ MaxConcurrent \in Nat
    /\ MaxRetries \in Nat

ASSUME StatusesAssumption == Statuses \subseteq 100..599

(***************************************************************************)
(* A log record is a pair <<group, index>>.  The batch that starts at      *)
(* offset i of group g is group.LogRecords[i:end]; its worker goroutine is *)
(* named <<g, i>>.                                                         *)
(***************************************************************************)
Records == UNION {{g} \X (0 .. GroupSize[g] - 1) : g \in Groups}

Workers == Records

Batch(w) ==
    {r \in Records : r[1] = w[1] /\ w[2] <= r[2] /\ r[2] < w[2] + MaxBatchSize}

(* isRetryableStatus, and the 2xx test that precedes it. *)
Success(code) == 200 <= code /\ code < 300

isRetryableStatus(code) ==
    \/ code \in {408, 429}
    \/ 500 <= code /\ code < 600

(***************************************************************************)
(* Why a worker failed (the error it wraps): an HTTP status, a network     *)
(* error, or the end of the context it runs under.                         *)
(***************************************************************************)
Causes == {"status", "network", "canceled"}

VARIABLES
    mainPc,     \* main goroutine: "dispatch", "wait" or "returned"
    off,        \* off[g]: the loop variable i for group g
    parent,     \* the caller's context: "live" or "done"
    cancelled,  \* cancel() has been called on sendCtx
    sem,        \* number of tokens in the channel sem
    errChan,    \* the cause of the error in errChan, or "none"
    pc,         \* pc[w]: where worker w is
    attempt,    \* attempt[w]: the loop variable of sendWithRetry
    lastErr,    \* lastErr[w]: the cause of its last failed attempt
    acked,      \* workers answered with a 2xx (what totalSent counts)
    stored,     \* workers whose batch the endpoint has stored
    result      \* what SendLogs returned: "pending", "nil" or a cause

mainVars   == <<mainPc, off, result>>
ctxVars    == <<parent, cancelled>>
workerVars == <<pc, attempt, lastErr>>
remoteVars == <<acked, stored>>
vars == <<mainVars, ctxVars, sem, errChan, workerVars, remoteVars>>

(* sendCtx.Done(): the caller's context ended or a worker called cancel(). *)
SendCtxDone == cancelled \/ parent = "done"

(* From the acquire to its deferred release a worker holds a token of sem. *)
HoldingPc == {"retry", "inflight", "report", "cancel", "exit"}
WorkerPc  == {"unborn", "acquire", "done"} \cup HoldingPc

Holding  == {w \in Workers : pc[w] \in HoldingPc}
InFlight == {w \in Workers : pc[w] = "inflight"}
Launched == {w \in Workers : pc[w] # "unborn"}

Init ==
    /\ mainPc = "dispatch"
    /\ off = [g \in Groups |-> 0]
    /\ parent = "live"
    /\ cancelled = FALSE
    /\ sem = 0
    /\ errChan = "none"
    /\ pc = [w \in Workers |-> "unborn"]
    /\ attempt = [w \in Workers |-> 0]
    /\ lastErr = [w \in Workers |-> "none"]
    /\ acked = {}
    /\ stored = {}
    /\ result = "pending"

-----------------------------------------------------------------------------
(***************************************************************************)
(* The tests of the code that decide each property, every one with a       *)
(* plausible slip (_Bug) that a run must notice.                           *)
(***************************************************************************)

(* The loops over groups and batches have ended.                           *)
GroupsWalked_Bug == \A g \in Groups : off[g] >= GroupSize[g] - 1
GroupsWalked == \A g \in Groups : off[g] >= GroupSize[g]

(* wg.Wait(): the bug calls wg.Add(1) in the worker, after the acquire.    *)
WorkersDone_Bug == Holding = {}
WorkersDone == \A w \in Launched : pc[w] = "done"

(* errChan, then ctx.Err(): the bug forgets the second.                    *)
FinalResult_Bug == IF errChan # "none" THEN errChan ELSE "nil"
FinalResult ==
    IF errChan # "none" THEN errChan
    ELSE IF parent = "done" THEN "canceled"
    ELSE "nil"

(* The channel sem has room for one more token.                            *)
SemHasRoom_Bug == sem <= MaxConcurrent
SemHasRoom == sem < MaxConcurrent

(* attempt <= c.MaxRetries                                                 *)
AttemptsLeft(w) == attempt[w] <= MaxRetries

(* attempt++: the bug retries without counting.                            *)
CountAttempt_Bug(w) == UNCHANGED attempt
CountAttempt(w) == attempt' = [attempt EXCEPT ![w] = @ + 1]

-----------------------------------------------------------------------------
(***************************************************************************)
(* The main goroutine.                                                     *)
(***************************************************************************)

(* A group is walked to its end before the next one is taken from the map. *)
Current(g) ==
    /\ off[g] < GroupSize[g]
    /\ \A h \in Groups \ {g} : off[h] = 0 \/ off[h] >= GroupSize[h]

(* One turn of the inner loop: the context is live, launch the next batch. *)
LaunchBatch(g) ==
    /\ mainPc = "dispatch"
    /\ Current(g)
    /\ ~SendCtxDone
    /\ pc' = [pc EXCEPT ![<<g, off[g]>>] = "acquire"]
    /\ off' = [off EXCEPT ![g] = @ + MaxBatchSize]
    /\ UNCHANGED <<mainPc, result, ctxVars, sem, errChan, attempt, lastErr,
                   remoteVars>>

(* Every group is walked, or the context is done: break dispatchLoop. *)
LeaveDispatch ==
    /\ mainPc = "dispatch"
    /\ GroupsWalked \/ SendCtxDone
    /\ mainPc' = "wait"
    /\ UNCHANGED <<off, result, ctxVars, sem, errChan, workerVars, remoteVars>>

(* wg.Wait() returns; then errChan, then ctx.Err() decide the result. *)
Return ==
    /\ mainPc = "wait"
    /\ WorkersDone
    /\ mainPc' = "returned"
    /\ result' = FinalResult
    /\ UNCHANGED <<off, ctxVars, sem, errChan, workerVars, remoteVars>>

-----------------------------------------------------------------------------
(***************************************************************************)
(* A worker goroutine, and sendWithRetry inside it.                        *)
(***************************************************************************)

(* select: the semaphore has room ... *)
Acquire(w) ==
    /\ pc[w] = "acquire"
    /\ SemHasRoom
    /\ sem' = sem + 1
    /\ pc' = [pc EXCEPT ![w] = "retry"]
    /\ UNCHANGED <<mainVars, ctxVars, errChan, attempt, lastErr, remoteVars>>

(* ... or sendCtx is done (either branch when both are ready). *)
AbortAcquire(w) ==
    /\ pc[w] = "acquire"
    /\ SendCtxDone
    /\ pc' = [pc EXCEPT ![w] = "done"]
    /\ UNCHANGED <<mainVars, ctxVars, sem, errChan, attempt, lastErr, remoteVars>>

(* failed after MaxRetries+1 attempts: wraps the last error. *)
GiveUp(w) ==
    /\ pc[w] = "retry"
    /\ ~AttemptsLeft(w)
    /\ pc' = [pc EXCEPT ![w] = "report"]
    /\ UNCHANGED <<mainVars, ctxVars, sem, errChan, attempt, lastErr, remoteVars>>

(* The context is done during the backoff sleep, or at the test after it:  *)
(* return ctx.Err().                                                       *)
StopOnContext(w) ==
    /\ pc[w] = "retry"
    /\ AttemptsLeft(w)
    /\ SendCtxDone
    /\ lastErr' = [lastErr EXCEPT ![w] = "canceled"]
    /\ pc' = [pc EXCEPT ![w] = "report"]
    /\ UNCHANGED <<mainVars, ctxVars, sem, errChan, attempt, remoteVars>>

(* Attempts are left, the backoff timer (if any) has fired and ctx.Err()   *)
(* is nil: the request goes out.  (A payload that cannot be marshalled, or *)
(* an endpoint that is no URL, ends the batch without a request; it is an  *)
(* error of its own that is not retried, like the status 400 of Refused.)  *)
Post(w) ==
    /\ pc[w] = "retry"
    /\ AttemptsLeft(w)
    /\ ~SendCtxDone
    /\ pc' = [pc EXCEPT ![w] = "inflight"]
    /\ UNCHANGED <<mainVars, ctxVars, sem, errChan, attempt, lastErr, remoteVars>>

(* The endpoint may have stored a batch whose answer is not a 2xx. *)
MayStore(w) == stored' \in {stored, stored \cup {w}}

(* The endpoint answers 2xx: sendWithRetry returns nil. *)
Accepted(w) ==
    /\ pc[w] = "inflight"
    /\ \E code \in Statuses : Success(code)
    /\ acked' = acked \cup {w}
    /\ stored' = stored \cup {w}
    /\ pc' = [pc EXCEPT ![w] = "exit"]
    /\ UNCHANGED <<mainVars, ctxVars, sem, errChan, attempt, lastErr>>

(* Any other status: retry it, or fail at once when it is not retryable. *)
Refused(w) ==
    /\ pc[w] = "inflight"
    /\ \E code \in Statuses :
          /\ ~Success(code)
          /\ IF isRetryableStatus(code)
                THEN /\ CountAttempt(w)
                     /\ pc' = [pc EXCEPT ![w] = "retry"]
                ELSE /\ pc' = [pc EXCEPT ![w] = "report"]
                     /\ UNCHANGED attempt
    /\ lastErr' = [lastErr EXCEPT ![w] = "status"]
    /\ MayStore(w)
    /\ UNCHANGED <<mainVars, ctxVars, sem, errChan, acked>>

(* client.Do fails; it can say "context canceled" only when sendCtx is done. *)
NetworkError(w) ==
    /\ pc[w] = "inflight"
    /\ \E cause \in {"network", "canceled"} :
          /\ cause = "canceled" => SendCtxDone
          /\ lastErr' = [lastErr EXCEPT ![w] = cause]
    /\ CountAttempt(w)
    /\ pc' = [pc EXCEPT ![w] = "retry"]
    /\ MayStore(w)
    /\ UNCHANGED <<mainVars, ctxVars, sem, errChan, acked>>

(* The bug calls cancel() before it fills errChan. *)
Report_Bug(w) ==
    /\ pc[w] = "report"
    /\ IF cancelled
          THEN /\ errChan' = IF errChan = "none" THEN lastErr[w] ELSE errChan
               /\ pc' = [pc EXCEPT ![w] = "cancel"]
               /\ UNCHANGED cancelled
          ELSE /\ cancelled' = TRUE
               /\ UNCHANGED <<errChan, pc>>
    /\ UNCHANGED <<mainVars, parent, sem, attempt, lastErr, remoteVars>>

(* Non-blocking send on errChan: only the first error is kept. *)
Report(w) ==
    /\ pc[w] = "report"
    /\ errChan' = IF errChan = "none" THEN lastErr[w] ELSE errChan
    /\ pc' = [pc EXCEPT ![w] = "cancel"]
    /\ UNCHANGED <<mainVars, ctxVars, sem, attempt, lastErr, remoteVars>>

(* cancel() *)
CancelOthers(w) ==
    /\ pc[w] = "cancel"
    /\ cancelled' = TRUE
    /\ pc' = [pc EXCEPT ![w] = "exit"]
    /\ UNCHANGED <<mainVars, parent, sem, errChan, attempt, lastErr, remoteVars>>

(* The deferred release of the token, then wg.Done(). *)
Exit(w) ==
    /\ pc[w] = "exit"
    /\ sem' = sem - 1
    /\ pc' = [pc EXCEPT ![w] = "done"]
    /\ UNCHANGED <<mainVars, ctxVars, errChan, attempt, lastErr, remoteVars>>

-----------------------------------------------------------------------------
(* The caller's deadline passes, or the caller cancels. *)
ParentDone ==
    /\ parent = "live"
    /\ mainPc # "returned"
    /\ parent' = "done"
    /\ UNCHANGED <<mainVars, cancelled, sem, errChan, workerVars, remoteVars>>

Main == (\E g \in Groups : LaunchBatch(g)) \/ LeaveDispatch \/ Return

Respond(w) == Accepted(w) \/ Refused(w) \/ NetworkError(w)

Worker(w) ==
    \/ Acquire(w) \/ AbortAcquire(w)
    \/ GiveUp(w) \/ StopOnContext(w) \/ Post(w)
    \/ Respond(w)
    \/ Report(w) \/ CancelOthers(w) \/ Exit(w)

Finished == mainPc = "returned" /\ UNCHANGED vars

Next ==
    \/ Main
    \/ \E w \in Workers : Worker(w)
    \/ ParentDone
    \/ Finished

(* Goroutines run; a timer fires; the HTTP client's 30 s timeout ends every *)
(* request.  Nothing obliges the caller's context to end.                   *)
Fairness ==
    /\ WF_vars(Main)
    /\ \A w \in Workers : WF_vars(Worker(w))

Spec == Init /\ [][Next]_vars /\ Fairness

-----------------------------------------------------------------------------
TypeOK ==
    /\ mainPc \in {"dispatch", "wait", "returned"}
    /\ off \in [Groups -> Nat]
    /\ parent \in {"live", "done"}
    /\ cancelled \in BOOLEAN
    /\ sem \in 0 .. MaxConcurrent
    /\ errChan \in Causes \cup {"none"}
    /\ pc \in [Workers -> WorkerPc]
    /\ attempt \in [Workers -> 0 .. MaxRetries + 1]
    /\ lastErr \in [Workers -> Causes \cup {"none"}]
    /\ acked \subseteq Workers
    /\ stored \subseteq Workers
    /\ result \in Causes \cup {"pending", "nil"}

(* SendLogs returns nil only if every record was in exactly one batch the  *)
(* endpoint answered with a 2xx: none skipped by the slicing, by a worker  *)
(* that aborted on the semaphore or by the early exit of the dispatch      *)
(* loop, and none sent in two batches.                                     *)
ExactlyOnceOnNil ==
    result = "nil" =>
        \A r \in Records :
            \E w \in acked : /\ r \in Batch(w)
                             /\ \A v \in acked : r \in Batch(v) => v = w

(* The error SendLogs returns while the caller's context is live is the    *)
(* failure of a batch, never the "context canceled" that the first failure *)
(* causes in the other workers.                                            *)
ErrorIsPrimary ==
    result \in Causes /\ parent = "live" =>
        /\ result # "canceled"
        /\ \E w \in Workers \ acked : lastErr[w] = result

(* When SendLogs has returned no worker is still running or holding a      *)
(* token: nothing it started is sent on a later Lambda invocation.         *)
QuiescentAfterReturn ==
    mainPc = "returned" => Launched \subseteq {w \in Workers : pc[w] = "done"} /\ sem = 0

(* At most MAX_CONCURRENT requests are open at any time. *)
InFlightBounded == Cardinality(InFlight) <= MaxConcurrent

(* SendLogs keeps the promise of BatchExport. *)
Export ==
    INSTANCE BatchExport WITH
        exported <- UNION {Batch(w) : w \in stored},
        outcome  <- IF result \in Causes THEN "error" ELSE result

ImplementsBatchExport == Export!SafeSpec

(* SendLogs returns, whatever the endpoint answers and even if the caller  *)
(* sets no deadline (with MAX_CONCURRENT at least 1).                      *)
SendLogsReturns == <>(mainPc = "returned")
=============================================================================
