--------------------------- MODULE StreamPipeline ---------------------------
(***************************************************************************)
(* ReadAndParseFromS3, ReadAndParseJSONFromS3 and ReadAndParseParquetFromS3 *)
(* of src/pkg/processor/base.go: one goroutine reads records from the      *)
(* object and sends them on a channel, a pool of workers parses them and   *)
(* sends the entries on a second channel, one goroutine closes the second  *)
(* channel when the pool has ended, and the caller collects.               *)
(*                                                                         *)
(* The records are numbered; a channel is the set of what it holds, since  *)
(* neither the pool nor the collector keeps an order.  The read error is a *)
(* plain variable that one goroutine writes and the caller reads: only the *)
(* chain of channel operations orders the two.                             *)
(***************************************************************************)
EXTENDS Naturals, FiniteSets

CONSTANTS
    Records,        \* the number of records of the object
    Bad,            \* the records parseFunc rejects
    Workers,        \* the pool (numWorkers goroutines)
    Capacity,       \* maxBatchSize, the capacity of both channels
    Readers         \* the reader functions to explore: "line", "json", "parquet"

ASSUME ObjectAssumption ==
    /\ Records \in Nat
    /\ Bad \subseteq 1 .. Records
    /\ Readers \subseteq {"line", "json", "parquet"}

ASSUME PoolAssumption ==
    /\ IsFiniteSet(Workers) /\ Workers # {}
    /\ Capacity \in Nat \ {0}

(* Where the object fails: nowhere, between two records, inside one, or at *)
(* once, being no parquet file.                                            *)
Faults == {"none", "between", "inside", "format"}

Good == (1 .. Records) \ Bad

VARIABLES
    reader,     \* the function that reads this object
    readable,   \* records before the fault (all of them without one)
    fault,
    prodPc,     \* reading goroutine: "read", "send", "failed", "close", "done"
    next,       \* the record it reads or sends next
    readErr,    \* scanErr, decodeErr or parquetErr is set
    in, inClosed,       \* linesChan, jsonChan or rowChan
    pc,         \* pc[w]: "take", "parse", "put" or "done"
    item,       \* item[w]: the record worker w has taken, 0 for none
    out, outClosed,     \* entriesChan
    entries,    \* how often each record is among the collected entries
    verdict     \* "pending", "nil", "error" or "panic"

objectVars   == <<reader, readable, fault>>
producerVars == <<prodPc, next, readErr>>
channelVars  == <<in, inClosed, out, outClosed>>
workerVars   == <<pc, item>>
callerVars   == <<entries, verdict>>
vars == <<objectVars, producerVars, channelVars, workerVars, callerVars>>

Init ==
    /\ reader \in Readers
    /\ fault \in Faults
    /\ readable \in 0 .. Records
    /\ fault = "none" <=> readable = Records
    /\ fault = "format" => reader = "parquet" /\ readable = 0
    /\ prodPc = "read"
    /\ next = 1
    /\ readErr = FALSE
    /\ in = {} /\ inClosed = FALSE
    /\ pc = [w \in Workers |-> "take"]
    /\ item = [w \in Workers |-> 0]
    /\ out = {} /\ outClosed = FALSE
    /\ entries = [i \in Good |-> 0]
    /\ verdict = "pending"

-----------------------------------------------------------------------------
(* parquet.NewGenericReader panics on an invalid file, before there is any *)
(* goroutine.  Nobody recovers: the container dies with its whole batch.   *)
Panic ==
    /\ fault = "format" /\ verdict = "pending"
    /\ verdict' = "panic"
    /\ UNCHANGED <<objectVars, producerVars, channelVars, workerVars, entries>>

(***************************************************************************)
(* The reading goroutine.                                                  *)
(***************************************************************************)

(* Scan, More and Decode, or Read have one more record. *)
HasRecord == next <= readable

Read ==
    /\ prodPc = "read"
    /\ HasRecord
    /\ prodPc' = "send"
    /\ UNCHANGED <<objectVars, next, readErr, channelVars, workerVars, callerVars>>

Send ==
    /\ prodPc = "send"
    /\ Cardinality(in) < Capacity
    /\ in' = in \cup {next}
    /\ next' = next + 1
    /\ prodPc' = "read"
    /\ UNCHANGED <<objectVars, readErr, inClosed, out, outClosed, workerVars,
                   callerVars>>

(* Does the reader notice the fault?  The scanner and the parquet reader   *)
(* do.  json.Decoder.More answers false to any error it meets while it     *)
(* looks for the next object, so only a fault inside one is noticed.  (The *)
(* scanner also delivers the part of a line before the fault; the caller   *)
(* drops every entry of a file with an error.)                             *)
Swallowed == fault = "between" /\ reader = "json"
Noticed == fault # "none" /\ ~Swallowed

EndOfStream ==
    /\ prodPc = "read"
    /\ ~HasRecord
    /\ fault # "format"
    /\ prodPc' = IF Noticed THEN "failed" ELSE "close"
    /\ UNCHANGED <<objectVars, next, readErr, channelVars, workerVars, callerVars>>

(* The error is stored before the channel is closed; the bug closes first. *)
StoreError_Bug ==
    /\ prodPc = "failed"
    /\ IF inClosed THEN /\ readErr' = TRUE
                        /\ prodPc' = "done"
                        /\ UNCHANGED inClosed
                   ELSE /\ inClosed' = TRUE
                        /\ UNCHANGED <<readErr, prodPc>>
    /\ UNCHANGED <<objectVars, next, in, out, outClosed, workerVars, callerVars>>
StoreError ==
    /\ prodPc = "failed"
    /\ readErr' = TRUE
    /\ prodPc' = "close"
    /\ UNCHANGED <<objectVars, next, channelVars, workerVars, callerVars>>

CloseIn ==
    /\ prodPc = "close"
    /\ inClosed' = TRUE
    /\ prodPc' = "done"
    /\ UNCHANGED <<objectVars, next, readErr, in, out, outClosed, workerVars,
                   callerVars>>

-----------------------------------------------------------------------------
(***************************************************************************)
(* The pool, and the goroutine that waits for it.                          *)
(***************************************************************************)

Take(w) ==
    /\ pc[w] = "take"
    /\ \E i \in in :
          /\ in' = in \ {i}
          /\ item' = [item EXCEPT ![w] = i]
    /\ pc' = [pc EXCEPT ![w] = "parse"]
    /\ UNCHANGED <<objectVars, producerVars, inClosed, out, outClosed, callerVars>>

(* An empty line, a parse error and a nil entry are skipped; the bug tries *)
(* the record again.                                                       *)
Parse_Bug(w) ==
    /\ pc[w] = "parse"
    /\ IF item[w] \in Bad
          THEN UNCHANGED workerVars
          ELSE /\ pc' = [pc EXCEPT ![w] = "put"]
               /\ UNCHANGED item
    /\ UNCHANGED <<objectVars, producerVars, channelVars, callerVars>>
Parse(w) ==
    /\ pc[w] = "parse"
    /\ IF item[w] \in Bad
          THEN /\ pc' = [pc EXCEPT ![w] = "take"]
               /\ item' = [item EXCEPT ![w] = 0]
          ELSE /\ pc' = [pc EXCEPT ![w] = "put"]
               /\ UNCHANGED item
    /\ UNCHANGED <<objectVars, producerVars, channelVars, callerVars>>

Put(w) ==
    /\ pc[w] = "put"
    /\ Cardinality(out) < Capacity
    /\ out' = out \cup {item[w]}
    /\ item' = [item EXCEPT ![w] = 0]
    /\ pc' = [pc EXCEPT ![w] = "take"]
    /\ UNCHANGED <<objectVars, producerVars, in, inClosed, outClosed, callerVars>>

(* range over a closed and drained channel ends: wg.Done(). *)
Stop(w) ==
    /\ pc[w] = "take"
    /\ inClosed /\ in = {}
    /\ pc' = [pc EXCEPT ![w] = "done"]
    /\ UNCHANGED <<objectVars, producerVars, channelVars, item, callerVars>>

(* wg.Wait() returns; the bug waits for the first worker only. *)
PoolEnded_Bug == inClosed /\ in = {} /\ \E w \in Workers : pc[w] = "done"
PoolEnded == \A w \in Workers : pc[w] = "done"

CloseOut ==
    /\ ~outClosed
    /\ PoolEnded
    /\ outClosed' = TRUE
    /\ UNCHANGED <<objectVars, producerVars, in, inClosed, out, workerVars,
                   callerVars>>

-----------------------------------------------------------------------------
(***************************************************************************)
(* The caller.                                                             *)
(***************************************************************************)

Collect ==
    /\ verdict = "pending"
    /\ \E i \in out :
          /\ out' = out \ {i}
          /\ entries' = [entries EXCEPT ![i] = @ + 1]
    /\ UNCHANGED <<objectVars, producerVars, in, inClosed, outClosed, workerVars,
                   verdict>>

Return ==
    /\ verdict = "pending"
    /\ outClosed /\ out = {}
    /\ verdict' = IF readErr THEN "error" ELSE "nil"
    /\ UNCHANGED <<objectVars, producerVars, channelVars, workerVars, entries>>

-----------------------------------------------------------------------------
Producer == Read \/ Send \/ EndOfStream \/ StoreError \/ CloseIn
Worker(w) == Take(w) \/ Parse(w) \/ Put(w) \/ Stop(w)
Caller == Panic \/ Collect \/ Return

Finished == verdict # "pending" /\ UNCHANGED vars

Next ==
    \/ Producer
    \/ \E w \in Workers : Worker(w)
    \/ CloseOut
    \/ Caller
    \/ Finished

(* Goroutines run; the reads of the body end (the SDK's HTTP client fails  *)
(* a read that stalls).                                                    *)
Fairness ==
    /\ WF_vars(Producer) /\ WF_vars(CloseOut) /\ WF_vars(Caller)
    /\ \A w \in Workers : WF_vars(Worker(w))

Spec == Init /\ [][Next]_vars /\ Fairness

-----------------------------------------------------------------------------
TypeOK ==
    /\ reader \in Readers
    /\ fault \in Faults
    /\ readable \in 0 .. Records
    /\ prodPc \in {"read", "send", "failed", "close", "done"}
    /\ next \in 1 .. Records + 1
    /\ readErr \in BOOLEAN
    /\ in \subseteq 1 .. Records
    /\ inClosed \in BOOLEAN
    /\ pc \in [Workers -> {"take", "parse", "put", "done"}]
    /\ item \in [Workers -> 0 .. Records]
    /\ out \subseteq Good
    /\ outClosed \in BOOLEAN
    /\ entries \in [Good -> Nat]
    /\ verdict \in {"pending", "nil", "error", "panic"}

(* A send on a closed channel panics: the reading goroutine never holds a  *)
(* record after close(linesChan), nor a worker after close(entriesChan).   *)
NoSendOnClosed ==
    /\ prodPc = "send" => ~inClosed
    /\ \A w \in Workers : pc[w] \in {"parse", "put"} => ~outClosed

(* The functions keep the promise of FileRead, but for one thing: where    *)
(* json.Decoder swallows a fault they say nil instead of an error.  A call *)
(* that panics says nothing.                                               *)
Promise == INSTANCE FileRead
             WITH verdict <- CASE verdict = "nil" /\ Swallowed -> "error"
                               [] verdict = "panic" -> "pending"
                               [] OTHER -> verdict
ImplementsFileRead == Promise!Spec

(* Whatever the capacity, the pool and the fault, the call ends: it never  *)
(* waits for ever.                                                         *)
ReadReturns == <>(verdict # "pending")

-----------------------------------------------------------------------------
(* docs/otel-aws-log-processor.md:240: the dead letter queue is there "to  *)
(* capture unprocessable or corrupt log files": a file that cannot be read *)
(* to its end must fail.                                                   *)
CorruptFileFails == verdict = "nil" => fault = "none"
=============================================================================
