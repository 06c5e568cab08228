---------------------------- MODULE SqsPipeline ----------------------------
(***************************************************************************)
(* The Lambda handler of src/cmd/lambda/main.go between the SQS queue that *)
(* feeds it and the OTLP endpoint it feeds, with several containers and    *)
(* the redelivery of what an invocation did not settle.                    *)
(*                                                                         *)
(* An object stands for the parsed records of one S3 log file.  The files  *)
(* of one message are read by one goroutine that touches shared state only *)
(* in its final critical section, so the goroutine is one action.  The     *)
(* call of SendLogs keeps the promise of BatchExport: any subset of the    *)
(* objects may reach the endpoint before it returns, all of them if it     *)
(* returns nil.  The queue, the event source mapping and the endpoint are  *)
(* external and follow deploy/cloudformation/lambda.yaml: a message is     *)
(* invisible while an invocation holds it (the template wants              *)
(* SqsVisibilityTimeout >= Timeout), ReportBatchItemFailures is on, and a  *)
(* message received MaxReceive times goes to the dead letter queue.        *)
(***************************************************************************)
EXTENDS Naturals, FiniteSets

CONSTANTS
    Messages,           \* the SQS messages
    Objects,            \* Objects[m]: the log files m names that a processor
                        \* matches; {} for a body that does not parse
    Unlicensed,         \* objects neither the license nor the free grant covers
                        \* (account, feature, resource, volume)
    ProdBuckets,        \* messages whose bucket name says "prod"
    Containers,         \* warm Lambda containers
    BatchSize,          \* SqsBatchSize
    MaxReceive,         \* SqsMaxReceiveCount
    MayCrash,           \* whether containers die in this instance
    Configs             \* the deployments to explore, see Deployment

AllObjects == UNION {Objects[m] : m \in Messages}

(***************************************************************************)
(* mode is DIVMORA_LICENSE_MODE, action DIVMORA_LICENSE_FAILURE_ACTION,    *)
(* prod whether the environment is declared a production one, and license  *)
(* the configured token: none, one that verifies for this caller, or one   *)
(* that does not.                                                          *)
(***************************************************************************)
Deployment ==
    [mode : {"strict", "warn", "auto"}, action : {"discard", "dlq"},
     prod : BOOLEAN, license : {"none", "valid", "invalid"}]

ASSUME MessagesAssumption ==
    /\ IsFiniteSet(Messages)
    /\ \A m, n \in Messages : m # n => Objects[m] \cap Objects[n] = {}
    /\ Configs \subseteq Deployment

ASSUME QueueAssumption ==
    /\ BatchSize \in Nat \ {0}
    /\ MaxReceive \in Nat \ {0}
    /\ MayCrash \in BOOLEAN

VARIABLES
    config,     \* the deployment; never changes
    status,     \* status[m]: "visible", "held", "deleted" or "dead"
    receives,   \* receives[m]: ApproximateReceiveCount
    pc,         \* pc[c]: where the handler of container c is
    batch,      \* batch[c]: the messages of its invocation
    todo,       \* todo[c]: messages whose goroutine has not finished
    unread,     \* unread[c]: messages with a file that could not be read
    failures,   \* failures[c]: the ids in response.BatchItemFailures
    entries,    \* entries[c]: allEntries
    sent,       \* sent[c]: objects SendLogs got to the endpoint so far
    exports,    \* exports[o]: invocations that got o to the endpoint
    waived      \* messages deleted after a license rejection

queueVars == <<status, receives>>
invVars   == <<batch, todo, unread, failures, entries, sent>>
vars == <<config, queueVars, pc, invVars, exports, waived>>

Running == {"preflight", "process", "enforce", "send", "responded", "rejected"}

Init ==
    /\ config \in Configs
    /\ status = [m \in Messages |-> "visible"]
    /\ receives = [m \in Messages |-> 0]
    /\ pc = [c \in Containers |-> "idle"]
    /\ batch = [c \in Containers |-> {}]
    /\ todo = [c \in Containers |-> {}]
    /\ unread = [c \in Containers |-> {}]
    /\ failures = [c \in Containers |-> {}]
    /\ entries = [c \in Containers |-> {}]
    /\ sent = [c \in Containers |-> {}]
    /\ exports = [o \in AllObjects |-> 0]
    /\ waived = {}

-----------------------------------------------------------------------------
(***************************************************************************)
(* The queue and the event source mapping (external).                      *)
(***************************************************************************)

(* A message may be received MaxReceive times. *)
Receivable(m) == status[m] = "visible" /\ receives[m] < MaxReceive

(* A poller hands a batch to an idle container. *)
Receive(c, B) ==
    /\ pc[c] = "idle"
    /\ B # {} /\ Cardinality(B) <= BatchSize
    /\ \A m \in B : Receivable(m)
    /\ status' = [m \in Messages |-> IF m \in B THEN "held" ELSE status[m]]
    /\ receives' = [m \in Messages |->
                        IF m \in B THEN receives[m] + 1 ELSE receives[m]]
    /\ pc' = [pc EXCEPT ![c] = "preflight"]
    /\ batch' = [batch EXCEPT ![c] = B]
    /\ todo' = [todo EXCEPT ![c] = B]
    /\ UNCHANGED <<config, unread, failures, entries, sent, exports, waived>>

(* The redrive policy. *)
Redrive(m) ==
    /\ status[m] = "visible"
    /\ receives[m] >= MaxReceive
    /\ status' = [status EXCEPT ![m] = "dead"]
    /\ UNCHANGED <<config, receives, pc, invVars, exports, waived>>

(* The invocation of c is over: its messages in Deleted leave the queue,   *)
(* the others become visible again.                                        *)
Release(c, Deleted) ==
    /\ status' = [m \in Messages |->
                    IF m \notin batch[c] THEN status[m]
                    ELSE IF m \in Deleted THEN "deleted" ELSE "visible"]
    /\ pc' = [pc EXCEPT ![c] = "idle"]
    /\ batch' = [batch EXCEPT ![c] = {}]
    /\ todo' = [todo EXCEPT ![c] = {}]
    /\ unread' = [unread EXCEPT ![c] = {}]
    /\ failures' = [failures EXCEPT ![c] = {}]
    /\ entries' = [entries EXCEPT ![c] = {}]
    /\ sent' = [sent EXCEPT ![c] = {}]
    /\ UNCHANGED <<config, receives, exports>>

(* A response: what is not in BatchItemFailures is deleted. *)
Settle(c) ==
    /\ pc[c] \in {"responded", "rejected"}
    /\ Release(c, batch[c] \ failures[c])
    /\ waived' = IF pc[c] = "responded" THEN waived
                 ELSE waived \cup (batch[c] \ failures[c])

(* The container dies or times out, or its deletes are lost. *)
Crash(c) ==
    /\ MayCrash
    /\ pc[c] \in Running
    /\ Release(c, {})
    /\ UNCHANGED waived

-----------------------------------------------------------------------------
(***************************************************************************)
(* handler                                                                 *)
(***************************************************************************)

(* Mode "auto" is strict in production and where a bucket looks like it.   *)
Strict(B) ==
    \/ config.mode = "strict"
    \/ config.mode = "auto" /\ (config.prod \/ B \cap ProdBuckets # {})

(* The token may come from a file that cannot be read this time.  Where    *)
(* the environment is no production one, that counts as having none.       *)
ResolveToken == {config.license} \cup IF config.prod THEN {} ELSE {"none"}

(* What the token and the bucket names say of a batch, before its files    *)
(* are read: without a token only non-production use is free.              *)
LicenseMissing(B, license) ==
    \/ license = "invalid"
    \/ license = "none" /\ (config.prod \/ B \cap ProdBuckets # {})

(* A deterministic license error ends the invocation without an error: the *)
(* whole batch is listed, or the list is emptied.  The bug lists only the  *)
(* messages that have not been processed.                                  *)
Reject_Bug(c) ==
    /\ pc' = [pc EXCEPT ![c] = "rejected"]
    /\ failures' = [failures EXCEPT ![c] =
                        IF config.action = "dlq" THEN todo[c] ELSE {}]
    /\ UNCHANGED <<config, queueVars, batch, todo, unread, entries, sent, exports,
                   waived>>
Reject(c) ==
    /\ pc' = [pc EXCEPT ![c] = "rejected"]
    /\ failures' = [failures EXCEPT ![c] =
                        IF config.action = "dlq" THEN batch[c] ELSE {}]
    /\ UNCHANGED <<config, queueVars, batch, todo, unread, entries, sent, exports,
                   waived>>

Goto(c, l) ==
    /\ pc' = [pc EXCEPT ![c] = l]
    /\ UNCHANGED <<config, queueVars, invVars, exports, waived>>

(* PreflightEnforce sees the bucket names of the whole batch. *)
Preflight(c) ==
    /\ pc[c] = "preflight"
    /\ \E license \in ResolveToken :
          IF Strict(batch[c]) /\ LicenseMissing(batch[c], license)
          THEN Reject(c)
          ELSE Goto(c, "process")

(* A failed message is listed and contributes none of its entries; the bug *)
(* adds them as they are read.                                             *)
Merge_Bug(c, m, ok) ==
    /\ failures' = [failures EXCEPT ![c] = IF ok THEN @ ELSE @ \cup {m}]
    /\ entries' = [entries EXCEPT ![c] = @ \cup Objects[m]]
Merge(c, m, ok) ==
    /\ failures' = [failures EXCEPT ![c] = IF ok THEN @ ELSE @ \cup {m}]
    /\ entries' = [entries EXCEPT ![c] = IF ok THEN @ \cup Objects[m] ELSE @]

(* The goroutine of message m: all its files are read, or one is not. *)
ProcessMessage(c, m) ==
    /\ pc[c] = "process"
    /\ m \in todo[c]
    /\ todo' = [todo EXCEPT ![c] = @ \ {m}]
    /\ \E ok \in BOOLEAN :
          /\ ok \/ Objects[m] # {}
          /\ unread' = [unread EXCEPT ![c] = IF ok THEN @ ELSE @ \cup {m}]
          /\ Merge(c, m, ok)
    /\ UNCHANGED <<config, queueVars, pc, batch, sent, exports, waived>>

(* wg.Wait(): the bug returns from a failed goroutine without wg.Done(). *)
AllDone_Bug(c) == todo[c] = {} /\ unread[c] = {}
AllDone(c) == todo[c] = {}

AllProcessed(c) ==
    /\ pc[c] = "process"
    /\ AllDone(c)
    /\ Goto(c, "enforce")

(* Enforce sees the buckets and the records of the messages that were read *)
(* (the buckets of the batch when none was, which then decides nothing).   *)
Seen(c) == batch[c] \ unread[c]

EnforceRejects(c, license) ==
    /\ Strict(Seen(c))
    /\ LicenseMissing(Seen(c), license) \/ entries[c] \cap Unlicensed # {}

(* Without entries nothing is sent. *)
Enforce(c) ==
    /\ pc[c] = "enforce"
    /\ \E license \in ResolveToken :
          IF EnforceRejects(c, license) THEN Reject(c)
          ELSE Goto(c, IF entries[c] = {} THEN "responded" ELSE "send")

(* Where a token is needed, or was there when Enforce looked for it first, *)
(* a file that cannot be read is not a deterministic license error:        *)
(* PreflightEnforce or Enforce fails, the handler returns the error, and   *)
(* the whole batch becomes visible again.                                  *)
LicenseUnavailable(c) ==
    /\ config.license # "none"
    /\ \/ pc[c] = "preflight" /\ Strict(batch[c])
       \/ pc[c] = "enforce" /\ Strict(Seen(c))
    /\ Release(c, {})
    /\ UNCHANGED waived

(* SendLogs: some more records are stored by the endpoint ... *)
Export(c) ==
    /\ pc[c] = "send"
    /\ \E S \in SUBSET (entries[c] \ sent[c]) \ {{}} :
          /\ sent' = [sent EXCEPT ![c] = @ \cup S]
          /\ exports' = [o \in AllObjects |->
                            IF o \in S THEN exports[o] + 1 ELSE exports[o]]
    /\ UNCHANGED <<config, queueVars, pc, batch, todo, unread, failures, entries,
                   waived>>

(* ... and it returns nil, all being stored ... *)
SendSucceeds(c) ==
    /\ pc[c] = "send"
    /\ sent[c] = entries[c]
    /\ Goto(c, "responded")

(* ... or an error, which the handler returns: the batch becomes visible.  *)
(* The bug logs the error and goes on.                                     *)
SendFails_Bug(c) ==
    /\ pc[c] = "send"
    /\ Goto(c, "responded")
SendFails(c) ==
    /\ pc[c] = "send"
    /\ Release(c, {})
    /\ UNCHANGED waived

-----------------------------------------------------------------------------
Handler(c) ==
    \/ Preflight(c) \/ LicenseUnavailable(c)
    \/ \E m \in Messages : ProcessMessage(c, m)
    \/ AllProcessed(c) \/ Enforce(c)
    \/ Export(c) \/ SendSucceeds(c) \/ SendFails(c)
    \/ Settle(c)

Poll(m) == \E c \in Containers, B \in SUBSET Messages : m \in B /\ Receive(c, B)

Done ==
    /\ \A m \in Messages : status[m] \in {"deleted", "dead"}
    /\ UNCHANGED vars

Next ==
    \/ \E m \in Messages : Poll(m) \/ Redrive(m)
    \/ \E c \in Containers : Handler(c) \/ Crash(c)
    \/ Done

(* The handler runs to its end unless the container dies; the mapping      *)
(* polls; the redrive happens.  Nothing obliges a file to be readable, the *)
(* endpoint to accept, or a container to survive.                          *)
Fairness ==
    /\ \A c \in Containers : WF_vars(Handler(c))
    /\ \A m \in Messages : WF_vars(Poll(m)) /\ WF_vars(Redrive(m))

Spec == Init /\ [][Next]_vars /\ Fairness

-----------------------------------------------------------------------------
TypeOK ==
    /\ config \in Configs
    /\ status \in [Messages -> {"visible", "held", "deleted", "dead"}]
    /\ receives \in [Messages -> 0 .. MaxReceive]
    /\ pc \in [Containers -> Running \cup {"idle"}]
    /\ batch \in [Containers -> SUBSET Messages]
    /\ todo \in [Containers -> SUBSET Messages]
    /\ unread \in [Containers -> SUBSET Messages]
    /\ failures \in [Containers -> SUBSET Messages]
    /\ entries \in [Containers -> SUBSET AllObjects]
    /\ sent \in [Containers -> SUBSET AllObjects]
    /\ exports \in [AllObjects -> Nat]
    /\ waived \subseteq Messages

(* No silent loss: a message that left the queue for good had every one of *)
(* its files delivered, unless a license rejection discarded it where the  *)
(* deployment says discard.  Failed reads, failed sends, crashes and       *)
(* redeliveries notwithstanding.                                           *)
DeletedIsDelivered ==
    \A m \in Messages :
        \/ status[m] # "deleted"
        \/ m \in waived /\ config.action = "discard"
        \/ \A o \in Objects[m] : exports[o] > 0

(* Where the mode is strict for a message taken alone, its records that    *)
(* nothing covers never reach the endpoint, whatever batch it travels in,  *)
(* whether or not its token can be read, whichever of its batch mates fail *)
(* and however often it is received.                                       *)
UnlicensedNeverExported ==
    \A m \in Messages :
        Strict({m}) => \A o \in Objects[m] \cap Unlicensed : exports[o] = 0

(* Every message is deleted or dead-lettered in the end.                   *)
EveryMessageSettles ==
    \A m \in Messages : <>(status[m] \in {"deleted", "dead"})

(* With DIVMORA_LICENSE_FAILURE_ACTION=dlq a message that nothing covers   *)
(* ends in the dead letter queue, whatever its batch mates do.             *)
UnlicensedIsDeadLettered ==
    \A m \in Messages :
        /\ Strict({m}) /\ config.action = "dlq"
        /\ Objects[m] \cap Unlicensed # {}
        => <>(status[m] = "dead")

-----------------------------------------------------------------------------
(* docs/otel-aws-log-processor.md:238 on ReportBatchItemFailures: "This    *)
(* ensures only failed log files in a batch are retried, preventing        *)
(* duplicate logs."                                                        *)
NoDuplicateExport == \A o \in AllObjects : exports[o] <= 1
=============================================================================
