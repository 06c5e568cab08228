------------------------- MODULE SqsPipelineProofs -------------------------
(***************************************************************************)
(* Theorems about SqsPipeline for every set of messages and containers,    *)
(* every batch size and receive count, and every deployment.               *)
(*                                                                         *)
(* What the runs check is not inductive: that a deleted message was        *)
(* delivered depends on what an invocation has read, sent and listed so    *)
(* far (Local), and on a message being held by one invocation at a time    *)
(* (Custody).                                                              *)
(***************************************************************************)
EXTENDS SqsPipeline, TLAPS

-----------------------------------------------------------------------------
(* The messages of c that were read completely.                            *)
ReadOf(c) == batch[c] \ (todo[c] \cup unread[c])

(* Something that is about to be sent is not covered.                      *)
Excluded(c) == Strict(Seen(c)) /\ entries[c] \cap Unlicensed # {}

(* What an invocation knows: allEntries are the objects of the messages it *)
(* has read; a message with an unreadable file is listed unless a          *)
(* rejection rewrote the list; SendLogs sends nothing else, and only what  *)
(* Enforce let through; before a response all of it is stored.             *)
Local(c) ==
    /\ todo[c] \cup unread[c] \subseteq batch[c]
    /\ todo[c] \cap unread[c] = {}
    /\ \A m \in ReadOf(c) : Objects[m] \subseteq entries[c]
    /\ \A o \in entries[c] : \E m \in ReadOf(c) : o \in Objects[m]
    /\ \A o \in sent[c] : o \in entries[c] /\ exports[o] > 0
    /\ pc[c] # "rejected" => unread[c] \subseteq failures[c]
    /\ pc[c] \in {"enforce", "send", "responded"} => todo[c] = {}
    /\ pc[c] = "send" => ~Excluded(c)
    /\ pc[c] = "responded" => entries[c] \subseteq sent[c]
    /\ pc[c] = "rejected" /\ config.action = "dlq" => failures[c] = batch[c]
    /\ pc[c] = "idle" =>
          /\ batch[c] = {} /\ todo[c] = {} /\ unread[c] = {}
          /\ failures[c] = {} /\ entries[c] = {} /\ sent[c] = {}
    /\ pc[c] = "preflight" =>
          todo[c] = batch[c] /\ unread[c] = {} /\ entries[c] = {} /\ sent[c] = {}

(* A message in the batch of an invocation is held, and by no other one.   *)
Custody ==
    /\ \A c \in Containers : \A m \in batch[c] : status[m] = "held"
    /\ \A c, d \in Containers : c # d => batch[c] \cap batch[d] = {}

IInv ==
    /\ TypeOK
    /\ Custody
    /\ \A c \in Containers : Local(c)
    /\ DeletedIsDelivered
    /\ UnlicensedNeverExported

-----------------------------------------------------------------------------
(* The objects of a message are objects.                                   *)
LEMMA ObjectsOf == \A m \in Messages : Objects[m] \subseteq AllObjects
BY DEF AllObjects

(* A batch is at least as strict as each of its messages.                  *)
LEMMA StrictMonotone ==
    ASSUME NEW m, NEW B, m \in B, Strict({m})
    PROVE  Strict(B)
BY DEF Strict

(* What Local(c) reads is unchanged by a step of another container that    *)
(* only adds exports.                                                      *)
LEMMA LocalFrame ==
    ASSUME TypeOK, NEW c \in Containers, Local(c),
           config' = config, pc'[c] = pc[c], batch'[c] = batch[c],
           todo'[c] = todo[c], unread'[c] = unread[c],
           failures'[c] = failures[c], entries'[c] = entries[c],
           sent'[c] = sent[c],
           \A o \in AllObjects : exports[o] > 0 => exports'[o] > 0
    PROVE  Local(c)'
<1>1. ReadOf(c)' = ReadOf(c)
  BY DEF ReadOf
<1>2. Excluded(c)' = Excluded(c)
  BY DEF Excluded, Strict, Seen
<1>3. sent[c] \subseteq AllObjects
  BY DEF TypeOK
<1>4. \A o \in sent'[c] : o \in entries'[c] /\ exports'[o] > 0
  BY <1>3 DEF Local
<1>5. QED
  BY <1>1, <1>2, <1>4 DEF Local

(* The invariant holds initially.                                          *)
LEMMA IInvInit == Init => IInv
<1> SUFFICES ASSUME Init PROVE IInv
  OBVIOUS
<1>1. TypeOK
  BY QueueAssumption DEF Init, TypeOK
<1>2. Custody
  BY DEF Init, Custody
<1>3. ASSUME NEW c \in Containers PROVE Local(c)
  BY DEF Init, Local, ReadOf
<1>4. DeletedIsDelivered
  BY DEF Init, DeletedIsDelivered
<1>5. UnlicensedNeverExported
  BY ObjectsOf DEF Init, UnlicensedNeverExported
<1>6. QED
  BY <1>1, <1>2, <1>3, <1>4, <1>5 DEF IInv

-----------------------------------------------------------------------------
(* A step that only moves messages and exports of nothing keeps the export *)
(* promise.                                                                *)
LEMMA UnlicensedFrame ==
    ASSUME UnlicensedNeverExported, config' = config, exports' = exports
    PROVE  UnlicensedNeverExported'
BY DEF UnlicensedNeverExported, Strict

(* The same for the promise about deleted messages.                        *)
LEMMA DeletedFrame ==
    ASSUME DeletedIsDelivered, config' = config, exports' = exports,
           waived' = waived,
           \A m \in Messages : status'[m] = "deleted" => status[m] = "deleted"
    PROVE  DeletedIsDelivered'
BY DEF DeletedIsDelivered

(* An invocation ends: what it deletes was delivered, or a rejection       *)
(* discarded it.                                                           *)
LEMMA ReleaseStep ==
    ASSUME IInv, NEW c \in Containers, NEW D, Release(c, D),
           \/ D = {} /\ waived' = waived
           \/ /\ pc[c] = "responded" /\ D = batch[c] \ failures[c]
              /\ waived' = waived
           \/ /\ pc[c] = "rejected" /\ D = batch[c] \ failures[c]
              /\ waived' = waived \cup D
    PROVE  IInv'
<1> USE DEF IInv
<1>1. TypeOK'
  <2>1. batch[c] \subseteq Messages
    BY DEF TypeOK
  <2>2. waived' \subseteq Messages
    BY <2>1 DEF TypeOK
  <2>3. status' \in [Messages -> {"visible", "held", "deleted", "dead"}]
    BY DEF Release, TypeOK
  <2>4. pc' \in [Containers -> Running \cup {"idle"}]
    BY DEF Release, TypeOK
  <2>5. /\ batch' \in [Containers -> SUBSET Messages]
        /\ todo' \in [Containers -> SUBSET Messages]
        /\ unread' \in [Containers -> SUBSET Messages]
        /\ failures' \in [Containers -> SUBSET Messages]
        /\ entries' \in [Containers -> SUBSET AllObjects]
        /\ sent' \in [Containers -> SUBSET AllObjects]
    BY DEF Release, TypeOK
  <2>6. QED
    BY <2>2, <2>3, <2>4, <2>5 DEF Release, TypeOK
<1>2. batch'[c] = {} /\ \A d \in Containers \ {c} : batch'[d] = batch[d]
  BY DEF Release, TypeOK
<1>3. Custody'
  <2>1. ASSUME NEW d \in Containers, NEW m \in batch'[d]
        PROVE  status'[m] = "held"
    <3>1. d # c /\ m \in batch[d] /\ m \in Messages
      BY <2>1, <1>2 DEF TypeOK
    <3>2. m \notin batch[c] /\ status[m] = "held"
      BY <3>1 DEF Custody
    <3>3. QED
      BY <3>1, <3>2 DEF Release
  <2>2. QED
    BY <2>1, <1>2 DEF Custody
<1>4. ASSUME NEW d \in Containers PROVE Local(d)'
  <2>1. CASE d = c
    <3>1. /\ pc'[c] = "idle" /\ batch'[c] = {} /\ todo'[c] = {}
          /\ unread'[c] = {} /\ failures'[c] = {} /\ entries'[c] = {}
          /\ sent'[c] = {}
      BY DEF Release, TypeOK
    <3>2. QED
      BY <3>1, <2>1 DEF Local, ReadOf
  <2>2. CASE d # c
    <3>1. /\ pc'[d] = pc[d] /\ batch'[d] = batch[d] /\ todo'[d] = todo[d]
          /\ unread'[d] = unread[d] /\ failures'[d] = failures[d]
          /\ entries'[d] = entries[d] /\ sent'[d] = sent[d]
      BY <2>2 DEF Release, TypeOK
    <3>2. QED
      BY <3>1, LocalFrame DEF Release
  <2>3. QED
    BY <2>1, <2>2
<1>5. DeletedIsDelivered'
  <2> SUFFICES ASSUME NEW m \in Messages, status'[m] = "deleted",
                      ~(m \in waived' /\ config'.action = "discard")
               PROVE  \A o \in Objects[m] : exports'[o] > 0
    BY DEF DeletedIsDelivered
  <2>1. config' = config /\ exports' = exports
    BY DEF Release
  <2>2. CASE status[m] = "deleted"
    <3>1. m \notin waived \/ config.action # "discard"
      BY <2>1
    <3>2. QED
      BY <2>1, <2>2, <3>1 DEF DeletedIsDelivered
  <2>3. CASE status[m] # "deleted"
    <3>1. m \in batch[c] /\ m \in D
      BY <2>3 DEF Release
    <3>2. CASE pc[c] = "responded"
      <4>1. m \in ReadOf(c)
        BY <3>1, <3>2 DEF Local, ReadOf
      <4>2. Objects[m] \subseteq sent[c]
        BY <4>1, <3>2 DEF Local
      <4>3. QED
        BY <4>2, <2>1 DEF Local
    <3>3. CASE pc[c] = "rejected"
      <4>1. m \in waived' /\ m \notin failures[c]
        BY <3>1, <3>3
      <4>2. config.action # "dlq"
        BY <4>1, <3>1, <3>3 DEF Local
      <4>3. config.action \in {"discard", "dlq"}
        BY MessagesAssumption DEF TypeOK, Deployment
      <4>4. QED
        BY <4>1, <4>2, <4>3, <2>1
    <3>4. QED
      BY <3>1, <3>2, <3>3
  <2>4. QED
    BY <2>2, <2>3
<1>6. UnlicensedNeverExported'
  BY UnlicensedFrame DEF Release
<1>7. QED
  BY <1>1, <1>3, <1>4, <1>5, <1>6

-----------------------------------------------------------------------------
(* A step of the handler of c that leaves the queue, the exports and what  *)
(* was waived alone: Local(c) is all there is to show.                     *)
LEMMA HandlerStep ==
    ASSUME IInv, NEW c \in Containers, TypeOK', Local(c)',
           config' = config, status' = status, batch' = batch,
           exports' = exports, waived' = waived,
           \A d \in Containers \ {c} :
              /\ pc'[d] = pc[d] /\ todo'[d] = todo[d] /\ unread'[d] = unread[d]
              /\ failures'[d] = failures[d] /\ entries'[d] = entries[d]
              /\ sent'[d] = sent[d]
    PROVE  IInv'
<1> USE DEF IInv
<1>1. Custody'
  BY DEF Custody
<1>2. ASSUME NEW d \in Containers PROVE Local(d)'
  <2>1. CASE d = c
    BY <2>1
  <2>2. CASE d # c
    BY <2>2, LocalFrame
  <2>3. QED
    BY <2>1, <2>2
<1>3. DeletedIsDelivered'
  BY DeletedFrame
<1>4. UnlicensedNeverExported'
  BY UnlicensedFrame
<1>5. QED
  BY <1>1, <1>2, <1>3, <1>4

(* A rejection rewrites the list of failures.                              *)
LEMMA RejectStep ==
    ASSUME IInv, NEW c \in Containers, Reject(c),
           pc[c] \in {"preflight", "enforce"}
    PROVE  IInv'
<1> USE DEF IInv
<1>1. TypeOK'
  <2>1. failures' \in [Containers -> SUBSET Messages]
    BY DEF Reject, TypeOK
  <2>2. pc' \in [Containers -> Running \cup {"idle"}]
    BY DEF Reject, TypeOK, Running
  <2>3. QED
    BY <2>1, <2>2 DEF Reject, TypeOK, queueVars
<1>2. ReadOf(c)' = ReadOf(c) /\ pc'[c] = "rejected"
  BY DEF Reject, ReadOf, TypeOK
<1>3. config.action = "dlq" => failures'[c] = batch[c]
  BY DEF Reject, TypeOK
<1>4. Local(c)'
  BY <1>2, <1>3 DEF Reject, Local
<1>5. QED
  BY <1>1, <1>4, HandlerStep DEF Reject, queueVars, TypeOK

(* A step of the handler that only moves its program counter.              *)
LEMMA GotoStep ==
    ASSUME IInv, NEW c \in Containers, NEW l \in Running, Goto(c, l), Local(c)'
    PROVE  IInv'
<1> USE DEF IInv
<1>1. TypeOK'
  <2>1. pc' \in [Containers -> Running \cup {"idle"}]
    BY DEF Goto, TypeOK
  <2>2. QED
    BY <2>1 DEF Goto, TypeOK, queueVars, invVars
<1>2. QED
  BY <1>1, HandlerStep DEF Goto, queueVars, invVars, TypeOK

(* The rest of Local(c) when only the program counter moves.               *)
LEMMA GotoLocal ==
    ASSUME IInv, NEW c \in Containers, NEW l \in Running \ {"rejected", "preflight"},
           Goto(c, l), pc[c] # "rejected",
           l \in {"enforce", "send", "responded"} => todo[c] = {},
           l = "send" => ~Excluded(c),
           l = "responded" => entries[c] \subseteq sent[c]
    PROVE  Local(c)'
<1>1. pc'[c] = l
  BY DEF Goto, IInv, TypeOK
<1>2. ReadOf(c)' = ReadOf(c) /\ Excluded(c)' = Excluded(c)
  BY DEF Goto, ReadOf, Excluded, Strict, Seen, invVars
<1>3. l # "idle"
  BY DEF Running
<1>4. QED
  BY <1>1, <1>2, <1>3 DEF Goto, invVars, IInv, Local

(* A poller hands a batch of visible messages to an idle container.        *)
LEMMA ReceiveStep ==
    ASSUME IInv, NEW c \in Containers, NEW B \in SUBSET Messages, Receive(c, B)
    PROVE  IInv'
<1> USE DEF IInv
<1>1. TypeOK'
  <2>1. receives' \in [Messages -> 0 .. MaxReceive]
    BY QueueAssumption DEF Receive, Receivable, TypeOK
  <2>2. status' \in [Messages -> {"visible", "held", "deleted", "dead"}]
    BY DEF Receive, TypeOK
  <2>3. pc' \in [Containers -> Running \cup {"idle"}]
    BY DEF Receive, TypeOK, Running
  <2>4. /\ batch' \in [Containers -> SUBSET Messages]
        /\ todo' \in [Containers -> SUBSET Messages]
    BY DEF Receive, TypeOK
  <2>5. QED
    BY <2>1, <2>2, <2>3, <2>4 DEF Receive, TypeOK
<1>2. /\ batch'[c] = B /\ todo'[c] = B /\ pc'[c] = "preflight"
      /\ \A d \in Containers \ {c} :
            batch'[d] = batch[d] /\ todo'[d] = todo[d] /\ pc'[d] = pc[d]
  BY DEF Receive, TypeOK
<1>3. \A m \in B : status[m] = "visible"
  BY DEF Receive, Receivable
<1>4. Custody'
  <2>1. \A d \in Containers : batch[d] \cap B = {}
    BY <1>3 DEF Custody
  <2>2. ASSUME NEW d \in Containers, NEW m \in batch'[d]
        PROVE  status'[m] = "held"
    <3>1. m \in Messages
      BY <1>1, <2>2 DEF TypeOK
    <3>2. m \in B \/ m \in batch[d]
      BY <1>2, <2>2
    <3>3. QED
      BY <3>1, <3>2 DEF Receive, Custody
  <2>3. QED
    BY <1>2, <2>1, <2>2 DEF Custody
<1>5. ASSUME NEW d \in Containers PROVE Local(d)'
  <2>1. CASE d = c
    <3>1. pc[c] = "idle" /\ unread'[c] = unread[c] /\ entries'[c] = entries[c]
          /\ sent'[c] = sent[c] /\ failures'[c] = failures[c]
      BY DEF Receive
    <3>2. unread[c] = {} /\ entries[c] = {} /\ sent[c] = {}
      BY <3>1 DEF Local
    <3>3. QED
      BY <1>2, <2>1, <3>1, <3>2 DEF Local, ReadOf
  <2>2. CASE d # c
    BY <1>2, <2>2, LocalFrame DEF Receive
  <2>3. QED
    BY <2>1, <2>2
<1>6. DeletedIsDelivered'
  BY DeletedFrame DEF Receive
<1>7. UnlicensedNeverExported'
  BY UnlicensedFrame DEF Receive
<1>8. QED
  BY <1>1, <1>4, <1>5, <1>6, <1>7

(* The redrive policy takes a visible message, which nobody holds.         *)
LEMMA RedriveStep ==
    ASSUME IInv, NEW m \in Messages, Redrive(m)
    PROVE  IInv'
<1> USE DEF IInv
<1>1. TypeOK'
  BY DEF Redrive, TypeOK, invVars
<1>2. Custody'
  <2>1. \A c \in Containers : m \notin batch[c]
    BY DEF Redrive, Custody
  <2>2. QED
    BY <2>1 DEF Redrive, Custody, invVars, TypeOK
<1>3. \A c \in Containers : Local(c)'
  BY LocalFrame DEF Redrive, invVars
<1>4. DeletedIsDelivered'
  <2>1. \A n \in Messages : status'[n] = "deleted" => status[n] = "deleted"
    BY DEF Redrive, TypeOK
  <2>2. QED
    BY <2>1, DeletedFrame DEF Redrive
<1>5. UnlicensedNeverExported'
  BY UnlicensedFrame DEF Redrive
<1>6. QED
  BY <1>1, <1>2, <1>3, <1>4, <1>5

(* The goroutine of a message ends: it contributes all or nothing.         *)
LEMMA ProcessStep ==
    ASSUME IInv, NEW c \in Containers, NEW m \in Messages, ProcessMessage(c, m)
    PROVE  IInv'
<1> USE DEF IInv
<1>1. PICK ok \in BOOLEAN :
         /\ unread' = [unread EXCEPT ![c] = IF ok THEN @ ELSE @ \cup {m}]
         /\ Merge(c, m, ok)
  BY DEF ProcessMessage
<1>2. /\ pc[c] = "process" /\ m \in todo[c] /\ pc' = pc /\ batch' = batch
      /\ todo'[c] = todo[c] \ {m} /\ sent' = sent /\ config' = config
  BY DEF ProcessMessage, TypeOK
<1>3. /\ unread'[c] = IF ok THEN unread[c] ELSE unread[c] \cup {m}
      /\ failures'[c] = IF ok THEN failures[c] ELSE failures[c] \cup {m}
      /\ entries'[c] = IF ok THEN entries[c] \cup Objects[m] ELSE entries[c]
  BY <1>1 DEF Merge, TypeOK
<1>4. \A d \in Containers \ {c} :
         /\ todo'[d] = todo[d] /\ unread'[d] = unread[d]
         /\ failures'[d] = failures[d] /\ entries'[d] = entries[d]
  BY <1>1 DEF ProcessMessage, Merge, TypeOK
<1>5. TypeOK'
  <2>1. todo' \in [Containers -> SUBSET Messages]
    BY DEF ProcessMessage, TypeOK
  <2>2. unread' \in [Containers -> SUBSET Messages]
    BY <1>1 DEF TypeOK
  <2>3. failures' \in [Containers -> SUBSET Messages]
    BY <1>1 DEF Merge, TypeOK
  <2>4. entries' \in [Containers -> SUBSET AllObjects]
    BY <1>1, ObjectsOf DEF Merge, TypeOK
  <2>5. QED
    BY <2>1, <2>2, <2>3, <2>4 DEF ProcessMessage, TypeOK, queueVars
<1>6. Local(c)'
  <2>1. m \in batch[c] /\ m \notin unread[c]
    BY <1>2 DEF Local
  <2>2. ReadOf(c)' = IF ok THEN ReadOf(c) \cup {m} ELSE ReadOf(c)
    BY <1>2, <1>3, <2>1 DEF ReadOf
  <2>3. \A n \in ReadOf(c)' : Objects[n] \subseteq entries'[c]
    BY <1>3, <2>2 DEF Local
  <2>4. \A o \in entries'[c] : \E n \in ReadOf(c)' : o \in Objects[n]
    BY <1>3, <2>2 DEF Local
  <2>5. \A o \in sent'[c] : o \in entries'[c] /\ exports'[o] > 0
    BY <1>2, <1>3 DEF Local, ProcessMessage
  <2>6. /\ todo'[c] \cup unread'[c] \subseteq batch'[c]
        /\ todo'[c] \cap unread'[c] = {}
        /\ unread'[c] \subseteq failures'[c]
    BY <1>2, <1>3, <2>1 DEF Local
  <2>7. QED
    BY <1>2, <2>3, <2>4, <2>5, <2>6 DEF Local
<1>7. QED
  BY <1>2, <1>4, <1>5, <1>6, HandlerStep DEF ProcessMessage, queueVars

(* SendLogs stores some of the entries: Enforce let them through.          *)
LEMMA ExportStep ==
    ASSUME IInv, NEW c \in Containers, Export(c)
    PROVE  IInv'
<1> USE DEF IInv
<1>1. PICK S \in SUBSET (entries[c] \ sent[c]) :
         /\ sent' = [sent EXCEPT ![c] = @ \cup S]
         /\ exports' = [o \in AllObjects |->
                           IF o \in S THEN exports[o] + 1 ELSE exports[o]]
  BY DEF Export
<1>2. /\ pc[c] = "send" /\ pc' = pc /\ batch' = batch /\ todo' = todo
      /\ unread' = unread /\ failures' = failures /\ entries' = entries
      /\ config' = config /\ status' = status /\ waived' = waived
      /\ receives' = receives
  BY DEF Export, queueVars
<1>3. S \subseteq AllObjects /\ S \subseteq entries[c]
  BY DEF TypeOK
<1>4. TypeOK'
  <2>1. sent' \in [Containers -> SUBSET AllObjects]
    BY <1>1, <1>3 DEF TypeOK
  <2>2. exports' \in [AllObjects -> Nat]
    BY <1>1 DEF TypeOK
  <2>3. QED
    BY <1>2, <2>1, <2>2 DEF TypeOK
<1>5. \A o \in AllObjects : exports[o] > 0 => exports'[o] > 0
  BY <1>1 DEF TypeOK
<1>6. \A o \in S : exports'[o] > 0
  BY <1>1, <1>3 DEF TypeOK
<1>7. Custody'
  BY <1>2 DEF Custody
<1>8. ASSUME NEW d \in Containers PROVE Local(d)'
  <2>1. CASE d = c
    <3>1. sent'[c] = sent[c] \cup S
      BY <1>1 DEF TypeOK
    <3>2. ReadOf(c)' = ReadOf(c) /\ Excluded(c)' = Excluded(c)
      BY <1>2 DEF ReadOf, Excluded, Strict, Seen
    <3>3. \A o \in sent'[c] : o \in entries'[c] /\ exports'[o] > 0
      BY <1>2, <1>3, <1>5, <1>6, <3>1 DEF Local, TypeOK
    <3>4. QED
      BY <1>2, <2>1, <3>2, <3>3 DEF Local
  <2>2. CASE d # c
    <3>1. sent'[d] = sent[d]
      BY <1>1, <2>2 DEF TypeOK
    <3>2. QED
      BY <1>2, <1>5, <3>1, LocalFrame
  <2>3. QED
    BY <2>1, <2>2
<1>9. DeletedIsDelivered'
  BY <1>2, <1>5, ObjectsOf DEF DeletedIsDelivered
<1>10. UnlicensedNeverExported'
  <2> SUFFICES ASSUME NEW m \in Messages, Strict({m}),
                      NEW o \in Objects[m] \cap Unlicensed
               PROVE  exports'[o] = 0
    BY <1>2 DEF UnlicensedNeverExported, Strict
  <2>1. o \in AllObjects /\ exports[o] = 0
    BY ObjectsOf DEF UnlicensedNeverExported
  <2>2. o \notin S
    <3> SUFFICES ASSUME o \in S PROVE FALSE
      OBVIOUS
    <3>1. PICK n \in ReadOf(c) : o \in Objects[n]
      BY <1>3 DEF Local
    <3>2. n \in Messages
      BY <3>1 DEF ReadOf, TypeOK
    <3>3. n = m
      BY <3>1, <3>2, MessagesAssumption
    <3>4. Strict(Seen(c))
      BY <3>1, <3>3, StrictMonotone DEF ReadOf, Seen
    <3>5. Excluded(c)
      BY <3>4, <1>3 DEF Excluded
    <3>6. QED
      BY <3>5, <1>2 DEF Local
  <2>3. QED
    BY <1>1, <2>1, <2>2
<1>11. QED
  BY <1>4, <1>7, <1>8, <1>9, <1>10

(* Every step preserves the invariant: one case per action.                *)
LEMMA IInvStep == IInv /\ [Next]_vars => IInv'
<1> SUFFICES ASSUME IInv, [Next]_vars PROVE IInv'
  OBVIOUS
<1>1. ASSUME NEW m \in Messages, Poll(m) PROVE IInv'
  BY <1>1, ReceiveStep DEF Poll
<1>2. ASSUME NEW m \in Messages, Redrive(m) PROVE IInv'
  BY <1>2, RedriveStep
<1>3. ASSUME NEW c \in Containers, Crash(c) PROVE IInv'
  BY <1>3, ReleaseStep DEF Crash
<1>4. ASSUME NEW c \in Containers, Preflight(c) PROVE IInv'
  <2>1. CASE Reject(c)
    BY <1>4, <2>1, RejectStep DEF Preflight
  <2>2. CASE Goto(c, "process")
    <3>1. Local(c)'
      BY <1>4, <2>2, GotoLocal DEF Preflight, Running
    <3>2. QED
      BY <2>2, <3>1, GotoStep DEF Running
  <2>3. QED
    BY <1>4, <2>1, <2>2 DEF Preflight
<1>5. ASSUME NEW c \in Containers, LicenseUnavailable(c) PROVE IInv'
  BY <1>5, ReleaseStep DEF LicenseUnavailable
<1>6. ASSUME NEW c \in Containers, NEW m \in Messages, ProcessMessage(c, m)
      PROVE  IInv'
  BY <1>6, ProcessStep
<1>7. ASSUME NEW c \in Containers, AllProcessed(c) PROVE IInv'
  <2>1. Local(c)'
    BY <1>7, GotoLocal DEF AllProcessed, AllDone, Running
  <2>2. QED
    BY <1>7, <2>1, GotoStep DEF AllProcessed, Running
<1>8. ASSUME NEW c \in Containers, Enforce(c) PROVE IInv'
  <2>1. pc[c] = "enforce" /\ todo[c] = {}
    BY <1>8 DEF Enforce, IInv, Local
  <2>2. CASE Reject(c)
    BY <2>1, <2>2, RejectStep
  <2>3. CASE ~Excluded(c) /\ entries[c] = {} /\ Goto(c, "responded")
    <3>1. Local(c)'
      BY <2>1, <2>3, GotoLocal DEF Running
    <3>2. QED
      BY <2>3, <3>1, GotoStep DEF Running
  <2>4. CASE ~Excluded(c) /\ Goto(c, "send")
    <3>1. Local(c)'
      BY <2>1, <2>4, GotoLocal DEF Running
    <3>2. QED
      BY <2>4, <3>1, GotoStep DEF Running
  <2>5. QED
    BY <1>8, <2>2, <2>3, <2>4 DEF Enforce, EnforceRejects, Excluded
<1>9. ASSUME NEW c \in Containers, Export(c) PROVE IInv'
  BY <1>9, ExportStep
<1>10. ASSUME NEW c \in Containers, SendSucceeds(c) PROVE IInv'
  <2>1. todo[c] = {}
    BY <1>10 DEF SendSucceeds, IInv, Local
  <2>2. Local(c)'
    BY <1>10, <2>1, GotoLocal DEF SendSucceeds, Running
  <2>3. QED
    BY <1>10, <2>2, GotoStep DEF SendSucceeds, Running
<1>11. ASSUME NEW c \in Containers, SendFails(c) PROVE IInv'
  BY <1>11, ReleaseStep DEF SendFails
<1>12. ASSUME NEW c \in Containers, Settle(c) PROVE IInv'
  BY <1>12, ReleaseStep DEF Settle
<1>13. CASE UNCHANGED vars
  <2>1. /\ config' = config /\ status' = status /\ receives' = receives
        /\ pc' = pc /\ batch' = batch /\ todo' = todo /\ unread' = unread
        /\ failures' = failures /\ entries' = entries /\ sent' = sent
        /\ exports' = exports /\ waived' = waived
    BY <1>13 DEF vars, queueVars, invVars
  <2>2. TypeOK' /\ Custody'
    BY <2>1 DEF IInv, TypeOK, Custody
  <2>3. \A c \in Containers : Local(c)'
    BY <2>1, LocalFrame DEF IInv
  <2>4. DeletedIsDelivered' /\ UnlicensedNeverExported'
    BY <2>1, DeletedFrame, UnlicensedFrame DEF IInv
  <2>5. QED
    BY <2>2, <2>3, <2>4 DEF IInv
<1>14. QED
  BY <1>1, <1>2, <1>3, <1>4, <1>5, <1>6, <1>7, <1>8, <1>9, <1>10, <1>11, <1>12,
     <1>13 DEF Next, Handler, Done

-----------------------------------------------------------------------------
(* The invariant holds in every reachable state.                           *)
THEOREM Inductive == Spec => []IInv
<1>1. QED
  BY IInvInit, IInvStep, PTL DEF Spec

(* Every variable keeps its type.                                          *)
THEOREM TypeCorrect == Spec => []TypeOK
<1>1. IInv => TypeOK
  BY DEF IInv
<1>2. QED
  BY <1>1, Inductive, PTL

(* No message leaves the queue for good before its files were delivered,   *)
(* unless a license rejection discarded it.                                *)
THEOREM NoSilentLoss == Spec => []DeletedIsDelivered
<1>1. IInv => DeletedIsDelivered
  BY DEF IInv
<1>2. QED
  BY <1>1, Inductive, PTL

(* What the license does not cover is not exported where it must not be.   *)
THEOREM LicenseIsEnforced == Spec => []UnlicensedNeverExported
<1>1. IInv => UnlicensedNeverExported
  BY DEF IInv
<1>2. QED
  BY <1>1, Inductive, PTL
=============================================================================
