----------------------- MODULE StreamPipelineProofs -----------------------
(***************************************************************************)
(* Theorems about StreamPipeline for every object, pool size and channel   *)
(* capacity: no send on a closed channel, and the promise of FileRead.     *)
(*                                                                         *)
(* Two strengthenings carry them.  CloseInv follows the order in which the *)
(* goroutines end: the reading goroutine, the pool, the closer, the        *)
(* caller.  PlaceInv says where a record is: it was not read yet, or it is *)
(* in exactly one of the two channels, the hands of a worker and the       *)
(* collected entries.                                                      *)
(***************************************************************************)
EXTENDS StreamPipeline, TLAPS

-----------------------------------------------------------------------------
(* Who may still run when a channel is closed, and when the error is set.  *)
CloseInv ==
    /\ inClosed <=> prodPc = "done"
    /\ prodPc \in {"failed", "close", "done"} => next = readable + 1
    /\ prodPc \in {"close", "done"} => (readErr <=> Noticed)
    /\ prodPc = "failed" => Noticed
    /\ prodPc \in {"read", "send", "failed"} => ~readErr
    /\ prodPc \in {"read", "send"} => next <= readable + 1
    /\ prodPc = "send" => next <= readable
    /\ \A w \in Workers : pc[w] = "done" => inClosed /\ in = {}
    /\ outClosed => \A w \in Workers : pc[w] = "done"
    /\ verdict \in {"nil", "error"} => outClosed /\ out = {}
    /\ readable <= Records
    /\ fault = "none" <=> readable = Records

Held(i) == \E w \in Workers : pc[w] \in {"parse", "put"} /\ item[w] = i

(* Where every record is.                                                  *)
PlaceInv ==
    /\ in \subseteq 1 .. next - 1
    /\ \A w \in Workers :
          pc[w] \in {"parse", "put"} =>
             item[w] \in 1 .. next - 1 /\ item[w] \notin in
    /\ \A w \in Workers : pc[w] = "put" => item[w] \in Good
    /\ \A v, w \in Workers :
          /\ v # w
          /\ pc[v] \in {"parse", "put"} /\ pc[w] \in {"parse", "put"}
          => item[v] # item[w]
    /\ \A i \in out : i < next /\ i \notin in /\ ~Held(i) /\ entries[i] = 0
    /\ \A i \in Good :
          /\ entries[i] \in {0, 1}
          /\ entries[i] = 1 => i < next /\ i \notin in /\ ~Held(i)
    /\ \A i \in Good :
          i < next => i \in in \/ Held(i) \/ i \in out \/ entries[i] = 1

IInv == TypeOK /\ CloseInv /\ PlaceInv

-----------------------------------------------------------------------------
(* The invariant holds initially.                                          *)
LEMMA IInvInit == Init => IInv
<1> SUFFICES ASSUME Init PROVE IInv
  OBVIOUS
<1> USE DEF Init
<1>1. TypeOK
  <2>1. next \in 1 .. Records + 1 /\ 0 \in 0 .. Records
    BY ObjectAssumption
  <2>2. item \in [Workers -> 0 .. Records]
    BY <2>1
  <2>3. entries \in [Good -> Nat]
    OBVIOUS
  <2>4. QED
    BY <2>1, <2>2, <2>3 DEF TypeOK, Faults
<1>2. CloseInv
  BY ObjectAssumption, PoolAssumption DEF CloseInv
<1>3. PlaceInv
  BY ObjectAssumption DEF PlaceInv, Held, Good
<1>4. QED
  BY <1>1, <1>2, <1>3 DEF IInv

(* The type invariant is inductive by itself.                              *)
LEMMA TypeStep == IInv /\ [Next]_vars => TypeOK'
<1> SUFFICES ASSUME IInv, [Next]_vars PROVE TypeOK'
  OBVIOUS
<1> USE ObjectAssumption DEF IInv, TypeOK, objectVars, producerVars, channelVars,
        workerVars, callerVars
<1>1. CASE Producer
  <2>1. CASE Read
    BY <2>1 DEF Read
  <2>2. CASE Send
    <3>1. next \in 1 .. Records /\ next + 1 \in 1 .. Records + 1
      BY <2>2 DEF Send, CloseInv
    <3>2. QED
      BY <2>2, <3>1 DEF Send
  <2>3. CASE EndOfStream
    <3>1. prodPc' \in {"failed", "close"}
      BY <2>3, Zenon DEF EndOfStream
    <3>2. QED
      BY <2>3, <3>1 DEF EndOfStream
  <2>4. CASE StoreError
    BY <2>4 DEF StoreError
  <2>5. CASE CloseIn
    BY <2>5 DEF CloseIn
  <2>6. QED
    BY <1>1, <2>1, <2>2, <2>3, <2>4, <2>5 DEF Producer
<1>2. ASSUME NEW w \in Workers, Worker(w) PROVE TypeOK'
  <2>1. CASE Take(w)
    BY <2>1 DEF Take
  <2>2. CASE Parse(w)
    BY <2>2 DEF Parse
  <2>3. CASE Put(w)
    BY <2>3 DEF Put, PlaceInv
  <2>4. CASE Stop(w)
    BY <2>4 DEF Stop
  <2>5. QED
    BY <1>2, <2>1, <2>2, <2>3, <2>4 DEF Worker
<1>3. CASE CloseOut
  BY <1>3 DEF CloseOut
<1>4. CASE Caller
  <2>1. CASE Collect
    BY <2>1 DEF Collect
  <2>2. CASE Return
    BY <2>2 DEF Return
  <2>3. CASE Panic
    BY <2>3 DEF Panic
  <2>4. QED
    BY <1>4, <2>1, <2>2, <2>3 DEF Caller
<1>5. CASE UNCHANGED vars
  BY <1>5 DEF vars
<1>6. QED
  BY <1>1, <1>2, <1>3, <1>4, <1>5 DEF Next, Finished

(* The order of the ends is kept.                                          *)
LEMMA CloseStep == IInv /\ [Next]_vars => CloseInv'
<1> SUFFICES ASSUME IInv, [Next]_vars PROVE CloseInv'
  OBVIOUS
<1> USE ObjectAssumption DEF IInv, TypeOK, CloseInv, objectVars, producerVars,
        channelVars, workerVars, callerVars, Noticed, Swallowed
<1>1. CASE Producer
  <2>1. CASE Read
    BY <2>1 DEF Read, HasRecord
  <2>2. CASE Send
    BY <2>2 DEF Send
  <2>3. CASE EndOfStream
    <3>1. next = readable + 1 /\ prodPc = "read"
      BY <2>3 DEF EndOfStream, HasRecord
    <3>2. CASE Noticed
      <4>1. prodPc' = "failed"
        BY <2>3, <3>2, Zenon DEF EndOfStream
      <4>2. QED
        BY <2>3, <3>1, <3>2, <4>1 DEF EndOfStream
    <3>3. CASE ~Noticed
      <4>1. prodPc' = "close"
        BY <2>3, <3>3, Zenon DEF EndOfStream
      <4>2. readErr = FALSE
        BY <3>1
      <4>3. QED
        BY <2>3, <3>1, <3>3, <4>1, <4>2 DEF EndOfStream
    <3>4. QED
      BY <3>2, <3>3
  <2>4. CASE StoreError
    BY <2>4 DEF StoreError
  <2>5. CASE CloseIn
    BY <2>5 DEF CloseIn
  <2>6. QED
    BY <1>1, <2>1, <2>2, <2>3, <2>4, <2>5 DEF Producer
<1>2. ASSUME NEW w \in Workers, Worker(w) PROVE CloseInv'
  <2>1. CASE Take(w)
    BY <2>1 DEF Take
  <2>2. CASE Parse(w)
    BY <2>2 DEF Parse
  <2>3. CASE Put(w)
    BY <2>3 DEF Put
  <2>4. CASE Stop(w)
    BY <2>4 DEF Stop
  <2>5. QED
    BY <1>2, <2>1, <2>2, <2>3, <2>4 DEF Worker
<1>3. CASE CloseOut
  BY <1>3 DEF CloseOut, PoolEnded
<1>4. CASE Caller
  <2>1. CASE Collect
    BY <2>1 DEF Collect
  <2>2. CASE Return
    BY <2>2 DEF Return
  <2>3. CASE Panic
    BY <2>3 DEF Panic
  <2>4. QED
    BY <1>4, <2>1, <2>2, <2>3 DEF Caller
<1>5. CASE UNCHANGED vars
  BY <1>5 DEF vars
<1>6. QED
  BY <1>1, <1>2, <1>3, <1>4, <1>5 DEF Next, Finished

(* A record moves from one place to the next and is never in two.          *)
LEMMA PlaceStep == IInv /\ [Next]_vars => PlaceInv'
<1> SUFFICES ASSUME IInv, [Next]_vars PROVE PlaceInv'
  OBVIOUS
<1> USE ObjectAssumption DEF IInv, TypeOK, PlaceInv, Held, Good, objectVars,
        producerVars, channelVars, workerVars, callerVars
<1>1. CASE Producer
  <2>1. CASE Read
    BY <2>1 DEF Read
  <2>2. CASE Send
    <3>1. next' = next + 1 /\ in' = in \cup {next} /\ next \in Nat
      BY <2>2 DEF Send
    <3>2. pc' = pc /\ item' = item /\ out' = out /\ entries' = entries
      BY <2>2 DEF Send
    <3>3. QED
      BY <3>1, <3>2
  <2>3. CASE EndOfStream
    BY <2>3 DEF EndOfStream
  <2>4. CASE StoreError
    BY <2>4 DEF StoreError
  <2>5. CASE CloseIn
    BY <2>5 DEF CloseIn
  <2>6. QED
    BY <1>1, <2>1, <2>2, <2>3, <2>4, <2>5 DEF Producer
<1>2. ASSUME NEW w \in Workers, Worker(w) PROVE PlaceInv'
  <2>1. CASE Take(w)
    <3>1. PICK i \in in : in' = in \ {i} /\ item' = [item EXCEPT ![w] = i]
      BY <2>1 DEF Take
    <3>2. /\ pc[w] = "take" /\ pc' = [pc EXCEPT ![w] = "parse"]
          /\ next' = next /\ out' = out /\ entries' = entries
      BY <2>1 DEF Take
    <3>3. \A j : Held(j)' <=> Held(j) \/ j = i
      BY <3>1, <3>2
    <3>4. QED
      BY <3>1, <3>2, <3>3
  <2>2. CASE Parse(w)
    BY <2>2 DEF Parse
  <2>3. CASE Put(w)
    <3>1. /\ pc[w] = "put" /\ pc' = [pc EXCEPT ![w] = "take"]
          /\ item' = [item EXCEPT ![w] = 0] /\ out' = out \cup {item[w]}
          /\ next' = next /\ in' = in /\ entries' = entries
      BY <2>3 DEF Put
    <3>2. \A j : Held(j)' <=> Held(j) /\ j # item[w]
      BY <3>1
    <3>3. entries[item[w]] = 0
      BY <3>1
    <3>4. QED
      BY <3>1, <3>2, <3>3
  <2>4. CASE Stop(w)
    BY <2>4 DEF Stop
  <2>5. QED
    BY <1>2, <2>1, <2>2, <2>3, <2>4 DEF Worker
<1>3. CASE CloseOut
  BY <1>3 DEF CloseOut
<1>4. CASE Caller
  <2>1. CASE Collect
    BY <2>1 DEF Collect
  <2>2. CASE Return
    BY <2>2 DEF Return
  <2>3. CASE Panic
    BY <2>3 DEF Panic
  <2>4. QED
    BY <1>4, <2>1, <2>2, <2>3 DEF Caller
<1>5. CASE UNCHANGED vars
  BY <1>5 DEF vars
<1>6. QED
  BY <1>1, <1>2, <1>3, <1>4, <1>5 DEF Next, Finished

(* The strengthened invariant holds in every reachable state.              *)
THEOREM Inductive == Spec => []IInv
<1>1. IInv /\ [Next]_vars => IInv'
  BY TypeStep, CloseStep, PlaceStep DEF IInv
<1>2. QED
  BY IInvInit, <1>1, PTL DEF Spec

(* Every variable keeps its type.                                          *)
THEOREM TypeCorrect == Spec => []TypeOK
<1>1. IInv => TypeOK
  BY DEF IInv
<1>2. QED
  BY <1>1, Inductive, PTL

(* No goroutine sends on a closed channel, so none panics.                 *)
THEOREM SendsAreSafe == Spec => []NoSendOnClosed
<1>1. IInv => NoSendOnClosed
  BY DEF IInv, CloseInv, NoSendOnClosed
<1>2. QED
  BY <1>1, Inductive, PTL

(* The functions implement FileRead: without an error every record that    *)
(* parses was collected, and none twice, whatever the pool did.            *)
THEOREM Refinement == Spec => ImplementsFileRead
<1>1. Init => Promise!Init
  BY DEF Init, Promise!Init
<1>2. IInv /\ [Next]_vars => [Promise!Next]_(Promise!vars)
  <2> SUFFICES ASSUME IInv, [Next]_vars
               PROVE  [Promise!Next]_(Promise!vars)
    OBVIOUS
  <2> USE DEF objectVars, producerVars, channelVars, workerVars, callerVars
  <2>1. CASE Collect
    <3>1. PICK i \in out : entries' = [entries EXCEPT ![i] = @ + 1]
      BY <2>1 DEF Collect
    <3>2. i \in Good /\ entries[i] = 0 /\ entries \in [Good -> Nat]
      BY DEF IInv, PlaceInv, TypeOK
    <3>3. entries' = [entries EXCEPT ![i] = 1]
      BY <3>1, <3>2
    <3>4. verdict = "pending" /\ verdict' = verdict
      BY <2>1 DEF Collect
    <3>5. QED
      BY <3>2, <3>3, <3>4 DEF Promise!Next, Promise!Collect
  <2>2. CASE Return
    <3>1. /\ verdict = "pending" /\ entries' = entries
          /\ reader' = reader /\ fault' = fault
      BY <2>2 DEF Return
    <3>2. CASE verdict' = "error"
      BY <3>1, <3>2 DEF Promise!Next, Promise!Return
    <3>3. CASE verdict' = "nil" /\ Swallowed
      <4>1. Swallowed'
        BY <3>1, <3>3 DEF Swallowed
      <4>2. QED
        BY <3>1, <3>3, <4>1 DEF Promise!Next, Promise!Return
    <3>4. CASE verdict' = "nil" /\ ~Swallowed
      <4>1. ~readErr /\ outClosed /\ out = {}
        BY <2>2, <3>4 DEF Return
      <4>2. \A w \in Workers : pc[w] = "done"
        BY <4>1 DEF IInv, CloseInv
      <4>3. prodPc = "done" /\ in = {}
        BY <4>2, PoolAssumption DEF IInv, CloseInv
      <4>4. next = readable + 1 /\ ~Noticed
        BY <4>1, <4>3 DEF IInv, CloseInv
      <4>5. fault = "none"
        BY <3>4, <4>4 DEF Noticed
      <4>6. next = Records + 1
        BY <4>4, <4>5 DEF IInv, CloseInv
      <4>7. \A i \in Good : i < next
        BY <4>6, ObjectAssumption DEF Good
      <4>8. \A i : ~Held(i)
        BY <4>2 DEF Held
      <4>9. Promise!Complete
        BY <4>1, <4>3, <4>7, <4>8 DEF IInv, PlaceInv, Promise!Complete
      <4>10. ~Swallowed'
        BY <3>1, <3>4 DEF Swallowed
      <4>11. QED
        BY <3>1, <3>4, <4>9, <4>10 DEF Promise!Next, Promise!Return
    <3>5. verdict' \in {"error", "nil"}
      BY <2>2, Zenon DEF Return
    <3>6. QED
      BY <3>2, <3>3, <3>4, <3>5
  <2>3. CASE Producer
    BY <2>3 DEF Producer, Read, Send, EndOfStream, StoreError, CloseIn, Swallowed,
          Promise!vars
  <2>4. ASSUME NEW w \in Workers, Worker(w)
        PROVE  [Promise!Next]_(Promise!vars)
    <3>1. UNCHANGED <<reader, fault, entries, verdict>>
      BY <2>4 DEF Worker, Take, Parse, Put, Stop
    <3>2. QED
      BY <3>1 DEF Swallowed, Promise!vars
  <2>5. CASE CloseOut
    BY <2>5 DEF CloseOut, Swallowed, Promise!vars
  <2>6. CASE UNCHANGED vars
    BY <2>6 DEF vars, Swallowed, Promise!vars
  <2>7. CASE Panic
    BY <2>7 DEF Panic, Swallowed, Promise!vars
  <2>8. QED
    BY <2>1, <2>2, <2>3, <2>4, <2>5, <2>6, <2>7 DEF Next, Caller, Finished
<1>3. QED
  BY Inductive, <1>1, <1>2, PTL DEF Spec, Promise!Spec, ImplementsFileRead
=============================================================================
