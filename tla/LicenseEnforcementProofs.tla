---------------------- MODULE LicenseEnforcementProofs ----------------------
(***************************************************************************)
(* Proofs about LicenseEnforcement, for all builds, batches, clocks and    *)
(* dates.  The decision is compared with what the terms entitle to first,  *)
(* as a fact about two operators; the invariants then say which decision   *)
(* the state keeps.                                                        *)
(***************************************************************************)
EXTENDS LicenseEnforcement, WellFoundedInduction, TLAPS

USE DEF DetectProductionIndicators

Limits == {"caller", "source", "feature", "resource", "project"}
Places == {"runtime", "bucket", "resource"}

(* The shape a batch has at any time, and in any decision.                 *)
AnyBatch ==
    [mode : {"strict", "warn", "auto"}, token : {"none", "unreadable", "bad", "good"},
     exempt : BOOLEAN, prod : SUBSET Places, offends : SUBSET Limits,
     dense : BOOLEAN, limited : BOOLEAN]

Failing(b, t, r) == {i \in DOMAIN Checks(b, t, r) : Checks(b, t, r)[i].fails}

-----------------------------------------------------------------------------
(***************************************************************************)
(* The change date.                                                        *)
(***************************************************************************)

(* A set of numbers that is not empty has a least one.                     *)
Before == {ss \in Nat \X Nat : ss[1] < ss[2]}

LEMMA SmallestMember ==
    ASSUME NEW S \in SUBSET Nat, S # {}
    PROVE  \E n \in S : \A m \in S : n <= m
<1>1. IsWellFoundedOn(Before, Nat)
  BY NatLessThanWellFounded DEF OpToRel, Before
<1>2. PICK n \in S : \A m \in S : ~ (<<m, n>> \in Before)
  BY <1>1, WFMin, Zenon
<1>3. \A m \in Nat : m < n => <<m, n>> \in Before
  BY DEF Before
<1>4. \A m \in S : ~ (m < n)
  BY <1>2, <1>3
<1>5. \A m \in S : m \in Nat
  OBVIOUS
<1>6. \A m \in S : n <= m
  BY <1>4, <1>5
<1> QED
  BY <1>6

(* A build is converted from the first date on that is a change period     *)
(* after one that was signed for it.                                       *)
LEMMA ConvertedBySignature ==
    ASSUME build \in Build, NEW t \in Nat
    PROVE  IsConverted(build, t) <=> \E d \in SignedDates : Passed(t, d + ChangePeriod)
<1> DEFINE sigs == build.signatures
           present == {i \in DOMAIN sigs : sigs[i] # NoSignature}
<1> USE TimeAssumption
<1>0. /\ DOMAIN sigs \subseteq Nat
      /\ \A i \in DOMAIN sigs : i >= 1 /\ \A k \in 1 .. i : k \in DOMAIN sigs
      /\ \A i \in DOMAIN sigs : sigs[i] \in Signature
      /\ build.date \in Nat \cup {Unknown}
  BY DEF Build
<1>1. CASE present = {}
  <2>1. ~ EvaluateProvenance(build)
    BY <1>1 DEF EvaluateProvenance, ResolveReleaseSignature, NoSignature
  <2>2. SignedDates = {}
    BY <1>1 DEF SignedDates
  <2> QED  BY <2>1, <2>2 DEF IsConverted
<1>2. CASE present # {}
  <2>1. present \in SUBSET Nat
    BY <1>0
  <2>2. \E n \in present : \A j \in present : n <= j
    BY <1>2, <2>1, SmallestMember
  <2> DEFINE n == CHOOSE i \in present : \A j \in present : i <= j
             s == sigs[n]
  <2>3. n \in present /\ \A j \in present : n <= j
    BY <2>2
  <2>4. ResolveReleaseSignature(build) = s
    BY <1>2 DEF ResolveReleaseSignature
  <2> HIDE DEF n
  <2>5. \A j \in DOMAIN sigs :
            (sigs[j] # NoSignature /\ \A k \in 1 .. j - 1 : sigs[k] = NoSignature) <=> j = n
    BY <1>0, <2>3
  <2>6. SignedDates = IF SignedFor(s) THEN {s.date} \ (Unknown .. Genesis - 1) ELSE {}
    BY <2>3, <2>5 DEF SignedDates
  <2>7. s \in Signature
    BY <1>0, <2>3
  <2>8. EvaluateProvenance(build) <=> SignedFor(s) /\ build.date # Unknown
    BY <2>4 DEF EvaluateProvenance, SignedFor
  <2>9. SignedFor(s) => s.date = build.date
    BY DEF SignedFor
  <2> QED
    BY <1>0, <2>6, <2>8, <2>9 DEF IsConverted, ReleaseTime, ChangeDate, Unknown, Passed
<1> QED
  BY <1>1, <1>2

-----------------------------------------------------------------------------
(***************************************************************************)
(* The decision.                                                           *)
(***************************************************************************)

(* The fields of the two kinds of decision.                                *)
LEMMA DecisionFields ==
    ASSUME NEW b, NEW reason, NEW err
    PROVE  /\ Accept(reason).valid \in BOOLEAN /\ Accept(reason).reason = reason
           /\ Accept(reason).err = "nil"
           /\ Refuse(b, reason, err).valid \in BOOLEAN /\ Refuse(b, reason, err).reason = reason
           /\ Strict(b) => Refuse(b, reason, err).err = err
           /\ ~ Strict(b) => Refuse(b, reason, err).err = "nil"
BY DEF Accept, Refuse

(* With a token, the first check that fails decides: it is a fallback, the *)
(* one error of the registry, or a refusal.                                *)
LEMMA FirstCheckDecides ==
    ASSUME NEW b \in AnyBatch, NEW t \in Nat, NEW r \in Replies
    PROVE  \/ /\ Failing(b, t, r) = {}
              /\ Licensed(b, t, r) = Accept("licensed")
           \/ \E i \in Failing(b, t, r) :
                /\ \A j \in Failing(b, t, r) : i <= j
                /\ Licensed(b, t, r) =
                     LET check == Checks(b, t, r)[i] IN
                     IF FallsBack(b, check) THEN Accept("non_prod_free")
                     ELSE IF check.err = "registry_denied"
                          THEN [valid |-> TRUE, reason |-> "licensed",
                                err |-> "registry_denied"]
                          ELSE Refuse(b, check.reason, check.err)
<1> DEFINE F == Failing(b, t, r)
<1>1. F \in SUBSET Nat
  BY DEF Failing, Checks
<1>2. CASE F = {}
  BY <1>2 DEF Licensed, Failing
<1>3. CASE F # {}
  <2>1. \E i \in F : \A j \in F : i <= j
    BY <1>1, <1>3, SmallestMember
  <2> DEFINE i == CHOOSE k \in F : \A j \in F : k <= j
  <2>2. i \in F /\ \A j \in F : i <= j
    BY <2>1
  <2>3. Licensed(b, t, r) =
          LET check == Checks(b, t, r)[i] IN
          IF FallsBack(b, check) THEN Accept("non_prod_free")
          ELSE IF check.err = "registry_denied"
               THEN [valid |-> TRUE, reason |-> "licensed", err |-> "registry_denied"]
               ELSE Refuse(b, check.reason, check.err)
    BY <1>3 DEF Licensed, Failing
  <2> QED  BY <2>2, <2>3
<1> QED  BY <1>2, <1>3

(* What the checks look at, and what they answer.                          *)
LEMMA ChecksSay ==
    ASSUME NEW b \in AnyBatch, NEW t \in Nat, NEW r \in Replies
    PROVE  /\ Failing(b, t, r) \subseteq 1 .. 8
           /\ 1 \in Failing(b, t, r) <=> ~ Verified(b, t)
           /\ 7 \in Failing(b, t, r) => Strict(b)
           /\ Failing(b, t, r) = {} <=>
                /\ Verified(b, t)
                /\ b.offends \subseteq IF b.exempt THEN {"feature"} ELSE {}
                /\ b.limited => ~ RegistryDenied(b, r) /\ ~ r.over
           /\ \A i \in 1 .. 8 : LET check == Checks(b, t, r)[i] IN
                /\ check.err \notin {"nil", "unreadable"}
                /\ check.err = "registry_denied" => i = 7
                /\ check.reason = "unverified" => i = 1
                /\ check.reason \notin {"licensed", "apache_converted", "undecided"}
<1>1. DOMAIN Checks(b, t, r) = 1 .. 8
  BY DEF Checks
<1>2. /\ Checks(b, t, r)[1].fails <=> ~ Verified(b, t)
      /\ Checks(b, t, r)[2].fails <=> "caller" \in b.offends
      /\ Checks(b, t, r)[3].fails <=> "source" \in b.offends
      /\ Checks(b, t, r)[4].fails <=> "feature" \in b.offends /\ ~ b.exempt
      /\ Checks(b, t, r)[5].fails <=> "resource" \in b.offends
      /\ Checks(b, t, r)[6].fails <=> "project" \in b.offends
      /\ Checks(b, t, r)[7].fails <=> b.limited /\ RegistryDenied(b, r)
      /\ Checks(b, t, r)[8].fails <=> b.limited /\ r.over
  BY DEF Checks
<1>3. \A i \in 1 .. 8 : LET check == Checks(b, t, r)[i] IN
        /\ check.err \notin {"nil", "unreadable"}
        /\ check.err = "registry_denied" => i = 7
        /\ check.reason = "unverified" => i = 1
        /\ check.reason \notin {"licensed", "apache_converted", "undecided"}
  BY DEF Checks
<1>4. \A i \in 1 .. 8 : i \in Failing(b, t, r) <=> Checks(b, t, r)[i].fails
  BY <1>1 DEF Failing
<1>5. Failing(b, t, r) \subseteq 1 .. 8
  BY <1>1 DEF Failing
<1>6. Failing(b, t, r) = {} <=>
        /\ Verified(b, t)
        /\ b.offends \subseteq IF b.exempt THEN {"feature"} ELSE {}
        /\ b.limited => ~ RegistryDenied(b, r) /\ ~ r.over
  <2>1. b.offends \subseteq Limits
    BY DEF AnyBatch
  <2>2. Failing(b, t, r) = {} <=> \A i \in 1 .. 8 : i \notin Failing(b, t, r)
    BY <1>5
  <2>3. Failing(b, t, r) = {} <=>
          /\ Verified(b, t)
          /\ "caller" \notin b.offends /\ "source" \notin b.offends
          /\ "feature" \notin b.offends \/ b.exempt
          /\ "resource" \notin b.offends /\ "project" \notin b.offends
          /\ b.limited => ~ RegistryDenied(b, r) /\ ~ r.over
    BY <1>2, <1>4, <2>2
  <2> QED  BY <2>1, <2>3 DEF Limits
<1> QED
  BY <1>2, <1>3, <1>4, <1>5, <1>6 DEF RegistryDenied

(* What comes of a token.                                                  *)
LEMMA TokenDecision ==
    ASSUME NEW b \in AnyBatch, NEW t \in Nat, NEW r \in Replies
    PROVE  LET d == Licensed(b, t, r) IN
           /\ d.valid \in BOOLEAN
           /\ d.err # "nil" => Strict(b)
           /\ Strict(b) => (d.err = "nil" <=> Failing(b, t, r) = {})
           /\ d.reason # "apache_converted"
           /\ d.reason = "licensed" => Verified(b, t)
           /\ d.reason = "unverified" => ~ Verified(b, t)
<1>1. CASE Failing(b, t, r) = {}
  <2>1. Licensed(b, t, r) = Accept("licensed")
    BY <1>1, FirstCheckDecides
  <2>2. Verified(b, t)
    BY <1>1, ChecksSay
  <2> QED  BY <1>1, <2>1, <2>2, DecisionFields
<1>2. CASE Failing(b, t, r) # {}
  <2>1. PICK i \in Failing(b, t, r) :
           /\ \A j \in Failing(b, t, r) : i <= j
           /\ Licensed(b, t, r) =
                LET check == Checks(b, t, r)[i] IN
                IF FallsBack(b, check) THEN Accept("non_prod_free")
                ELSE IF check.err = "registry_denied"
                     THEN [valid |-> TRUE, reason |-> "licensed",
                           err |-> "registry_denied"]
                     ELSE Refuse(b, check.reason, check.err)
    BY <1>2, FirstCheckDecides
  <2> DEFINE check == Checks(b, t, r)[i]
  <2>2. /\ i \in 1 .. 8
        /\ check.err \notin {"nil", "unreadable"}
        /\ check.err = "registry_denied" => i = 7
        /\ check.reason = "unverified" => i = 1
        /\ check.reason \notin {"licensed", "apache_converted", "undecided"}
    BY ChecksSay
  <2>3. /\ i = 1 => ~ Verified(b, t)
        /\ i = 7 => Verified(b, t) /\ Strict(b)
    BY <2>1, <2>2, ChecksSay
  <2>4. CASE FallsBack(b, check)
    BY <1>2, <2>1, <2>4, DecisionFields DEF FallsBack
  <2>5. CASE ~ FallsBack(b, check) /\ check.err = "registry_denied"
    BY <1>2, <2>1, <2>2, <2>3, <2>5
  <2>6. CASE ~ FallsBack(b, check) /\ check.err # "registry_denied"
    <3>1. Licensed(b, t, r) = Refuse(b, check.reason, check.err)
      BY <2>1, <2>6
    <3>2. /\ Licensed(b, t, r).valid \in BOOLEAN
          /\ Licensed(b, t, r).reason = check.reason
          /\ Strict(b) => Licensed(b, t, r).err = check.err
          /\ ~ Strict(b) => Licensed(b, t, r).err = "nil"
      BY <3>1, DecisionFields
    <3> QED  BY <1>2, <2>2, <2>3, <3>2
  <2> QED  BY <2>4, <2>5, <2>6
<1> QED  BY <1>1, <1>2

(* The early returns of a decision.                                        *)
LEMMA EnforceReturns ==
    ASSUME NEW b \in AnyBatch, NEW t \in Nat, NEW r \in Replies
    PROVE  \/ /\ IsConverted(build, t)
              /\ Enforce(b, t, r) = Accept("apache_converted")
           \/ Enforce(b, t, r) = FreeUse(b, r)
           \/ /\ Strict(b)
              /\ Enforce(b, t, r) = [valid |-> FALSE, reason |-> "none", err |-> "unreadable"]
           \/ Enforce(b, t, r) = Refuse(b, "unlicensed_production", "license_required")
           \/ Enforce(b, t, r) = Licensed(b, t, r)
BY DEF Enforce

(* A decision says whether it is valid, and an error is strict.            *)
LEMMA ErrorsAreStrict ==
    ASSUME NEW b \in AnyBatch, NEW t \in Nat, NEW r \in Replies
    PROVE  /\ Enforce(b, t, r).valid \in BOOLEAN
           /\ Enforce(b, t, r).err # "nil" => Strict(b)
<1> DEFINE Fine(d) == d.valid \in BOOLEAN /\ (d.err # "nil" => Strict(b))
<1>1. Fine(FreeUse(b, r))
  BY DEF FreeUse, Accept, Refuse, RegistryDenied
<1>2. Fine(Licensed(b, t, r))
  BY TokenDecision
<1>3. Fine(Accept("apache_converted"))
  BY DecisionFields
<1>4. Fine(Refuse(b, "unlicensed_production", "license_required"))
  BY DecisionFields
<1>5. Strict(b) => Fine([valid |-> FALSE, reason |-> "none", err |-> "unreadable"])
  OBVIOUS
<1> HIDE DEF Fine
<1>6. Fine(Enforce(b, t, r))
  BY <1>1, <1>2, <1>3, <1>4, <1>5, EnforceReturns
<1> QED
  BY <1>6 DEF Fine

(* In strict mode the free grant covers a batch as the terms say.          *)
LEMMA FreeUseIsExact ==
    ASSUME NEW b \in AnyBatch, NEW r \in Replies, Strict(b)
    PROVE  FreeUse(b, r).err = "nil" <=>
             b.prod = {} /\ ~ b.dense /\ ~ r.over /\ r.err # "denied"
BY DEF FreeUse, Accept, Refuse, RegistryDenied, AnyBatch, Replies

(* In strict mode a token covers a batch as the terms say.                 *)
LEMMA TokenIsExact ==
    ASSUME NEW b \in AnyBatch, NEW t \in Nat, NEW r \in Replies, Strict(b)
    PROVE  Licensed(b, t, r).err = "nil" <=>
             /\ Verified(b, t)
             /\ b.offends \subseteq IF b.exempt THEN {"feature"} ELSE {}
             /\ b.limited => ~ r.over /\ r.err # "denied"
<1>1. Licensed(b, t, r).err = "nil" <=> Failing(b, t, r) = {}
  BY TokenDecision
<1> QED
  BY <1>1, ChecksSay DEF RegistryDenied

(* In strict mode a decision lets a batch through exactly if it is         *)
(* entitled.                                                               *)
LEMMA DecisionIsExact ==
    ASSUME build \in Build,
           NEW b \in AnyBatch, NEW t \in Nat, NEW r \in Replies, Strict(b)
    PROVE  Enforce(b, t, r).err = "nil" <=> Entitled(b, t, r)
<1>1. CASE IsConverted(build, t)
  BY <1>1, ConvertedBySignature DEF Enforce, Entitled, Accept
<1>2. CASE ~ IsConverted(build, t) /\ Tokenless(b)
  <2>1. ~ Verified(b, t)
    BY <1>2 DEF Verified, Tokenless
  <2>2. CASE b.exempt
    BY <1>2, <2>1, <2>2, ConvertedBySignature, FreeUseIsExact DEF Enforce, Entitled
  <2>3. CASE ~ b.exempt
    BY <1>2, <2>1, <2>3, ConvertedBySignature DEF Enforce, Entitled, Refuse
  <2> QED  BY <2>2, <2>3
<1>3. CASE ~ IsConverted(build, t) /\ ~ Tokenless(b)
  BY <1>3, ConvertedBySignature, TokenIsExact DEF Enforce, Entitled, Tokenless
<1> QED
  BY <1>1, <1>2, <1>3

(* What a status says of the license is true at the time of the decision.  *)
LEMMA ReasonsAreTrue ==
    ASSUME NEW b \in AnyBatch, NEW t \in Nat, NEW r \in Replies
    PROVE  LET reason == Enforce(b, t, r).reason IN
           /\ reason = "licensed" => t < GraceEnd
           /\ reason = "apache_converted" => IsConverted(build, t)
           /\ reason = "unverified" /\ b.token = "good" => t >= GraceEnd
<1>1. FreeUse(b, r).reason \notin {"licensed", "apache_converted", "unverified"}
  BY DEF FreeUse, Accept, Refuse
<1>2. LET reason == Licensed(b, t, r).reason IN
      /\ reason # "apache_converted"
      /\ reason = "licensed" => Verified(b, t)
      /\ reason = "unverified" => ~ Verified(b, t)
  BY TokenDecision
<1>3. /\ Verified(b, t) => t < GraceEnd
      /\ ~ Verified(b, t) /\ b.token = "good" => t >= GraceEnd
  BY TimeAssumption DEF Verified
<1> QED
  BY <1>1, <1>2, <1>3 DEF Enforce, Accept, Refuse

(* The time a decision is taken for is near the authoritative one.         *)
LEMMA EvalTimeIsNear ==
    ASSUME NEW c \in Nat, NEW a \in Nat \cup {Unknown}
    PROVE  /\ EvalTime(c, a) \in Nat
           /\ a # Unknown => EvalTime(c, a) - a <= Drift /\ a - EvalTime(c, a) <= Drift
BY TimeAssumption DEF EvalTime, Anchored, Unknown

(* The preflight sees no more than the files add to.                       *)
LEMMA BaselineIsLess ==
    ASSUME NEW b \in AnyBatch
    PROVE  /\ Baseline(b) \in AnyBatch
           /\ Baseline(b).mode = b.mode /\ Baseline(b).token = b.token
           /\ Baseline(b).exempt = b.exempt /\ Baseline(b).limited = b.limited
           /\ Baseline(b).prod = b.prod \ {"resource"} /\ Baseline(b).dense = FALSE
           /\ Baseline(b).offends = b.offends \cap {"caller", "project"}
BY DEF Baseline, AnyBatch, Limits, Places

-----------------------------------------------------------------------------
(***************************************************************************)
(* The invariants.                                                         *)
(***************************************************************************)

(* The batch keeps its shape, and its decision is about a time near the    *)
(* authoritative one; what the status says was true then; an error is      *)
(* strict; and at the end of a strict invocation the decision was exact,   *)
(* about the whole batch or about what was known of it before.             *)
StateInv ==
    /\ build \in Build
    /\ batch \in AnyBatch
    /\ auth \in Nat \cup {Unknown} /\ clock \in Nat
    /\ reply \in Replies

VerdictInv ==
    /\ verdict.valid \in BOOLEAN
    /\ verdict.at \in Nat
    /\ batch.mode = "warn" => verdict.err = "nil"
    /\ verdict.reason = "licensed" => verdict.at < GraceEnd
    /\ verdict.reason = "apache_converted" => IsConverted(build, verdict.at)
    /\ verdict.reason = "unverified" /\ batch.token = "good" => verdict.at >= GraceEnd
    /\ verdict.reason # "undecided" /\ auth # Unknown =>
            verdict.at - auth <= Drift /\ auth - verdict.at <= Drift

IInv == TypeOK /\ StateInv /\ VerdictInv /\ StrictIsExact

LEMMA Initially == Init => IInv
<1> SUFFICES ASSUME Init PROVE IInv
  OBVIOUS
<1> USE TimeAssumption, BatchAssumption, BuildAssumption
<1>1. batch \in AnyBatch
  BY DEF Init, Batch, AnyBatch, Limits, Places
<1>2. StateInv
  BY <1>1 DEF Init, StateInv, Replies, Silent
<1>3. TypeOK
  <2>1. batch.prod \in Indicated /\ batch.mode \in Modes /\ batch.token \in Tokens
    BY DEF Init, Batch
  <2> QED  BY <1>2, <2>1 DEF Init, TypeOK, StateInv
<1>4. VerdictInv
  BY DEF Init, VerdictInv
<1>5. StrictIsExact
  BY DEF Init, StrictIsExact
<1> QED
  BY <1>2, <1>3, <1>4, <1>5 DEF IInv

(* Whichever part of the batch a decision is about, it is a true verdict.  *)
LEMMA DecideKeepsVerdict ==
    ASSUME StateInv, NEW b \in AnyBatch, NEW r \in Replies, Decide(b, r),
           b.mode = batch.mode, b.token = batch.token
    PROVE  /\ verdict'.at \in Nat
           /\ verdict'.valid \in BOOLEAN
           /\ verdict'.err = Enforce(b, verdict'.at, r).err
           /\ verdict'.err # "nil" => Strict(b)
           /\ batch.mode = "warn" => verdict'.err = "nil"
           /\ verdict'.reason = "licensed" => verdict'.at < GraceEnd
           /\ verdict'.reason = "apache_converted" => IsConverted(build, verdict'.at)
           /\ verdict'.reason = "unverified" /\ batch.token = "good" =>
                 verdict'.at >= GraceEnd
           /\ auth # Unknown =>
                 verdict'.at - auth <= Drift /\ auth - verdict'.at <= Drift
<1> DEFINE t == EvalTime(clock, auth)
           d == Enforce(b, t, r)
<1>1. /\ verdict'.valid = d.valid /\ verdict'.reason = d.reason
      /\ verdict'.err = d.err /\ verdict'.at = t
  BY DEF Decide
<1>2. /\ t \in Nat
      /\ auth # Unknown => t - auth <= Drift /\ auth - t <= Drift
  BY EvalTimeIsNear DEF StateInv
<1>3. d.valid \in BOOLEAN /\ (d.err # "nil" => Strict(b))
  BY <1>2, ErrorsAreStrict
<1>4. /\ d.reason = "licensed" => t < GraceEnd
      /\ d.reason = "apache_converted" => IsConverted(build, t)
      /\ d.reason = "unverified" /\ b.token = "good" => t >= GraceEnd
  BY <1>2, ReasonsAreTrue
<1>5. b.mode = "warn" => ~ Strict(b)
  BY DEF Strict, Mode
<1> HIDE DEF t, d
<1>6. verdict'.valid \in BOOLEAN
  BY <1>1, <1>3
<1>7. d = Enforce(b, t, r)
  BY DEF d
<1> QED
  BY <1>1, <1>2, <1>3, <1>4, <1>5, <1>6, <1>7

LEMMA PreflightKeeps == ASSUME IInv, Preflight PROVE IInv'
<1> USE DEF IInv
<1> DEFINE b == Baseline(batch)
<1>1. b \in AnyBatch /\ b.mode = batch.mode /\ b.token = batch.token
  BY BaselineIsLess DEF StateInv
<1>2. Silent \in Replies
  BY DEF Silent, Replies
<1>3. Decide(b, Silent)
  BY DEF Preflight
<1>4. UNCHANGED <<build, batch, auth, clock, reply>>
  BY DEF Preflight
<1> HIDE DEF b
<1>5. /\ verdict'.at \in Nat
      /\ verdict'.valid \in BOOLEAN
      /\ verdict'.err = Enforce(b, verdict'.at, Silent).err
      /\ verdict'.err # "nil" => Strict(b)
      /\ batch.mode = "warn" => verdict'.err = "nil"
      /\ verdict'.reason = "licensed" => verdict'.at < GraceEnd
      /\ verdict'.reason = "apache_converted" => IsConverted(build, verdict'.at)
      /\ verdict'.reason = "unverified" /\ batch.token = "good" =>
            verdict'.at >= GraceEnd
      /\ auth # Unknown => verdict'.at - auth <= Drift /\ auth - verdict'.at <= Drift
  BY <1>1, <1>2, <1>3, DecideKeepsVerdict
<1>6. StateInv'
  BY <1>4 DEF StateInv
<1>7. TypeOK'
  BY <1>4, <1>5 DEF TypeOK, Preflight
<1>8. VerdictInv'
  BY <1>4, <1>5 DEF VerdictInv, IsConverted, EvaluateProvenance,
        ResolveReleaseSignature, ReleaseTime, ChangeDate
<1>9. StrictIsExact'
  <2> SUFFICES ASSUME phase' = "done"
               PROVE  (verdict.err # "nil"
                         /\ ~ Entitled(Baseline(batch), verdict.at, Silent))'
    BY DEF StrictIsExact
  <2>1. verdict'.err # "nil"
    BY DEF Preflight
  <2>2. ~ Entitled(b, verdict'.at, Silent)
    BY <1>1, <1>2, <1>5, <2>1, DecisionIsExact DEF StateInv
  <2>3. Baseline(batch)' = b
    BY <1>4 DEF Baseline, b
  <2>4. SignedDates' = SignedDates
    BY <1>4 DEF SignedDates, SignedFor
  <2>5. Entitled(Baseline(batch), verdict.at, Silent)'
          <=> Entitled(b, verdict'.at, Silent)
    BY <2>3, <2>4 DEF Entitled
  <2> QED
    BY <2>1, <2>2, <2>5
<1> QED
  BY <1>6, <1>7, <1>8, <1>9

LEMMA ProcessKeeps == ASSUME IInv, Process PROVE IInv'
<1> USE DEF IInv
<1> USE TimeAssumption
<1>1. /\ batch' \in AnyBatch
      /\ batch'.mode = batch.mode /\ batch'.token = batch.token
      /\ batch'.prod \subseteq batch.prod
  BY DEF Process, StateInv, AnyBatch, Places
<1>2. UNCHANGED <<build, auth, reply, verdict>>
  BY DEF Process
<1>3. clock' \in Clocks
  BY DEF Process
<1>4. StateInv'
  BY <1>1, <1>2, <1>3 DEF StateInv
<1>5. TypeOK'
  BY <1>1, <1>2, <1>3 DEF TypeOK, Process
<1>6. VerdictInv'
  BY <1>1, <1>2 DEF VerdictInv, IsConverted, EvaluateProvenance,
        ResolveReleaseSignature, ReleaseTime, ChangeDate
<1>7. StrictIsExact'
  BY DEF StrictIsExact, Process
<1> QED
  BY <1>4, <1>5, <1>6, <1>7

LEMMA EnforceBatchKeeps == ASSUME IInv, EnforceBatch PROVE IInv'
<1> USE DEF IInv
<1>1. batch \in AnyBatch
  BY DEF StateInv
<1>2. reply' \in Replies /\ Decide(batch, reply')
  BY DEF EnforceBatch
<1>3. UNCHANGED <<build, batch, auth, clock>>
  BY DEF EnforceBatch
<1>4. /\ verdict'.at \in Nat
      /\ verdict'.valid \in BOOLEAN
      /\ verdict'.err = Enforce(batch, verdict'.at, reply').err
      /\ batch.mode = "warn" => verdict'.err = "nil"
      /\ verdict'.reason = "licensed" => verdict'.at < GraceEnd
      /\ verdict'.reason = "apache_converted" => IsConverted(build, verdict'.at)
      /\ verdict'.reason = "unverified" /\ batch.token = "good" =>
            verdict'.at >= GraceEnd
      /\ auth # Unknown => verdict'.at - auth <= Drift /\ auth - verdict'.at <= Drift
  BY <1>1, <1>2, DecideKeepsVerdict
<1>5. StateInv'
  BY <1>2, <1>3 DEF StateInv
<1>6. TypeOK'
  BY <1>2, <1>3, <1>4 DEF TypeOK, EnforceBatch
<1>7. VerdictInv'
  BY <1>3, <1>4 DEF VerdictInv, IsConverted, EvaluateProvenance,
        ResolveReleaseSignature, ReleaseTime, ChangeDate
<1>8. StrictIsExact'
  <2> SUFFICES ASSUME Strict(batch)
               PROVE  (verdict.err = "nil" <=> Entitled(batch, verdict.at, reply))'
    BY <1>3 DEF StrictIsExact, Strict, Mode
  <2>1. verdict'.err = "nil" <=> Entitled(batch, verdict'.at, reply')
    BY <1>1, <1>2, <1>4, DecisionIsExact DEF StateInv
  <2>2. SignedDates' = SignedDates
    BY <1>3 DEF SignedDates, SignedFor
  <2> QED
    BY <1>3, <2>1, <2>2 DEF Entitled, Verified, Tokenless
<1> QED
  BY <1>5, <1>6, <1>7, <1>8

LEMMA StutterKeeps == ASSUME IInv, UNCHANGED vars PROVE IInv'
<1> USE DEF IInv, vars
<1>1. StateInv' /\ TypeOK'
  BY DEF StateInv, TypeOK
<1>2. VerdictInv'
  BY DEF VerdictInv, IsConverted, EvaluateProvenance, ResolveReleaseSignature,
         ReleaseTime, ChangeDate
<1>3. StrictIsExact'
  <2>1. SignedDates' = SignedDates
    BY DEF SignedDates, SignedFor
  <2> QED
    BY <2>1 DEF StrictIsExact, Strict, Mode, Entitled, Verified, Tokenless, Baseline
<1> QED
  BY <1>1, <1>2, <1>3

LEMMA NextKeeps == ASSUME IInv, [Next]_vars PROVE IInv'
<1>1. CASE Preflight
  BY <1>1, PreflightKeeps
<1>2. CASE Process
  BY <1>2, ProcessKeeps
<1>3. CASE EnforceBatch
  BY <1>3, EnforceBatchKeeps
<1>4. CASE UNCHANGED vars
  BY <1>4, StutterKeeps
<1> QED
  BY <1>1, <1>2, <1>3, <1>4 DEF Next, Done

LEMMA Invariance == Spec => []IInv
<1>1. Init => IInv
  BY Initially
<1>2. IInv /\ [Next]_vars => IInv'
  BY NextKeeps
<1> QED
  BY <1>1, <1>2, PTL DEF Spec

-----------------------------------------------------------------------------
(***************************************************************************)
(* The theorems.                                                           *)
(***************************************************************************)

(* The batch keeps its shape, and every decision is one of the known ones, *)
(* at a time that exists.                                                  *)
THEOREM TypeCorrect == Spec => []TypeOK
<1>1. IInv => TypeOK
  BY DEF IInv
<1> QED
  BY <1>1, Invariance, PTL

(* Strict mode stops exactly what is not entitled: no build, batch, token, *)
(* clock or answer of the registry makes the order of the early returns    *)
(* and the fallbacks of Enforce differ from what the terms say.            *)
THEOREM StrictExact == Spec => []StrictIsExact
<1>1. IInv => StrictIsExact
  BY DEF IInv
<1> QED
  BY <1>1, Invariance, PTL

(* DIVMORA_LICENSE_MODE=warn never stops telemetry.                        *)
THEOREM WarnHarmless == Spec => []WarnNeverStops
<1>1. IInv => WarnNeverStops
  BY DEF IInv, VerdictInv, WarnNeverStops
<1> QED
  BY <1>1, Invariance, PTL

(* A wrong clock moves the end of a license and the change date by the     *)
(* tolerated drift at most.                                                *)
THEOREM ClockDefended == Spec => []ClockDefence
<1>1. IInv => ClockDefence
  <2> SUFFICES ASSUME IInv, auth # Unknown
               PROVE  /\ verdict.reason = "licensed" => auth < GraceEnd + Drift
                      /\ verdict.reason = "apache_converted" =>
                            \E d \in SignedDates : auth >= d + ChangePeriod - Drift
                      /\ verdict.reason = "unverified" /\ batch.token = "good" =>
                            auth >= GraceEnd - Drift
    BY DEF ClockDefence
  <2> USE TimeAssumption DEF IInv, StateInv, VerdictInv
  <2>1. verdict.reason \in {"licensed", "apache_converted", "unverified"} =>
          verdict.at - auth <= Drift /\ auth - verdict.at <= Drift
    OBVIOUS
  <2>2. ASSUME verdict.reason = "apache_converted"
        PROVE  \E d \in SignedDates : auth >= d + ChangePeriod - Drift
    <3>1. PICK d \in SignedDates : Passed(verdict.at, d + ChangePeriod)
      BY <2>2, ConvertedBySignature
    <3>2. d = build.date
      BY DEF SignedDates, SignedFor
    <3>3. d \in Int
      BY <3>2 DEF Build, Unknown
    <3> QED  BY <2>1, <2>2, <3>1, <3>3 DEF Passed
  <2> QED  BY <2>1, <2>2
<1> QED
  BY <1>1, Invariance, PTL

(* What PreflightEnforce turns away before a file is read, Enforce would   *)
(* turn away at that time, whatever the files hold and the registry says.  *)
THEOREM PreflightSound == Spec => PreflightIsSound
<1> DEFINE Full(files, offends, dense) ==
              [batch EXCEPT !.prod = @ \cup files,
                            !.offends = offends \cup (@ \cap {"caller", "project"}),
                            !.dense = dense]
<1>1. ASSUME IInv, Preflight, verdict'.err # "nil",
             NEW files \in SUBSET {"resource"}, NEW offends \in Offending,
             NEW dense \in BOOLEAN, NEW r \in Replies
      PROVE  Enforce(Full(files, offends, dense), verdict'.at, r).err # "nil"
  <2> DEFINE b == Baseline(batch)
             full == Full(files, offends, dense)
  <2>1. Silent \in Replies /\ Decide(b, Silent)
    BY <1>1 DEF Preflight, Silent, Replies
  <2>2. batch \in AnyBatch /\ build \in Build
    BY <1>1 DEF IInv, StateInv
  <2>3. /\ b \in AnyBatch /\ b.mode = batch.mode /\ b.token = batch.token
        /\ b.exempt = batch.exempt /\ b.limited = batch.limited
        /\ b.prod = batch.prod \ {"resource"} /\ b.dense = FALSE
        /\ b.offends = batch.offends \cap {"caller", "project"}
    BY <2>2, BaselineIsLess
  <2>4. full \in AnyBatch
    BY <2>2, BatchAssumption DEF AnyBatch, Limits, Places
  <2>5. /\ full.mode = batch.mode /\ full.token = batch.token
        /\ full.exempt = batch.exempt /\ full.limited = batch.limited
        /\ b.prod \subseteq full.prod /\ b.offends \subseteq full.offends
    BY <2>2, <2>3 DEF AnyBatch
  <2> HIDE DEF b, full
  <2>6. /\ verdict'.at \in Nat
        /\ verdict'.err = Enforce(b, verdict'.at, Silent).err
        /\ verdict'.err # "nil" => Strict(b)
    BY <1>1, <2>1, <2>3, DecideKeepsVerdict DEF IInv
  <2>7. Strict(b) /\ Strict(full)
    BY <1>1, <2>3, <2>5, <2>6 DEF Strict, Mode
  <2>8. ~ Entitled(b, verdict'.at, Silent)
    BY <1>1, <2>1, <2>2, <2>3, <2>6, <2>7, DecisionIsExact
  <2>9. ~ Entitled(full, verdict'.at, r)
    BY <2>3, <2>5, <2>8 DEF Entitled, Tokenless, Verified, Silent
  <2> QED
    BY <2>2, <2>4, <2>6, <2>7, <2>9, DecisionIsExact DEF full
<1>2. IInv /\ [Next]_vars =>
        [Preflight /\ verdict'.err # "nil" =>
          \A files \in SUBSET {"resource"}, offends \in Offending, dense \in BOOLEAN,
             r \in Replies :
             Enforce(Full(files, offends, dense), verdict'.at, r).err # "nil"]_vars
  BY <1>1
<1> QED
  BY <1>2, Invariance, PTL DEF Spec, PreflightIsSound
=============================================================================
