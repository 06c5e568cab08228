------------------------- MODULE LicenseEnforcement -------------------------
(***************************************************************************)
(* The license decision of one invocation: PreflightEnforce before the     *)
(* files are read, Enforce after, both of src/pkg/license/enforcer.go.     *)
(*                                                                         *)
(* A batch is described by what the decision tells apart: the deployment   *)
(* (mode, exempt environment, token), the production indicators, and which *)
(* checks of the license the batch offends against.  Time passes between   *)
(* the two decisions, and the clock of the container may be wrong.         *)
(***************************************************************************)
EXTENDS ReleaseTerms

CONSTANTS
    Builds,         \* the builds of the program to explore
    Modes,          \* values of DIVMORA_LICENSE_MODE to explore
    Tokens,         \* "none", "unreadable", "bad" or "good"
    Indicated,      \* where a batch may show production keywords, and
    Offending,      \* what of a license it may offend against: sets of both
    Clocks,         \* what the container's clock may show
    AuthTimes,      \* SentTimestamp of the first message, Unknown without one
    Drift,          \* the skew Enforce tolerates, 15 minutes
    GraceEnd        \* the token's expiration plus its grace period

ASSUME TimeAssumption ==
    /\ Clocks \subseteq Nat
    /\ AuthTimes \subseteq Nat \cup {Unknown}
    /\ Drift \in Nat /\ GraceEnd \in Nat
    /\ Genesis \in Nat /\ ChangePeriod \in Nat

ASSUME BuildAssumption == Builds \subseteq Build

ASSUME BatchAssumption ==
    /\ Modes \subseteq {"strict", "warn", "auto"}
    /\ Tokens \subseteq {"none", "unreadable", "bad", "good"}
    /\ Indicated \subseteq SUBSET {"runtime", "bucket", "resource"}
    /\ Offending \subseteq SUBSET {"caller", "source", "feature", "resource", "project"}

(* A production keyword may be in the function name or the project, in a   *)
(* bucket, or in a monitored resource; a licensed batch may offend against *)
(* one or more of the license's limits.  The one grant of the policy lists *)
(* the environments that IsNonProductionEnvironment lists, so that the two *)
(* tests of the code, and that of AssertFeature, are the same here.        *)
Batch ==
    [mode : Modes, token : Tokens,
     exempt : BOOLEAN,              \* the environment has the non-production grant
     prod : Indicated,
     offends : Offending,
     dense : BOOLEAN,               \* more records than the fair-use ceilings
     limited : BOOLEAN]             \* the license has a max_resources

(* What RegisterAndCount returns: is the count above the limit, and which  *)
(* error.  A denied publication returns the count 0.                       *)
Replies ==
    [over : BOOLEAN, err : {"nil", "unavailable", "denied"}]
Silent == [over |-> FALSE, err |-> "nil"]

VARIABLES
    build,          \* the build of the program
    batch, auth,    \* the batch, and its authoritative time
    clock,          \* the container's clock
    phase,          \* "preflight", "process", "enforce" or "done"
    reply,          \* of the registry
    verdict         \* the last decision, at the time it was evaluated for

vars == <<build, batch, auth, clock, phase, reply, verdict>>

-----------------------------------------------------------------------------
(***************************************************************************)
(* The decision.                                                           *)
(***************************************************************************)

(* The bug takes the authoritative time although there is none.            *)
Anchored_Bug(c, a) == c - a > Drift \/ a - c > Drift
Anchored(c, a) == a # Unknown /\ (c - a > Drift \/ a - c > Drift)

EvalTime_Bug(c, a) == c
EvalTime(c, a) == IF Anchored(c, a) THEN a ELSE c

DetectProductionIndicators(b) == b.prod # {}

(* A mode left to the code is strict where production is suspected.        *)
Mode(b) ==
    IF b.mode # "auto" THEN b.mode
    ELSE IF DetectProductionIndicators(b) \/ ~b.exempt THEN "strict" ELSE "warn"
Strict(b) == Mode(b) = "strict"

Accept(reason) == [valid |-> TRUE, reason |-> reason, err |-> "nil"]
Refuse(b, reason, err) ==
    [valid |-> FALSE, reason |-> reason, err |-> IF Strict(b) THEN err ELSE "nil"]

(* A denied registry is an error in strict mode only; any other failure of *)
(* it is logged.                                                           *)
RegistryDenied_Bug(b, r) == r.err = "denied"
RegistryDenied(b, r) == Strict(b) /\ r.err = "denied"

(* No token where the grant applies: free use, up to the ceilings.         *)
FreeUse(b, r) ==
    CASE DetectProductionIndicators(b) ->
            IF Strict(b) THEN Refuse(b, "unlicensed_production", "license_required")
                         ELSE Accept("suspected_production")
      [] ~DetectProductionIndicators(b) /\ RegistryDenied(b, r) ->
            [valid |-> FALSE, reason |-> "registry_error", err |-> "registry_denied"]
      [] ~DetectProductionIndicators(b) /\ ~RegistryDenied(b, r) /\ (b.dense \/ r.over) ->
            IF Strict(b) THEN Refuse(b, "quota_exceeded", "quota_exceeded")
                         ELSE Accept("quota_exceeded")
      [] OTHER -> Accept("non_prod_free")

Verified(b, t) == b.token = "good" /\ t < GraceEnd

(* The checks of a token, in the order of the code: does the batch fail,   *)
(* the status and the error, and may a batch in an exempt environment fall *)
(* back to free use?                                                       *)
Checks(b, t, r) == <<
    [fails |-> ~Verified(b, t), reason |-> "unverified", err |-> "unverified",
     falls |-> TRUE],
    [fails |-> "caller" \in b.offends, reason |-> "account_mismatch",
     err |-> "account_mismatch", falls |-> TRUE],
    [fails |-> "source" \in b.offends, reason |-> "source_account_mismatch",
     err |-> "account_mismatch", falls |-> TRUE],
    [fails |-> "feature" \in b.offends /\ ~b.exempt, reason |-> "feature_not_entitled",
     err |-> "feature_not_entitled", falls |-> FALSE],
    [fails |-> "resource" \in b.offends, reason |-> "resource_not_allowed",
     err |-> "resource_not_allowed", falls |-> FALSE],
    [fails |-> "project" \in b.offends, reason |-> "project_mismatch",
     err |-> "scope_mismatch", falls |-> TRUE],
    [fails |-> b.limited /\ RegistryDenied(b, r), reason |-> "registry_error",
     err |-> "registry_denied", falls |-> FALSE],
    [fails |-> b.limited /\ r.over, reason |-> "resource_quota_exceeded",
     err |-> "quota_exceeded", falls |-> FALSE] >>

(* The bug falls back in strict mode too. *)
FallsBack_Bug(b, check) ==
    check.falls /\ b.exempt /\ ~DetectProductionIndicators(b)
FallsBack(b, check) ==
    check.falls /\ ~Strict(b) /\ b.exempt /\ ~DetectProductionIndicators(b)

Licensed(b, t, r) ==
    LET failing == {i \in DOMAIN Checks(b, t, r) : Checks(b, t, r)[i].fails}
        first   == Checks(b, t, r)[CHOOSE i \in failing : \A j \in failing : i <= j]
    IN  IF failing = {} THEN Accept("licensed")
        ELSE IF FallsBack(b, first) THEN Accept("non_prod_free")
        ELSE IF first.err = "registry_denied"
             THEN [valid |-> TRUE, reason |-> "licensed", err |-> "registry_denied"]
             ELSE Refuse(b, first.reason, first.err)

(* A token file that cannot be read counts as no token, except that strict *)
(* mode reports it where a token is needed: no status and a plain error.   *)
Tokenless(b) == b.token \in {"none", "unreadable"}

Enforce(b, t, r) ==
    IF IsConverted(build, t) THEN Accept("apache_converted")
    ELSE IF b.exempt /\ Tokenless(b) THEN FreeUse(b, r)
    ELSE IF b.token = "unreadable" /\ Strict(b)
         THEN [valid |-> FALSE, reason |-> "none", err |-> "unreadable"]
    ELSE IF Tokenless(b) THEN Refuse(b, "unlicensed_production", "license_required")
    ELSE Licensed(b, t, r)

(* IsDeterministicLicenseError. *)
Deterministic(err) == err \notin {"nil", "unreadable"}

(* PreflightEnforce: nothing of what the files contain; the bug decides    *)
(* strictly whatever the mode.                                             *)
Baseline_Bug(b) ==
    [b EXCEPT !.prod = @ \ {"resource"}, !.dense = FALSE,
              !.offends = @ \cap {"caller", "project"}, !.mode = "strict"]
Baseline(b) ==
    [b EXCEPT !.prod = @ \ {"resource"}, !.dense = FALSE,
              !.offends = @ \cap {"caller", "project"}]

-----------------------------------------------------------------------------
(***************************************************************************)
(* The invocation.                                                         *)
(***************************************************************************)

Init ==
    /\ build \in Builds
    /\ batch \in Batch
    /\ auth \in AuthTimes
    /\ clock \in Clocks
    /\ phase = "preflight"
    /\ reply = Silent
    /\ verdict = [valid |-> TRUE, reason |-> "undecided", err |-> "nil", at |-> 0]

Decide(b, r) ==
    LET t == EvalTime(clock, auth)
        d == Enforce(b, t, r)
    IN  verdict' = [valid |-> d.valid, reason |-> d.reason, err |-> d.err, at |-> t]

Preflight ==
    /\ phase = "preflight"
    /\ Decide(Baseline(batch), Silent)
    /\ phase' = IF verdict'.err = "nil" THEN "process" ELSE "done"
    /\ UNCHANGED <<build, batch, auth, clock, reply>>

(* The files are read and parsed.  Only the buckets of the files that were *)
(* are looked at again, unless there are none.                             *)
Process ==
    /\ phase = "process"
    /\ clock' \in {c \in Clocks : c >= clock}
    /\ batch' \in {batch, [batch EXCEPT !.prod = @ \ {"bucket"}]}
    /\ phase' = "enforce"
    /\ UNCHANGED <<build, auth, reply, verdict>>

EnforceBatch ==
    /\ phase = "enforce"
    /\ \E r \in Replies :
          /\ reply' = r
          /\ Decide(batch, r)
    /\ phase' = "done"
    /\ UNCHANGED <<build, batch, auth, clock>>

Done == phase = "done" /\ UNCHANGED vars

Next == Preflight \/ Process \/ EnforceBatch \/ Done

Spec == Init /\ [][Next]_vars

-----------------------------------------------------------------------------
(* The batch keeps its shape, and a decision is one of the known ones, at  *)
(* a time that exists.                                                     *)
TypeOK ==
    /\ build \in Builds
    /\ \E B \in Indicated : batch.prod \subseteq B
    /\ batch.mode \in Modes /\ batch.token \in Tokens
    /\ auth \in AuthTimes /\ clock \in Clocks
    /\ phase \in {"preflight", "process", "enforce", "done"}
    /\ reply \in Replies
    /\ verdict.valid \in BOOLEAN /\ verdict.at \in Nat

(* The signature that takes precedence, wherever one is there, is of the   *)
(* release authority, and speaks of this build as far as both say what     *)
(* they speak of.                                                          *)
SignedFor(s) ==
    /\ s.genuine /\ s.date = build.date
    /\ s.product \in {Product, "*", "all", ""}
    /\ build.version \in {s.version, "dev", ""}
    /\ SameCommit(s.commit, build.commit)
    /\ "" \in {build.digest, s.digest} \/ build.digest = s.digest
SignedDates ==
    {build.signatures[i].date : i \in {j \in DOMAIN build.signatures :
        /\ build.signatures[j] # NoSignature
        /\ \A k \in 1 .. j - 1 : build.signatures[k] = NoSignature
        /\ SignedFor(build.signatures[j])}} \ (Unknown .. Genesis - 1)

(* What the license terms entitle a batch to, said without the order in    *)
(* which the code looks: the build was signed a change period ago, or the  *)
(* free grant covers the batch, or a verified token covers all of it.      *)
Entitled(b, t, r) ==
    \/ \E d \in SignedDates : Passed(t, d + ChangePeriod)
    \/ /\ b.exempt /\ Tokenless(b) /\ b.prod = {}
       /\ ~b.dense /\ ~r.over /\ r.err # "denied"
    \/ /\ Verified(b, t)
       /\ b.offends \subseteq IF b.exempt THEN {"feature"} ELSE {}
       /\ b.limited => ~r.over /\ r.err # "denied"

(* Strict mode lets a batch through to the endpoint exactly when it is     *)
(* entitled: neither a fallback nor an early return lets through what the  *)
(* terms exclude, nor turns away what they cover.                          *)
StrictIsExact ==
    phase = "done" /\ Strict(batch) /\ verdict.reason # "undecided" =>
        \/ verdict.err = "nil" <=> Entitled(batch, verdict.at, reply)
        \/ verdict.err # "nil" /\ ~Entitled(Baseline(batch), verdict.at, Silent)

(* What PreflightEnforce turns away, before any file is read, Enforce      *)
(* would turn away at that time whatever the files hold and whatever the   *)
(* registry answers: no batch is discarded on a guess.                     *)
PreflightIsSound ==
    [][Preflight /\ verdict'.err # "nil" =>
          \A files \in SUBSET {"resource"}, offends \in Offending, dense \in BOOLEAN, r \in Replies :
             LET full == [batch EXCEPT !.prod = @ \cup files,
                                       !.offends = offends \cup (@ \cap {"caller", "project"}),
                                       !.dense = dense]
             IN  Enforce(full, verdict'.at, r).err # "nil"]_vars

(* DIVMORA_LICENSE_MODE=warn never stops telemetry: neither decision ever  *)
(* returns an error, whatever the token, the batch, the registry and the   *)
(* clock (docs/plans.md:186).                                              *)
WarnNeverStops == batch.mode = "warn" => verdict.err = "nil"

(* A container clock that is wrong, or turned back, moves a decision by    *)
(* the tolerated drift at most: against the time of the message a license  *)
(* is neither honoured longer nor refused earlier, and the change date is  *)
(* not reached earlier, than that.                                         *)
ClockDefence ==
    auth # Unknown =>
        /\ verdict.reason = "licensed" => auth < GraceEnd + Drift
        /\ verdict.reason = "apache_converted" =>
              \E d \in SignedDates : auth >= d + ChangePeriod - Drift
        /\ verdict.reason = "unverified" /\ batch.token = "good" =>
              auth >= GraceEnd - Drift
=============================================================================
