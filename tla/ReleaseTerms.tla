----------------------------- MODULE ReleaseTerms -----------------------------
(***************************************************************************)
(* When a build of the program stops being under the Business Source       *)
(* License: src/pkg/version (version.go, provenance.go) and GetBSLPolicy   *)
(* of src/pkg/license/enforcer.go.                                         *)
(*                                                                         *)
(* A build has what the linker put into it, the digest of its executable,  *)
(* and the release signatures found for it: embedded, in the environment,  *)
(* in a file beside it.  The two seconds that datesMatch tolerates are     *)
(* nothing in the unit of time.                                            *)
(***************************************************************************)
EXTENDS Integers, Sequences

CONSTANTS
    Genesis,        \* ProductGenesisEpoch
    ChangePeriod,   \* three years
    OnTheDate,      \* whether BSLPolicy.IsConverted, of the library, counts the
                    \* change date itself
    Abbreviates     \* pairs of a short commit id and one it is a prefix of

ASSUME TermsAssumption ==
    /\ OnTheDate \in BOOLEAN
    /\ Abbreviates \subseteq STRING \X STRING

Unknown == -1       \* a date that is missing or malformed
Product == "otel-aws-log-processor"

(* What a signature claims; "" stands for a claim that is missing.         *)
NoSignature ==
    [genuine |-> FALSE, product |-> "", version |-> "", commit |-> "",
     date |-> Unknown, digest |-> ""]

Signature ==
    [genuine : BOOLEAN, product : STRING, version : STRING, commit : STRING,
     date : Nat \cup {Unknown}, digest : STRING]
Build ==
    [version : STRING, commit : STRING, date : Nat \cup {Unknown}, digest : STRING,
     signatures : Seq(Signature)]

(* The first signature that is there, even if it is not genuine.           *)
ResolveReleaseSignature(b) ==
    LET present == {i \in DOMAIN b.signatures : b.signatures[i] # NoSignature}
    IN  IF present = {} THEN NoSignature
        ELSE b.signatures[CHOOSE i \in present : \A j \in present : i <= j]

(* Equal, or one is a prefix of the other; what is missing is no mismatch. *)
SameCommit(signed, built) ==
    \/ signed = "" \/ built \in {"", "none", signed}
    \/ {<<signed, built>>, <<built, signed>>} \cap Abbreviates # {}

(* Provenance.Verified: the signature is of the release authority, and for *)
(* this build.  The bug does not look at the commit.                       *)
EvaluateProvenance_Bug(b) ==
    LET s == ResolveReleaseSignature(b) IN
    /\ s.genuine
    /\ s.product \in {"", "*", "all", Product}
    /\ b.version \in {"", "dev", s.version}
    /\ s.date = b.date /\ b.date # Unknown
    /\ s.digest = "" \/ b.digest \in {"", s.digest}
EvaluateProvenance(b) ==
    LET s == ResolveReleaseSignature(b) IN
    /\ s.genuine
    /\ s.product \in {"", "*", "all", Product}
    /\ b.version \in {"", "dev", s.version}
    /\ SameCommit(s.commit, b.commit)
    /\ s.date = b.date /\ b.date # Unknown
    /\ s.digest = "" \/ b.digest \in {"", s.digest}

(* A build date from before the product existed is no date.                *)
ReleaseTime(b) == IF b.date < Genesis THEN Unknown ELSE b.date

ChangeDate(b) == ReleaseTime(b) + ChangePeriod

(* IsApacheConverted wants a time after the change date, and suffices; the *)
(* policy may be satisfied with the date itself.                           *)
Passed(t, date) == t > date \/ (OnTheDate /\ t = date)

(* GetBSLPolicy().IsConverted, or IsApacheConverted.                       *)
IsConverted(b, t) ==
    EvaluateProvenance(b) /\ ReleaseTime(b) # Unknown /\ Passed(t, ChangeDate(b))
=============================================================================
