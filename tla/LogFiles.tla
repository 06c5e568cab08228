------------------------------ MODULE LogFiles ------------------------------
(***************************************************************************)
(* What the function reads off the name of a log file and off its records: *)
(* the processor that handles it (src/pkg/processor), the account it comes *)
(* from and the monitored resource it belongs to (src/pkg/license,         *)
(* src/pkg/utils).                                                         *)
(*                                                                         *)
(* A key is described by the parts those functions look for.  In           *)
(*   prefix/AWSLogs/account/service/folder/.../marks.suffix                *)
(* prefix, folder and the AWSLogs part may be missing; marks are fragments *)
(* like "_app." of the file name, one of which names the resource.  What   *)
(* the records say is described by arns, whether they carry an ARN of the  *)
(* resource's account and region (target group, certificate, web ACL).     *)
(***************************************************************************)
EXTENDS Naturals, Sequences

CONSTANTS
    WafBuckets      \* the buckets whose name starts with "aws-waf-logs-"

Key(prefix, account, service, folder, marks, suffix, resource, arns) ==
    [prefix |-> prefix, account |-> account, service |-> service,
     folder |-> folder, marks |-> marks, suffix |-> suffix,
     resource |-> resource, arns |-> arns]

NoName == ""                                    \* an empty bucket name

(* The resource itself, whatever it is called: where it is, and its id.    *)
Resource(account, region, id) == [account |-> account, region |-> region, id |-> id]

NoKey == Key("", "", "", "", {}, "", Resource("", "", ""), FALSE) \* an empty key

-----------------------------------------------------------------------------
(***************************************************************************)
(* Matches, Registry.Find and the features a file exercises.               *)
(***************************************************************************)
ALBMatches(b, k) == k.service = "elasticloadbalancing" /\ "_app." \in k.marks
NLBMatches(b, k) == k.service = "elasticloadbalancing" /\ "_net." \in k.marks
CloudFrontMatches(b, k) ==
    /\ k.prefix = "" /\ k.account # ""
    /\ k.service = "CloudFront"
    /\ k.suffix \in {"gz", "parquet"}
    /\ "dist.date" \in k.marks
WAFMatches(b, k) ==
    /\ b \in WafBuckets
    /\ k.service = "WAFLogs"
    /\ "_waflogs_" \in k.marks

(* The registered processors, in the order of init().                      *)
Matches(b, k) ==
    <<[name |-> "ALB", match |-> ALBMatches(b, k)],
      [name |-> "NLB", match |-> NLBMatches(b, k)],
      [name |-> "CloudFront", match |-> CloudFrontMatches(b, k)],
      [name |-> "WAF", match |-> WAFMatches(b, k)]>>

NoProcessor == "none"

(* The first processor that matches.                                       *)
Find(b, k) ==
    LET matching == {i \in 1 .. 4 : Matches(b, k)[i].match}
    IN  IF matching = {} THEN NoProcessor
        ELSE Matches(b, k)[CHOOSE i \in matching : \A j \in matching : i <= j].name

(* The features a file with entries needs a license for; that of a plain   *)
(* parser has the name of its processor here.                              *)
FeatureNames ==
    {"ALB", "NLB", "WAF", "parser.cloudfront.parquet", "parser.cloudfront.gzip",
     "enrichment.user_agent"}
Features(b, k, enrich) ==
    LET p == Find(b, k)
    IN  {CASE p = "CloudFront" /\ k.suffix = "parquet" -> "parser.cloudfront.parquet"
           [] p = "CloudFront" /\ k.suffix # "parquet" -> "parser.cloudfront.gzip"
           [] OTHER -> p}
        \cup (IF enrich /\ p \in {"ALB", "CloudFront", "WAF"}
              THEN {"enrichment.user_agent"} ELSE {})

-----------------------------------------------------------------------------
(***************************************************************************)
(* Accounts and regions.                                                   *)
(***************************************************************************)

(* ParseRegionAccountFromS3Key: both, or neither.  The pattern wants a     *)
(* folder after the service.                                               *)
KeyHasRegion(k) == k.account # "" /\ k.folder # ""
KeyAccount(k) == IF KeyHasRegion(k) THEN k.account ELSE ""
KeyRegion(k) == IF KeyHasRegion(k) THEN k.folder ELSE ""

(* cloud.account.id and cloud.region of an entry: those of the ARN in the  *)
(* record, or else those of the key (EnsureRegionAccountAttributes).  All  *)
(* records of a file have ARNs, with a region and an account, or none has. *)
(* The bug has those of the record only.                                   *)
EntryAccount_Bug(b, k) ==
    IF k.arns /\ Find(b, k) # "CloudFront" THEN k.resource.account ELSE ""
EntryAccount(b, k) ==
    IF k.arns /\ Find(b, k) # "CloudFront" THEN k.resource.account ELSE KeyAccount(k)
EntryRegion(b, k) ==
    IF Find(b, k) = "CloudFront" \/ (Find(b, k) = "WAF" /\ ~k.arns) THEN "global"
    ELSE IF k.arns THEN k.resource.region ELSE KeyRegion(k)

-----------------------------------------------------------------------------
(***************************************************************************)
(* The names of a monitored resource.                                      *)
(***************************************************************************)
Arn(service, region, account, id) ==
    [service |-> service, region |-> region, account |-> account, id |-> id]
ShortID(id) == Arn("", "", "", id)

LoadBalancer(region, account, id) ==
    IF region # "" /\ account # ""
    THEN Arn("elasticloadbalancing", region, account, id) ELSE ShortID(id)
Distribution(account, id) == Arn("cloudfront", "", account, id)
WebACL(region, account, id) ==
    IF account = "" THEN ShortID(id)
    ELSE Arn("wafv2", IF region = "" THEN "global" ELSE region, account, id)

(* ExtractResourceFromAttributes, on the attributes of an entry.           *)
NameInEntry(b, k) ==
    LET account == EntryAccount(b, k)
        region  == EntryRegion(b, k)
        id      == k.resource.id
    IN  CASE Find(b, k) \in {"ALB", "NLB"} -> LoadBalancer(region, account, id)
          [] Find(b, k) = "CloudFront" -> Distribution(account, id)
          [] OTHER -> WebACL(region, account, id)

(* ExtractResourceFromS3Key falls back to a pattern for the account that   *)
(* wants no folder.  The name of a web ACL is not looked for in the file   *)
(* name but in a folder called aws-waf-logs-something.                     *)
NamesInKey(b, k) ==
    CASE k.service = "elasticloadbalancing" /\ k.marks \cap {"_app.", "_net."} # {} ->
            {LoadBalancer(KeyRegion(k), k.account, k.resource.id)}
      [] "dist.date" \in k.marks -> {Distribution(k.account, k.resource.id)}
      [] k.service = "WAFLogs" /\ k.prefix = "aws-waf-logs-" ->
            {WebACL(KeyRegion(k), k.account, k.prefix)}
      [] OTHER -> {}
=============================================================================
