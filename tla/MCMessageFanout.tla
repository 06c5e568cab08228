-------------------------- MODULE MCMessageFanout ---------------------------
(* Three messages: an EventBridge event for a load balancer's file; a      *)
(* direct notification with a distribution's file, a record without a key, *)
(* an object no processor wants and a web ACL's file; and a body that is   *)
(* no S3 event.  The caller's account owns the load balancer only.         *)
EXTENDS MessageFanout, TLC

CONSTANTS m1, m2, m3

MCMessages == {m1, m2, m3}
MCBuckets == {"logs", "aws-waf-logs-x", "prod-misc"}
MCWafBuckets == {"aws-waf-logs-x"}

LB == Key("", "111", "elasticloadbalancing", "us-east-1", {"_app."}, "gz",
          Resource("111", "us-east-1", "app/web/1"), TRUE)
CF == Key("", "222", "CloudFront", "E1", {"dist.date"}, "parquet",
          Resource("222", "", "E1"), FALSE)
ACL == Key("", "222", "WAFLogs", "eu-west-1", {"_waflogs_"}, "gz",
           Resource("222", "eu-west-1", "acl/2"), TRUE)
Other == Key("", "", "", "", {}, "txt", Resource("", "", ""), FALSE)
MCKeys == {LB, CF, ACL, Other}

Rec(bucket, key, escaped) == [bucket |-> bucket, key |-> key, escaped |-> escaped]
NoRecord == Rec(NoName, NoKey, FALSE)
EventBridge(r) == [eventBridge |-> r, direct |-> <<>>]
Direct(rs) == [eventBridge |-> NoRecord, direct |-> rs]

MCBody ==
    m1 :> EventBridge(Rec("logs", LB, FALSE)) @@
    m2 :> Direct(<<Rec("logs", CF, TRUE), Rec("logs", NoKey, FALSE),
                   Rec("prod-misc", Other, FALSE), Rec("aws-waf-logs-x", ACL, FALSE)>>) @@
    m3 :> Direct(<<>>)

MCCaller == "111"
MCLimits == 0 .. 2
=============================================================================
