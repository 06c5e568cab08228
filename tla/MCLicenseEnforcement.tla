------------------------ MODULE MCLicenseEnforcement ------------------------
(* Two units of drift are tolerated; the license ends at 4 and the build   *)
(* converts after 8, so that a clock, right or wrong by less or more than  *)
(* the drift, meets each decision before, at and after both dates.         *)
EXTENDS LicenseEnforcement, FiniteSets

MCModes == {"strict", "warn", "auto"}
MCTokens == {"none", "unreadable", "bad", "good"}
MCIndicated == {{}, {"runtime"}, {"bucket"}, {"resource"}, {"bucket", "resource"}}
MCOffending ==
    {S \in SUBSET {"caller", "source", "feature", "resource", "project"} :
        Cardinality(S) <= 1} \cup {{"feature", "project"}}

(* An official release of time 5, whose binary has the short form of its   *)
(* commit, and a build of other sources that uses its signature.           *)
MCAbbreviates == {<<"c1", "c1f0">>}
OfficialSignature ==
    [genuine |-> TRUE, product |-> Product, version |-> "1.0", commit |-> "c1f0",
     date |-> 5, digest |-> "d1"]
Official ==
    [version |-> "1.0", commit |-> "c1", date |-> 5, digest |-> "d1",
     signatures |-> <<NoSignature, OfficialSignature>>]
Custom == [Official EXCEPT !.commit = "c2"]
MCBuilds == {Official, Custom}

MCClocks == {1, 4, 8, 9}
MCAuthTimes == {Unknown, 3, 7}
=============================================================================
