-------------------------- MODULE MCActiveResources --------------------------
(* Two resources, of which the quota allows one.  A license beside its     *)
(* renewal and a license of its own kind; a license whose registry is      *)
(* elsewhere; a free environment beside another one, of a project or of    *)
(* none, or authorised although its name is productive; a license for      *)
(* another project; and one without a limit.                               *)
EXTENDS ActiveResources, TLC

CONSTANTS r1, r2

MCArns == {r1, r2}
MCRegions == {"us-east-1", "eu-west-1"}
MCHere == "eu-west-1"
MCNonProd == {"dev", "test"}
MCLasting == {r1}

Deployed(license, free, env) ==
    [license |-> license, free |-> free, env |-> env, project |-> "p"]
Production(license) == Deployed(license, FALSE, "prod")
Free(env) == Deployed(NoLicense, TRUE, env)
Unnamed(env) == [Free(env) EXCEPT !.project = ""]

Plain == [NoLicense EXCEPT !.id = "l0", !.org = "o", !.max = 1]
Subscribed == [Plain EXCEPT !.id = "l1", !.subscription = "s"]
Renewed == [Subscribed EXCEPT !.id = "l2"]
Central == [Plain EXCEPT !.global = TRUE]
Misplaced == [Plain EXCEPT !.project = "q", !.registryRegion = "us-east-1"]
Unlimited == [Central EXCEPT !.max = 0, !.metricsRegion = "eu-west-1"]

Setup(o, batches, rest, elsewhere) ==
    [own |-> o, batches |-> batches, others |-> rest, elsewhere |-> elsewhere]

MCSetups ==
    {Setup(Production(Renewed), {{r1}, {r2}}, {Production(Subscribed)}, {{r2}}),
     Setup(Production(Plain), {{r1}, {r2}}, {Production(Subscribed)}, {{r2}}),
     Setup(Production(Central), {{}, {r1}}, {Production(Central)}, {{r1}, {r2}}),
     Setup(Free("dev"), {{r1, r2}, {r1}}, {Free("test")}, {{r2}}),
     Setup(Unnamed("dev"), {{r1}}, {Unnamed("test"), Unnamed("lab")}, {{r2}}),
     Setup(Free("lab"), {{r1}}, {Free("stage"), Free("test")}, {{r2}}),
     Setup(Production(Misplaced), {{}, {r1}}, {}, {}),
     Setup(Production(Unlimited), {{r1}, {r2}}, {}, {})}
=============================================================================
