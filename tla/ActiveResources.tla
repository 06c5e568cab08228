--------------------------- MODULE ActiveResources ---------------------------
(***************************************************************************)
(* How many monitored resources are active, for the quota of the license   *)
(* and for the metric: what a container keeps between invocations (the     *)
(* ResourceTracker of src/pkg/license/enforcer.go, the registries per      *)
(* region of src/cmd/lambda/main.go), which registry and which entitlement *)
(* key an invocation uses (src/pkg/license/model.go), and what Enforce and *)
(* the metric make of it.                                                  *)
(*                                                                         *)
(* One container is modelled.  Containers share nothing but the heartbeats *)
(* in CloudWatch, so that the others are an environment that writes some,  *)
(* under the key of whatever they are deployed with.  For the same reason  *)
(* an invocation is one step: what others write between its requests they  *)
(* may as well write before.  A call of RegisterAndCount has its requests  *)
(* and its clocks in CloudWatchRegistry.  Time is left out here: a lease   *)
(* or a heartbeat may end at any moment.                                   *)
(***************************************************************************)
EXTENDS Naturals, FiniteSets

CONSTANTS
    Setups,         \* of the container and the others: what they may be
                    \* deployed with, and the resources of their batches
    Regions, Arns,
    Here,           \* GetCurrentRegion
    Lasting,        \* the resources that are in use for good
    NonProd,        \* the names of environments that are not productive
    FreeLimit       \* DefaultMaxNonProdResources, 10

(* The claims of a license that matter here; "" stands for a field that is *)
(* missing, and 0 for a license without a limit.                           *)
NoLicense == [id |-> "", org |-> "", subscription |-> "", project |-> "",
              registryRegion |-> "", global |-> FALSE, metricsRegion |-> "", max |-> 0]
NoRegistry == [lease |-> FALSE, known |-> {}]

Everyone(s) == {s.own} \cup s.others
LicensesOf(s) == {d.license : d \in Everyone(s)} \ {NoLicense}

ASSUME ResourcesAssumption ==
    /\ IsFiniteSet(Arns)
    /\ {Here, "us-east-1"} \subseteq Regions
    /\ FreeLimit \in Nat
    /\ \A s \in Setups :
          /\ s.own.license.max \in Nat
          /\ s.batches \cup s.elsewhere \subseteq SUBSET Arns
          /\ \A l \in LicensesOf(s) :
                {l.registryRegion, l.metricsRegion} \subseteq Regions \cup {""}

(* What the issuer has to see to: a license names whose it is, and names   *)
(* of one kind are not taken for another's, nor for those of free use.     *)
ASSUME NamesAssumption ==
    \A s \in Setups : \A l, r \in LicensesOf(s) :
        /\ l.subscription # "" \/ l.project # "" \/ l.id # "" \/ l.org # ""
        /\ l.subscription \notin {r.id, r.org, "bsl1.1-free"} \ {""}
        /\ l.id \notin {r.org, "bsl1.1-free"} \ {""}
        /\ l.org \notin {"bsl1.1-free", "unlicensed"}

VARIABLES
    setup,          \* one of the setups
    tracker,        \* resourceTracker.resources
    registry,       \* cwRegistries, with the state for the key in use
    points,         \* heartbeats within the sliding window, in CloudWatch
    outcome,        \* of the last invocation: what was decided, on which
                    \* count, and the metric ActiveMonitoredResources, if any
    calm            \* the other resources are not in use any more

vars == <<setup, tracker, registry, points, outcome, calm>>

(* A deployment has a license, maybe the free grant, an env and a project. *)
own == setup.own
others == setup.others

Init ==
    /\ setup \in Setups
    /\ tracker = {}
    /\ registry = [g \in Regions |-> NoRegistry]
    /\ points = {}
    /\ outcome = [decision |-> "aside", counted |-> 0, reported |-> {}]
    /\ calm = FALSE

-----------------------------------------------------------------------------
(***************************************************************************)
(* What the claims say.                                                    *)
(***************************************************************************)
ResolveCentralMetricsRegion(l) ==
    IF l.metricsRegion # "" THEN l.metricsRegion ELSE "us-east-1"

ResolveRegistryRegion(l) ==
    CASE l.registryRegion # "" -> l.registryRegion
      [] l.registryRegion = "" /\ l.global -> ResolveCentralMetricsRegion(l)
      [] OTHER -> Here

(* Keys of different kinds do not collide here.  The bug prefers the id of *)
(* the license to its subscription.                                        *)
ResolveEntitlementKey_Bug(d) ==
    IF d.license # NoLicense THEN <<d.license.id>> ELSE <<"unlicensed", d.project>>
ResolveEntitlementKey(d) ==
    LET l == d.license IN
    CASE l.subscription # "" -> <<l.subscription>>
      [] l.subscription = "" /\ l.project # "" -> <<l.org, l.project>>
      [] l.subscription = "" /\ l.project = "" /\ {l.id, l.org} # {""} ->
            <<IF l.id # "" THEN l.id ELSE l.org>>
      [] OTHER -> IF d.env \notin NonProd THEN <<"unlicensed", d.project>>
                  ELSE IF d.project = "" THEN <<"bsl1.1-free">>
                  ELSE <<"bsl1.1-free", d.env, d.project>>
EntitlementKey == ResolveEntitlementKey(own)

Licensed(d) == d.license # NoLicense

(* The project check of Enforce.                                           *)
ProjectMismatch == own.license.project \notin {"", own.project}

Limit == IF Licensed(own) THEN own.license.max ELSE FreeLimit

(* Enforce counts for a license, and for the free grant; a license without *)
(* a limit leaves the registry alone.                                      *)
Counts == Licensed(own) \/ own.free
UsesRegistry == ~Licensed(own) \/ own.license.max > 0

-----------------------------------------------------------------------------
(***************************************************************************)
(* RegisterAndCount, for a batch with the resources R, in the registry of  *)
(* region g.                                                               *)
(***************************************************************************)

(* A heartbeat that is repeated within the window is the same.  The bug    *)
(* leaves the key out.                                                     *)
Beats_Bug(g, key, R) ==
    [region : {g}, key : {<<>>}, arn : R, shown : {FALSE}]
Beats(g, key, R) ==
    {p \in [region : {g}, key : {key}, arn : R, shown : {FALSE}] :
        [p EXCEPT !.shown = TRUE] \notin points}

(* Heartbeats that cannot be written do not stop the call.                 *)
Heartbeat(g, R) == points' \in {points \cup Beats(g, EntitlementKey, R), points}

(* A query sees what is shown already, and maybe more of what was written. *)
Shown == {p \in points : p.shown}
Found(P, g) == {p.arn : p \in {q \in P : q.region = g /\ q.key = EntitlementKey}}
Answers(g) == {S \in SUBSET Found(points, g) : Found(Shown, g) \subseteq S}

(* A result: what the registry keeps, the count, and whether the error     *)
(* that came with it is final in strict mode.                              *)
Result(lease, known) == [kept |-> [lease |-> lease, known |-> known],
                         count |-> Cardinality(known), final |-> FALSE]

(* AccessDenied on the way in: the count is 0, and nothing is kept.        *)
Denied(g) == [kept : {registry[g]}, count : {0}, final : BOOLEAN]

(* What is known counts while a lease is in force or if the query fails.   *)
(* An AccessDenied of the query, in strict mode, goes before the quota.    *)
Unasked(g, R) ==
    LET r == Result(registry[g].lease, registry[g].known \cup R)
    IN  IF registry[g].lease THEN {r} ELSE {r, [r EXCEPT !.final = TRUE]}

(* The answer of a query; the bug keeps what was known before.             *)
Asked_Bug(g, R) == {Result(TRUE, S \cup registry[g].known \cup R) : S \in Answers(g)}
Asked(g, R) == {Result(TRUE, S \cup R) : S \in Answers(g)}

-----------------------------------------------------------------------------
(***************************************************************************)
(* An invocation.                                                          *)
(***************************************************************************)

(* The region of the registry, by the claims of PreflightEnforce.  There   *)
(* are none without a license, nor when the verification could not be set  *)
(* up or fell back to the free grant.                                      *)
RegistryRegions ==
    {ResolveRegistryRegion(claims) : claims \in {own.license, NoLicense}}

(* getActiveResourceCount, after what this invocation has done; the bug    *)
(* asks the registry of the own region.                                    *)
ActiveResourceCount_Bug(g) ==
    LET n == Cardinality(registry'[Here].known)
    IN  IF n > 0 THEN n ELSE Cardinality(tracker')
ActiveResourceCount(g) ==
    LET n == Cardinality(registry'[g].known)
    IN  IF n > 0 THEN n ELSE Cardinality(tracker')

(* The batch is decided on and has its metric, unless there is an error    *)
(* that is not final, or sending fails.                                    *)
Decide(g, decision, count) ==
    \E reported \in {{ActiveResourceCount(g)}, {}} :
        outcome' = [decision |-> decision, counted |-> count, reported |-> reported]

(* PreflightEnforce or Enforce decide without counting: converted,         *)
(* unlicensed, not verified, or an account, a feature or a resource the    *)
(* license does not cover.                                                 *)
DecideAside(g) ==
    /\ UNCHANGED <<setup, tracker, registry, points, calm>>
    /\ Decide(g, "aside", 0)

(* A batch may have logs of these resources.                               *)
InUse(R) == calm => R \subseteq Lasting

(* Enforce tracks the resources of the batch before it looks at the        *)
(* project the license is for.                                             *)
Track(R) ==
    /\ Counts
    /\ InUse(R)
    /\ tracker' = tracker \cup R
    /\ UNCHANGED <<setup, calm>>

RefuseProject(g, R) ==
    /\ ProjectMismatch
    /\ Track(R)
    /\ UNCHANGED <<registry, points>>
    /\ Decide(g, "aside", 0)

CountTracked(g, R) ==
    /\ ~ProjectMismatch /\ ~UsesRegistry
    /\ Track(R)
    /\ UNCHANGED <<registry, points>>
    /\ Decide(g, "within", Cardinality(tracker'))

(* The verdict on a count; the bug is off by one.                          *)
Verdict_Bug(n) == IF n > Limit + 1 THEN "over" ELSE "within"
Verdict(n) == IF n > Limit THEN "over" ELSE "within"

(* Enforce, when RegisterAndCount returns r.                               *)
Count(g, R, r) ==
    /\ ~ProjectMismatch /\ UsesRegistry
    /\ Track(R)
    /\ registry' = [registry EXCEPT ![g] = r.kept]
    /\ Decide(g, IF r.final THEN "unknown" ELSE Verdict(r.count), r.count)

CountDenied(g, R) ==
    /\ R # {}
    /\ UNCHANGED points
    /\ \E r \in Denied(g) : Count(g, R, r)

CountUnasked(g, R) ==
    /\ Heartbeat(g, R)
    /\ \E r \in Unasked(g, R) : Count(g, R, r)

CountActive(g, R) ==
    /\ ~registry[g].lease
    /\ Heartbeat(g, R)
    /\ \E r \in Asked(g, R) : Count(g, R, r)

Invocation(g) ==
    \/ DecideAside(g)
    \/ \E R \in setup.batches :
          \/ RefuseProject(g, R) \/ CountTracked(g, R)
          \/ CountDenied(g, R) \/ CountUnasked(g, R) \/ CountActive(g, R)

-----------------------------------------------------------------------------
(***************************************************************************)
(* The rest of the world.                                                  *)
(***************************************************************************)

(* Lambda replaces the container.                                          *)
Recycle ==
    /\ tracker' = {}
    /\ registry' = [g \in Regions |-> NoRegistry]
    /\ UNCHANGED <<setup, points, outcome, calm>>

LeaseEnds(g) ==
    /\ registry[g].lease
    /\ registry' = [registry EXCEPT ![g].lease = FALSE]
    /\ UNCHANGED <<setup, tracker, points, outcome, calm>>

(* Another container has a batch, and writes to the registry of its        *)
(* license.                                                                *)
Elsewhere(d) ==
    /\ \E R \in setup.elsewhere :
          /\ InUse(R)
          /\ points' = points \cup
                Beats(ResolveRegistryRegion(d.license), ResolveEntitlementKey(d), R)
    /\ UNCHANGED <<setup, tracker, registry, outcome, calm>>

(* A data point is shown by CloudWatch after a while, and leaves the       *)
(* window after an hour.                                                   *)
Appear(p) ==
    /\ ~p.shown
    /\ points' = (points \ {p}) \cup {[p EXCEPT !.shown = TRUE]}
    /\ UNCHANGED <<setup, tracker, registry, outcome, calm>>

Expire(p) ==
    /\ points' = points \ {p}
    /\ UNCHANGED <<setup, tracker, registry, outcome, calm>>

BecomeCalm ==
    /\ ~calm
    /\ calm' = TRUE
    /\ UNCHANGED <<setup, tracker, registry, points, outcome>>

Next ==
    \/ \E g \in RegistryRegions : Invocation(g)
    \/ Recycle
    \/ \E g \in Regions : LeaseEnds(g)
    \/ \E d \in others : Elsewhere(d)
    \/ \E p \in points : Appear(p) \/ Expire(p)
    \/ BecomeCalm

(* Logs keep coming, time passes, the resources that are not in use any    *)
(* more leave the window, and CloudWatch does not fail forever.            *)
Invoked == \E g \in RegistryRegions : Invocation(g)
Query(g) == g \in RegistryRegions /\ \E R \in setup.batches : CountActive(g, R)
Gone(a) == \E p \in points : p.arn = a /\ Expire(p)

Fairness ==
    /\ WF_vars(Invoked)
    /\ \A g \in Regions : WF_vars(LeaseEnds(g)) /\ SF_vars(Query(g))
    /\ \A a \in Arns \ Lasting : WF_vars(Gone(a))

Spec == Init /\ [][Next]_vars /\ Fairness

-----------------------------------------------------------------------------
Keys == UNION {{ResolveEntitlementKey(d) : d \in Everyone(s)} : s \in Setups}
Point == [region : Regions, key : Keys, arn : Arns, shown : BOOLEAN]

TypeOK ==
    /\ setup \in Setups
    /\ tracker \subseteq Arns
    /\ registry \in [Regions -> [lease : BOOLEAN, known : SUBSET Arns]]
    /\ points \subseteq Point
    /\ outcome.decision \in {"aside", "within", "over", "unknown"}
    /\ outcome.counted \in Nat
    /\ outcome.reported \subseteq Nat
    /\ calm \in BOOLEAN

(* The metric of an invocation shows the count its batch was decided on,   *)
(* wherever the registry is.  Where nothing was counted the metric may     *)
(* still show what the container remembers.                                *)
MetricMatchesDecision ==
    outcome.decision \in {"within", "over"} /\ outcome.counted > 0
        => outcome.reported \subseteq {outcome.counted}

(* What a customer's resources are counted together for: the subscription, *)
(* also after a renewal of the license; or the project of an organisation; *)
(* or one license, named by its id or else by its organisation; or one     *)
(* free environment of a project, or free use that names no project; or    *)
(* the free use of a project in environments called productive.            *)
SameLicensee(l, r) ==
    \/ l.subscription # "" /\ l.subscription = r.subscription
    \/ /\ l.subscription = "" /\ r.subscription = ""
       /\ \/ l.project # "" /\ l.org = r.org /\ l.project = r.project
          \/ /\ l.project = "" /\ r.project = "" /\ l.id = r.id
             /\ l.id = "" => l.org = r.org
SameFreeUse(d, e) ==
    /\ d.project = e.project
    /\ \/ d.env \notin NonProd /\ e.env \notin NonProd
       \/ {d.env, e.env} \subseteq NonProd /\ (d.project # "" => d.env = e.env)
Same(d, e) ==
    \/ Licensed(d) /\ Licensed(e) /\ SameLicensee(d.license, e.license)
    \/ ~Licensed(d) /\ ~Licensed(e) /\ SameFreeUse(d, e)

(* The resources that a container of the own entitlement may have written  *)
(* to a region, and those that no other may have.                          *)
OfEntitlement(P, g) ==
    {p.arn : p \in {q \in P : q.region = g /\ \E d \in others \cup {own} :
        ResolveEntitlementKey(d) = q.key /\ Same(d, own)}}
OnlyOfEntitlement(P, g) ==
    {p.arn : p \in {q \in P : q.region = g /\ \A d \in others \cup {own} :
        ResolveEntitlementKey(d) = q.key => Same(d, own)}}

TakesLease(g) == ~registry[g].lease /\ registry'[g].lease

(* A container that asks CloudWatch counts all resources that are shown    *)
(* there for the same entitlement in the same region, by whichever         *)
(* container and license, and apart from its own none of any other.        *)
CountsOneEntitlement ==
    [][\A g \in Regions : TakesLease(g) =>
          /\ OfEntitlement(Shown, g) \subseteq registry'[g].known
          /\ registry'[g].known \subseteq OnlyOfEntitlement(points, g) \cup tracker'
      ]_vars

(* Containers that have few resources each, but together too many for      *)
(* their license, do not escape the quota: none is within it on a fresh    *)
(* count while more resources than the limit are shown for the entitlement *)
(* or new in its own batch.                                                *)
FleetWithinQuota ==
    [][\A g \in Regions : TakesLease(g) /\ outcome'.decision = "within" =>
          Cardinality(OfEntitlement(Shown, g) \cup (tracker' \ tracker)) <= Limit
      ]_vars

(* Once the resources in use are within the limit, no batch is refused for *)
(* those of the past forever: they leave the window, the leases end, and   *)
(* the next count forgets them.                                            *)
QuotaRecovers == calm ~> [](outcome.decision # "over")
=============================================================================
