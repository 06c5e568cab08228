---------------------------- MODULE MetricsProofs ----------------------------
(***************************************************************************)
(* Proofs about what the function reports: the count of active resources,  *)
(* and where the metrics of an invocation go.                              *)
(*                                                                         *)
(* First ActiveResources, for any deployments, regions and resources: that *)
(* Same, which says whose resources are to be counted together, and        *)
(* ResolveEntitlementKey, which decides whose are, come to the same, and   *)
(* from that what a count and its metric show.  Then MetricEmission, for   *)
(* any regions and volumes: what the log and the central region show of    *)
(* each other.                                                             *)
(***************************************************************************)
EXTENDS ActiveResources, MetricEmission, FiniteSetTheorems, TLAPS

-----------------------------------------------------------------------------
(***************************************************************************)
(* Keys and regions.                                                       *)
(***************************************************************************)

KeyOf(d) == ResolveEntitlementKey(d)

(* The license of a deployment is one that NamesAssumption is about.       *)
LEMMA LicenseOf ==
    ASSUME NEW s \in Setups, NEW d \in Everyone(s), Licensed(d)
    PROVE  d.license \in LicensesOf(s)
BY DEF LicensesOf, Licensed

(* The key of a license and that of free use.                              *)
LicenseKey(subscription, project, id, org) ==
    IF subscription # "" THEN <<subscription>>
    ELSE IF project # "" THEN <<org, project>>
    ELSE IF id # "" THEN <<id>> ELSE <<org>>
KeyOfLicense(l) == LicenseKey(l.subscription, l.project, l.id, l.org)

LEMMA LicensedKey ==
    ASSUME NEW s \in Setups, NEW d \in Everyone(s), Licensed(d)
    PROVE  KeyOf(d) = KeyOfLicense(d.license)
<1> DEFINE l == d.license
<1>1. l.subscription # "" \/ l.project # "" \/ l.id # "" \/ l.org # ""
  BY LicenseOf, NamesAssumption
<1>2. l.subscription = "" /\ l.project = "" => {l.id, l.org} # {""}
  BY <1>1
<1> QED
  BY <1>2 DEF KeyOf, ResolveEntitlementKey, KeyOfLicense, LicenseKey

FreeKeyOf(env, project) ==
    IF env \notin NonProd THEN <<"unlicensed", project>>
    ELSE IF project = "" THEN <<"bsl1.1-free">> ELSE <<"bsl1.1-free", env, project>>

LEMMA FreeKey ==
    ASSUME NEW d, ~ Licensed(d)
    PROVE  KeyOf(d) = FreeKeyOf(d.env, d.project)
<1>1. /\ d.license.subscription = "" /\ d.license.project = ""
      /\ d.license.id = "" /\ d.license.org = ""
  <2>1. /\ NoLicense.subscription = "" /\ NoLicense.project = ""
        /\ NoLicense.id = "" /\ NoLicense.org = ""
    BY DEF NoLicense
  <2> QED  BY <2>1, Zenon DEF Licensed
<1>2. {d.license.id, d.license.org} = {""}
  BY <1>1
<1> QED
  BY <1>1, <1>2 DEF KeyOf, ResolveEntitlementKey, FreeKeyOf

(* Licenses have one key if, and only if, they are counted together.       *)
LEMMA LicenseeHasKey ==
    ASSUME NEW l, NEW r, SameLicensee(l, r)
    PROVE  KeyOfLicense(l) = KeyOfLicense(r)
BY DEF SameLicensee, KeyOfLicense, LicenseKey

LEMMA KeyHasLicensee ==
    ASSUME NEW s \in Setups, NEW l \in LicensesOf(s), NEW r \in LicensesOf(s),
           KeyOfLicense(l) = KeyOfLicense(r)
    PROVE  SameLicensee(l, r)
<1>1. /\ l.subscription # "" => l.subscription # r.id /\ l.subscription # r.org
      /\ r.subscription # "" => r.subscription # l.id /\ r.subscription # l.org
      /\ l.id # "" => l.id # r.org
      /\ r.id # "" => r.id # l.org
  BY NamesAssumption
<1>2. PICK sub1, proj1, id1, org1 :
        sub1 = l.subscription /\ proj1 = l.project /\ id1 = l.id /\ org1 = l.org
  OBVIOUS
<1>3. PICK sub2, proj2, id2, org2 :
        sub2 = r.subscription /\ proj2 = r.project /\ id2 = r.id /\ org2 = r.org
  OBVIOUS
<1>4. /\ sub1 # "" => sub1 # id2 /\ sub1 # org2
      /\ sub2 # "" => sub2 # id1 /\ sub2 # org1
      /\ id1 # "" => id1 # org2
      /\ id2 # "" => id2 # org1
  BY <1>1, <1>2, <1>3, Zenon
<1>5. LicenseKey(sub1, proj1, id1, org1) = LicenseKey(sub2, proj2, id2, org2)
  BY <1>2, <1>3, Zenon DEF KeyOfLicense
<1>6. \/ sub1 # "" /\ sub1 = sub2
      \/ /\ sub1 = "" /\ sub2 = ""
         /\ \/ proj1 # "" /\ org1 = org2 /\ proj1 = proj2
            \/ /\ proj1 = "" /\ proj2 = "" /\ id1 = id2
               /\ id1 = "" => org1 = org2
  BY <1>4, <1>5 DEF LicenseKey
<1> QED
  BY <1>2, <1>3, <1>6, Zenon DEF SameLicensee

(* No license has the key of free use.                                     *)
LEMMA LicenseKeyIsNotFree ==
    ASSUME NEW s \in Setups, NEW l \in LicensesOf(s), NEW env, NEW project
    PROVE  KeyOfLicense(l) \notin
              {<<"unlicensed", project>>, <<"bsl1.1-free">>, <<"bsl1.1-free", env, project>>}
<1>1. /\ l.subscription # "" => l.subscription # "bsl1.1-free"
      /\ l.id # "" => l.id # "bsl1.1-free"
      /\ l.org # "bsl1.1-free" /\ l.org # "unlicensed"
  BY NamesAssumption
<1> QED
  BY <1>1 DEF KeyOfLicense, LicenseKey

(* So those who are counted together are those who have one key.           *)
LEMMA SameIsOneKey ==
    ASSUME NEW s \in Setups, NEW d \in Everyone(s), NEW e \in Everyone(s)
    PROVE  Same(d, e) <=> KeyOf(d) = KeyOf(e)
<1>1. CASE Licensed(d) /\ Licensed(e)
  <2>1. /\ d.license \in LicensesOf(s) /\ KeyOf(d) = KeyOfLicense(d.license)
        /\ e.license \in LicensesOf(s) /\ KeyOf(e) = KeyOfLicense(e.license)
    BY <1>1, LicenseOf, LicensedKey
  <2>2. SameLicensee(d.license, e.license) <=>
          KeyOfLicense(d.license) = KeyOfLicense(e.license)
    BY <2>1, LicenseeHasKey, KeyHasLicensee
  <2> QED
    BY <1>1, <2>1, <2>2 DEF Same
<1>2. ASSUME NEW x \in Everyone(s), NEW y \in Everyone(s), Licensed(x), ~ Licensed(y)
      PROVE  KeyOf(x) # KeyOf(y)
  <2>1. x.license \in LicensesOf(s) /\ KeyOf(x) = KeyOfLicense(x.license)
    BY <1>2, LicenseOf, LicensedKey
  <2>2. KeyOf(y) \in {<<"unlicensed", y.project>>, <<"bsl1.1-free">>,
                      <<"bsl1.1-free", y.env, y.project>>}
    BY <1>2, FreeKey DEF FreeKeyOf
  <2> QED
    BY <2>1, <2>2, LicenseKeyIsNotFree
<1>3. CASE ~ Licensed(d) /\ ~ Licensed(e)
  <2>1. SameFreeUse(d, e) <=> KeyOf(d) = KeyOf(e)
    <3>1. /\ KeyOf(d) = FreeKeyOf(d.env, d.project)
          /\ KeyOf(e) = FreeKeyOf(e.env, e.project)
      BY <1>3, FreeKey
    <3>2. SameFreeUse(d, e)
            <=> FreeKeyOf(d.env, d.project) = FreeKeyOf(e.env, e.project)
      <4>1. PICK env1, project1 : env1 = d.env /\ project1 = d.project
        OBVIOUS
      <4>2. PICK env2, project2 : env2 = e.env /\ project2 = e.project
        OBVIOUS
      <4>3. FreeKeyOf(env1, project1) = FreeKeyOf(env2, project2) <=>
              /\ project1 = project2
              /\ \/ env1 \notin NonProd /\ env2 \notin NonProd
                 \/ {env1, env2} \subseteq NonProd /\ (project1 # "" => env1 = env2)
        BY DEF FreeKeyOf
      <4> QED
        BY <4>1, <4>2, <4>3, Zenon DEF SameFreeUse
    <3> QED
      BY <3>1, <3>2
  <2> QED
    BY <1>3, <2>1 DEF Same
<1> QED
  BY <1>1, <1>2, <1>3 DEF Same

(* The registries that are used are in regions.                            *)
LEMMA RegistryIsSomewhere ==
    ASSUME NEW s \in Setups, NEW d \in Everyone(s)
    PROVE  /\ ResolveRegistryRegion(d.license) \in Regions
           /\ ResolveRegistryRegion(NoLicense) \in Regions
<1>1. ResolveRegistryRegion(NoLicense) \in Regions
  BY ResourcesAssumption DEF ResolveRegistryRegion, NoLicense
<1>2. ASSUME Licensed(d)
      PROVE  ResolveRegistryRegion(d.license) \in Regions
  <2>1. {d.license.registryRegion, d.license.metricsRegion} \subseteq Regions \cup {""}
    BY <1>2, LicenseOf, ResourcesAssumption
  <2> QED
    BY <2>1, ResourcesAssumption DEF ResolveRegistryRegion, ResolveCentralMetricsRegion
<1> QED
  BY <1>1, <1>2 DEF Licensed

-----------------------------------------------------------------------------
(***************************************************************************)
(* The invariant.                                                          *)
(***************************************************************************)

(* A container whose license has no limit never has anything in a          *)
(* registry, which is why its metric is that of the tracker.               *)
KnownInv == ~UsesRegistry => \A g \in Regions : registry[g].known = {}

IInv == TypeOK /\ KnownInv /\ MetricMatchesDecision

LEMMA InitInv == Init => IInv
<1> SUFFICES ASSUME Init PROVE IInv
  OBVIOUS
<1>1. TypeOK
  BY DEF Init, TypeOK, NoRegistry
<1>2. KnownInv
  BY DEF Init, KnownInv, NoRegistry
<1>3. MetricMatchesDecision
  BY DEF Init, MetricMatchesDecision
<1> QED
  BY <1>1, <1>2, <1>3 DEF IInv

(* What a setup has to be.                                                 *)
LEMMA SetupType ==
    ASSUME TypeOK
    PROVE  /\ own \in Everyone(setup) /\ others \subseteq Everyone(setup)
           /\ \A d \in Everyone(setup) : KeyOf(d) \in Keys
           /\ \A R \in setup.batches \cup setup.elsewhere : R \subseteq Arns
           /\ Limit \in Nat
<1>1. own \in Everyone(setup) /\ others \subseteq Everyone(setup)
  BY DEF Everyone, own, others
<1>2. \A d \in Everyone(setup) : KeyOf(d) \in Keys
  BY DEF TypeOK, Keys, KeyOf
<1>3. \A R \in setup.batches \cup setup.elsewhere : R \subseteq Arns
  BY ResourcesAssumption DEF TypeOK
<1>4. Limit \in Nat
  BY ResourcesAssumption DEF TypeOK, Limit, own
<1> QED
  BY <1>1, <1>2, <1>3, <1>4

LEMMA RegistriesType == TypeOK => RegistryRegions \subseteq Regions
<1> SUFFICES ASSUME TypeOK PROVE RegistryRegions \subseteq Regions
  OBVIOUS
<1>1. own \in Everyone(setup) /\ setup \in Setups
  BY SetupType DEF TypeOK
<1> QED
  BY <1>1, RegistryIsSomewhere DEF RegistryRegions

(* Heartbeats are points, and sets of resources are finite.                *)
LEMMA BeatsType ==
    ASSUME TypeOK, NEW g \in Regions, NEW d \in Everyone(setup),
           NEW R, R \subseteq Arns
    PROVE  Beats(g, KeyOf(d), R) \subseteq Point
<1>1. KeyOf(d) \in Keys
  BY SetupType
<1> QED
  BY <1>1 DEF Beats, Point

LEMMA ArnsAreFinite ==
    ASSUME NEW A, A \subseteq Arns
    PROVE  IsFiniteSet(A) /\ Cardinality(A) \in Nat
BY ResourcesAssumption, FS_Subset, FS_CardinalityType

LEMMA FoundType ==
    ASSUME TypeOK, NEW g
    PROVE  Found(points, g) \subseteq Arns
BY DEF TypeOK, Found, Point

-----------------------------------------------------------------------------
(***************************************************************************)
(* The steps.                                                              *)
(***************************************************************************)

(* What Decide makes of a count that is in a registry, or in the tracker.  *)
LEMMA DecideInv ==
    ASSUME NEW g \in Regions, NEW decision \in {"aside", "within", "over", "unknown"},
           NEW count \in Nat, Decide(g, decision, count),
           tracker' \subseteq Arns, registry'[g].known \subseteq Arns,
           decision \in {"within", "over"} /\ count > 0 =>
              \/ count = Cardinality(registry'[g].known)
              \/ registry'[g].known = {} /\ count = Cardinality(tracker')
    PROVE  /\ outcome'.decision = decision /\ outcome'.counted = count
           /\ outcome'.reported \subseteq Nat
           /\ MetricMatchesDecision'
<1>1. PICK reported \in {{ActiveResourceCount(g)}, {}} :
        outcome' = [decision |-> decision, counted |-> count, reported |-> reported]
  BY DEF Decide
<1>2. outcome'.decision = decision /\ outcome'.counted = count
      /\ outcome'.reported \in {{ActiveResourceCount(g)}, {}}
  BY <1>1
<1>3. Cardinality(registry'[g].known) \in Nat /\ Cardinality(tracker') \in Nat
  BY ArnsAreFinite
<1>4. ActiveResourceCount(g) \in Nat
  BY <1>3 DEF ActiveResourceCount
<1>5. ASSUME decision \in {"within", "over"}, count > 0
      PROVE  ActiveResourceCount(g) = count
  <2>1. CASE count = Cardinality(registry'[g].known)
    BY <1>3, <1>5, <2>1 DEF ActiveResourceCount
  <2>2. CASE registry'[g].known = {} /\ count = Cardinality(tracker')
    BY <2>2, FS_EmptySet DEF ActiveResourceCount
  <2> QED
    BY <1>5, <2>1, <2>2
<1>6. outcome'.reported \subseteq Nat
  BY <1>2, <1>4
<1>7. MetricMatchesDecision'
  BY <1>2, <1>5 DEF MetricMatchesDecision
<1> QED
  BY <1>2, <1>6, <1>7

LEMMA AsideInv ==
    ASSUME IInv, NEW g \in Regions, DecideAside(g)
    PROVE  IInv'
<1>1. /\ UNCHANGED <<setup, tracker, registry, points, calm>>
      /\ Decide(g, "aside", 0)
  BY DEF DecideAside
<1>2. tracker' \subseteq Arns /\ registry'[g].known \subseteq Arns
  BY <1>1 DEF IInv, TypeOK
<1>3. /\ outcome'.decision = "aside" /\ outcome'.counted = 0
      /\ outcome'.reported \subseteq Nat /\ MetricMatchesDecision'
  BY <1>1, <1>2, DecideInv
<1>4. TypeOK'
  BY <1>1, <1>3 DEF IInv, TypeOK
<1>5. KnownInv'
  BY <1>1 DEF IInv, KnownInv, UsesRegistry, own
<1> QED
  BY <1>3, <1>4, <1>5 DEF IInv

(* The tracker holds the resources of the batches.                         *)
LEMMA TrackType ==
    ASSUME TypeOK, NEW R \in setup.batches, Track(R)
    PROVE  /\ tracker' = tracker \cup R /\ tracker' \subseteq Arns
           /\ setup' = setup /\ calm' = calm /\ R \subseteq Arns
<1>1. R \subseteq Arns
  BY SetupType
<1> QED
  BY <1>1 DEF Track, TypeOK

LEMMA RefuseInv ==
    ASSUME IInv, NEW g \in Regions, NEW R \in setup.batches, RefuseProject(g, R)
    PROVE  IInv'
<1>1. /\ Track(R) /\ UNCHANGED <<registry, points>>
      /\ Decide(g, "aside", 0)
  BY DEF RefuseProject
<1>2. tracker' \subseteq Arns /\ setup' = setup /\ calm' = calm
  BY <1>1, TrackType DEF IInv
<1>3. registry'[g].known \subseteq Arns
  BY <1>1 DEF IInv, TypeOK
<1>4. /\ outcome'.decision = "aside" /\ outcome'.counted = 0
      /\ outcome'.reported \subseteq Nat /\ MetricMatchesDecision'
  BY <1>1, <1>2, <1>3, DecideInv
<1>5. TypeOK'
  BY <1>1, <1>2, <1>4 DEF IInv, TypeOK
<1>6. KnownInv'
  BY <1>1, <1>2 DEF IInv, KnownInv, UsesRegistry, own
<1> QED
  BY <1>4, <1>5, <1>6 DEF IInv

(* Without a limit the tracker decides, and as no registry has ever been   *)
(* used the metric comes from the tracker, too.                            *)
LEMMA TrackedInv ==
    ASSUME IInv, NEW g \in Regions, NEW R \in setup.batches, CountTracked(g, R)
    PROVE  IInv'
<1>1. /\ ~UsesRegistry /\ Track(R) /\ UNCHANGED <<registry, points>>
      /\ Decide(g, "within", Cardinality(tracker'))
  BY DEF CountTracked
<1>2. tracker' \subseteq Arns /\ setup' = setup /\ calm' = calm
  BY <1>1, TrackType DEF IInv
<1>3. registry'[g].known = {}
  BY <1>1 DEF IInv, KnownInv
<1>4. Cardinality(tracker') \in Nat
  BY <1>2, ArnsAreFinite
<1>5. /\ outcome'.decision = "within" /\ outcome'.counted \in Nat
      /\ outcome'.reported \subseteq Nat /\ MetricMatchesDecision'
  BY <1>1, <1>2, <1>3, <1>4, DecideInv
<1>6. TypeOK'
  BY <1>1, <1>2, <1>5 DEF IInv, TypeOK
<1>7. KnownInv'
  BY <1>1, <1>2 DEF IInv, KnownInv, UsesRegistry, own
<1> QED
  BY <1>5, <1>6, <1>7 DEF IInv

(* A count that is a registry's, or none.                                  *)
LEMMA CountInv ==
    ASSUME IInv, NEW g \in Regions, NEW R \in setup.batches,
           NEW r, Count(g, R, r), points' \subseteq Point,
           r.kept \in [lease : BOOLEAN, known : SUBSET Arns],
           r.count \in Nat, r.count = 0 \/ r.count = Cardinality(r.kept.known)
    PROVE  IInv'
<1> DEFINE decision == IF r.final THEN "unknown" ELSE Verdict(r.count)
<1>1. /\ UsesRegistry /\ Track(R)
      /\ registry' = [registry EXCEPT ![g] = r.kept]
      /\ Decide(g, decision, r.count)
  BY DEF Count
<1>2. tracker' \subseteq Arns /\ setup' = setup /\ calm' = calm
  BY <1>1, TrackType DEF IInv
<1>3. registry' \in [Regions -> [lease : BOOLEAN, known : SUBSET Arns]]
      /\ registry'[g] = r.kept
  BY <1>1 DEF IInv, TypeOK
<1>4. registry'[g].known \subseteq Arns
  BY <1>3
<1>5. decision \in {"aside", "within", "over", "unknown"}
  BY DEF Verdict
<1> HIDE DEF decision
<1>6. /\ outcome'.decision = decision /\ outcome'.counted = r.count
      /\ outcome'.reported \subseteq Nat /\ MetricMatchesDecision'
  <2>1. r.count > 0 => r.count = Cardinality(registry'[g].known)
    BY <1>3
  <2> QED
    BY <1>1, <1>2, <1>4, <1>5, <2>1, DecideInv
<1>7. TypeOK'
  BY <1>2, <1>3, <1>5, <1>6 DEF IInv, TypeOK
<1>8. KnownInv'
  BY <1>1, <1>2 DEF KnownInv, UsesRegistry, own
<1> QED
  BY <1>6, <1>7, <1>8 DEF IInv

(* The results a call may have are counts of resources.                    *)
LEMMA HeartbeatType ==
    ASSUME TypeOK, NEW g \in Regions, NEW R, R \subseteq Arns, Heartbeat(g, R)
    PROVE  points' \subseteq Point
<1>1. EntitlementKey = KeyOf(own) /\ own \in Everyone(setup)
  BY SetupType DEF EntitlementKey, KeyOf
<1>2. Beats(g, EntitlementKey, R) \subseteq Point
  BY <1>1, BeatsType
<1> QED
  BY <1>2 DEF Heartbeat, TypeOK

LEMMA UnaskedType ==
    ASSUME TypeOK, NEW g \in Regions, NEW R, R \subseteq Arns, NEW r \in Unasked(g, R)
    PROVE  /\ r.kept = [lease |-> registry[g].lease, known |-> registry[g].known \cup R]
           /\ r.kept \in [lease : BOOLEAN, known : SUBSET Arns]
           /\ r.count \in Nat /\ r.count = Cardinality(r.kept.known)
<1> DEFINE known == registry[g].known \cup R
<1>1. known \subseteq Arns /\ registry[g].lease \in BOOLEAN
  BY DEF TypeOK
<1>2. /\ r.kept = [lease |-> registry[g].lease, known |-> known]
      /\ r.count = Cardinality(known)
  BY DEF Unasked, Result
<1>3. Cardinality(known) \in Nat
  BY <1>1, ArnsAreFinite
<1> QED
  BY <1>1, <1>2, <1>3

LEMMA AskedType ==
    ASSUME TypeOK, NEW g \in Regions, NEW R, R \subseteq Arns, NEW r \in Asked(g, R)
    PROVE  \E S \in Answers(g) :
              /\ r = Result(TRUE, S \cup R) /\ S \subseteq Arns
              /\ r.kept = [lease |-> TRUE, known |-> S \cup R]
              /\ r.kept \in [lease : BOOLEAN, known : SUBSET Arns]
              /\ r.count \in Nat /\ r.count = Cardinality(S \cup R)
              /\ r.count = Cardinality(r.kept.known) /\ r.final = FALSE
<1>1. PICK S \in Answers(g) : r = Result(TRUE, S \cup R)
  BY DEF Asked
<1>2. S \subseteq Arns
  BY FoundType DEF Answers
<1>3. Cardinality(S \cup R) \in Nat
  BY <1>2, ArnsAreFinite
<1> QED
  BY <1>1, <1>2, <1>3 DEF Result

LEMMA DeniedInv ==
    ASSUME IInv, NEW g \in Regions, NEW R \in setup.batches, CountDenied(g, R)
    PROVE  IInv'
<1>1. PICK r \in Denied(g) : Count(g, R, r)
  BY DEF CountDenied
<1>2. r.kept = registry[g] /\ r.count = 0
  BY <1>1 DEF Denied
<1>3. points' \subseteq Point
  BY DEF CountDenied, IInv, TypeOK
<1>4. r.kept \in [lease : BOOLEAN, known : SUBSET Arns] /\ r.count \in Nat
  BY <1>2 DEF IInv, TypeOK
<1> QED
  BY <1>1, <1>2, <1>3, <1>4, CountInv

LEMMA UnaskedInv ==
    ASSUME IInv, NEW g \in Regions, NEW R \in setup.batches, CountUnasked(g, R)
    PROVE  IInv'
<1>1. PICK r \in Unasked(g, R) : Count(g, R, r)
  BY DEF CountUnasked
<1>2. R \subseteq Arns
  BY SetupType DEF IInv
<1>3. points' \subseteq Point
  BY <1>2, HeartbeatType DEF CountUnasked, IInv
<1>4. /\ r.kept \in [lease : BOOLEAN, known : SUBSET Arns]
      /\ r.count \in Nat /\ r.count = Cardinality(r.kept.known)
  <2>1. TypeOK
    BY DEF IInv
  <2>2. /\ r.kept = [lease |-> registry[g].lease, known |-> registry[g].known \cup R]
        /\ r.kept \in [lease : BOOLEAN, known : SUBSET Arns]
        /\ r.count \in Nat /\ r.count = Cardinality(r.kept.known)
    BY <1>1, <1>2, <2>1, UnaskedType
  <2> QED
    BY <2>2, Zenon
<1> QED
  BY <1>1, <1>3, <1>4, CountInv

LEMMA ActiveInv ==
    ASSUME IInv, NEW g \in Regions, NEW R \in setup.batches, CountActive(g, R)
    PROVE  IInv'
<1>1. PICK r \in Asked(g, R) : Count(g, R, r)
  BY DEF CountActive
<1>2. R \subseteq Arns
  BY SetupType DEF IInv
<1>3. points' \subseteq Point
  BY <1>2, HeartbeatType DEF CountActive, IInv
<1>4. /\ r.kept \in [lease : BOOLEAN, known : SUBSET Arns]
      /\ r.count \in Nat /\ r.count = Cardinality(r.kept.known)
  <2>1. TypeOK
    BY DEF IInv
  <2>2. \E S \in Answers(g) :
          /\ r.kept \in [lease : BOOLEAN, known : SUBSET Arns]
          /\ r.count \in Nat /\ r.count = Cardinality(r.kept.known)
    BY <1>1, <1>2, <2>1, AskedType, Zenon
  <2> QED
    BY <2>2
<1> QED
  BY <1>1, <1>3, <1>4, CountInv

LEMMA InvocationInv ==
    ASSUME IInv, NEW g \in RegistryRegions, Invocation(g)
    PROVE  IInv'
<1>1. g \in Regions
  BY RegistriesType DEF IInv
<1> QED
  BY <1>1, AsideInv, RefuseInv, TrackedInv, DeniedInv, UnaskedInv, ActiveInv
     DEF Invocation

(* Only the points change, and stay points.                                *)
LEMMA PointsInv ==
    ASSUME IInv, UNCHANGED <<setup, tracker, registry, outcome, calm>>,
           points' \subseteq Point
    PROVE  IInv'
BY DEF IInv, TypeOK, KnownInv, UsesRegistry, own, MetricMatchesDecision

LEMMA ElsewhereInv ==
    ASSUME IInv, NEW d \in others, Elsewhere(d)
    PROVE  IInv'
<1>1. PICK R \in setup.elsewhere :
        points' = points \cup
          Beats(ResolveRegistryRegion(d.license), ResolveEntitlementKey(d), R)
  BY DEF Elsewhere
<1>2. R \subseteq Arns /\ d \in Everyone(setup) /\ setup \in Setups
  BY SetupType DEF IInv, TypeOK
<1>3. ResolveRegistryRegion(d.license) \in Regions
  BY <1>2, RegistryIsSomewhere
<1>4. Beats(ResolveRegistryRegion(d.license), ResolveEntitlementKey(d), R) \subseteq Point
  BY <1>2, <1>3, BeatsType DEF IInv, KeyOf
<1>5. points' \subseteq Point
  BY <1>1, <1>4 DEF IInv, TypeOK
<1> QED
  BY <1>5, PointsInv DEF Elsewhere

LEMMA AppearInv ==
    ASSUME IInv, NEW p \in points, Appear(p) \/ Expire(p)
    PROVE  IInv'
<1>1. p \in Point /\ points \subseteq Point
  BY DEF IInv, TypeOK
<1>2. [p EXCEPT !.shown = TRUE] \in Point
  BY <1>1 DEF Point
<1>3. points' \subseteq Point
  BY <1>1, <1>2 DEF Appear, Expire
<1> QED
  BY <1>3, PointsInv DEF Appear, Expire

LEMMA RecycleInv == IInv /\ Recycle => IInv'
<1> SUFFICES ASSUME IInv, Recycle PROVE IInv'
  OBVIOUS
<1>1. TypeOK'
  BY DEF IInv, TypeOK, Recycle, NoRegistry
<1>2. KnownInv'
  BY DEF KnownInv, Recycle, NoRegistry
<1>3. MetricMatchesDecision'
  BY DEF IInv, MetricMatchesDecision, Recycle
<1> QED
  BY <1>1, <1>2, <1>3 DEF IInv

LEMMA LeaseEndsInv ==
    ASSUME IInv, NEW g \in Regions, LeaseEnds(g)
    PROVE  IInv'
<1>1. /\ registry' = [registry EXCEPT ![g].lease = FALSE]
      /\ UNCHANGED <<setup, tracker, points, outcome, calm>>
  BY DEF LeaseEnds
<1>2. registry' \in [Regions -> [lease : BOOLEAN, known : SUBSET Arns]]
  BY <1>1 DEF IInv, TypeOK
<1>3. \A h \in Regions : registry'[h].known = registry[h].known
  BY <1>1 DEF IInv, TypeOK
<1>4. TypeOK'
  BY <1>1, <1>2 DEF IInv, TypeOK
<1>5. KnownInv'
  BY <1>1, <1>3 DEF IInv, KnownInv, UsesRegistry, own
<1>6. MetricMatchesDecision'
  BY <1>1 DEF IInv, MetricMatchesDecision
<1> QED
  BY <1>4, <1>5, <1>6 DEF IInv

LEMMA CalmInv == IInv /\ BecomeCalm => IInv'
BY DEF IInv, TypeOK, KnownInv, UsesRegistry, own, MetricMatchesDecision, BecomeCalm

LEMMA StutterInv == IInv /\ UNCHANGED vars => IInv'
BY DEF IInv, TypeOK, KnownInv, UsesRegistry, own, MetricMatchesDecision, vars

LEMMA NextInv == IInv /\ [Next]_vars => IInv'
<1> SUFFICES ASSUME IInv, [Next]_vars PROVE IInv'
  OBVIOUS
<1>1. ASSUME NEW g \in RegistryRegions, Invocation(g) PROVE IInv'
  BY <1>1, InvocationInv
<1>2. CASE Recycle
  BY <1>2, RecycleInv
<1>3. ASSUME NEW g \in Regions, LeaseEnds(g) PROVE IInv'
  BY <1>3, LeaseEndsInv
<1>4. ASSUME NEW d \in others, Elsewhere(d) PROVE IInv'
  BY <1>4, ElsewhereInv
<1>5. ASSUME NEW p \in points, Appear(p) \/ Expire(p) PROVE IInv'
  BY <1>5, AppearInv
<1>6. CASE BecomeCalm
  BY <1>6, CalmInv
<1>7. CASE UNCHANGED vars
  BY <1>7, StutterInv
<1> QED
  BY <1>1, <1>2, <1>3, <1>4, <1>5, <1>6, <1>7 DEF Next

LEMMA Invariance == Spec => []IInv
BY InitInv, NextInv, PTL DEF Spec

(* The trackers, the registries of all regions, what is in CloudWatch and  *)
(* the outcomes are of their types, for any deployments and resources.     *)
THEOREM TypeCorrect == Spec => []TypeOK
<1>1. IInv => TypeOK
  BY DEF IInv
<1> QED
  BY <1>1, Invariance, PTL

(* For any deployments, the metric of an invocation shows the count that   *)
(* its batch was decided on.                                               *)
THEOREM MetricShowsDecision == Spec => []MetricMatchesDecision
<1>1. IInv => MetricMatchesDecision
  BY DEF IInv
<1> QED
  BY <1>1, Invariance, PTL

-----------------------------------------------------------------------------
(***************************************************************************)
(* Whose resources a fresh count contains.                                 *)
(***************************************************************************)

(* A lease is taken by a query only, whose answer becomes the count.       *)
LEMMA LeaseIsTakenByQuery ==
    ASSUME IInv, [Next]_vars, NEW g \in Regions, TakesLease(g)
    PROVE  \E R \in setup.batches : \E S \in Answers(g) :
              /\ R \subseteq Arns /\ S \subseteq Arns
              /\ tracker' = tracker \cup R /\ setup' = setup
              /\ registry'[g].known = S \cup R
              /\ outcome'.decision = Verdict(Cardinality(S \cup R))
<1>0. registry[g].lease = FALSE /\ registry'[g].lease = TRUE
      /\ registry \in [Regions -> [lease : BOOLEAN, known : SUBSET Arns]]
  <2>1. registry \in [Regions -> [lease : BOOLEAN, known : SUBSET Arns]]
        /\ registry' \in [Regions -> [lease : BOOLEAN, known : SUBSET Arns]]
    BY NextInv DEF IInv, TypeOK
  <2> QED
    BY <2>1 DEF TakesLease
<1>1. \E h \in RegistryRegions : \E R \in setup.batches :
        CountDenied(h, R) \/ CountUnasked(h, R) \/ CountActive(h, R)
  <2>1. registry' # registry
    BY <1>0
  <2>2. ~ Recycle
    BY <1>0 DEF Recycle, NoRegistry
  <2>3. ASSUME NEW h \in Regions PROVE ~ LeaseEnds(h)
    BY <1>0 DEF LeaseEnds
  <2> QED
    BY <2>1, <2>2, <2>3
       DEF Next, Invocation, DecideAside, RefuseProject, CountTracked, Elsewhere,
           Appear, Expire, BecomeCalm, vars
<1>2. PICK h \in RegistryRegions, R \in setup.batches :
        CountDenied(h, R) \/ CountUnasked(h, R) \/ CountActive(h, R)
  BY <1>1
<1>3. h \in Regions /\ R \subseteq Arns
  BY RegistriesType, SetupType DEF IInv
<1>4. ASSUME NEW r, Count(h, R, r)
      PROVE  /\ h = g /\ r.kept = registry'[g] /\ Track(R)
             /\ Decide(g, IF r.final THEN "unknown" ELSE Verdict(r.count), r.count)
  <2>1. registry' = [registry EXCEPT ![h] = r.kept]
    BY <1>4 DEF Count
  <2>2. h = g
    BY <1>0, <2>1
  <2> QED
    BY <1>0, <1>3, <1>4, <2>1, <2>2 DEF Count
<1>5. ~ CountDenied(h, R)
  <2> SUFFICES ASSUME CountDenied(h, R) PROVE FALSE
    OBVIOUS
  <2>1. PICK r \in Denied(h) : Count(h, R, r)
    BY DEF CountDenied
  <2>2. r.kept = registry[h]
    BY DEF Denied
  <2> QED
    BY <1>0, <1>4, <2>1, <2>2
<1>6. ~ CountUnasked(h, R)
  <2> SUFFICES ASSUME CountUnasked(h, R) PROVE FALSE
    OBVIOUS
  <2>1. PICK r \in Unasked(h, R) : Count(h, R, r)
    BY DEF CountUnasked
  <2>2. r.kept.lease = registry[h].lease
    <3>1. TypeOK
      BY DEF IInv
    <3>2. r.kept = [lease |-> registry[h].lease, known |-> registry[h].known \cup R]
      BY <1>3, <2>1, <3>1, UnaskedType, Zenon
    <3> QED
      BY <3>2
  <2> QED
    BY <1>0, <1>4, <2>1, <2>2
<1>7. PICK r \in Asked(h, R) : Count(h, R, r)
  BY <1>2, <1>5, <1>6 DEF CountActive
<1>8. /\ h = g /\ r.kept = registry'[g] /\ Track(R)
      /\ Decide(g, IF r.final THEN "unknown" ELSE Verdict(r.count), r.count)
  BY <1>4, <1>7
<1>9. PICK S \in Answers(g) :
        /\ S \subseteq Arns /\ r.kept = [lease |-> TRUE, known |-> S \cup R]
        /\ r.count = Cardinality(S \cup R) /\ r.final = FALSE
  <2>1. TypeOK
    BY DEF IInv
  <2> QED
    <3>1. PICK S \in Answers(h) :
            /\ r = Result(TRUE, S \cup R) /\ S \subseteq Arns
            /\ r.kept = [lease |-> TRUE, known |-> S \cup R]
            /\ r.kept \in [lease : BOOLEAN, known : SUBSET Arns]
            /\ r.count \in Nat /\ r.count = Cardinality(S \cup R)
            /\ r.count = Cardinality(r.kept.known) /\ r.final = FALSE
      BY <1>3, <1>7, <2>1, AskedType, Zenon
    <3>2. S \in Answers(g)
      BY <1>8
    <3> QED
      BY <3>1, <3>2, Zenon
<1>10. registry'[g].known = S \cup R
  BY <1>8, <1>9
<1>11. outcome'.decision = Verdict(Cardinality(S \cup R))
  BY <1>8, <1>9 DEF Decide
<1>12. tracker' = tracker \cup R /\ setup' = setup
  BY <1>8, TrackType DEF IInv
<1> QED
  BY <1>3, <1>9, <1>10, <1>11, <1>12

(* What a query can find is what was written for the entitlement: all that *)
(* is shown, and nothing that only others write.                           *)
LEMMA FoundIsOfEntitlement ==
    ASSUME TypeOK, NEW g
    PROVE  /\ OfEntitlement(Shown, g) \subseteq Found(Shown, g)
           /\ Found(points, g) \subseteq OnlyOfEntitlement(points, g)
<1>1. setup \in Setups /\ own \in Everyone(setup)
      /\ others \cup {own} \subseteq Everyone(setup)
  BY SetupType DEF TypeOK
<1>2. \A d \in others \cup {own} : Same(d, own) <=> ResolveEntitlementKey(d) = EntitlementKey
  BY <1>1, SameIsOneKey DEF KeyOf, EntitlementKey
<1>3. OfEntitlement(Shown, g) \subseteq Found(Shown, g)
  BY <1>2 DEF OfEntitlement, Found
<1>4. Found(points, g) \subseteq OnlyOfEntitlement(points, g)
  BY <1>2 DEF OnlyOfEntitlement, Found
<1> QED
  BY <1>3, <1>4

(* For any deployments and resources, a container that asks CloudWatch     *)
(* counts what is shown of its own entitlement, and of no other.           *)
THEOREM OneEntitlement == Spec => CountsOneEntitlement
<1>1. ASSUME IInv, [Next]_vars, NEW g \in Regions, TakesLease(g)
      PROVE  /\ OfEntitlement(Shown, g) \subseteq registry'[g].known
             /\ registry'[g].known \subseteq OnlyOfEntitlement(points, g) \cup tracker'
  <2>1. PICK R \in setup.batches, S \in Answers(g) :
          tracker' = tracker \cup R /\ registry'[g].known = S \cup R
    BY <1>1, LeaseIsTakenByQuery
  <2>2. Found(Shown, g) \subseteq S /\ S \subseteq Found(points, g)
    BY DEF Answers
  <2>3. /\ OfEntitlement(Shown, g) \subseteq Found(Shown, g)
        /\ Found(points, g) \subseteq OnlyOfEntitlement(points, g)
    BY <1>1, FoundIsOfEntitlement DEF IInv
  <2> QED
    BY <2>1, <2>2, <2>3
<1>2. IInv /\ [Next]_vars =>
        [\A g \in Regions : TakesLease(g) =>
            /\ OfEntitlement(Shown, g) \subseteq registry'[g].known
            /\ registry'[g].known \subseteq OnlyOfEntitlement(points, g) \cup tracker'
        ]_vars
  BY <1>1
<1> QED
  BY <1>2, Invariance, PTL DEF Spec, CountsOneEntitlement

(* For any fleet and limit, no batch is within the quota on a fresh count  *)
(* while more resources than the limit are shown or new in it.             *)
THEOREM QuotaCoversFleet == Spec => FleetWithinQuota
<1>1. ASSUME IInv, [Next]_vars, NEW g \in Regions, TakesLease(g),
             outcome'.decision = "within"
      PROVE  Cardinality(OfEntitlement(Shown, g) \cup (tracker' \ tracker)) <= Limit
  <2>1. PICK R \in setup.batches, S \in Answers(g) :
          /\ R \subseteq Arns /\ S \subseteq Arns
          /\ tracker' = tracker \cup R
          /\ outcome'.decision = Verdict(Cardinality(S \cup R))
    BY <1>1, LeaseIsTakenByQuery
  <2>2. OfEntitlement(Shown, g) \subseteq S
    <3>1. Found(Shown, g) \subseteq S
      BY DEF Answers
    <3> QED
      BY <1>1, <3>1, FoundIsOfEntitlement DEF IInv
  <2> DEFINE counted == S \cup R
             seen == OfEntitlement(Shown, g) \cup (tracker' \ tracker)
  <2>3. seen \subseteq counted /\ counted \subseteq Arns
    BY <2>1, <2>2
  <2>4. Verdict(Cardinality(counted)) = "within"
    BY <1>1, <2>1
  <2> HIDE DEF counted, seen
  <2>5. /\ IsFiniteSet(counted) /\ Cardinality(counted) \in Nat
        /\ Cardinality(seen) \in Nat /\ Cardinality(seen) <= Cardinality(counted)
    BY <2>3, ArnsAreFinite, FS_Subset
  <2>6. Limit \in Nat
    BY <1>1, SetupType DEF IInv
  <2>7. Cardinality(counted) <= Limit
    BY <2>4, <2>5, <2>6 DEF Verdict
  <2>8. Cardinality(seen) <= Limit
    BY <2>5, <2>6, <2>7
  <2> QED
    BY <2>8 DEF seen
<1>2. IInv /\ [Next]_vars =>
        [\A g \in Regions : TakesLease(g) /\ outcome'.decision = "within" =>
            Cardinality(OfEntitlement(Shown, g) \cup (tracker' \ tracker)) <= Limit
        ]_vars
  BY <1>1
<1> QED
  BY <1>2, Invariance, PTL DEF Spec, FleetWithinQuota

-----------------------------------------------------------------------------
(***************************************************************************)
(* Where the metrics go: MetricEmission.                                   *)
(***************************************************************************)

(* While the requests are made the sample is in the log, for each          *)
(* namespace the requests use.                                             *)
PutInv ==
    pc \in {"product", "license"} =>
        /\ CentralRegion # home
        /\ SampleFor(home, "product") \in logged
        /\ \A space \in Spaces : SampleFor(home, space) \in logged

LicenseInv == pc = "license" => "license" \in Spaces

(* No sample is above the total, which only grows. *)
TotalInv == \A s \in logged \cup stored : s.bytes <= total

EmissionInv == METypeOK /\ PutInv /\ LicenseInv /\ TotalInv /\ BilledIsLogged

LEMMA EmissionInitInv == MEInit => EmissionInv
<1> SUFFICES ASSUME MEInit PROVE EmissionInv
    OBVIOUS
<1>1. 0 \in 0 .. MaxBytes
    BY EmissionAssumption
<1>2. METypeOK
    BY <1>1 DEF MEInit, METypeOK
<1>3. PutInv /\ LicenseInv /\ TotalInv /\ BilledIsLogged
    BY DEF MEInit, PutInv, LicenseInv, TotalInv, BilledIsLogged
<1> QED BY <1>2, <1>3 DEF EmissionInv

(* The samples of this emission are samples. *)
LEMMA SampleType ==
    ASSUME METypeOK, NEW space \in Namespaces
    PROVE  /\ CentralRegion \in MERegions /\ home \in MERegions
           /\ \A region \in MERegions :
                 /\ SampleFor(region, space) \in Sample
                 /\ SampleFor(region, space).bytes = total
                 /\ SampleFor(region, space).region = region
BY DEF METypeOK, CentralRegion, MERegions, SampleFor, Sample

(* Invoke keeps the log and the other regions, and the total may grow. *)
LEMMA InvokeInv == EmissionInv /\ Invoke => EmissionInv'
<1> SUFFICES ASSUME EmissionInv, Invoke PROVE EmissionInv'
    OBVIOUS
<1> USE DEF EmissionInv
<1>1. total \in Nat /\ total' \in Nat /\ total <= total'
    BY EmissionAssumption DEF Invoke, METypeOK
<1>2. METypeOK'
    BY DEF Invoke, METypeOK, deployment
<1>3. PutInv' /\ LicenseInv'
    BY DEF Invoke, PutInv, LicenseInv
<1>4. TotalInv'
    <2> SUFFICES ASSUME NEW s \in logged \cup stored PROVE s.bytes <= total'
        BY DEF TotalInv, Invoke
    <2>1. s.bytes \in Nat
        BY EmissionAssumption DEF METypeOK, Sample
    <2>2. s.bytes <= total
        BY DEF TotalInv
    <2> QED BY <1>1, <2>1, <2>2
<1>5. BilledIsLogged'
    BY DEF Invoke, BilledIsLogged, deployment
<1> QED BY <1>2, <1>3, <1>4, <1>5

LEMMA FailInv == EmissionInv /\ InvocationFails => EmissionInv'
BY DEF EmissionInv, InvocationFails, METypeOK, PutInv, LicenseInv, TotalInv,
       BilledIsLogged, deployment

(* EmitMetrics logs one sample for each namespace. *)
LEMMA EmitInv == EmissionInv /\ EmitMetrics => EmissionInv'
<1> SUFFICES ASSUME EmissionInv, EmitMetrics PROVE EmissionInv'
    OBVIOUS
<1> USE DEF EmissionInv
<1>0. /\ UNCHANGED <<deployment, total, claims, expired, stored>>
      /\ logged' = logged \cup {SampleFor(home, space) : space \in Spaces}
      /\ pc' = IF CentralRegion = home THEN "idle" ELSE "product"
    BY DEF EmitMetrics, EmitEMF
<1>1. Spaces \subseteq Namespaces /\ "product" \in Spaces
    BY DEF Spaces, Namespaces
<1>2. \A space \in Namespaces :
         SampleFor(home, space) \in Sample /\ SampleFor(home, space).bytes = total
    BY SampleType
<1>3. METypeOK'
    BY <1>0, <1>1, <1>2 DEF METypeOK, deployment
<1>4. CentralRegion' = CentralRegion /\ Spaces' = Spaces
      /\ \A space : SampleFor(home, space)' = SampleFor(home, space)
    BY <1>0 DEF CentralRegion, Spaces, SampleFor, deployment
<1>5. PutInv'
    BY <1>0, <1>1, <1>4 DEF PutInv, deployment, SampleFor
<1>6. LicenseInv'
    BY <1>0 DEF LicenseInv
<1>7. total \in Nat
    BY EmissionAssumption DEF METypeOK
<1>8. TotalInv'
    BY <1>0, <1>1, <1>2, <1>7 DEF TotalInv
<1>9. BilledIsLogged'
    BY <1>0 DEF BilledIsLogged, deployment
<1> QED BY <1>3, <1>5, <1>6, <1>8, <1>9

(* A request stores this emission's sample, or nothing. *)
LEMMA PutStores ==
    ASSUME NEW space \in Namespaces, EmissionInv, Put(space),
           SampleFor(home, space) \in logged, CentralRegion # home,
           UNCHANGED <<deployment, total, claims, logged>>
    PROVE  /\ stored' \subseteq stored \cup {SampleFor(CentralRegion, space)}
           /\ expired' \in BOOLEAN
           /\ stored' \subseteq Sample
           /\ TotalInv' /\ BilledIsLogged'
<1> USE DEF EmissionInv
<1>1. /\ stored' \subseteq stored \cup {SampleFor(CentralRegion, space)}
      /\ expired' \in BOOLEAN
    BY DEF Put, METypeOK
<1>2. /\ SampleFor(CentralRegion, space) \in Sample
      /\ SampleFor(CentralRegion, space).bytes = total
      /\ SampleFor(CentralRegion, space).region = CentralRegion
    BY SampleType
<1>3. stored' \subseteq Sample
    BY <1>1, <1>2 DEF METypeOK
<1>4. total \in Nat
    BY EmissionAssumption DEF METypeOK
<1>5. TotalInv'
    BY <1>1, <1>2, <1>4 DEF TotalInv
<1>6. [SampleFor(CentralRegion, space) EXCEPT !.region = home]
        = SampleFor(home, space)
    BY DEF SampleFor
<1>7. BilledIsLogged'
    BY <1>1, <1>2, <1>6 DEF BilledIsLogged, deployment
<1> QED BY <1>1, <1>3, <1>5, <1>7

LEMMA PutProductInv == EmissionInv /\ PutProduct => EmissionInv'
<1> SUFFICES ASSUME EmissionInv, PutProduct PROVE EmissionInv'
    OBVIOUS
<1>1. /\ Put("product")
      /\ UNCHANGED <<deployment, total, claims, logged>>
      /\ pc = "product" /\ pc' = IF "license" \in Spaces THEN "license" ELSE "idle"
      /\ "product" \in Namespaces
    BY DEF PutProduct, Namespaces
<1>2. SampleFor(home, "product") \in logged /\ CentralRegion # home
    BY <1>1 DEF EmissionInv, PutInv
<1>3. stored' \subseteq Sample /\ expired' \in BOOLEAN /\ TotalInv' /\ BilledIsLogged'
    BY <1>1, <1>2, PutStores
<1>4. METypeOK'
    BY <1>1, <1>3 DEF EmissionInv, METypeOK, deployment
<1>5. PutInv' /\ LicenseInv'
    BY <1>1 DEF EmissionInv, PutInv, LicenseInv, CentralRegion, Spaces, SampleFor, deployment
<1> QED BY <1>3, <1>4, <1>5 DEF EmissionInv

LEMMA PutLicenseInv == EmissionInv /\ PutLicense => EmissionInv'
<1> SUFFICES ASSUME EmissionInv, PutLicense PROVE EmissionInv'
    OBVIOUS
<1>1. /\ Put("license")
      /\ UNCHANGED <<deployment, total, claims, logged>>
      /\ pc = "license" /\ pc' = "idle"
      /\ "license" \in Namespaces
    BY DEF PutLicense, Namespaces
<1>2. SampleFor(home, "license") \in logged /\ CentralRegion # home
    BY <1>1 DEF EmissionInv, PutInv, LicenseInv
<1>3. stored' \subseteq Sample /\ expired' \in BOOLEAN /\ TotalInv' /\ BilledIsLogged'
    BY <1>1, <1>2, PutStores
<1>4. METypeOK'
    BY <1>1, <1>3 DEF EmissionInv, METypeOK, deployment
<1>5. PutInv' /\ LicenseInv'
    BY <1>1 DEF PutInv, LicenseInv, Spaces
<1> QED BY <1>3, <1>4, <1>5 DEF EmissionInv

LEMMA EmissionStutterInv == EmissionInv /\ UNCHANGED MEvars => EmissionInv'
BY DEF EmissionInv, MEvars, deployment, METypeOK, PutInv, LicenseInv, TotalInv,
       BilledIsLogged, CentralRegion, Spaces, SampleFor

LEMMA EmissionNextInv == EmissionInv /\ [MENext]_MEvars => EmissionInv'
BY InvokeInv, FailInv, EmitInv, PutProductInv, PutLicenseInv, EmissionStutterInv DEF MENext

LEMMA EmissionInvariance == MESpec => []EmissionInv
BY EmissionInitInv, EmissionNextInv, PTL DEF MESpec

(* EmitMetrics and the two requests: what they write are samples of the    *)
(* regions and namespaces there are, and no sample is above the bound.     *)
THEOREM EmissionTypeCorrect == MESpec => []METypeOK
<1>1. EmissionInv => METypeOK
    BY DEF EmissionInv
<1> QED BY <1>1, EmissionInvariance, PTL

(* For all regions and volumes, what is billed in a central region is in   *)
(* the container's own log.                                                *)
THEOREM BilledCanBeAudited == MESpec => []BilledIsLogged
<1>1. EmissionInv => BilledIsLogged
    BY DEF EmissionInv
<1> QED BY <1>1, EmissionInvariance, PTL

(* One step stores the current total at most, which no sample exceeds. *)
LEMMA StepCovers ==
    ASSUME EmissionInv, [MENext]_MEvars
    PROVE  \A s \in stored' \ stored, t \in logged \cup stored : s.bytes >= t.bytes
<1> SUFFICES ASSUME NEW s \in stored' \ stored, NEW t \in logged \cup stored
             PROVE  s.bytes >= t.bytes
    OBVIOUS
<1>1. PICK space \in Namespaces : Put(space)
    BY DEF MENext, MEvars, Invoke, InvocationFails, EmitMetrics, PutProduct, PutLicense,
           Namespaces
<1>2. s = SampleFor(CentralRegion, space)
    BY <1>1 DEF Put
<1>3. s.bytes = total
    BY <1>2, SampleType DEF EmissionInv
<1>4. t.bytes <= total /\ t.bytes \in Nat /\ total \in Nat
    BY EmissionAssumption DEF EmissionInv, TotalInv, METypeOK, Sample
<1> QED BY <1>3, <1>4

(* For all regions and volumes, a sample that gets through covers every    *)
(* one that was lost before.                                               *)
THEOREM LossesAreCovered == MESpec => LostSamplesAreCovered
<1>1. EmissionInv /\ [MENext]_MEvars =>
         [\A s \in stored' \ stored, t \in logged \cup stored : s.bytes >= t.bytes]_MEvars
    BY StepCovers
<1> QED BY <1>1, EmissionInvariance, PTL DEF MESpec, LostSamplesAreCovered
=============================================================================
