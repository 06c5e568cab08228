--------------------------- MODULE MeteringProofs ---------------------------
(***************************************************************************)
(* Proofs about Metering, for any messages, containers, ceilings and       *)
(* intervals.  The volumes are folds over finite sets; what a fold is      *)
(* worth follows by induction over the subsets of a finite set, in the     *)
(* form of a minimal counterexample.                                       *)
(***************************************************************************)
EXTENDS Metering, FiniteSetTheorems, TLAPS

SumOver(f, S) == FoldFunctionOnSet(+, 0, f, S)

-----------------------------------------------------------------------------
(***************************************************************************)
(* Sums.                                                                   *)
(***************************************************************************)

(* Among sets of elements of a finite set one is minimal.                  *)
LEMMA MinimalSubset ==
    ASSUME NEW S, IsFiniteSet(S), NEW B \in SUBSET (SUBSET S), B # {}
    PROVE  \E s \in B : \A t \in B : t \subseteq s => t = s
<1>1. IsWellFoundedOn(StrictSubsetOrdering(S), FiniteSubsetsOf(S))
  BY FS_StrictSubsetOrderingWellFounded
<1>2. B \subseteq FiniteSubsetsOf(S)
  BY FS_Subset DEF FiniteSubsetsOf
<1>3. PICK s \in B : \A t \in B : ~ (<<t, s>> \in StrictSubsetOrdering(S))
  BY <1>1, <1>2, WFMin, Zenon
<1>4. \A t \in SUBSET S : t \subseteq s /\ t # s => <<t, s>> \in StrictSubsetOrdering(S)
  BY DEF StrictSubsetOrdering
<1>5. \A t \in B : t \subseteq s => t = s
  BY <1>3, <1>4
<1> QED
  BY <1>5

(* The element that a fold takes first, and what the function that the     *)
(* fold is defined by has to fulfil.                                       *)
Pick(s) == CHOOSE x \in s : TRUE
Sums(g, f, S) ==
    g = [s \in SUBSET S |-> IF s = {} THEN 0 ELSE f[Pick(s)] + g[s \ {Pick(s)}]]

LEMMA SumIsFold ==
    ASSUME NEW f, NEW S
    PROVE  SumOver(f, S) = (CHOOSE g : Sums(g, f, S))[S]
BY DEF SumOver, FoldFunctionOnSet, MapThenFoldSet, Sums, Pick

LEMMA PickIsMember == ASSUME NEW s, s # {} PROVE Pick(s) \in s
BY DEF Pick

LEMMA SumsAreUnique ==
    ASSUME NEW f, NEW S, IsFiniteSet(S), NEW T \in SUBSET S,
           NEW g, Sums(g, f, S), NEW h, Sums(h, f, T)
    PROVE  g[T] = h[T]
<1> DEFINE B == {s \in SUBSET T : g[s] # h[s]}
<1> SUFFICES ASSUME B # {} PROVE FALSE
  OBVIOUS
<1>1. IsFiniteSet(T)
  BY FS_Subset
<1>2. PICK s \in B : \A t \in B : t \subseteq s => t = s
  <2>1. B \in SUBSET (SUBSET T)
    OBVIOUS
  <2> HIDE DEF B
  <2> QED  BY <1>1, <2>1, MinimalSubset
<1>3. s # {}
  BY DEF Sums
<1>4. Pick(s) \in s
  BY <1>3, PickIsMember
<1>5. g[s \ {Pick(s)}] = h[s \ {Pick(s)}]
  BY <1>2, <1>4
<1>6. /\ g[s] = f[Pick(s)] + g[s \ {Pick(s)}]
      /\ h[s] = f[Pick(s)] + h[s \ {Pick(s)}]
  BY <1>3 DEF Sums
<1> QED
  BY <1>5, <1>6

(* Such a function exists, and takes the sums as its values.               *)
LEMMA SumsExist ==
    ASSUME NEW f, NEW S, IsFiniteSet(S)
    PROVE  \E g : Sums(g, f, S)
<1> DEFINE B == {T \in SUBSET S : ~ \E g : Sums(g, f, T)}
<1> SUFFICES ASSUME B # {} PROVE FALSE
  BY DEF B
<1>1. PICK T \in B : \A U \in B : U \subseteq T => U = T
  <2>1. B \in SUBSET (SUBSET S)
    OBVIOUS
  <2> HIDE DEF B
  <2> QED  BY <2>1, MinimalSubset
<1>2. IsFiniteSet(T) /\ T \in SUBSET S
  BY <1>1, FS_Subset
<1>3. ASSUME NEW U \in SUBSET T, U # T
      PROVE  Sums(CHOOSE g : Sums(g, f, U), f, U)
  <2>1. \E g : Sums(g, f, U)
    BY <1>1, <1>3
  <2> QED  BY <2>1
<1> DEFINE h == [s \in SUBSET T |->
                   IF s = {} THEN 0 ELSE f[Pick(s)] + SumOver(f, s \ {Pick(s)})]
<1>4. ASSUME NEW U \in SUBSET T, U # T
      PROVE  h[U] = SumOver(f, U)
  <2> DEFINE g == CHOOSE k : Sums(k, f, U)
  <2>1. Sums(g, f, U) /\ SumOver(f, U) = g[U]
    BY <1>3, <1>4, SumIsFold
  <2>2. CASE U = {}
    <3>1. g[U] = 0
      BY <2>1, <2>2 DEF Sums
    <3> QED  BY <2>1, <2>2, <3>1
  <2>3. CASE U # {}
    <3> DEFINE V == U \ {Pick(U)}
               k == CHOOSE k : Sums(k, f, V)
    <3>1. Pick(U) \in U
      BY <2>3, PickIsMember
    <3>2. V \in SUBSET T /\ V # T /\ V \in SUBSET U
      BY <1>4, <3>1
    <3>3. Sums(k, f, V) /\ SumOver(f, V) = k[V]
      BY <1>3, <3>2, SumIsFold
    <3>4. IsFiniteSet(U)
      BY <1>2, FS_Subset
    <3>5. g[V] = k[V]
      BY <2>1, <3>2, <3>3, <3>4, SumsAreUnique
    <3>6. g[U] = f[Pick(U)] + g[V]
      BY <2>1, <2>3 DEF Sums
    <3> QED  BY <2>1, <2>3, <3>3, <3>5, <3>6
  <2> QED  BY <2>2, <2>3
<1>5. Sums(h, f, T)
  <2>1. ASSUME NEW s \in SUBSET T, s # {}
        PROVE  h[s \ {Pick(s)}] = SumOver(f, s \ {Pick(s)})
    BY <1>4, <2>1, PickIsMember
  <2> QED
    BY <2>1 DEF Sums
<1> QED
  BY <1>1, <1>5

(* Nothing adds up to 0.                                                   *)
LEMMA SumOfNone == ASSUME NEW f PROVE SumOver(f, {}) = 0
BY DEF SumOver, FoldFunctionOnSet, MapThenFoldSet

(* A sum takes one element after the other.                                *)
LEMMA SumTakesOne ==
    ASSUME NEW f, NEW S, IsFiniteSet(S), S # {}
    PROVE  SumOver(f, S) = f[Pick(S)] + SumOver(f, S \ {Pick(S)})
<1> DEFINE g == CHOOSE k : Sums(k, f, S)
           T == S \ {Pick(S)}
           h == CHOOSE k : Sums(k, f, T)
<1>1. IsFiniteSet(T) /\ T \in SUBSET S
  BY FS_Subset
<1>2. Sums(g, f, S) /\ Sums(h, f, T)
  BY <1>1, SumsExist
<1>3. SumOver(f, S) = g[S] /\ SumOver(f, T) = h[T]
  BY SumIsFold
<1>4. g[T] = h[T]
  BY <1>1, <1>2, SumsAreUnique
<1>5. g[S] = f[Pick(S)] + g[T]
  BY <1>2 DEF Sums
<1> QED
  BY <1>3, <1>4, <1>5

(* Numbers add up to a number.                                             *)
LEMMA SumIsNumber ==
    ASSUME NEW f, NEW S, IsFiniteSet(S), \A x \in S : f[x] \in Nat
    PROVE  SumOver(f, S) \in Nat
<1> DEFINE B == {T \in SUBSET S : SumOver(f, T) \notin Nat}
<1> SUFFICES ASSUME B # {} PROVE FALSE
  OBVIOUS
<1>1. PICK T \in B : \A U \in B : U \subseteq T => U = T
  <2>1. B \in SUBSET (SUBSET S)
    OBVIOUS
  <2> HIDE DEF B
  <2> QED  BY <2>1, MinimalSubset
<1>2. IsFiniteSet(T) /\ T # {}
  <2>1. SumOver(f, T) \notin Nat
    BY <1>1
  <2>2. SumOver(f, {}) \in Nat
    BY SumOfNone
  <2>3. T # {}
    BY <2>1, <2>2
  <2> QED  BY <2>3, FS_Subset
<1>3. Pick(T) \in T /\ f[Pick(T)] \in Nat
  BY <1>2, PickIsMember
<1>4. SumOver(f, T \ {Pick(T)}) \in Nat
  BY <1>1, <1>3
<1>5. SumOver(f, T) = f[Pick(T)] + SumOver(f, T \ {Pick(T)})
  BY <1>2, SumTakesOne
<1> QED
  BY <1>1, <1>3, <1>4, <1>5

(* The order does not matter.                                              *)
LEMMA SumTakesAny ==
    ASSUME NEW f, NEW S, IsFiniteSet(S), \A x \in S : f[x] \in Nat, NEW x \in S
    PROVE  SumOver(f, S) = f[x] + SumOver(f, S \ {x})
<1> DEFINE Any(T, y) == SumOver(f, T) = f[y] + SumOver(f, T \ {y})
           B == {T \in SUBSET S : \E y \in T : ~ Any(T, y)}
<1> SUFFICES ASSUME B # {} PROVE FALSE
  OBVIOUS
<1>1. PICK T \in B : \A U \in B : U \subseteq T => U = T
  <2>1. B \in SUBSET (SUBSET S)
    OBVIOUS
  <2> HIDE DEF B
  <2> QED  BY <2>1, MinimalSubset
<1>2. PICK y \in T : ~ Any(T, y)
  BY <1>1
<1> DEFINE p == Pick(T)
<1>3. T \in SUBSET S /\ p \in T
  BY <1>1, <1>2, PickIsMember
<1>4. ASSUME NEW U \in SUBSET S
      PROVE  IsFiniteSet(U) /\ SumOver(f, U) \in Nat
  BY FS_Subset, SumIsNumber
<1>5. Any(T, p)
  BY <1>3, <1>4, SumTakesOne
<1> HIDE DEF p
<1>6. p # y
  BY <1>2, <1>5
<1>7. ASSUME NEW U \in SUBSET T, U # T, NEW z \in U
      PROVE  Any(U, z)
  BY <1>1, <1>3, <1>7
<1> DEFINE V == T \ {p, y}
<1>8. /\ (T \ {p}) \ {y} = V /\ (T \ {y}) \ {p} = V
      /\ T \ {p} \in SUBSET T /\ T \ {p} # T /\ y \in T \ {p}
      /\ T \ {y} \in SUBSET T /\ T \ {y} # T /\ p \in T \ {y}
      /\ V \in SUBSET S
  BY <1>2, <1>3, <1>6
<1>9. Any(T \ {p}, y) /\ Any(T \ {y}, p)
  BY <1>7, <1>8
<1>10. SumOver(f, T) = f[p] + (f[y] + SumOver(f, V))
  BY <1>5, <1>8, <1>9
<1>11. SumOver(f, T \ {y}) = f[p] + SumOver(f, V)
  BY <1>8, <1>9
<1>12. SumOver(f, V) \in Nat /\ f[p] \in Nat /\ f[y] \in Nat
  BY <1>2, <1>3, <1>4, <1>8
<1> HIDE DEF V
<1>13. SumOver(f, T) = f[y] + SumOver(f, T \ {y})
  BY <1>10, <1>11, <1>12
<1> QED
  BY <1>2, <1>13

(* Equal values have equal sums.                                           *)
LEMMA SumOfEqual ==
    ASSUME NEW f, NEW g, NEW S, IsFiniteSet(S), \A x \in S : f[x] = g[x]
    PROVE  SumOver(f, S) = SumOver(g, S)
<1> DEFINE B == {T \in SUBSET S : SumOver(f, T) # SumOver(g, T)}
<1> SUFFICES ASSUME B # {} PROVE FALSE
  OBVIOUS
<1>1. PICK T \in B : \A U \in B : U \subseteq T => U = T
  <2>1. B \in SUBSET (SUBSET S)
    OBVIOUS
  <2> HIDE DEF B
  <2> QED  BY <2>1, MinimalSubset
<1>2. IsFiniteSet(T) /\ T # {}
  BY <1>1, FS_Subset, SumOfNone
<1>3. Pick(T) \in T
  BY <1>2, PickIsMember
<1>4. SumOver(f, T \ {Pick(T)}) = SumOver(g, T \ {Pick(T)})
  BY <1>1, <1>3
<1>5. /\ SumOver(f, T) = f[Pick(T)] + SumOver(f, T \ {Pick(T)})
      /\ SumOver(g, T) = g[Pick(T)] + SumOver(g, T \ {Pick(T)})
  BY <1>2, SumTakesOne
<1> QED
  BY <1>1, <1>3, <1>4, <1>5

(* A value that changes changes the sum by as much.                        *)
LEMMA SumOfChanged ==
    ASSUME NEW S, IsFiniteSet(S), NEW f, NEW g, NEW x \in S,
           \A y \in S : f[y] \in Nat /\ g[y] \in Nat,
           \A y \in S \ {x} : g[y] = f[y]
    PROVE  SumOver(g, S) = SumOver(f, S) - f[x] + g[x]
<1> DEFINE T == S \ {x}
<1>1. IsFiniteSet(T) /\ T \subseteq S
  BY FS_Subset
<1> HIDE DEF T
<1>2. SumOver(f, T) = SumOver(g, T)
  BY <1>1, SumOfEqual DEF T
<1>3. SumOver(f, S) = f[x] + SumOver(f, T) /\ SumOver(g, S) = g[x] + SumOver(g, T)
  BY SumTakesAny DEF T
<1>4. SumOver(f, T) \in Nat
  BY <1>1, SumIsNumber
<1> QED
  BY <1>2, <1>3, <1>4

(* What is in either of two sets adds up to no more than both sets do.     *)
LEMMA SumOfUnion ==
    ASSUME NEW f, NEW S, IsFiniteSet(S), \A x \in S : f[x] \in Nat,
           NEW T \in SUBSET S, NEW U \in SUBSET S
    PROVE  SumOver(f, T \cup U) <= SumOver(f, T) + SumOver(f, U)
<1> DEFINE Within(V) == SumOver(f, T \cup V) <= SumOver(f, T) + SumOver(f, V)
           B == {V \in SUBSET S : ~ Within(V)}
<1> SUFFICES ASSUME B # {} PROVE FALSE
  OBVIOUS
<1>1. PICK V \in B : \A W \in B : W \subseteq V => W = V
  <2>1. B \in SUBSET (SUBSET S)
    OBVIOUS
  <2> HIDE DEF B
  <2> QED  BY <2>1, MinimalSubset
<1>2. ASSUME NEW W \in SUBSET S
      PROVE  /\ IsFiniteSet(W) /\ SumOver(f, W) \in Nat
             /\ \A x \in W : SumOver(f, W) = f[x] + SumOver(f, W \ {x})
  BY FS_Subset, SumIsNumber, SumTakesAny
<1>3. V # {}
  <2>1. Within({})
    <3>1. SumOver(f, {}) = 0 /\ SumOver(f, T) \in Nat /\ T \cup {} = T
      BY <1>2, SumOfNone
    <3> QED  BY <3>1
  <2>2. ~ Within(V)
    BY <1>1
  <2> HIDE DEF Within
  <2> QED  BY <2>1, <2>2
<1> DEFINE p == Pick(V)
           W == V \ {p}
<1>4. p \in V /\ V \in SUBSET S /\ f[p] \in Nat
  BY <1>1, <1>3, PickIsMember
<1> HIDE DEF p
<1>5. Within(W)
  BY <1>1, <1>4
<1>6. /\ SumOver(f, V) = f[p] + SumOver(f, W)
      /\ SumOver(f, V) \in Nat /\ SumOver(f, W) \in Nat /\ SumOver(f, T) \in Nat
      /\ SumOver(f, T \cup W) \in Nat /\ SumOver(f, T \cup V) \in Nat
  BY <1>2, <1>4
<1>7. CASE p \in T
  <2>1. T \cup V = T \cup W
    BY <1>4, <1>7
  <2> HIDE DEF W
  <2>2. SumOver(f, T \cup V) = SumOver(f, T \cup W)
    BY <2>1
  <2>3. Within(V)
    BY <1>4, <1>5, <1>6, <2>2
  <2> QED  BY <1>1, <2>3
<1>8. CASE p \notin T
  <2>1. (T \cup V) \ {p} = T \cup W /\ p \in T \cup V /\ T \cup V \in SUBSET S
    BY <1>4, <1>8
  <2> HIDE DEF W
  <2>2. SumOver(f, T \cup V) = f[p] + SumOver(f, (T \cup V) \ {p})
    BY <1>2, <2>1
  <2>3. SumOver(f, T \cup V) = f[p] + SumOver(f, T \cup W)
    BY <2>1, <2>2
  <2>4. Within(V)
    BY <1>4, <1>5, <1>6, <2>3
  <2> QED  BY <1>1, <2>4
<1> QED
  BY <1>7, <1>8

(* The volumes of messages.                                                *)
LEMMA BytesAddUp ==
    /\ BytesOf({}) = 0
    /\ \A S \in SUBSET Messages : BytesOf(S) \in Nat
    /\ \A S, T \in SUBSET Messages : BytesOf(S \cup T) <= BytesOf(S) + BytesOf(T)
<1>1. \A S : BytesOf(S) = SumOver(Bytes, S)
  BY DEF BytesOf, SumOver, FoldFunctionOnSet, MapThenFoldSet
<1>2. IsFiniteSet(Messages) /\ \A m \in Messages : Bytes[m] \in Nat
  BY SizeAssumption
<1>3. \A S \in SUBSET Messages : SumOver(Bytes, S) \in Nat
  BY <1>2, FS_Subset, SumIsNumber
<1> QED
  BY <1>1, <1>2, <1>3, SumOfNone, SumOfUnion

LEMMA RecordsAddUp ==
    /\ RecordsOf({}) = 0
    /\ \A S \in SUBSET Messages : RecordsOf(S) \in Nat
    /\ \A S, T \in SUBSET Messages : RecordsOf(S \cup T) <= RecordsOf(S) + RecordsOf(T)
<1>1. \A S : RecordsOf(S) = SumOver(Records, S)
  BY DEF RecordsOf, SumOver, FoldFunctionOnSet, MapThenFoldSet
<1>2. IsFiniteSet(Messages) /\ \A m \in Messages : Records[m] \in Nat
  BY SizeAssumption
<1>3. \A S \in SUBSET Messages : SumOver(Records, S) \in Nat
  BY <1>2, FS_Subset, SumIsNumber
<1> QED
  BY <1>1, <1>2, <1>3, SumOfNone, SumOfUnion

-----------------------------------------------------------------------------
(***************************************************************************)
(* The invariant.                                                          *)
(***************************************************************************)

(* A container at work has the time of a message.                          *)
AuthInv == \A c \in Containers : pc[c] # "idle" => auth[c] >= 1

(* What is read and not yet settled is in the counter and not yet in the   *)
(* last sample; what is settled is in the samples.                         *)
BytesInv ==
    /\ \A c \in Containers :
          sample[c] + (IF pc[c] \in {"enforce", "send"} THEN BytesOf(good[c]) ELSE 0)
            <= bytes[c]
    /\ BytesOf(settled) <= ended + SumOver(sample, Containers)

(* What a container under the free grant has delivered, or is about to, it *)
(* has counted, and the count was within the ceiling then.                 *)
RecordsInv ==
    ~ config.licensed /\ config.strict => \A c \in Containers :
        LET sending == IF pc[c] = "send" THEN RecordsOf(good[c]) ELSE 0 IN
        /\ sending <= MaxBatchRecords
        /\ RecordsOf(delivered[c]) + sending <= counted[c]
        /\ RecordsOf(delivered[c]) + sending <= MaxContainerRecords

(* The last banner is the latest on the clock of Enforce.                  *)
BannerInv ==
    /\ \A c \in Containers :
          /\ warned[c] = 0 => banners[c] = {}
          /\ \A b \in banners[c] : b.at <= warned[c]
    /\ BannersAreApart

(* The parts of TypeOK, one by one.                                        *)
Types ==
    /\ config \in Deployment
    /\ now \in 1 .. MaxTime
    /\ receives \in [Messages -> 0 .. MaxReceive]
    /\ status \in [Messages -> {"visible", "held", "gone"}]
    /\ pc \in [Containers -> {"idle", "read", "enforce", "send"}]
    /\ batch \in [Containers -> SUBSET Messages]
    /\ good \in [Containers -> SUBSET Messages]
    /\ delivered \in [Containers -> SUBSET Messages]
    /\ auth \in [Containers -> 0 .. MaxTime]
    /\ bytes \in [Containers -> Nat]
    /\ counted \in [Containers -> Nat]
    /\ sample \in [Containers -> Nat]
    /\ warned \in [Containers -> 0 .. MaxTime]
    /\ banners \in [Containers -> SUBSET [at : 1 .. MaxTime, true : 1 .. MaxTime]]
    /\ ended \in Nat
    /\ settled \subseteq Messages
    /\ replaced \in 0 .. MaxReplaced

IInv == TypeOK /\ AuthInv /\ BytesInv /\ RecordsInv /\ BannerInv

LEMMA TypesOfState ==
    /\ TypeOK <=> Types /\ config \in Configs
    /\ TypeOK' <=> Types' /\ config' \in Configs
BY LimitAssumption DEF TypeOK, Types

LEMMA Naturals ==
    /\ MaxReceive \in Nat /\ MaxBatchRecords \in Nat /\ MaxContainerRecords \in Nat
    /\ MaxReplaced \in Nat /\ WarningInterval \in Nat /\ Drift \in Nat
    /\ MaxTime \in Nat /\ MaxTime >= 1 /\ IsFiniteSet(Containers)
    /\ SentAt \in [Messages -> 1 .. MaxTime]
BY LimitAssumption, SizeAssumption

LEMMA SamplesAdd ==
    ASSUME Types
    PROVE  SumOver(sample, Containers) \in Nat
BY Naturals, SumIsNumber DEF Types

(* A banner of Enforce has a time that exists.                             *)
LEMMA EvalTimeExists ==
    ASSUME Types, AuthInv, NEW c \in Containers, pc[c] # "idle"
    PROVE  EvalTime(c) \in 1 .. MaxTime
BY Naturals DEF Types, AuthInv, EvalTime

(* The banners a container may start with.                                 *)
LEMMA FirstBannersFit ==
    ASSUME NEW t \in 1 .. MaxTime, NEW S \in FirstBanners(t)
    PROVE  /\ S \in SUBSET [at : 1 .. MaxTime, true : 1 .. MaxTime]
           /\ LastWarning(S, t) \in 0 .. MaxTime
           /\ LastWarning(S, t) = 0 => S = {}
           /\ \A b \in S : b.at <= LastWarning(S, t)
           /\ \A a, b \in S : a = b
<1>1. S = {} \/ S = {[at |-> t, true |-> t]}
  BY DEF FirstBanners
<1>2. t \in Nat /\ t >= 1 /\ MaxTime \in Nat /\ 0 \in 0 .. MaxTime
  BY Naturals
<1>3. CASE S = {}
  BY <1>2, <1>3 DEF LastWarning
<1>4. CASE S = {[at |-> t, true |-> t]}
  <2> DEFINE b == [at |-> t, true |-> t]
  <2>1. b \in [at : 1 .. MaxTime, true : 1 .. MaxTime] /\ b.at = t
    OBVIOUS
  <2>2. S = {b}
    BY <1>4
  <2> HIDE DEF b
  <2>3. LastWarning(S, t) = t
    BY <2>2 DEF LastWarning
  <2> QED  BY <1>2, <2>1, <2>2, <2>3
<1> QED
  BY <1>1, <1>3, <1>4

LEMMA Initially == Init => IInv
<1> SUFFICES ASSUME Init PROVE IInv
  OBVIOUS
<1>1. now = 1 /\ now \in 1 .. MaxTime
  BY Naturals DEF Init
<1>2. \A c \in Containers :
        /\ banners[c] \in FirstBanners(now)
        /\ warned[c] = LastWarning(banners[c], now)
  BY DEF Init
<1>3. Types
  <2>1. banners \in [Containers -> SUBSET [at : 1 .. MaxTime, true : 1 .. MaxTime]]
    <3>1. banners \in [Containers -> FirstBanners(now)]
      BY DEF Init
    <3>2. FirstBanners(now) \subseteq SUBSET [at : 1 .. MaxTime, true : 1 .. MaxTime]
      BY <1>1, FirstBannersFit
    <3> QED  BY <3>1, <3>2
  <2>2. warned \in [Containers -> 0 .. MaxTime]
    <3>1. warned = [c \in Containers |-> LastWarning(banners[c], now)]
      BY DEF Init
    <3> QED  BY <1>1, <1>2, <3>1, FirstBannersFit
  <2>3. config \in Deployment
    BY LimitAssumption DEF Init
  <2> QED  BY <1>1, <2>1, <2>2, <2>3, Naturals DEF Init, Types
<1>4. TypeOK
  BY <1>3, TypesOfState DEF Init
<1>5. AuthInv
  BY DEF Init, AuthInv
<1>6. BytesInv
  BY <1>3, SamplesAdd, BytesAddUp DEF Init, BytesInv
<1>7. RecordsInv
  BY RecordsAddUp, Naturals DEF Init, RecordsInv
<1>8. BannerInv
  <2>1. \A c \in Containers :
          /\ warned[c] = 0 => banners[c] = {}
          /\ \A b \in banners[c] : b.at <= warned[c]
          /\ \A a, b \in banners[c] : a = b
    BY <1>1, <1>2, FirstBannersFit
  <2> QED  BY <2>1 DEF BannerInv, BannersAreApart
<1> QED
  BY <1>4, <1>5, <1>6, <1>7, <1>8 DEF IInv

-----------------------------------------------------------------------------
(***************************************************************************)
(* Types.                                                                  *)
(***************************************************************************)

LEMMA ReturnKeepsTypes ==
    ASSUME Types, NEW c \in Containers, NEW Gone, Return(c, Gone)
    PROVE  /\ config' = config /\ now' = now
           /\ receives' \in [Messages -> 0 .. MaxReceive]
           /\ status' \in [Messages -> {"visible", "held", "gone"}]
           /\ pc' \in [Containers -> {"idle", "read", "enforce", "send"}]
           /\ batch' \in [Containers -> SUBSET Messages]
           /\ good' \in [Containers -> SUBSET Messages]
           /\ auth' \in [Containers -> 0 .. MaxTime]
BY Naturals DEF Types, Return

LEMMA RejectKeepsTypes ==
    ASSUME Types, NEW c \in Containers, Reject(c), counted' \in [Containers -> Nat]
    PROVE  Types'
<1>1. PICK Gone : Return(c, Gone)
  BY DEF Reject
<1>2. sample' \in [Containers -> Nat]
  BY DEF Reject, EmitMetrics, Types
<1> QED
  BY <1>1, <1>2, ReturnKeepsTypes DEF Reject, Types

LEMMA StartKeepsTypes ==
    ASSUME Types, NEW c \in Containers, NEW B \in SUBSET Messages, Start(c, B)
    PROVE  Types'
<1>1. receives' \in [Messages -> 0 .. MaxReceive]
  BY Naturals DEF Start, Receivable, Types
<1>2. auth' \in [Containers -> 0 .. MaxTime]
  <2>1. PICK m \in B : auth' = [auth EXCEPT ![c] = SentAt[m]]
    BY DEF Start
  <2>2. SentAt[m] \in 0 .. MaxTime
    BY Naturals
  <2> QED  BY <2>1, <2>2 DEF Types
<1> QED
  BY <1>1, <1>2 DEF Start, Types, trackerVars, ledgerVars

LEMMA ReadFilesKeepsTypes ==
    ASSUME Types, NEW c \in Containers, ReadFiles(c)
    PROVE  Types'
<1>1. PICK G \in SUBSET batch[c] : \E n \in 0 .. BytesOf(batch[c] \ G) :
         good' = [good EXCEPT ![c] = G] /\ RecordBytes(c, G, n)
  BY DEF ReadFiles
<1>2. PICK n \in 0 .. BytesOf(batch[c] \ G) :
         good' = [good EXCEPT ![c] = G] /\ RecordBytes(c, G, n)
  BY <1>1
<1>3. G \in SUBSET Messages /\ batch[c] \ G \in SUBSET Messages
  BY DEF Types
<1>4. BytesOf(G) \in Nat /\ n \in Nat
  BY <1>3, BytesAddUp
<1>5. bytes' \in [Containers -> Nat] /\ good' \in [Containers -> SUBSET Messages]
  BY <1>2, <1>3, <1>4 DEF RecordBytes, Types
<1> QED
  BY <1>5 DEF ReadFiles, Types, queueVars, ledgerVars

LEMMA BannerKeepsTypes ==
    ASSUME Types, AuthInv, NEW c \in Containers, pc[c] # "idle", LogFairUseWarning(c)
    PROVE  /\ warned' \in [Containers -> 0 .. MaxTime]
           /\ banners' \in [Containers -> SUBSET [at : 1 .. MaxTime, true : 1 .. MaxTime]]
<1> DEFINE t == EvalTime(c)
           b == [at |-> t, true |-> now]
<1>1. t \in 1 .. MaxTime /\ t \in 0 .. MaxTime
  BY EvalTimeExists, Naturals
<1>2. \/ /\ warned' = [warned EXCEPT ![c] = t]
         /\ banners' = [banners EXCEPT ![c] = @ \cup {b}]
      \/ UNCHANGED <<warned, banners>>
  BY DEF LogFairUseWarning
<1>3. b \in [at : 1 .. MaxTime, true : 1 .. MaxTime]
  BY <1>1 DEF Types
<1> HIDE DEF t, b
<1> QED
  BY <1>1, <1>2, <1>3 DEF Types

LEMMA EnforceKeepsTypes ==
    ASSUME Types, AuthInv, NEW c \in Containers,
           EnforceUnchecked(c) \/ EnforceLicensed(c) \/ EnforceFree(c)
    PROVE  Types'
<1> USE DEF queueVars, invVars, ledgerVars
<1>1. CASE EnforceUnchecked(c)
  BY <1>1 DEF EnforceUnchecked, Accept, Types
<1>2. CASE EnforceLicensed(c)
  <2>1. /\ warned' \in [Containers -> 0 .. MaxTime]
        /\ banners' \in [Containers -> SUBSET [at : 1 .. MaxTime, true : 1 .. MaxTime]]
    BY <1>2, BannerKeepsTypes DEF EnforceLicensed
  <2> QED  BY <1>2, <2>1 DEF EnforceLicensed, Accept, Types
<1>3. CASE EnforceFree(c)
  <2>1. counted' \in [Containers -> Nat]
    BY <1>3, RecordsAddUp DEF EnforceFree, Types
  <2>2. CASE Reject(c)
    BY <2>1, <2>2, RejectKeepsTypes
  <2>3. CASE Accept(c) /\ UNCHANGED <<warned, banners>>
    BY <2>1, <2>3 DEF Accept, Types
  <2> QED  BY <1>3, <2>2, <2>3 DEF EnforceFree
<1> QED
  BY <1>1, <1>2, <1>3

LEMMA SendSucceedsKeepsTypes ==
    ASSUME Types, NEW c \in Containers, SendSucceeds(c)
    PROVE  Types'
<1>1. Return(c, good[c])
  BY DEF SendSucceeds
<1>2. /\ sample' \in [Containers -> Nat]
      /\ delivered' \in [Containers -> SUBSET Messages]
      /\ settled' \subseteq Messages
  BY DEF SendSucceeds, EmitMetrics, Types
<1> QED
  BY <1>1, <1>2, ReturnKeepsTypes DEF SendSucceeds, Types, trackerVars

LEMMA ReplaceKeepsTypes ==
    ASSUME Types, NEW c \in Containers, Replace(c)
    PROVE  Types'
<1>1. Return(c, {})
  BY DEF Replace
<1>2. PICK S \in FirstBanners(now) :
         /\ banners' = [banners EXCEPT ![c] = S]
         /\ warned' = [warned EXCEPT ![c] = LastWarning(S, now)]
  BY DEF Replace
<1>3. /\ banners' \in [Containers -> SUBSET [at : 1 .. MaxTime, true : 1 .. MaxTime]]
      /\ warned' \in [Containers -> 0 .. MaxTime]
  BY <1>2, FirstBannersFit DEF Types
<1>4. /\ bytes' \in [Containers -> Nat] /\ counted' \in [Containers -> Nat]
      /\ sample' \in [Containers -> Nat] /\ ended' \in Nat
      /\ delivered' \in [Containers -> SUBSET Messages]
      /\ replaced' \in 0 .. MaxReplaced
  BY Naturals DEF Replace, Types
<1> QED
  BY <1>1, <1>3, <1>4, ReturnKeepsTypes DEF Replace, Types

LEMMA TypesKeep ==
    ASSUME Types, AuthInv, [Next]_vars
    PROVE  Types'
<1> USE DEF queueVars, trackerVars, invVars, ledgerVars
<1>1. CASE Tick
  BY <1>1, Naturals DEF Tick, Types
<1>2. ASSUME NEW c \in Containers, RejectLicense(c)
      PROVE  Types'
  BY <1>2, RejectKeepsTypes DEF RejectLicense, Types
<1>3. ASSUME NEW c \in Containers, InvocationFails(c)
      PROVE  Types'
  <2>1. Return(c, {})
    BY <1>3 DEF InvocationFails
  <2> QED  BY <1>3, <2>1, ReturnKeepsTypes DEF InvocationFails, Types
<1>4. CASE UNCHANGED vars
  BY <1>4 DEF vars, Types
<1> QED
  BY <1>1, <1>2, <1>3, <1>4, StartKeepsTypes, ReadFilesKeepsTypes, EnforceKeepsTypes,
     SendSucceedsKeepsTypes, ReplaceKeepsTypes DEF Next, Invocation

LEMMA ConfigKeeps == ASSUME [Next]_vars PROVE config' = config
BY DEF Next, vars, Tick, Start, Invocation, ReadFiles, RejectLicense, Reject, Return,
       EnforceUnchecked, EnforceLicensed, EnforceFree, Accept, SendSucceeds,
       InvocationFails, Replace

LEMMA AuthKeeps ==
    ASSUME Types, AuthInv, [Next]_vars
    PROVE  AuthInv'
<1> USE DEF AuthInv, invVars
<1>1. ASSUME NEW c \in Containers, NEW Gone, Return(c, Gone)
      PROVE  AuthInv'
  BY <1>1 DEF Return, Types
<1>2. ASSUME NEW c \in Containers, Accept(c), pc[c] # "idle"
      PROVE  AuthInv'
  BY <1>2 DEF Accept, Types
<1>3. CASE Tick
  BY <1>3 DEF Tick
<1>4. ASSUME NEW c \in Containers, NEW B \in SUBSET Messages, Start(c, B)
      PROVE  AuthInv'
  <2>1. PICK m \in B : auth' = [auth EXCEPT ![c] = SentAt[m]]
    BY <1>4 DEF Start
  <2>2. SentAt[m] >= 1
    BY Naturals
  <2> QED  BY <1>4, <2>1, <2>2 DEF Start, Types
<1>5. ASSUME NEW c \in Containers, ReadFiles(c)
      PROVE  AuthInv'
  BY <1>5 DEF ReadFiles, Types
<1>6. ASSUME NEW c \in Containers, Invocation(c) \/ Replace(c)
      PROVE  AuthInv'
  BY <1>1, <1>2, <1>5, <1>6
     DEF Invocation, RejectLicense, Reject, EnforceUnchecked, EnforceLicensed,
         EnforceFree, SendSucceeds, InvocationFails, Replace
<1>7. CASE UNCHANGED vars
  BY <1>7 DEF vars
<1> QED
  BY <1>3, <1>4, <1>6, <1>7 DEF Next

-----------------------------------------------------------------------------
(***************************************************************************)
(* Bytes.                                                                  *)
(***************************************************************************)

(* The parts of BytesInv: for one container, and for the bill.             *)
Sampled(c) ==
    sample[c] + (IF pc[c] \in {"enforce", "send"} THEN BytesOf(good[c]) ELSE 0) <= bytes[c]
Billed == BytesOf(settled) <= ended + SumOver(sample, Containers)

LEMMA BytesByParts ==
    /\ BytesInv <=> (\A c \in Containers : Sampled(c)) /\ Billed
    /\ BytesInv' <=> (\A c \in Containers : Sampled(c)') /\ Billed'
BY DEF BytesInv, Sampled, Billed

(* A sample is the total, so that it only grows, and by what was read.     *)
LEMMA EmitRaises ==
    ASSUME Types, NEW c \in Containers, EmitMetrics(c)
    PROVE  /\ sample'[c] = bytes[c]
           /\ \A d \in Containers \ {c} : sample'[d] = sample[d]
           /\ SumOver(sample, Containers)' =
                 SumOver(sample, Containers) - sample[c] + bytes[c]
<1>1. sample' = [sample EXCEPT ![c] = bytes[c]]
  BY DEF EmitMetrics
<1>2. SumOver(sample', Containers) = SumOver(sample, Containers) - sample[c] + bytes[c]
  <2>1. /\ \A d \in Containers : sample[d] \in Nat /\ sample'[d] \in Nat
        /\ \A d \in Containers \ {c} : sample'[d] = sample[d]
        /\ sample'[c] = bytes[c]
    BY <1>1 DEF Types
  <2>2. SumOver(sample', Containers) = SumOver(sample, Containers) - sample[c] + sample'[c]
    BY <2>1, Naturals, SumOfChanged
  <2> QED  BY <2>1, <2>2
<1> QED
  BY <1>1, <1>2 DEF Types

(* An invocation that ends leaves nothing to account for.                  *)
LEMMA ReturnSettles ==
    ASSUME Types, NEW c \in Containers, NEW Gone, Return(c, Gone)
    PROVE  /\ pc'[c] = "idle"
           /\ \A d \in Containers \ {c} : pc'[d] = pc[d] /\ good'[d] = good[d]
BY DEF Return, Types

LEMMA SampleIsRead ==
    ASSUME Types, BytesInv, NEW c \in Containers
    PROVE  sample[c] <= bytes[c]
<1>1. sample[c] \in Nat /\ bytes[c] \in Nat /\ BytesOf(good[c]) \in Nat
  BY BytesAddUp DEF Types
<1>2. Sampled(c)
  BY BytesByParts
<1> QED
  BY <1>1, <1>2 DEF Sampled

LEMMA RejectKeepsBytes ==
    ASSUME Types, Types', BytesInv, NEW c \in Containers, Reject(c)
    PROVE  BytesInv'
<1> USE DEF Sampled, Billed
<1>1. PICK Gone : Return(c, Gone)
  BY DEF Reject
<1>2. EmitMetrics(c) /\ UNCHANGED <<bytes, ended, settled>>
  BY DEF Reject
<1>3. sample[c] <= bytes[c]
  BY SampleIsRead
<1>4. ASSUME NEW d \in Containers PROVE Sampled(d)'
  <2>1. bytes'[d] = bytes[d] /\ bytes[d] \in Nat
    BY <1>2 DEF Types
  <2>2. CASE d = c
    <3>1. sample'[c] = bytes[c] /\ pc'[c] = "idle"
      BY <1>1, <1>2, EmitRaises, ReturnSettles
    <3> QED  BY <2>1, <2>2, <3>1
  <2>3. CASE d # c
    <3>1. /\ sample'[d] = sample[d]
          /\ pc'[d] = pc[d] /\ good'[d] = good[d]
      BY <1>1, <1>2, <2>3, EmitRaises, ReturnSettles
    <3>2. BytesOf(good[d])' = BytesOf(good[d])
      BY <3>1
    <3> QED  BY <2>1, <3>1, <3>2, BytesByParts
  <2> QED  BY <2>2, <2>3
<1>5. Billed'
  <2>1. BytesOf(settled) \in Nat
    BY BytesAddUp DEF Types
  <2>2. SumOver(sample, Containers) \in Nat
    BY SamplesAdd
  <2> QED
    BY <1>2, <1>3, <2>1, <2>2, BytesByParts, EmitRaises DEF Types
<1> QED
  BY <1>4, <1>5, BytesByParts

LEMMA SendKeepsBytes ==
    ASSUME Types, Types', BytesInv, NEW c \in Containers, SendSucceeds(c)
    PROVE  BytesInv'
<1>1. /\ Return(c, good[c]) /\ EmitMetrics(c) /\ UNCHANGED <<bytes, ended>>
      /\ settled' = settled \cup good[c] /\ pc[c] = "send"
  BY DEF SendSucceeds, trackerVars
<1>2. sample[c] + BytesOf(good[c]) <= bytes[c]
  BY <1>1, BytesByParts DEF Sampled
<1>3. ASSUME NEW d \in Containers PROVE Sampled(d)'
  <2>1. /\ pc'[c] = "idle" /\ sample'[c] = bytes[c] /\ bytes' = bytes /\ bytes[c] \in Nat
        /\ d # c => pc'[d] = pc[d] /\ good'[d] = good[d] /\ sample'[d] = sample[d]
    BY <1>1, EmitRaises, ReturnSettles DEF Types
  <2> QED
    BY <2>1, BytesByParts DEF Sampled
<1>4. Billed'
  <2>1. /\ BytesOf(settled) \in Nat /\ BytesOf(good[c]) \in Nat /\ BytesOf(settled') \in Nat
        /\ BytesOf(settled') <= BytesOf(settled) + BytesOf(good[c])
    BY <1>1, BytesAddUp DEF Types
  <2>2. SumOver(sample, Containers) \in Nat /\ sample[c] \in Nat /\ bytes[c] \in Nat
        /\ ended \in Nat
    BY SamplesAdd DEF Types
  <2>3. BytesOf(settled) <= ended + SumOver(sample, Containers)
    BY BytesByParts DEF Billed
  <2>4. SumOver(sample, Containers)' = SumOver(sample, Containers) - sample[c] + bytes[c]
    BY <1>1, EmitRaises
  <2>5. BytesOf(settled') <= ended + SumOver(sample, Containers)'
    BY <1>2, <2>1, <2>2, <2>3, <2>4
  <2> QED
    BY <1>1, <2>5 DEF Billed
<1> QED
  BY <1>3, <1>4, BytesByParts

LEMMA ReplaceKeepsBytes ==
    ASSUME Types, Types', BytesInv, NEW c \in Containers, Replace(c)
    PROVE  BytesInv'
<1>1. /\ Return(c, {}) /\ ended' = ended + sample[c] /\ UNCHANGED settled
      /\ bytes' = [bytes EXCEPT ![c] = 0] /\ sample' = [sample EXCEPT ![c] = 0]
  BY DEF Replace
<1>2. ASSUME NEW d \in Containers PROVE Sampled(d)'
  BY <1>1, BytesByParts, ReturnSettles DEF Types, Sampled
<1>3. Billed'
  <2>1. /\ \A d \in Containers : sample[d] \in Nat /\ sample'[d] \in Nat
        /\ \A d \in Containers \ {c} : sample'[d] = sample[d]
    BY <1>1 DEF Types
  <2>2. SumOver(sample', Containers) = SumOver(sample, Containers) - sample[c] + sample'[c]
    BY <2>1, Naturals, SumOfChanged
  <2>3. SumOver(sample, Containers) \in Nat /\ ended \in Nat /\ sample[c] \in Nat
    BY SamplesAdd DEF Types
  <2>4. sample'[c] = 0
    BY <1>1 DEF Types
  <2>5. ended + SumOver(sample, Containers) = ended' + SumOver(sample', Containers)
    BY <1>1, <2>2, <2>3, <2>4
  <2> QED
    BY <1>1, <2>5, BytesByParts DEF Billed
<1> QED
  BY <1>2, <1>3, BytesByParts

LEMMA ReadFilesKeepsBytes ==
    ASSUME Types, Types', BytesInv, NEW c \in Containers, ReadFiles(c)
    PROVE  BytesInv'
<1>1. PICK G \in SUBSET batch[c], n \in Nat :
         good' = [good EXCEPT ![c] = G] /\ bytes' = [bytes EXCEPT ![c] = @ + BytesOf(G) + n]
  <2>1. PICK G \in SUBSET batch[c] : \E n \in 0 .. BytesOf(batch[c] \ G) :
           good' = [good EXCEPT ![c] = G] /\ RecordBytes(c, G, n)
    BY DEF ReadFiles
  <2>2. PICK n \in 0 .. BytesOf(batch[c] \ G) :
           good' = [good EXCEPT ![c] = G] /\ RecordBytes(c, G, n)
    BY <2>1
  <2>3. n \in Nat
    BY BytesAddUp DEF Types
  <2> QED  BY <2>2, <2>3 DEF RecordBytes
<1>2. UNCHANGED <<sample, ended, settled>> /\ pc[c] = "read" /\ pc' = [pc EXCEPT ![c] = "enforce"]
  BY DEF ReadFiles, ledgerVars
<1>3. sample[c] <= bytes[c]
  BY SampleIsRead
<1>4. BytesOf(G) \in Nat /\ bytes[c] \in Nat /\ sample[c] \in Nat
  BY BytesAddUp DEF Types
<1>5. Sampled(c)'
  <2>1. bytes'[c] = bytes[c] + BytesOf(G) + n /\ good'[c] = G /\ sample'[c] = sample[c]
        /\ pc'[c] = "enforce"
    BY <1>1, <1>2 DEF Types
  <2>2. sample'[c] + BytesOf(good'[c]) <= bytes'[c]
    BY <1>3, <1>4, <2>1
  <2> QED
    BY <2>1, <2>2 DEF Sampled
<1>6. ASSUME NEW d \in Containers \ {c} PROVE Sampled(d)'
  BY <1>1, <1>2, BytesByParts DEF Types, Sampled
<1>7. Billed'
  BY <1>2, BytesByParts DEF Billed
<1> QED
  BY <1>5, <1>6, <1>7, BytesByParts

LEMMA StartKeepsBytes ==
    ASSUME Types, Types', BytesInv, NEW c \in Containers, NEW B, Start(c, B)
    PROVE  BytesInv'
<1>1. /\ UNCHANGED <<sample, bytes, ended, settled>>
      /\ pc' = [pc EXCEPT ![c] = "read"] /\ good' = [good EXCEPT ![c] = {}]
  BY DEF Start, ledgerVars, trackerVars
<1>2. sample[c] <= bytes[c]
  BY SampleIsRead
<1>3. ASSUME NEW d \in Containers PROVE Sampled(d)'
  BY <1>1, <1>2, BytesByParts DEF Types, Sampled
<1> QED
  BY <1>1, <1>3, BytesByParts DEF Billed

LEMMA AcceptKeepsBytes ==
    ASSUME Types, Types', BytesInv, NEW c \in Containers, pc[c] = "enforce", Accept(c)
    PROVE  BytesInv'
<1>1. UNCHANGED <<sample, bytes, ended, settled, good>> /\ pc' = [pc EXCEPT ![c] = "send"]
  BY DEF Accept, ledgerVars, invVars
<1>2. ASSUME NEW d \in Containers PROVE Sampled(d)'
  BY <1>1, BytesByParts DEF Types, Sampled
<1> QED
  BY <1>1, <1>2, BytesByParts DEF Billed

LEMMA FailureKeepsBytes ==
    ASSUME Types, Types', BytesInv, NEW c \in Containers, InvocationFails(c)
    PROVE  BytesInv'
<1>1. Return(c, {}) /\ UNCHANGED <<sample, bytes, ended, settled>>
  BY DEF InvocationFails, ledgerVars, trackerVars
<1>2. sample[c] <= bytes[c]
  BY SampleIsRead
<1>3. ASSUME NEW d \in Containers PROVE Sampled(d)'
  BY <1>1, <1>2, ReturnSettles, BytesByParts DEF Types, Sampled
<1> QED
  BY <1>1, <1>3, BytesByParts DEF Billed

LEMMA BytesKeep ==
    ASSUME Types, Types', BytesInv, [Next]_vars
    PROVE  BytesInv'
<1>1. CASE Tick \/ UNCHANGED vars
  BY <1>1 DEF BytesInv, Tick, vars, ledgerVars, trackerVars, invVars
<1>2. ASSUME NEW c \in Containers, EnforceUnchecked(c) \/ EnforceLicensed(c) \/ EnforceFree(c)
      PROVE  BytesInv'
  BY <1>2, RejectKeepsBytes, AcceptKeepsBytes DEF EnforceUnchecked, EnforceLicensed, EnforceFree
<1>3. ASSUME NEW c \in Containers, RejectLicense(c)
      PROVE  BytesInv'
  BY <1>3, RejectKeepsBytes DEF RejectLicense
<1> QED
  BY <1>1, <1>2, <1>3, StartKeepsBytes, ReadFilesKeepsBytes, SendKeepsBytes, FailureKeepsBytes,
     ReplaceKeepsBytes DEF Next, Invocation

-----------------------------------------------------------------------------
(***************************************************************************)
(* Records under the free grant.                                           *)
(***************************************************************************)

Free == ~ config.licensed /\ config.strict

(* RecordsInv for one container.                                           *)
Sending(c) == IF pc[c] = "send" THEN RecordsOf(good[c]) ELSE 0
Capped(c) ==
    /\ Sending(c) <= MaxBatchRecords
    /\ RecordsOf(delivered[c]) + Sending(c) <= counted[c]
    /\ RecordsOf(delivered[c]) + Sending(c) <= MaxContainerRecords

LEMMA RecordsByParts ==
    /\ RecordsInv <=> (Free => \A c \in Containers : Capped(c))
    /\ RecordsInv' <=> (Free' => \A c \in Containers : Capped(c)')
BY DEF RecordsInv, Free, Capped, Sending

LEMMA RecordTypes ==
    ASSUME Types, NEW c \in Containers
    PROVE  /\ RecordsOf(delivered[c]) \in Nat /\ RecordsOf(good[c]) \in Nat
           /\ Sending(c) \in Nat /\ counted[c] \in Nat
BY RecordsAddUp DEF Types, Sending

(* A container that is not sending, or not any more, has no less room.     *)
LEMMA NotSendingKeepsCapped ==
    ASSUME Types, Types', NEW c \in Containers, Capped(c),
           pc'[c] # "send", delivered'[c] = delivered[c], counted'[c] >= counted[c]
    PROVE  Capped(c)'
<1>1. Sending(c)' = 0
  BY DEF Sending
<1>2. counted'[c] \in Nat
  BY DEF Types
<1> QED
  BY <1>1, <1>2, RecordTypes, Naturals DEF Capped

(* A container that is left alone keeps its room.                          *)
LEMMA OthersKeepCapped ==
    ASSUME NEW c \in Containers, Capped(c), pc'[c] = pc[c], good'[c] = good[c],
           delivered'[c] = delivered[c], counted'[c] = counted[c]
    PROVE  Capped(c)'
BY DEF Capped, Sending

LEMMA AcceptKeepsCapped ==
    ASSUME Types, Types', NEW c \in Containers, Capped(c), config.strict,
           pc[c] = "enforce", ~ CeilingExceeded(c), Accept(c),
           counted' = [counted EXCEPT ![c] = @ + RecordsOf(good[c])]
    PROVE  Capped(c)'
<1> DEFINE r == RecordsOf(good[c])
           d == RecordsOf(delivered[c])
<1>1. /\ pc'[c] = "send" /\ good'[c] = good[c] /\ delivered'[c] = delivered[c]
      /\ counted'[c] = counted[c] + r
  BY DEF Accept, invVars, ledgerVars, Types
<1>2. r \in Nat /\ d \in Nat /\ counted[c] \in Nat
  BY RecordTypes
<1>3. d <= counted[c] /\ d <= MaxContainerRecords
  BY <1>2 DEF Capped, Sending
<1>4. \/ r = 0
      \/ r <= MaxBatchRecords /\ counted[c] + r <= MaxContainerRecords
  <2>1. CASE ~ (r > 0)
    BY <1>2, <2>1
  <2>2. CASE r > 0
    <3>1. ~ (r > MaxBatchRecords) /\ ~ (counted[c] + r > MaxContainerRecords)
      BY <2>2 DEF CeilingExceeded
    <3> QED  BY <1>2, <3>1, Naturals
  <2> QED  BY <2>1, <2>2
<1>5. Sending(c)' = r
  BY <1>1 DEF Sending
<1> HIDE DEF r, d
<1>6. r <= MaxBatchRecords /\ d + r <= counted[c] + r /\ d + r <= MaxContainerRecords
  BY <1>2, <1>3, <1>4, Naturals
<1> QED
  BY <1>1, <1>5, <1>6 DEF Capped, d

LEMMA SendKeepsCapped ==
    ASSUME Types, Types', NEW c \in Containers, Capped(c), SendSucceeds(c)
    PROVE  Capped(c)'
<1> DEFINE r == RecordsOf(good[c])
           d == RecordsOf(delivered[c])
<1>1. /\ pc[c] = "send" /\ pc'[c] = "idle" /\ counted'[c] = counted[c]
      /\ delivered'[c] = delivered[c] \cup good[c]
  BY DEF SendSucceeds, Return, trackerVars, Types
<1>2. r \in Nat /\ d \in Nat /\ counted[c] \in Nat /\ RecordsOf(delivered'[c]) \in Nat
  BY RecordTypes, RecordsAddUp DEF Types
<1>3. d + r <= counted[c] /\ d + r <= MaxContainerRecords
  BY <1>1 DEF Capped, Sending
<1>4. RecordsOf(delivered'[c]) <= d + r
  BY <1>1, RecordsAddUp DEF Types
<1>5. Sending(c)' = 0
  BY <1>1 DEF Sending
<1> HIDE DEF r, d
<1> QED
  BY <1>1, <1>2, <1>3, <1>4, <1>5, Naturals DEF Capped

LEMMA RecordsKeep ==
    ASSUME Types, Types', RecordsInv, [Next]_vars
    PROVE  RecordsInv'
<1>1. config' = config
  BY ConfigKeeps
<1> SUFFICES ASSUME Free PROVE \A c \in Containers : Capped(c)'
  BY <1>1, RecordsByParts DEF Free
<1> USE DEF trackerVars, invVars, ledgerVars, queueVars
<1>2. \A d \in Containers : Capped(d)
  BY RecordsByParts
<1>3. CASE Tick \/ UNCHANGED vars
  BY <1>2, <1>3, OthersKeepCapped DEF Tick, vars
<1>4. ASSUME NEW c \in Containers, Invocation(c) \/ Replace(c) \/ \E B \in SUBSET Messages : Start(c, B),
             NEW d \in Containers \ {c}
      PROVE  Capped(d)'
  <2>1. UNCHANGED <<pc[d], good[d], delivered[d], counted[d]>>
    <3> USE DEF Types
    <3>1. ASSUME NEW Gone, Return(c, Gone) PROVE UNCHANGED <<pc[d], good[d]>>
      BY <3>1 DEF Return
    <3>2. CASE ReadFiles(c) \/ \E B \in SUBSET Messages : Start(c, B)
      <4>1. PICK G : good' = [good EXCEPT ![c] = G]
        BY <3>2 DEF ReadFiles, Start
      <4>2. PICK p : pc' = [pc EXCEPT ![c] = p]
        BY <3>2 DEF ReadFiles, Start
      <4>3. UNCHANGED <<delivered, counted>>
        BY <3>2 DEF ReadFiles, Start
      <4> QED  BY <4>1, <4>2, <4>3
    <3>3. CASE RejectLicense(c) \/ InvocationFails(c)
      BY <3>1, <3>3 DEF RejectLicense, Reject, InvocationFails
    <3>4. CASE SendSucceeds(c) \/ Replace(c)
      BY <3>1, <3>4 DEF SendSucceeds, Replace
    <3>5. CASE EnforceUnchecked(c) \/ EnforceLicensed(c)
      BY <3>5 DEF EnforceUnchecked, EnforceLicensed, Accept
    <3>6. CASE EnforceFree(c)
      <4>1. counted'[d] = counted[d]
        BY <3>6 DEF EnforceFree
      <4>2. CASE Reject(c)
        BY <3>1, <4>1, <4>2 DEF Reject
      <4>3. CASE Accept(c)
        BY <4>1, <4>3 DEF Accept
      <4> QED  BY <3>6, <4>2, <4>3 DEF EnforceFree
    <3> QED  BY <1>4, <3>2, <3>3, <3>4, <3>5, <3>6 DEF Invocation
  <2> QED  BY <1>2, <2>1, OthersKeepCapped
<1>5. ASSUME NEW c \in Containers, NEW B \in SUBSET Messages, Start(c, B)
      PROVE  Capped(c)'
  <2>1. pc'[c] = "read" /\ UNCHANGED <<delivered, counted>>
    BY <1>5 DEF Start, Types
  <2> QED  BY <1>2, <2>1, RecordTypes, NotSendingKeepsCapped
<1>6. ASSUME NEW c \in Containers, ReadFiles(c)
      PROVE  Capped(c)'
  <2>1. pc'[c] = "enforce" /\ UNCHANGED <<delivered, counted>>
    BY <1>6 DEF ReadFiles, Types
  <2> QED  BY <1>2, <2>1, RecordTypes, NotSendingKeepsCapped
<1>7. ASSUME NEW c \in Containers, RejectLicense(c) \/ InvocationFails(c)
      PROVE  Capped(c)'
  <2>1. pc'[c] = "idle" /\ UNCHANGED <<delivered, counted>>
    BY <1>7 DEF RejectLicense, Reject, InvocationFails, Return, Types
  <2> QED  BY <1>2, <2>1, RecordTypes, NotSendingKeepsCapped
<1>8. ASSUME NEW c \in Containers, EnforceFree(c)
      PROVE  Capped(c)'
  <2>1. counted' = [counted EXCEPT ![c] = @ + RecordsOf(good[c])] /\ pc[c] = "enforce"
    BY <1>8 DEF EnforceFree
  <2>2. CASE Reject(c)
    <3>1. pc'[c] = "idle" /\ UNCHANGED delivered
      BY <2>2 DEF Reject, Return, Types
    <3>2. counted'[c] >= counted[c]
      BY <2>1, RecordTypes DEF Types
    <3> QED  BY <1>2, <3>1, <3>2, NotSendingKeepsCapped
  <2>3. CASE ~ CeilingExceeded(c) /\ Accept(c)
    BY <1>2, <2>1, <2>3, AcceptKeepsCapped DEF Free
  <2> QED  BY <1>8, <2>2, <2>3 DEF EnforceFree, Free
<1>9. ASSUME NEW c \in Containers, Replace(c)
      PROVE  Capped(c)'
  <2>1. pc'[c] = "idle" /\ delivered'[c] = {} /\ counted'[c] = 0
    BY <1>9 DEF Replace, Return, Types
  <2> QED  BY <2>1, RecordsAddUp, Naturals DEF Capped, Sending
<1> QED
  BY <1>2, <1>3, <1>4, <1>5, <1>6, <1>7, <1>8, <1>9, SendKeepsCapped
     DEF Next, Invocation, Free, EnforceUnchecked, EnforceLicensed

-----------------------------------------------------------------------------
(***************************************************************************)
(* Banners.                                                                *)
(***************************************************************************)

BannersFit(c) ==
    /\ warned[c] = 0 => banners[c] = {}
    /\ \A b \in banners[c] : b.at <= warned[c]
    /\ \A a, b \in banners[c] :
          a # b => a.at - b.at >= WarningInterval \/ b.at - a.at >= WarningInterval

LEMMA BannersByParts ==
    /\ BannerInv <=> \A c \in Containers : BannersFit(c)
    /\ BannerInv' <=> \A c \in Containers : BannersFit(c)'
BY DEF BannerInv, BannersAreApart, BannersFit

LEMMA SameBannersFit ==
    ASSUME NEW c \in Containers, BannersFit(c),
           warned'[c] = warned[c], banners'[c] = banners[c]
    PROVE  BannersFit(c)'
BY DEF BannersFit

(* A banner is logged an interval after the last, on the same clock.       *)
LEMMA LogKeepsBanners ==
    ASSUME Types, AuthInv, NEW c \in Containers, pc[c] # "idle", BannersFit(c),
           LogFairUseWarning(c)
    PROVE  BannersFit(c)'
<1> DEFINE t == EvalTime(c)
           b == [at |-> t, true |-> now]
<1>1. CASE UNCHANGED <<warned, banners>>
  BY <1>1, SameBannersFit
<1>2. CASE /\ BannerDue(c, t)
           /\ warned' = [warned EXCEPT ![c] = t]
           /\ banners' = [banners EXCEPT ![c] = @ \cup {b}]
  <2>1. t \in 1 .. MaxTime
    BY EvalTimeExists
  <2>2. warned[c] \in Nat /\ WarningInterval \in Nat /\ t \in Nat /\ t >= 1
    BY <2>1, Naturals DEF Types
  <2>3. \A a \in banners[c] : a.at \in Nat
    BY Naturals DEF Types
  <2>4. b.at = t
    OBVIOUS
  <2>5. warned'[c] = t /\ banners'[c] = banners[c] \cup {b}
    BY <1>2 DEF Types
  <2>6. warned[c] = 0 \/ t - warned[c] >= WarningInterval
    BY <1>2 DEF BannerDue
  <2> HIDE DEF t, b
  <2>7. \A a \in banners[c] : t - a.at >= WarningInterval
    BY <2>2, <2>3, <2>6 DEF BannersFit
  <2>8. \A a \in banners[c] : a.at <= t
    BY <2>2, <2>3, <2>7
  <2>9. \A x, y \in banners'[c] :
           x # y => x.at - y.at >= WarningInterval \/ y.at - x.at >= WarningInterval
    BY <2>4, <2>5, <2>7 DEF BannersFit
  <2> QED
    BY <2>2, <2>4, <2>5, <2>8, <2>9 DEF BannersFit
<1> QED
  BY <1>1, <1>2 DEF LogFairUseWarning

LEMMA BannersKeep ==
    ASSUME Types, AuthInv, BannerInv, [Next]_vars
    PROVE  BannerInv'
<1> SUFFICES ASSUME NEW d \in Containers PROVE BannersFit(d)'
  BY BannersByParts
<1>1. BannersFit(d)
  BY BannersByParts
<1> USE DEF trackerVars
<1>2. CASE UNCHANGED <<warned, banners>>
  BY <1>1, <1>2, SameBannersFit
<1>3. ASSUME NEW c \in Containers, EnforceLicensed(c)
      PROVE  BannersFit(d)'
  <2>1. pc[c] # "idle" /\ LogFairUseWarning(c)
    BY <1>3 DEF EnforceLicensed
  <2>2. CASE d = c
    BY <1>1, <2>1, <2>2, LogKeepsBanners
  <2>3. CASE d # c
    <3>1. warned'[d] = warned[d] /\ banners'[d] = banners[d]
      BY <2>1, <2>3 DEF LogFairUseWarning, Types
    <3> QED  BY <1>1, <3>1, SameBannersFit
  <2> QED  BY <2>2, <2>3
<1>4. ASSUME NEW c \in Containers, Replace(c)
      PROVE  BannersFit(d)'
  <2>1. PICK S \in FirstBanners(now) :
           /\ banners' = [banners EXCEPT ![c] = S]
           /\ warned' = [warned EXCEPT ![c] = LastWarning(S, now)]
    BY <1>4 DEF Replace
  <2>2. CASE d = c
    <3>1. banners'[d] = S /\ warned'[d] = LastWarning(S, now)
      BY <2>1, <2>2 DEF Types
    <3>2. /\ LastWarning(S, now) = 0 => S = {}
          /\ \A b \in S : b.at <= LastWarning(S, now)
          /\ \A a, b \in S : a = b
      BY FirstBannersFit DEF Types
    <3> QED  BY <3>1, <3>2 DEF BannersFit
  <2>3. CASE d # c
    <3>1. warned'[d] = warned[d] /\ banners'[d] = banners[d]
      BY <2>1, <2>3 DEF Types
    <3> QED  BY <1>1, <3>1, SameBannersFit
  <2> QED  BY <2>2, <2>3
<1>5. ASSUME NEW c \in Containers,
             \/ \E B \in SUBSET Messages : Start(c, B)
             \/ ReadFiles(c) \/ SendSucceeds(c) \/ InvocationFails(c)
             \/ RejectLicense(c) \/ EnforceUnchecked(c) \/ EnforceFree(c)
      PROVE  UNCHANGED <<warned, banners>>
  BY <1>5 DEF Start, ReadFiles, SendSucceeds, InvocationFails, RejectLicense, Reject,
              EnforceUnchecked, EnforceFree
<1>6. CASE Tick \/ UNCHANGED vars
  BY <1>2, <1>6 DEF Tick, vars
<1> QED
  BY <1>2, <1>3, <1>4, <1>5, <1>6 DEF Next, Invocation

-----------------------------------------------------------------------------
(***************************************************************************)
(* The specification.                                                      *)
(***************************************************************************)

LEMMA NextKeeps == IInv /\ [Next]_vars => IInv'
<1> SUFFICES ASSUME IInv, [Next]_vars PROVE IInv'
  OBVIOUS
<1> USE DEF IInv
<1>1. Types /\ config \in Configs
  BY TypesOfState
<1>2. Types' /\ config' = config
  BY <1>1, TypesKeep, ConfigKeeps
<1>3. TypeOK'
  BY <1>1, <1>2, TypesOfState
<1>4. AuthInv'
  BY <1>1, <1>2, AuthKeeps
<1>5. BytesInv' /\ RecordsInv'
  BY <1>1, <1>2, BytesKeep, RecordsKeep
<1>6. BannerInv'
  BY <1>1, BannersKeep
<1> QED
  BY <1>3, <1>4, <1>5, <1>6

LEMMA Invariance == Spec => []IInv
BY Initially, NextKeeps, PTL DEF Spec

(* The tracker, the queue and the invocations stay within their types: no  *)
(* message is handed out more than MaxReceive times, and every banner has  *)
(* a time of the run.                                                      *)
THEOREM TypeCorrect == Spec => []TypeOK
<1>1. IInv => TypeOK
  BY DEF IInv
<1> QED
  BY <1>1, Invariance, PTL

(* EmitMetrics and RecordBytes: the last BytesProcessed of the containers  *)
(* cover all that was delivered, and none exceeds what its container read, *)
(* whatever the containers retry, reject or lose by being replaced.        *)
THEOREM LastSamplesBill == Spec => []LastSamplesCoverDelivery
<1>1. IInv => LastSamplesCoverDelivery
  <2> SUFFICES ASSUME IInv PROVE LastSamplesCoverDelivery
    OBVIOUS
  <2>1. \A c \in Containers : sample[c] <= bytes[c]
    BY TypesOfState, SampleIsRead DEF IInv
  <2>2. BytesOf(settled) <= ended + SumOver(sample, Containers)
    BY DEF IInv, BytesInv
  <2> QED
    BY <2>1, <2>2 DEF LastSamplesCoverDelivery, SumOver, BytesOf, FoldFunctionOnSet,
                      MapThenFoldSet
<1> QED
  BY <1>1, Invariance, PTL

(* RecordAndCheckContainerQuota: a strict container under the free grant   *)
(* delivers no more records than its ceilings, in however many batches.    *)
THEOREM FreeUse == Spec => []FreeUseIsCapped
<1>1. IInv => FreeUseIsCapped
  <2> SUFFICES ASSUME IInv, Free, NEW c \in Containers
               PROVE  /\ RecordsOf(delivered[c]) <= MaxContainerRecords
                      /\ pc[c] = "send" => RecordsOf(good[c]) <= MaxBatchRecords
    BY DEF FreeUseIsCapped, Free
  <2>1. Types /\ Capped(c)
    BY TypesOfState, RecordsByParts DEF IInv
  <2>2. RecordsOf(delivered[c]) \in Nat /\ RecordsOf(good[c]) \in Nat
    BY <2>1, RecordTypes
  <2> QED
    BY <2>1, <2>2, Naturals DEF Capped, Sending
<1> QED
  BY <1>1, Invariance, PTL

(* ShouldEmitFairUseWarningAt: on the clock of Enforce the banners of a    *)
(* container are an interval apart, batches of any age in any order.       *)
THEOREM BannersApart == Spec => []BannersAreApart
<1>1. IInv => BannersAreApart
  BY DEF IInv, BannerInv
<1> QED
  BY <1>1, Invariance, PTL
=============================================================================
