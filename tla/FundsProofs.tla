----------------------------- MODULE FundsProofs -----------------------------
(***************************************************************************)
(* The device's money, for any hashes, TLCs, channels and bounds.          *)
(*                                                                         *)
(* The first part is about sums over finite sets, which every amount here  *)
(* is; the second about what the balance rule computes of one commitment;  *)
(* the third has the invariants of Funds.                                  *)
(***************************************************************************)
EXTENDS Funds, FiniteSetTheorems, WellFoundedInduction, TLAPS

-----------------------------------------------------------------------------
(* Sums.  SumFunction adds the values of a function in the order in which   *)
(* CHOOSE picks from its domain; that no order matters is SumPeel.         *)

Pick(s) == CHOOSE x \in s : TRUE

Adds(g, f, D) == g = [s \in D |-> IF s = {} THEN 0 ELSE f[Pick(s)] + g[s \ {Pick(s)}]]

Partial(f) == CHOOSE g : Adds(g, f, SUBSET DOMAIN f)

(* A family of sets that has the empty set, and with a set the set with one *)
(* element more, has every finite set.                                     *)
LEMMA SetInduction ==
    ASSUME NEW S, IsFiniteSet(S), NEW Good, {} \in Good,
           \A T \in SUBSET S : \A x \in S \ T : T \in Good => T \cup {x} \in Good
    PROVE  S \in Good
<1>1. SUFFICES ASSUME S \notin Good PROVE FALSE
  OBVIOUS
<1> DEFINE Bad == {T \in SUBSET S : T \notin Good}
<1>2. Bad \subseteq FiniteSubsetsOf(S) /\ Bad # {}
  BY <1>1, FS_FiniteSubsetsOfFinite
<1>3. PICK T \in Bad : \A U \in Bad : <<U, T>> \notin StrictSubsetOrdering(S)
  BY <1>2, WFMin, FS_StrictSubsetOrderingWellFounded
<1>4. PICK x : x \in T
  OBVIOUS
<1>5. <<T \ {x}, T>> \in StrictSubsetOrdering(S)
  BY <1>4 DEF StrictSubsetOrdering
<1>6. T \ {x} \in Good
  BY <1>3, <1>5
<1>7. (T \ {x}) \cup {x} = T
  BY <1>4
<1> QED
  BY <1>4, <1>6, <1>7

LEMMA SumIsPartial ==
    ASSUME NEW f
    PROVE  SumFunction(f) = Partial(f)[DOMAIN f]
  BY DEF SumFunction, SumFunctionOnSet, FoldFunctionOnSet, MapThenFoldSet, Adds, Pick, Partial

(* The recursion by which the partial sums are defined has a solution. *)
LEMMA PartialExists ==
    ASSUME NEW f, IsFiniteSet(DOMAIN f)
    PROVE  Adds(Partial(f), f, SUBSET DOMAIN f)
<1> DEFINE S == DOMAIN f
           Level(n) == {s \in SUBSET S : Cardinality(s) <= n}
           Good == {T \in SUBSET S : \E g : Adds(g, f, Level(Cardinality(T)))}
<1>1. {} \in Good
  <2> DEFINE g == [s \in {{}} |-> 0]
  <2>1. Level(0) = {{}}
    <3>1. ASSUME NEW s \in SUBSET S, Cardinality(s) <= 0 PROVE s = {}
      BY <3>1, FS_Subset, FS_EmptySet, FS_CardinalityType
    <3> QED BY <3>1, FS_EmptySet
  <2>2. Adds(g, f, {{}})
    BY DEF Adds
  <2> QED BY <2>1, <2>2, FS_EmptySet
<1>2. ASSUME NEW T \in SUBSET S, NEW x \in S \ T, T \in Good
      PROVE  T \cup {x} \in Good
  <2> DEFINE n == Cardinality(T)
  <2>1. n \in Nat /\ Cardinality(T \cup {x}) = n + 1
    BY FS_Subset, FS_AddElement, FS_CardinalityType
  <2>2. PICK g : Adds(g, f, Level(n))
    BY <1>2
  <2> DEFINE k == [s \in Level(n + 1) |-> IF s = {} THEN 0 ELSE f[Pick(s)] + g[s \ {Pick(s)}]]
  <2>3. ASSUME NEW s \in Level(n + 1), s # {}
        PROVE  s \ {Pick(s)} \in Level(n) /\ s \ {Pick(s)} \in Level(n + 1)
    <3>1. IsFiniteSet(s) /\ Pick(s) \in s
      BY <2>3, FS_Subset DEF Pick
    <3>2. Cardinality(s) \in Nat /\ Cardinality(s \ {Pick(s)}) = Cardinality(s) - 1
      BY <3>1, FS_RemoveElement, FS_CardinalityType
    <3> QED BY <2>1, <3>2
  <2>4. ASSUME NEW s \in Level(n) PROVE k[s] = g[s] /\ s \in Level(n + 1)
    <3>1. s \in Level(n + 1)
      BY <2>1, FS_Subset, FS_CardinalityType
    <3> QED BY <3>1, <2>2 DEF Adds
  <2>5. k = [s \in Level(n + 1) |-> IF s = {} THEN 0 ELSE f[Pick(s)] + k[s \ {Pick(s)}]]
    <3> HIDE DEF Level
    <3>1. ASSUME NEW s \in Level(n + 1), s # {} PROVE k[s \ {Pick(s)}] = g[s \ {Pick(s)}]
      BY <2>3, <2>4, <3>1
    <3> QED BY <3>1
  <2> QED BY <2>1, <2>5 DEF Adds
<1>3. S \in Good
  <2> HIDE DEF Good
  <2> QED BY <1>1, <1>2, SetInduction
<1>4. Level(Cardinality(S)) = SUBSET S
  BY FS_Subset
<1> QED BY <1>3, <1>4 DEF Partial

LEMMA PartialStep ==
    ASSUME NEW f, IsFiniteSet(DOMAIN f)
    PROVE  /\ Partial(f)[{}] = 0
           /\ \A s \in SUBSET DOMAIN f : s # {} =>
                  Partial(f)[s] = f[Pick(s)] + Partial(f)[s \ {Pick(s)}]
<1> DEFINE g == Partial(f)
<1>1. g = [s \in SUBSET DOMAIN f |-> IF s = {} THEN 0 ELSE f[Pick(s)] + g[s \ {Pick(s)}]]
  BY PartialExists DEF Adds
<1> HIDE DEF g
<1> QED BY <1>1 DEF g

(* Partial sums of naturals are naturals. *)
LEMMA PartialNat ==
    ASSUME NEW S, IsFiniteSet(S), NEW f \in [S -> Nat]
    PROVE  \A s \in SUBSET S : Partial(f)[s] \in Nat
<1> DEFINE g == Partial(f)
           Bad == {s \in SUBSET S : g[s] \notin Nat}
<1>1. SUFFICES ASSUME Bad # {} PROVE FALSE
  OBVIOUS
<1>2. Bad \subseteq FiniteSubsetsOf(S)
  BY FS_FiniteSubsetsOfFinite
<1>3. PICK T \in Bad : \A U \in Bad : <<U, T>> \notin StrictSubsetOrdering(S)
  BY <1>1, <1>2, WFMin, FS_StrictSubsetOrderingWellFounded
<1>4. T # {}
  <2>1. g[{}] = 0
    BY PartialStep
  <2> QED BY <2>1
<1>5. Pick(T) \in T
  BY <1>4 DEF Pick
<1>6. <<T \ {Pick(T)}, T>> \in StrictSubsetOrdering(S)
  BY <1>5 DEF StrictSubsetOrdering
<1>7. g[T \ {Pick(T)}] \in Nat
  BY <1>3, <1>6
<1>8. g[T] = f[Pick(T)] + g[T \ {Pick(T)}]
  BY <1>4, PartialStep
<1>9. f[Pick(T)] \in Nat
  BY <1>5
<1> QED BY <1>7, <1>8, <1>9

(* Any element may be added last. *)
LEMMA PartialPeel ==
    ASSUME NEW S, IsFiniteSet(S), NEW f \in [S -> Nat]
    PROVE  \A s \in SUBSET S : \A x \in s : Partial(f)[s] = f[x] + Partial(f)[s \ {x}]
<1> DEFINE g == Partial(f)
           Bad == {s \in SUBSET S : \E x \in s : g[s] # f[x] + g[s \ {x}]}
<1>1. SUFFICES ASSUME Bad # {} PROVE FALSE
  OBVIOUS
<1>2. Bad \subseteq FiniteSubsetsOf(S)
  BY FS_FiniteSubsetsOfFinite
<1>3. PICK T \in Bad : \A U \in Bad : <<U, T>> \notin StrictSubsetOrdering(S)
  BY <1>1, <1>2, WFMin, FS_StrictSubsetOrderingWellFounded
<1>4. PICK x \in T : g[T] # f[x] + g[T \ {x}]
  OBVIOUS
<1> DEFINE p == Pick(T)
<1>5. p \in T /\ T \in SUBSET S
  BY <1>4 DEF Pick
<1>6. g[T] = f[p] + g[T \ {p}]
  BY <1>4, <1>5, PartialStep
<1>7. p # x
  BY <1>4, <1>6
<1> HIDE DEF p
<1>8. ASSUME NEW y \in T, NEW z \in T, y # z
      PROVE  g[T \ {y}] = f[z] + g[(T \ {y}) \ {z}]
  <2>1. <<T \ {y}, T>> \in StrictSubsetOrdering(S)
    BY <1>5 DEF StrictSubsetOrdering
  <2>2. T \ {y} \notin Bad /\ T \ {y} \in SUBSET S /\ z \in T \ {y}
    BY <1>3, <2>1, <1>8, <1>5
  <2> QED BY <2>2
<1>9. (T \ {p}) \ {x} = (T \ {x}) \ {p}
  OBVIOUS
<1>10. g[(T \ {x}) \ {p}] \in Nat /\ f[p] \in Nat /\ f[x] \in Nat
  BY <1>5, <1>4, PartialNat
<1>11. g[T \ {p}] = f[x] + g[(T \ {x}) \ {p}]
  BY <1>8, <1>9, <1>7, <1>5, <1>4
<1>12. g[T \ {x}] = f[p] + g[(T \ {x}) \ {p}]
  BY <1>8, <1>7, <1>5, <1>4
<1> QED BY <1>4, <1>6, <1>10, <1>11, <1>12

LEMMA PartialAdd ==
    ASSUME NEW S, IsFiniteSet(S), NEW f \in [S -> Nat], NEW T \in SUBSET S, NEW x \in S \ T
    PROVE  Partial(f)[T \cup {x}] = f[x] + Partial(f)[T]
<1>1. (T \cup {x}) \ {x} = T /\ x \in T \cup {x} /\ T \cup {x} \in SUBSET S
  OBVIOUS
<1> QED BY <1>1, PartialPeel

(* The sum over a part of the domain is the sum of the restriction. *)
LEMMA PartialRestricted ==
    ASSUME NEW S, IsFiniteSet(S), NEW f \in [S -> Nat], NEW R \in SUBSET S
    PROVE  SumFunction([x \in R |-> f[x]]) = Partial(f)[R]
<1> DEFINE r == [x \in R |-> f[x]]
           Good == {s \in SUBSET R : Partial(r)[s] = Partial(f)[s]}
<1>1. r \in [R -> Nat] /\ IsFiniteSet(R) /\ DOMAIN r = R /\ DOMAIN f = S
  BY FS_Subset
<1>2. {} \in Good
  BY <1>1, PartialStep
<1>3. ASSUME NEW T \in SUBSET R, NEW x \in R \ T, T \in Good
      PROVE  T \cup {x} \in Good
  <2>2. Partial(r)[T \cup {x}] = r[x] + Partial(r)[T]
    BY <1>1, PartialAdd
  <2>3. Partial(f)[T \cup {x}] = f[x] + Partial(f)[T]
    BY <1>1, PartialAdd
  <2> QED BY <1>3, <2>2, <2>3
<1>4. R \in Good
  <2> HIDE DEF Good
  <2> QED BY <1>1, <1>2, <1>3, SetInduction
<1>5. SumFunction(r) = Partial(r)[R]
  BY <1>1, SumIsPartial
<1> QED BY <1>4, <1>5

LEMMA SumNat ==
    ASSUME NEW S, IsFiniteSet(S), NEW f \in [S -> Nat]
    PROVE  SumFunction(f) \in Nat
  BY PartialNat, SumIsPartial

LEMMA SumEmpty ==
    ASSUME NEW f, DOMAIN f = {}
    PROVE  SumFunction(f) = 0
<1>1. IsFiniteSet(DOMAIN f)
  BY FS_EmptySet
<1> QED BY <1>1, PartialStep, SumIsPartial

LEMMA SumPeel ==
    ASSUME NEW S, IsFiniteSet(S), NEW f \in [S -> Nat], NEW x \in S
    PROVE  SumFunction(f) = f[x] + SumFunction([y \in S \ {x} |-> f[y]])
<1>1. SumFunction(f) = Partial(f)[S]
  BY SumIsPartial
<1>2. Partial(f)[S] = f[x] + Partial(f)[S \ {x}]
  BY PartialPeel
<1>3. SumFunction([y \in S \ {x} |-> f[y]]) = Partial(f)[S \ {x}]
  BY PartialRestricted
<1> QED BY <1>1, <1>2, <1>3

(* A sum with a term for a term is the sum of the sums, and a smaller one  *)
(* is smaller.                                                             *)
LEMMA SumPlus ==
    ASSUME NEW S, IsFiniteSet(S), NEW f \in [S -> Nat], NEW g \in [S -> Nat], NEW k \in [S -> Nat],
           \A x \in S : k[x] = f[x] + g[x]
    PROVE  SumFunction(k) = SumFunction(f) + SumFunction(g)
<1> DEFINE Good == {s \in SUBSET S : Partial(k)[s] = Partial(f)[s] + Partial(g)[s]}
<1>1. {} \in Good
  <2>1. Partial(k)[{}] = 0 /\ Partial(f)[{}] = 0 /\ Partial(g)[{}] = 0
    BY PartialStep
  <2> QED BY <2>1
<1>2. ASSUME NEW T \in SUBSET S, NEW x \in S \ T, T \in Good
      PROVE  T \cup {x} \in Good
  <2>2. /\ Partial(k)[T \cup {x}] = k[x] + Partial(k)[T]
        /\ Partial(f)[T \cup {x}] = f[x] + Partial(f)[T]
        /\ Partial(g)[T \cup {x}] = g[x] + Partial(g)[T]
    BY PartialAdd
  <2>3. Partial(f)[T] \in Nat /\ Partial(g)[T] \in Nat /\ f[x] \in Nat /\ g[x] \in Nat /\ k[x] = f[x] + g[x]
    BY PartialNat
  <2> QED BY <1>2, <2>2, <2>3
<1>3. S \in Good
  <2> HIDE DEF Good
  <2> QED BY <1>1, <1>2, SetInduction
<1> QED BY <1>3, SumIsPartial

LEMMA SumMonotone ==
    ASSUME NEW S, IsFiniteSet(S), NEW f \in [S -> Nat], NEW g \in [S -> Nat],
           \A x \in S : f[x] <= g[x]
    PROVE  SumFunction(f) <= SumFunction(g)
<1> DEFINE d == [x \in S |-> g[x] - f[x]]
<1>1. d \in [S -> Nat] /\ \A x \in S : g[x] = f[x] + d[x]
  OBVIOUS
<1> HIDE DEF d
<1>2. SumFunction(g) = SumFunction(f) + SumFunction(d)
  BY <1>1, SumPlus
<1>3. SumFunction(f) \in Nat /\ SumFunction(d) \in Nat
  BY <1>1, SumNat
<1> QED BY <1>2, <1>3

(* What is zero adds nothing. *)
LEMMA SumWithin ==
    ASSUME NEW S, IsFiniteSet(S), NEW f \in [S -> Nat], NEW R \in SUBSET S,
           \A x \in S \ R : f[x] = 0
    PROVE  SumFunction(f) = SumFunction([x \in R |-> f[x]])
<1> DEFINE Good == {s \in SUBSET (S \ R) : Partial(f)[R \cup s] = Partial(f)[R]}
<1>1. {} \in Good
  OBVIOUS
<1>2. ASSUME NEW T \in SUBSET (S \ R), NEW x \in (S \ R) \ T, T \in Good
      PROVE  T \cup {x} \in Good
  <2>1. (R \cup (T \cup {x})) \ {x} = R \cup T /\ R \cup (T \cup {x}) \in SUBSET S
    OBVIOUS
  <2>2. Partial(f)[R \cup (T \cup {x})] = f[x] + Partial(f)[R \cup T]
    BY <2>1, PartialPeel
  <2>3. f[x] = 0 /\ Partial(f)[R \cup T] \in Nat
    BY PartialNat
  <2> QED BY <1>2, <2>2, <2>3
<1>3. S \ R \in Good
  <2>1. IsFiniteSet(S \ R)
    BY FS_Subset
  <2> HIDE DEF Good
  <2> QED BY <1>1, <1>2, <2>1, SetInduction
<1>4. R \cup (S \ R) = S
  OBVIOUS
<1>5. SumFunction([x \in R |-> f[x]]) = Partial(f)[R]
  BY PartialRestricted
<1> QED BY <1>3, <1>4, <1>5, SumIsPartial

(* The sum over a part is no more than the whole. *)
LEMMA SumPart ==
    ASSUME NEW S, IsFiniteSet(S), NEW f \in [S -> Nat], NEW R \in SUBSET S
    PROVE  SumFunction([x \in R |-> f[x]]) <= SumFunction(f)
<1> DEFINE g == [x \in S |-> IF x \in R THEN f[x] ELSE 0]
<1>1. g \in [S -> Nat] /\ (\A x \in S : g[x] <= f[x]) /\ \A x \in S \ R : g[x] = 0
  OBVIOUS
<1>2. SumFunction(g) = SumFunction([x \in R |-> g[x]])
  BY <1>1, SumWithin
<1>3. [x \in R |-> g[x]] = [x \in R |-> f[x]]
  OBVIOUS
<1> HIDE DEF g
<1>4. SumFunction(g) <= SumFunction(f)
  BY <1>1, SumMonotone
<1> QED BY <1>2, <1>3, <1>4

-----------------------------------------------------------------------------
(* Listings and what they add up to. *)

Listings == UNION {[S -> Nat \ {0}] : S \in SUBSET Tlcs}

Weight(b, S) == [t \in Tlcs |-> IF t \in DOMAIN b \cap S THEN t.amount * b[t] ELSE 0]

LEMMA ListingType ==
    ASSUME NEW b \in Listings
    PROVE  /\ DOMAIN b \subseteq Tlcs
           /\ b = [t \in DOMAIN b |-> b[t]]
           /\ \A t \in DOMAIN b : b[t] \in Nat \ {0}
  BY DEF Listings

LEMMA TimesNat ==
    ASSUME NEW a \in Nat, NEW n \in Nat
    PROVE  a * n \in Nat
  OBVIOUS

LEMMA TimesMonotone ==
    ASSUME NEW a \in Nat, NEW n \in Nat, NEW m \in Nat, n <= m
    PROVE  a * n <= a * m
  OBVIOUS

LEMMA WeightType ==
    ASSUME NEW b \in Listings, NEW S
    PROVE  Weight(b, S) \in [Tlcs -> Nat]
<1>1. ASSUME NEW t \in Tlcs, t \in DOMAIN b PROVE t.amount * b[t] \in Nat
  BY <1>1, ListingType, RuleAssumption, TimesNat DEF RuleAssumption
<1> QED BY <1>1 DEF Weight

LEMMA AmountIs ==
    ASSUME NEW b \in Listings, NEW S
    PROVE  Amount(b, S) = SumFunction(Weight(b, S))
<1> DEFINE R == DOMAIN b \cap S
           w == Weight(b, S)
<1>1. R \in SUBSET Tlcs
  BY ListingType
<1>2. \A t \in Tlcs \ R : w[t] = 0
  BY DEF Weight
<1>3. [t \in R |-> w[t]] = [t \in R |-> t.amount * b[t]]
  BY <1>1 DEF Weight
<1>4. w \in [Tlcs -> Nat]
  BY WeightType
<1> HIDE DEF w
<1>5. SumFunction(w) = SumFunction([t \in R |-> w[t]])
  BY <1>1, <1>2, <1>4, SumWithin, RuleAssumption DEF RuleAssumption
<1> QED BY <1>3, <1>5 DEF Amount, w

LEMMA AmountNat ==
    ASSUME NEW b \in Listings, NEW S
    PROVE  Amount(b, S) \in Nat
  BY AmountIs, WeightType, SumNat, RuleAssumption DEF RuleAssumption

LEMMA AmountEmpty ==
    ASSUME NEW S
    PROVE  Amount(EmptyBag, S) = 0 /\ EmptyBag \in Listings
<1>1. DOMAIN EmptyBag = {}
  BY DEF EmptyBag, SetToBag
<1>2. DOMAIN [t \in DOMAIN EmptyBag \cap S |-> t.amount * EmptyBag[t]] = {}
  BY <1>1
<1>3. EmptyBag \in [{} -> Nat \ {0}]
  BY DEF EmptyBag, SetToBag
<1> QED BY <1>2, <1>3, SumEmpty DEF Amount, Listings

(* More copies of what is listed are no less. *)
LEMMA AmountMonotone ==
    ASSUME NEW b \in Listings, NEW c \in Listings, NEW S, NEW R,
           \A t \in DOMAIN b \cap S : t \in DOMAIN c \cap R /\ b[t] <= c[t]
    PROVE  Amount(b, S) <= Amount(c, R)
<1>1. ASSUME NEW t \in Tlcs PROVE Weight(b, S)[t] <= Weight(c, R)[t]
  <2>1. CASE t \in DOMAIN b \cap S
    <3>1. t.amount * b[t] <= t.amount * c[t]
      BY <2>1, ListingType, RuleAssumption, TimesMonotone DEF RuleAssumption
    <3> QED BY <2>1, <3>1 DEF Weight
  <2>2. CASE t \notin DOMAIN b \cap S
    <3>1. Weight(b, S)[t] = 0 /\ Weight(c, R)[t] \in Nat
      BY <2>2, WeightType DEF Weight
    <3> QED BY <3>1
  <2> QED BY <2>1, <2>2
<1> QED BY <1>1, WeightType, AmountIs, SumMonotone, RuleAssumption DEF RuleAssumption

LEMMA AmountDisjoint ==
    ASSUME NEW b \in Listings, NEW S, NEW R, S \cap R = {}
    PROVE  Amount(b, S \cup R) = Amount(b, S) + Amount(b, R)
<1> DEFINE f == Weight(b, S)
           g == Weight(b, R)
           k == Weight(b, S \cup R)
<1>1. IsFiniteSet(Tlcs)
  BY RuleAssumption DEF RuleAssumption
<1>2. f \in [Tlcs -> Nat] /\ g \in [Tlcs -> Nat] /\ k \in [Tlcs -> Nat]
  BY WeightType
<1>3. ASSUME NEW t \in Tlcs PROVE k[t] = f[t] + g[t]
  <2>1. f[t] \in Nat /\ g[t] \in Nat
    BY <1>2
  <2> QED BY <2>1 DEF Weight
<1> HIDE DEF f, g, k
<1>4. SumFunction(k) = SumFunction(f) + SumFunction(g)
  BY <1>1, <1>2, <1>3, SumPlus
<1> QED BY <1>4, AmountIs DEF f, g, k

(* The listing's TLCs that left are at least those it shows no more. *)
LEMMA LeftType ==
    ASSUME NEW b \in Listings, NEW c \in Listings
    PROVE  /\ b (-) c \in Listings
           /\ DOMAIN (b (-) c) \subseteq DOMAIN b
           /\ \A t \in DOMAIN (b (-) c) : (b (-) c)[t] <= b[t]
           /\ \A t \in DOMAIN b \ DOMAIN c : t \in DOMAIN (b (-) c) /\ (b (-) c)[t] = b[t]
           /\ \A t \in DOMAIN b \cap DOMAIN c : b[t] > c[t] =>
                  t \in DOMAIN (b (-) c) /\ (b (-) c)[t] = b[t] - c[t]
<1> DEFINE d == [t \in DOMAIN b |-> IF t \in DOMAIN c THEN b[t] - c[t] ELSE b[t]]
           l == [t \in {u \in DOMAIN b : d[u] > 0} |-> d[t]]
<1>1. \A t \in DOMAIN b : b[t] \in Nat \ {0} /\ (t \in DOMAIN c => c[t] \in Nat \ {0})
  BY ListingType
<1>2. b (-) c = l
  BY DEF (-)
<1>3. \A t \in DOMAIN l : t \in DOMAIN b /\ l[t] \in Nat \ {0} /\ l[t] <= b[t]
  BY <1>1
<1>4. l \in [DOMAIN l -> Nat \ {0}] /\ DOMAIN l \in SUBSET Tlcs
  BY <1>3, ListingType
<1>5. l \in Listings
  BY <1>4 DEF Listings
<1>6. \A t \in DOMAIN b \ DOMAIN c : t \in DOMAIN l /\ l[t] = b[t]
  BY <1>1
<1>7. \A t \in DOMAIN b \cap DOMAIN c : b[t] > c[t] => t \in DOMAIN l /\ l[t] = b[t] - c[t]
  BY <1>1
<1> HIDE DEF l
<1> QED BY <1>2, <1>3, <1>5, <1>6, <1>7

LEMMA AmountLeft ==
    ASSUME NEW b \in Listings, NEW c \in Listings, NEW S
    PROVE  Amount(b, S) <= Amount(b (-) c, S) + Amount(c, S)
<1> DEFINE l == b (-) c
           k == [t \in Tlcs |-> Weight(l, S)[t] + Weight(c, S)[t]]
<1>1. l \in Listings
  BY LeftType
<1>2. Weight(l, S) \in [Tlcs -> Nat] /\ Weight(c, S) \in [Tlcs -> Nat] /\ Weight(b, S) \in [Tlcs -> Nat]
  BY <1>1, WeightType
<1>3. k \in [Tlcs -> Nat] /\ \A t \in Tlcs : k[t] = Weight(l, S)[t] + Weight(c, S)[t]
  BY <1>2
<1>4. ASSUME NEW t \in Tlcs PROVE Weight(b, S)[t] <= k[t]
  <2>1. CASE t \notin DOMAIN b \cap S
    <3>1. Weight(b, S)[t] = 0 /\ k[t] \in Nat
      BY <2>1, <1>3 DEF Weight
    <3> QED BY <3>1
  <2>2. CASE t \in DOMAIN b \cap S /\ t \notin DOMAIN c
    <3>1. t \in DOMAIN l /\ l[t] = b[t]
      BY <2>2, LeftType
    <3> HIDE DEF l
    <3>2. Weight(l, S)[t] = Weight(b, S)[t]
      BY <2>2, <3>1 DEF Weight
    <3> QED BY <3>2, <1>2
  <2>3. CASE t \in DOMAIN b \cap S /\ t \in DOMAIN c /\ b[t] <= c[t]
    <3>1. t.amount * b[t] <= t.amount * c[t]
      BY <2>3, ListingType, RuleAssumption, TimesMonotone DEF RuleAssumption
    <3>2. Weight(b, S)[t] = t.amount * b[t] /\ Weight(c, S)[t] = t.amount * c[t]
      BY <2>3 DEF Weight
    <3> HIDE DEF l
    <3>3. Weight(b, S)[t] \in Nat /\ Weight(c, S)[t] \in Nat /\ Weight(l, S)[t] \in Nat
      BY <1>2
    <3> QED BY <3>1, <3>2, <3>3
  <2>4. CASE t \in DOMAIN b \cap S /\ t \in DOMAIN c /\ b[t] > c[t]
    <3>1. t \in DOMAIN l /\ l[t] = b[t] - c[t]
      BY <2>4, LeftType
    <3>2. b[t] \in Nat /\ c[t] \in Nat /\ t.amount \in Nat
      BY <2>4, ListingType, RuleAssumption DEF RuleAssumption
    <3> HIDE DEF l
    <3>3. Weight(l, S)[t] = t.amount * (b[t] - c[t]) /\ Weight(c, S)[t] = t.amount * c[t] /\ Weight(b, S)[t] = t.amount * b[t]
      BY <2>4, <3>1 DEF Weight
    <3>4. ASSUME NEW a \in Nat, NEW n \in Nat, NEW m \in Nat PROVE a * (n - m) + a * m = a * n
      OBVIOUS
    <3>5. k[t] = Weight(b, S)[t]
      BY <3>2, <3>3, <3>4
    <3> QED BY <3>5, <1>2
  <2>5. t \in DOMAIN b \cap S /\ t \in DOMAIN c => b[t] \in Nat /\ c[t] \in Nat
    BY ListingType
  <2> QED BY <2>1, <2>2, <2>3, <2>4, <2>5
<1> HIDE DEF l, k
<1>5. SumFunction(Weight(b, S)) <= SumFunction(k)
  BY <1>2, <1>3, <1>4, SumMonotone, RuleAssumption DEF RuleAssumption
<1>6. SumFunction(k) = SumFunction(Weight(l, S)) + SumFunction(Weight(c, S))
  BY <1>2, <1>3, SumPlus, RuleAssumption DEF RuleAssumption
<1> QED BY <1>1, <1>5, <1>6, AmountIs DEF l

(* Every TLC is under one hash. *)
LEMMA AmountByHash ==
    ASSUME NEW b \in Listings
    PROVE  SumFunction([h \in Hashes |-> Amount(b, Under(h))]) = Amount(b, Tlcs)
<1> DEFINE f == [h \in Hashes |-> Amount(b, Under(h))]
           In(H) == {t \in Tlcs : t.hash \in H}
           Good == {H \in SUBSET Hashes : Partial(f)[H] = Amount(b, In(H))}
<1>1. f \in [Hashes -> Nat] /\ IsFiniteSet(Hashes)
  BY AmountNat, RuleAssumption DEF RuleAssumption
<1>2. {} \in Good
  <2>1. Partial(f)[{}] = 0
    BY <1>1, PartialStep
  <2>2. In({}) = {}
    OBVIOUS
  <2>3. DOMAIN [t \in DOMAIN b \cap {} |-> t.amount * b[t]] = {}
    OBVIOUS
  <2>4. Amount(b, {}) = 0
    BY <2>3, SumEmpty DEF Amount
  <2> QED BY <2>1, <2>2, <2>4
<1>3. ASSUME NEW H \in SUBSET Hashes, NEW h \in Hashes \ H, H \in Good
      PROVE  H \cup {h} \in Good
  <2>1. Partial(f)[H \cup {h}] = f[h] + Partial(f)[H]
    BY <1>1, PartialAdd
  <2>2. In(H \cup {h}) = Under(h) \cup In(H) /\ Under(h) \cap In(H) = {}
    BY DEF Under
  <2>3. Amount(b, Under(h) \cup In(H)) = Amount(b, Under(h)) + Amount(b, In(H))
    BY <2>2, AmountDisjoint
  <2>4. f[h] = Amount(b, Under(h))
    OBVIOUS
  <2> HIDE DEF f, In
  <2> QED BY <1>3, <2>1, <2>2, <2>3, <2>4
<1>4. Hashes \in Good
  <2> HIDE DEF Good
  <2> QED BY <1>1, <1>2, <1>3, SetInduction
<1>5. In(Hashes) = Tlcs
  BY RuleAssumption DEF RuleAssumption
<1>6. SumFunction(f) = Partial(f)[Hashes]
  BY <1>1, SumIsPartial
<1> QED BY <1>4, <1>5, <1>6

-----------------------------------------------------------------------------
(* The rule, for one commitment. *)

Snapshots == [exposure : Nat, tlcs : Listings, charged : [Hashes -> Nat], credited : [Hashes -> Nat]]

Stated(next) == next.exposure \in Nat /\ next.tlcs \in Listings

ContextOK(ctx) ==
    /\ \A h \in Hashes : ctx.invoices[h] # NoRecord => ctx.invoices[h].amount \in Nat
    /\ IsFiniteSet(DOMAIN ctx.others)
    /\ \A d \in DOMAIN ctx.others : ctx.others[d] \in [Views -> Snapshots]

LEMMA MaxOfTwo ==
    ASSUME NEW a \in Int, NEW b \in Int
    PROVE  Max({a, b}) = IF a >= b THEN a ELSE b
<1>1. \E x \in {a, b} : \A y \in {a, b} : x >= y
  OBVIOUS
<1>2. Max({a, b}) \in {a, b} /\ \A y \in {a, b} : Max({a, b}) >= y
  BY <1>1 DEF Max
<1> QED BY <1>2

LEMMA MinOfTwo ==
    ASSUME NEW a \in Int, NEW b \in Int
    PROVE  Min({a, b}) = IF a <= b THEN a ELSE b
<1>1. \E x \in {a, b} : \A y \in {a, b} : x =< y
  OBVIOUS
<1>2. Min({a, b}) \in {a, b} /\ \A y \in {a, b} : Min({a, b}) =< y
  BY <1>1 DEF Min
<1> QED BY <1>2

LEMMA DrawnNat ==
    ASSUME NEW view \in Snapshots, NEW h \in Hashes
    PROVE  Drawn(view, h) \in Nat
<1>1. view.tlcs \in Listings /\ view.charged[h] \in Nat
  BY DEF Snapshots
<1>2. Amount(view.tlcs, Offered \cap Under(h)) \in Nat
  BY <1>1, AmountNat
<1> QED BY <1>1, <1>2 DEF Drawn

(* A channel draws what one of its views draws, and no view draws more. *)
LEMMA DrawnByChannelIs ==
    ASSUME NEW channel \in [Views -> Snapshots], NEW h \in Hashes
    PROVE  /\ DrawnByChannel(channel, h) \in Nat
           /\ \A w \in Views : Drawn(channel[w], h) <= DrawnByChannel(channel, h)
           /\ \E w \in Views : Drawn(channel[w], h) = DrawnByChannel(channel, h)
<1> DEFINE a == Drawn(channel["remote"], h)
           b == Drawn(channel["local"], h)
<1>1. a \in Nat /\ b \in Nat
  BY DrawnNat DEF Views
<1>2. {Drawn(channel[w], h) : w \in Views} = {a, b}
  BY DEF Views
<1>3. DrawnByChannel(channel, h) = Max({a, b})
  BY <1>2 DEF DrawnByChannel
<1> HIDE DEF a, b
<1>4. Max({a, b}) = IF a >= b THEN a ELSE b
  BY <1>1, MaxOfTwo
<1>5. DrawnByChannel(channel, h) \in Nat /\ a <= DrawnByChannel(channel, h) /\ b <= DrawnByChannel(channel, h)
  BY <1>1, <1>3, <1>4
<1>6. DrawnByChannel(channel, h) \in {a, b}
  BY <1>3, <1>4
<1> QED BY <1>5, <1>6 DEF a, b, Views

LEMMA CreditedByChannelIs ==
    ASSUME NEW channel \in [Views -> Snapshots], NEW h \in Hashes
    PROVE  /\ CreditedByChannel(channel, h) \in Nat
           /\ \A w \in Views : CreditedByChannel(channel, h) <= channel[w].credited[h]
<1> DEFINE a == channel["remote"].credited[h]
           b == channel["local"].credited[h]
<1>1. a \in Nat /\ b \in Nat
  BY DEF Views, Snapshots
<1>2. {channel[w].credited[h] : w \in Views} = {a, b}
  BY DEF Views
<1>3. CreditedByChannel(channel, h) = Min({a, b})
  BY <1>2 DEF CreditedByChannel
<1> HIDE DEF a, b
<1>4. Min({a, b}) = IF a <= b THEN a ELSE b
  BY <1>1, MinOfTwo
<1>5. CreditedByChannel(channel, h) \in Nat /\ CreditedByChannel(channel, h) <= a /\ CreditedByChannel(channel, h) <= b
  BY <1>1, <1>3, <1>4
<1> QED BY <1>5 DEF a, b, Views

LEMMA CreditedAcrossNat ==
    ASSUME NEW view \in Snapshots, NEW ctx, ContextOK(ctx), NEW h \in Hashes
    PROVE  CreditedAcross(view, ctx, h) \in Nat
<1> DEFINE f == [d \in DOMAIN ctx.others |-> CreditedByChannel(ctx.others[d], h)]
<1>1. f \in [DOMAIN ctx.others -> Nat]
  BY CreditedByChannelIs DEF ContextOK
<1>2. SumFunction(f) \in Nat
  BY <1>1, SumNat DEF ContextOK
<1>3. view.credited[h] \in Nat
  BY DEF Snapshots
<1> QED BY <1>2, <1>3 DEF CreditedAcross

(* What is credited is at most what left, and all of it unless the invoice *)
(* is then credited in full.                                               *)
LEMMA CreditIs ==
    ASSUME NEW view \in Snapshots, NEW left \in Listings, NEW ctx, ContextOK(ctx), NEW h \in Hashes
    PROVE  /\ Credit(view, left, ctx, h) \in Nat
           /\ Credit(view, left, ctx, h) <= Amount(left, HeldUnder(h))
           /\ (ctx.invoices[h] # NoRecord /\ ctx.invoices[h].released) =>
                  \/ Credit(view, left, ctx, h) = Amount(left, HeldUnder(h))
                  \/ Credit(view, left, ctx, h) + CreditedAcross(view, ctx, h) >= ctx.invoices[h].amount
<1> DEFINE a == Amount(left, HeldUnder(h))
           x == CreditedAcross(view, ctx, h)
           p == ctx.invoices[h].amount
           k == Credit(view, left, ctx, h)
<1>1. a \in Nat /\ x \in Nat
  BY AmountNat, CreditedAcrossNat
<1>2. CASE ctx.invoices[h] = NoRecord \/ ~ctx.invoices[h].released
  <2>1. k = 0
    BY <1>2 DEF Credit
  <2> QED BY <1>1, <1>2, <2>1
<1>3. CASE ~(ctx.invoices[h] = NoRecord \/ ~ctx.invoices[h].released)
  <2>1. k = Min({a, Max({p - x, 0})})
    BY <1>3 DEF Credit
  <2>2. p \in Nat
    BY <1>3 DEF ContextOK
  <2> DEFINE m == Max({p - x, 0})
  <2> HIDE DEF a, x, p, k
  <2>3. m = IF p - x >= 0 THEN p - x ELSE 0
    BY <1>1, <2>2, MaxOfTwo
  <2>4. m \in Nat /\ m + x >= p
    BY <1>1, <2>2, <2>3
  <2> HIDE DEF m
  <2>5. k = IF a <= m THEN a ELSE m
    <3>1. k = Min({a, m})
      BY <2>1 DEF m
    <3> QED BY <1>1, <2>4, <3>1, MinOfTwo
  <2>6. k \in Nat /\ k <= a /\ (k = a \/ k + x >= p)
    BY <1>1, <2>2, <2>4, <2>5
  <2> QED BY <2>6 DEF a, x, p, k
<1> QED BY <1>2, <1>3

LEMMA TotalCreditNat ==
    ASSUME NEW view \in Snapshots, NEW left \in Listings, NEW ctx, ContextOK(ctx)
    PROVE  TotalCredit(view, left, ctx) \in Nat
<1> DEFINE f == [h \in Hashes |-> Credit(view, left, ctx, h)]
<1>1. f \in [Hashes -> Nat]
  BY CreditIs
<1> QED BY <1>1, SumNat, RuleAssumption DEF TotalCredit, RuleAssumption

(* What is charged is some of the offered TLCs that left, all copies. *)
LEMMA ChargedType ==
    ASSUME NEW left \in Listings, NEW s \in Int, NEW u \in Int
    PROVE  /\ ChargedTlcs(left, s, u) \in Listings
           /\ \A t \in DOMAIN ChargedTlcs(left, s, u) :
                  t \in DOMAIN left \cap Offered /\ ChargedTlcs(left, s, u)[t] = left[t]
<1> DEFINE offered == [t \in DOMAIN left \cap Offered |-> left[t]]
           fitting == {b \in ChoicesOf(offered) : Amount(b, Offered) >= s /\ Amount(b, Offered) <= s + u}
           some == {t \in DOMAIN offered : \E b \in fitting : t \in DOMAIN b}
           paid == ChargedTlcs(left, s, u)
<1>1. \/ paid = EmptyBag
      \/ paid = offered
      \/ paid = [t \in some |-> offered[t]]
  BY DEF ChargedTlcs
<1>2. DOMAIN left \subseteq Tlcs /\ \A t \in DOMAIN left : left[t] \in Nat \ {0}
  BY ListingType
<1>3. ASSUME NEW S \in SUBSET (DOMAIN left \cap Offered)
      PROVE  [t \in S |-> left[t]] \in Listings
  <2>1. [t \in S |-> left[t]] \in [S -> Nat \ {0}] /\ S \in SUBSET Tlcs
    BY <1>2
  <2> QED BY <2>1 DEF Listings
<1>4. CASE paid = EmptyBag
  <2>1. DOMAIN paid = {}
    BY <1>4 DEF EmptyBag, SetToBag
  <2> QED BY <1>4, <2>1, AmountEmpty
<1>5. CASE paid = offered
  <2>1. \A t \in DOMAIN offered : t \in DOMAIN left \cap Offered /\ offered[t] = left[t]
    OBVIOUS
  <2>2. offered \in Listings
    BY <1>3
  <2> HIDE DEF offered
  <2> QED BY <1>5, <2>1, <2>2
<1>6. CASE paid = [t \in some |-> offered[t]]
  <2> HIDE DEF fitting
  <2>1. some \in SUBSET (DOMAIN left \cap Offered)
    OBVIOUS
  <2>2. [t \in some |-> offered[t]] = [t \in some |-> left[t]]
    BY <2>1
  <2>3. [t \in some |-> left[t]] \in Listings
    BY <1>3, <2>1
  <2> HIDE DEF some, offered
  <2>4. paid = [t \in some |-> left[t]]
    BY <1>6, <2>2
  <2>5. \A t \in DOMAIN paid : t \in DOMAIN left \cap Offered /\ paid[t] = left[t]
    BY <2>4, <2>1
  <2> QED BY <2>4, <2>3, <2>5
<1> QED BY <1>1, <1>4, <1>5, <1>6

(* What is charged, when something is, covers the fall. *)
LEMMA ChargedCovers ==
    ASSUME NEW left \in Listings, NEW s \in Int, NEW u \in Int,
           s <= Amount(left, Offered), s > 0 => ChargedTlcs(left, s, u) # EmptyBag
    PROVE  s <= Amount(ChargedTlcs(left, s, u), Tlcs)
<1> DEFINE offered == [t \in DOMAIN left \cap Offered |-> left[t]]
           fitting == {b \in ChoicesOf(offered) : Amount(b, Offered) >= s /\ Amount(b, Offered) <= s + u}
           some == {t \in DOMAIN offered : \E b \in fitting : t \in DOMAIN b}
           paid == ChargedTlcs(left, s, u)
<1>1. paid \in Listings /\ Amount(paid, Tlcs) \in Nat
  BY ChargedType, AmountNat
<1>2. CASE s <= 0
  BY <1>1, <1>2
<1>3. CASE s > 0
  <2>1. \/ paid = offered
        \/ paid = [t \in some |-> offered[t]] /\ paid # EmptyBag
    <3>1. paid # EmptyBag
      BY <1>3
    <3>2. \/ paid = EmptyBag
          \/ paid = offered
          \/ paid = [t \in some |-> offered[t]]
      BY DEF ChargedTlcs
    <3> HIDE DEF paid, some, offered
    <3> QED BY <3>1, <3>2
  <2>2. CASE paid = offered
    <3>1. \A t \in DOMAIN left \cap Offered : t \in DOMAIN paid \cap Tlcs /\ left[t] <= paid[t]
      BY <2>2, ListingType
    <3> HIDE DEF paid
    <3>2. Amount(left, Offered) <= Amount(paid, Tlcs)
      BY <1>1, <3>1, AmountMonotone
    <3> QED BY <1>1, <3>2, AmountNat DEF paid
  <2>3. CASE paid = [t \in some |-> offered[t]] /\ paid # EmptyBag
    <3>1. some # {}
      BY <2>3 DEF EmptyBag, SetToBag
    <3>2. PICK b \in fitting : TRUE
      BY <3>1
    <3>3. Amount(b, Offered) >= s /\ b \in ChoicesOf(offered)
      BY <3>2
    <3>4. PICK S \in SUBSET DOMAIN offered : b \in [S -> 1..BagCardinality(offered)]
      BY <3>3 DEF ChoicesOf
    <3>5. \A t \in S : b[t] \in Nat \ {0}
      BY <3>4
    <3>6. S \in SUBSET Tlcs /\ DOMAIN b = S
      BY <3>4, ListingType
    <3>7. b \in Listings
      <4>1. b \in [S -> Nat \ {0}]
        BY <3>4, <3>5
      <4> QED BY <4>1, <3>6 DEF Listings
    <3>8. \A t \in DOMAIN b : t \in DOMAIN offered /\ b[t] <= offered[t]
      BY <3>3 DEF ChoicesOf, \sqsubseteq
    <3>9. \A t \in DOMAIN b : t \in some
      BY <3>2, <3>8
    <3> HIDE DEF some, fitting, offered
    <3>10. \A t \in DOMAIN b \cap Offered : t \in DOMAIN paid \cap Tlcs /\ b[t] <= paid[t]
      BY <2>3, <3>6, <3>8, <3>9
    <3> HIDE DEF paid
    <3>11. Amount(b, Offered) <= Amount(paid, Tlcs)
      BY <1>1, <3>7, <3>10, AmountMonotone
    <3> QED BY <1>1, <3>3, <3>7, <3>11, AmountNat DEF paid
  <2> QED BY <2>1, <2>2, <2>3
<1> QED BY <1>2, <1>3

Left(view, next) == view.tlcs (-) next.tlcs

Fall(view, next, ctx) == Shortfall(view, next, Left(view, next), ctx)

Paid(view, next, ctx) ==
    ChargedTlcs(Left(view, next), Fall(view, next, ctx), Uncredited(view, Left(view, next), ctx))

LEMMA NextSnapshotIs ==
    ASSUME NEW view, NEW next, NEW ctx
    PROVE  NextSnapshot(view, next, ctx) =
              [exposure |-> next.exposure, tlcs |-> next.tlcs,
               charged  |-> [h \in Hashes |-> view.charged[h] + Amount(Paid(view, next, ctx), Under(h))],
               credited |-> [h \in Hashes |-> view.credited[h] + Credit(view, Left(view, next), ctx, h)]]
  BY DEF NextSnapshot, Left, Fall, Paid

LEMMA FallInt ==
    ASSUME NEW view \in Snapshots, NEW next, Stated(next), NEW ctx, ContextOK(ctx)
    PROVE  /\ Left(view, next) \in Listings
           /\ Holdings(view.exposure, view.tlcs) \in Nat
           /\ Holdings(next.exposure, next.tlcs) \in Nat
           /\ TotalCredit(view, Left(view, next), ctx) \in Nat
           /\ Fall(view, next, ctx) \in Int
           /\ Uncredited(view, Left(view, next), ctx) \in Int
<1>1. view.exposure \in Nat /\ view.tlcs \in Listings /\ next.exposure \in Nat /\ next.tlcs \in Listings
  BY DEF Snapshots, Stated
<1>2. Left(view, next) \in Listings
  BY <1>1, LeftType DEF Left
<1>3. TotalCredit(view, Left(view, next), ctx) \in Nat
  BY <1>2, TotalCreditNat
<1>4. Holdings(view.exposure, view.tlcs) \in Nat /\ Holdings(next.exposure, next.tlcs) \in Nat
  <2>1. Amount(view.tlcs, Offered) \in Nat /\ Amount(next.tlcs, Offered) \in Nat
    BY <1>1, AmountNat
  <2> QED BY <1>1, <2>1 DEF Holdings
<1>5. Fall(view, next, ctx) \in Int
  BY <1>3, <1>4 DEF Fall, Shortfall
<1>6. Uncredited(view, Left(view, next), ctx) \in Int
  <2>1. Amount(Left(view, next), (Received \ UnderInvoice(ctx)) \cup ReleasedHeld(ctx)) \in Nat
    BY <1>2, AmountNat
  <2> QED BY <1>3, <2>1 DEF Uncredited
<1> QED BY <1>2, <1>3, <1>4, <1>5, <1>6

LEMMA PaidType ==
    ASSUME NEW view \in Snapshots, NEW next, Stated(next), NEW ctx, ContextOK(ctx)
    PROVE  /\ Paid(view, next, ctx) \in Listings
           /\ \A t \in DOMAIN Paid(view, next, ctx) :
                  t \in DOMAIN view.tlcs \cap Offered /\ Paid(view, next, ctx)[t] <= view.tlcs[t]
<1> DEFINE left == Left(view, next)
           paid == Paid(view, next, ctx)
<1>1. view.tlcs \in Listings /\ next.tlcs \in Listings
  BY DEF Snapshots, Stated
<1>2. paid \in Listings /\ \A t \in DOMAIN paid : t \in DOMAIN left \cap Offered /\ paid[t] = left[t]
  BY FallInt, ChargedType DEF Paid
<1>3. \A t \in DOMAIN left : t \in DOMAIN view.tlcs /\ left[t] <= view.tlcs[t]
  BY <1>1, LeftType DEF Left
<1> QED BY <1>2, <1>3

LEMMA NextType ==
    ASSUME NEW view \in Snapshots, NEW next, Stated(next), NEW ctx, ContextOK(ctx)
    PROVE  NextSnapshot(view, next, ctx) \in Snapshots
<1> DEFINE charged == [h \in Hashes |-> view.charged[h] + Amount(Paid(view, next, ctx), Under(h))]
           credited == [h \in Hashes |-> view.credited[h] + Credit(view, Left(view, next), ctx, h)]
<1>1. charged \in [Hashes -> Nat]
  <2>1. ASSUME NEW h \in Hashes PROVE view.charged[h] + Amount(Paid(view, next, ctx), Under(h)) \in Nat
    <3>1. view.charged[h] \in Nat
      BY DEF Snapshots
    <3>2. Amount(Paid(view, next, ctx), Under(h)) \in Nat
      BY PaidType, AmountNat
    <3> QED BY <3>1, <3>2
  <2> QED BY <2>1
<1>2. credited \in [Hashes -> Nat]
  <2>1. ASSUME NEW h \in Hashes PROVE view.credited[h] + Credit(view, Left(view, next), ctx, h) \in Nat
    <3>1. view.credited[h] \in Nat
      BY DEF Snapshots
    <3>2. Credit(view, Left(view, next), ctx, h) \in Nat
      BY FallInt, CreditIs
    <3> QED BY <3>1, <3>2
  <2> QED BY <2>1
<1>3. NextSnapshot(view, next, ctx) = [exposure |-> next.exposure, tlcs |-> next.tlcs, charged |-> charged, credited |-> credited]
  BY NextSnapshotIs
<1> HIDE DEF charged, credited
<1> QED BY <1>1, <1>2, <1>3 DEF Snapshots, Stated

(* In a view the device has what it paid in and was credited, but for what *)
(* is charged.                                                             *)
HasDue(view) ==
    Holdings(view.exposure, view.tlcs) + SumFunction(view.charged) >= Funded + SumFunction(view.credited)

LEMMA NextHasDue ==
    ASSUME NEW view \in Snapshots, NEW next, Stated(next), NEW ctx, ContextOK(ctx),
           HasDue(view), FallAccounted(view, next, ctx)
    PROVE  HasDue(NextSnapshot(view, next, ctx))
<1> DEFINE n == NextSnapshot(view, next, ctx)
           left == Left(view, next)
           paid == Paid(view, next, ctx)
           byhash == [h \in Hashes |-> Amount(paid, Under(h))]
           credit == [h \in Hashes |-> Credit(view, left, ctx, h)]
           fall == Fall(view, next, ctx)
<1>1. IsFiniteSet(Hashes)
  BY RuleAssumption DEF RuleAssumption
<1>2. view.charged \in [Hashes -> Nat] /\ view.credited \in [Hashes -> Nat]
  BY DEF Snapshots
<1>3. n \in Snapshots
  BY NextType
<1>4. n.charged \in [Hashes -> Nat] /\ n.credited \in [Hashes -> Nat]
  BY <1>3 DEF Snapshots
<1>5. byhash \in [Hashes -> Nat] /\ SumFunction(byhash) = Amount(paid, Tlcs)
  <2>1. paid \in Listings
    BY PaidType
  <2>2. \A h \in Hashes : Amount(paid, Under(h)) \in Nat
    BY <2>1, AmountNat
  <2>3. byhash \in [Hashes -> Nat]
    BY <2>2
  <2>4. SumFunction(byhash) = Amount(paid, Tlcs)
    BY <2>1, AmountByHash
  <2> QED BY <2>3, <2>4
<1>6. credit \in [Hashes -> Nat] /\ SumFunction(credit) = TotalCredit(view, left, ctx)
  BY FallInt, CreditIs DEF TotalCredit
<1>7. \A h \in Hashes : n.charged[h] = view.charged[h] + byhash[h]
  BY NextSnapshotIs
<1>8. \A h \in Hashes : n.credited[h] = view.credited[h] + credit[h]
  BY NextSnapshotIs
<1>9. n.exposure = next.exposure /\ n.tlcs = next.tlcs
  BY NextSnapshotIs
<1>10. fall = Holdings(view.exposure, view.tlcs) + TotalCredit(view, left, ctx) - Holdings(next.exposure, next.tlcs)
  BY DEF Fall, Shortfall
<1>11. fall <= Amount(paid, Tlcs)
  <2>1. Amount(left, Offered) >= fall /\ (fall > 0 => paid # EmptyBag)
    BY DEF FallAccounted, Left, Fall, Paid
  <2>2. fall \in Int /\ Uncredited(view, left, ctx) \in Int /\ left \in Listings
    BY FallInt
  <2>3. Amount(left, Offered) \in Nat
    BY <2>2, AmountNat
  <2>4. fall <= Amount(left, Offered)
    BY <2>1, <2>2, <2>3
  <2> HIDE DEF left, fall
  <2>5. paid = ChargedTlcs(left, fall, Uncredited(view, left, ctx))
    BY DEF Paid, left, fall
  <2> QED BY <2>1, <2>2, <2>4, <2>5, ChargedCovers
<1> HIDE DEF n, byhash, credit, paid, left, fall
<1>12. SumFunction(n.charged) = SumFunction(view.charged) + Amount(paid, Tlcs)
  BY <1>1, <1>2, <1>4, <1>5, <1>7, SumPlus
<1>13. SumFunction(n.credited) = SumFunction(view.credited) + TotalCredit(view, left, ctx)
  BY <1>1, <1>2, <1>4, <1>6, <1>8, SumPlus
<1>14. /\ SumFunction(view.charged) \in Nat /\ SumFunction(view.credited) \in Nat
       /\ Amount(paid, Tlcs) \in Nat /\ fall \in Int
       /\ Holdings(view.exposure, view.tlcs) \in Nat /\ Holdings(next.exposure, next.tlcs) \in Nat
       /\ TotalCredit(view, left, ctx) \in Nat
  BY <1>1, <1>2, SumNat, FallInt, PaidType, AmountNat DEF paid, left, fall
<1>15. Funded \in Nat
  BY FundsAssumption DEF FundsAssumption
<1>16. Holdings(view.exposure, view.tlcs) + SumFunction(view.charged) >= Funded + SumFunction(view.credited)
  BY DEF HasDue
<1>17. Holdings(next.exposure, next.tlcs) + SumFunction(n.charged) >= Funded + SumFunction(n.credited)
  BY <1>10, <1>11, <1>12, <1>13, <1>14, <1>15, <1>16
<1> QED BY <1>9, <1>17 DEF HasDue, n

(* A view that offers nothing more under a hash draws no more under it. *)
LEMMA NextDraws ==
    ASSUME NEW view \in Snapshots, NEW next, Stated(next), NEW ctx, ContextOK(ctx), NEW h \in Hashes,
           h \notin {t.hash : t \in DOMAIN next.tlcs \cap Offered}
    PROVE  Drawn(NextSnapshot(view, next, ctx), h) <= Drawn(view, h)
<1> DEFINE n == NextSnapshot(view, next, ctx)
           paid == Paid(view, next, ctx)
<1>1. view.tlcs \in Listings /\ next.tlcs \in Listings /\ view.charged[h] \in Nat
  BY DEF Snapshots, Stated
<1>2. n.tlcs = next.tlcs /\ n.charged[h] = view.charged[h] + Amount(paid, Under(h))
  BY NextSnapshotIs
<1>3. Amount(next.tlcs, Offered \cap Under(h)) = 0
  <2>1. \A t \in DOMAIN next.tlcs \cap (Offered \cap Under(h)) : FALSE
    BY DEF Under
  <2>2. Amount(next.tlcs, Offered \cap Under(h)) <= Amount(EmptyBag, Tlcs)
    BY <1>1, <2>1, AmountEmpty, AmountMonotone
  <2> QED BY <1>1, <2>2, AmountEmpty, AmountNat
<1>4. Amount(paid, Under(h)) <= Amount(view.tlcs, Offered \cap Under(h))
  BY <1>1, PaidType, AmountMonotone
<1>5. Amount(paid, Under(h)) \in Nat /\ Amount(view.tlcs, Offered \cap Under(h)) \in Nat
  BY <1>1, PaidType, AmountNat
<1> HIDE DEF n, paid
<1>6. Drawn(n, h) = view.charged[h] + Amount(paid, Under(h))
  BY <1>1, <1>2, <1>3, <1>5 DEF Drawn
<1>7. Drawn(view, h) = Amount(view.tlcs, Offered \cap Under(h)) + view.charged[h]
  BY DEF Drawn
<1>8. Drawn(n, h) <= Drawn(view, h)
  BY <1>1, <1>4, <1>5, <1>6, <1>7
<1> QED BY <1>8 DEF n

-----------------------------------------------------------------------------
(* The inductive invariant. *)

Typed ==
    /\ views \in [Channels -> [Views -> Snapshots]]
    /\ opened \in [Channels -> BOOLEAN]
    /\ intents \in [Hashes -> DebitIntents \cup {NoRecord}]
    /\ invoices \in [Hashes -> HoldInvoices \cup {NoRecord}]
    /\ now \in Nat
    /\ approved \in [Hashes -> Nat]
    /\ payout \in [Channels -> Int]
    /\ bound \in DOMAIN Bounds

Released(h) == invoices[h] # NoRecord /\ invoices[h].released

(* A channel that draws under a hash is one the intent's record lists, so  *)
(* no other channel judges without it.                                     *)
DrawnIsListed ==
    \A c \in Channels, h \in Hashes :
        DrawnByChannel(views[c], h) > 0 => c \in ListedChannels(intents[h])

BudgetIsApproved ==
    \A h \in Hashes : intents[h] # NoRecord => intents[h].max <= approved[h]

(* A channel that shows an invoice's hash is one the invoice's record      *)
(* lists, so the release judges it.                                        *)
HeldIsListed ==
    \A c \in Channels, w \in Views, h \in Hashes :
        (invoices[h] # NoRecord /\ h \in HashesOf(views[c][w].tlcs)) => c \in invoices[h].channels

IInv ==
    /\ Typed
    /\ FallsAreCharged
    /\ DrawnIsListed /\ BudgetIsApproved /\ BudgetHolds
    /\ HeldIsListed /\ NeverMixed /\ ReleasedIsPaid

(* A commitment judged, filed and claimed. *)
Claims(c, w, next) ==
    /\ Acceptable(c, w, next)
    /\ Claim(c, w, next)
    /\ UNCHANGED <<now, approved, payout, bound>>

LEMMA BoundIs ==
    ASSUME Typed
    PROVE  /\ Bound.hashes \subseteq Hashes /\ Bound.budgets \subseteq Nat
           /\ Bound.prices \subseteq Nat \ {0} /\ Bound.payouts \subseteq Nat /\ Bound.time \in Nat
           /\ \A next \in Bound.commitments : Stated(next)
<1>1. Bound \in Range(Bounds)
  BY DEF Typed, Bound, Range
<1>2. /\ Bound.hashes \subseteq Hashes /\ Bound.budgets \subseteq Nat
      /\ Bound.prices \subseteq Nat \ {0} /\ Bound.payouts \subseteq Nat /\ Bound.time \in Nat
      /\ \A next \in Bound.commitments : next.exposure \in Nat /\ IsABag(next.tlcs) /\ BagToSet(next.tlcs) \subseteq Tlcs
  BY <1>1, FundsAssumption DEF FundsAssumption
<1>3. ASSUME NEW b, IsABag(b), BagToSet(b) \subseteq Tlcs PROVE b \in Listings
  <2>1. b \in [DOMAIN b -> Nat \ {0}]
    BY <1>3 DEF IsABag
  <2> QED BY <1>3, <2>1 DEF Listings, BagToSet
<1> QED BY <1>2, <1>3 DEF Stated

LEMMA HashesAreKnown ==
    ASSUME NEW b \in Listings
    PROVE  HashesOf(b) \subseteq Hashes
  BY ListingType, RuleAssumption DEF HashesOf, BagToSet, RuleAssumption

(* Filing lists the channel, and changes nothing else of a record. *)
LEMMA Filed ==
    ASSUME Typed, NEW c \in Channels, NEW H \in SUBSET Hashes, FileChannel(c, H), NEW h \in Hashes
    PROVE  /\ intents' \in [Hashes -> DebitIntents \cup {NoRecord}]
           /\ invoices' \in [Hashes -> HoldInvoices \cup {NoRecord}]
           /\ intents[h] = NoRecord => intents'[h] = NoRecord
           /\ intents[h] # NoRecord =>
                 /\ intents'[h] # NoRecord
                 /\ intents'[h].max = intents[h].max /\ intents'[h].open = intents[h].open
                 /\ intents[h].channels \subseteq intents'[h].channels
                 /\ h \in H => c \in intents'[h].channels
           /\ invoices[h] = NoRecord => invoices'[h] = NoRecord
           /\ invoices[h] # NoRecord =>
                 /\ invoices'[h] # NoRecord
                 /\ invoices'[h].amount = invoices[h].amount /\ invoices'[h].released = invoices[h].released
                 /\ invoices[h].channels \subseteq invoices'[h].channels
                 /\ h \in H => c \in invoices'[h].channels
<1>1. NoRecord \notin DebitIntents /\ NoRecord \notin HoldInvoices
  BY FundsAssumption DEF FundsAssumption
<1>2. ASSUME NEW r \in DebitIntents
      PROVE  [r EXCEPT !.channels = @ \cup {c}] \in DebitIntents
  BY DEF DebitIntents
<1>3. ASSUME NEW r \in HoldInvoices
      PROVE  [r EXCEPT !.channels = @ \cup {c}] \in HoldInvoices
  BY DEF HoldInvoices
<1>4. ASSUME NEW g \in Hashes
      PROVE  /\ intents[g] = NoRecord => intents'[g] = NoRecord
             /\ intents[g] # NoRecord => intents[g] \in DebitIntents /\ intents'[g] =
                    IF g \in H THEN [intents[g] EXCEPT !.channels = @ \cup {c}] ELSE intents[g]
  BY DEF FileChannel, WithChannel, Typed
<1>5. ASSUME NEW g \in Hashes
      PROVE  /\ invoices[g] = NoRecord => invoices'[g] = NoRecord
             /\ invoices[g] # NoRecord => invoices[g] \in HoldInvoices /\ invoices'[g] =
                    IF g \in H THEN [invoices[g] EXCEPT !.channels = @ \cup {c}] ELSE invoices[g]
  BY DEF FileChannel, WithChannel, Typed
<1>6. intents' = [g \in Hashes |-> intents'[g]] /\ invoices' = [g \in Hashes |-> invoices'[g]]
  BY DEF FileChannel, WithChannel
<1>7. intents' \in [Hashes -> DebitIntents \cup {NoRecord}]
  BY <1>2, <1>4, <1>6
<1>8. invoices' \in [Hashes -> HoldInvoices \cup {NoRecord}]
  BY <1>3, <1>5, <1>6
<1>9. intents[h] # NoRecord =>
                 /\ intents'[h] # NoRecord
                 /\ intents'[h].max = intents[h].max /\ intents'[h].open = intents[h].open
                 /\ intents[h].channels \subseteq intents'[h].channels
                 /\ h \in H => c \in intents'[h].channels
  <2>1. CASE intents[h] # NoRecord /\ h \in H
    <3> DEFINE r == intents[h]
    <3>1. r \in DebitIntents /\ intents'[h] = [r EXCEPT !.channels = @ \cup {c}]
      BY <2>1, <1>4
    <3> HIDE DEF r
    <3>2. [r EXCEPT !.channels = @ \cup {c}] \in DebitIntents
      BY <3>1, <1>2
    <3>3. intents'[h] # NoRecord
      BY <3>1, <3>2, <1>1
    <3>4. intents'[h].max = r.max /\ intents'[h].open = r.open /\ intents'[h].channels = r.channels \cup {c}
      BY <3>1 DEF DebitIntents
    <3> QED BY <3>3, <3>4 DEF r
  <2>2. CASE intents[h] # NoRecord /\ h \notin H
    BY <2>2, <1>4
  <2> QED BY <2>1, <2>2
<1>10. invoices[h] # NoRecord =>
                 /\ invoices'[h] # NoRecord
                 /\ invoices'[h].amount = invoices[h].amount /\ invoices'[h].released = invoices[h].released
                 /\ invoices[h].channels \subseteq invoices'[h].channels
                 /\ h \in H => c \in invoices'[h].channels
  <2>1. CASE invoices[h] # NoRecord /\ h \in H
    <3> DEFINE r == invoices[h]
    <3>1. r \in HoldInvoices /\ invoices'[h] = [r EXCEPT !.channels = @ \cup {c}]
      BY <2>1, <1>5
    <3> HIDE DEF r
    <3>2. [r EXCEPT !.channels = @ \cup {c}] \in HoldInvoices
      BY <3>1, <1>3
    <3>3. invoices'[h] # NoRecord
      BY <3>1, <3>2, <1>1
    <3>4. /\ invoices'[h].amount = r.amount /\ invoices'[h].released = r.released
          /\ invoices'[h].channels = r.channels \cup {c}
      BY <3>1 DEF HoldInvoices
    <3> QED BY <3>3, <3>4 DEF r
  <2>2. CASE invoices[h] # NoRecord /\ h \notin H
    BY <2>2, <1>5
  <2> QED BY <2>1, <2>2
<1> QED BY <1>4, <1>5, <1>7, <1>8, <1>9, <1>10

LEMMA ContextIs ==
    ASSUME Typed, NEW c \in Channels, NEW next, Stated(next)
    PROVE  /\ ContextOK(Context(c, next))
           /\ Context(c, next).intents = intents /\ Context(c, next).invoices = invoices
           /\ DOMAIN Context(c, next).others \subseteq Channels \ {c}
           /\ \A d \in DOMAIN Context(c, next).others : Context(c, next).others[d] = views[d]
           /\ \A h \in HashesOf(next.tlcs) : ListedChannels(intents[h]) \ {c} \subseteq DOMAIN Context(c, next).others
<1> DEFINE hashes == HashesOf(next.tlcs) \cup UNION {HashesOf(views[c][w].tlcs) : w \in Views}
           listed == UNION {ListedChannels(intents[h]) \cup ListedChannels(invoices[h]) : h \in hashes}
<1>1. hashes \subseteq Hashes
  BY HashesAreKnown DEF Typed, Snapshots, Stated
<1>2. \A h \in Hashes : ListedChannels(intents[h]) \subseteq Channels /\ ListedChannels(invoices[h]) \subseteq Channels
  BY DEF Typed, ListedChannels, DebitIntents, HoldInvoices
<1> HIDE DEF hashes
<1>3. listed \subseteq Channels
  BY <1>1, <1>2
<1>4. \A h \in hashes : ListedChannels(intents[h]) \subseteq listed
  OBVIOUS
<1>5. Context(c, next) = [intents |-> intents, invoices |-> invoices, others |-> [d \in listed \ {c} |-> views[d]]]
  BY DEF Context, hashes
<1> HIDE DEF listed
<1>6. /\ Context(c, next).intents = intents /\ Context(c, next).invoices = invoices
      /\ DOMAIN Context(c, next).others = listed \ {c}
      /\ \A d \in listed \ {c} : Context(c, next).others[d] = views[d]
  BY <1>5
<1>7. \A h \in Hashes : invoices[h] # NoRecord => invoices[h].amount \in Nat
  BY DEF Typed, HoldInvoices
<1>8. IsFiniteSet(listed \ {c})
  BY <1>3, FS_Subset, FundsAssumption DEF FundsAssumption
<1>9. \A d \in listed \ {c} : views[d] \in [Views -> Snapshots]
  BY <1>3 DEF Typed
<1>10. ContextOK(Context(c, next))
  BY <1>6, <1>7, <1>8, <1>9 DEF ContextOK
<1> QED BY <1>3, <1>4, <1>6, <1>10 DEF hashes

(* What each action does, one fact per variable. *)

LEMMA NextCases ==
    ASSUME Typed, Next
    PROVE  \/ \E h \in Hashes, max \in Nat : RecordDebitIntent(h, max)
           \/ \E h \in Hashes : CloseDebitIntent(h)
           \/ \E h \in Hashes, amount \in Nat \ {0} : RecordHoldInvoice(h, amount)
           \/ \E h \in Hashes : MarkHoldInvoiceReleased(h)
           \/ \E c \in Channels, w \in Views : \E next : Stated(next) /\ Claims(c, w, next)
           \/ \E c \in Channels, H \in SUBSET Hashes :
                  FileChannel(c, H) /\ UNCHANGED <<views, opened, now, approved, payout, bound>>
           \/ \E c \in Channels, capacity \in Nat : SignClose(c, capacity)
           \/ Tick
<1>1. CASE \E h \in Bound.hashes : \/ \E max \in Bound.budgets : RecordDebitIntent(h, max)
                                   \/ CloseDebitIntent(h)
                                   \/ \E amount \in Bound.prices : RecordHoldInvoice(h, amount)
                                   \/ MarkHoldInvoiceReleased(h)
  BY <1>1, BoundIs
<1>2. CASE \E c \in Usable, w \in Views, next \in Bound.commitments : SignCommitment(c, w, next)
  <2>1. PICK c \in Usable, w \in Views, next \in Bound.commitments : SignCommitment(c, w, next)
    BY <1>2
  <2>2. c \in Channels
    BY <2>1 DEF Usable, Used
  <2>3. Stated(next)
    BY BoundIs
  <2>4. CASE Claim(c, w, next)
    <3>1. Claims(c, w, next)
      BY <2>1, <2>4 DEF SignCommitment, Claims
    <3> QED BY <2>2, <2>3, <3>1
  <2>5. CASE StopBeforeClaim(c, next)
    <3>1. PICK H \in SUBSET HashesOf(next.tlcs) : FileChannel(c, H)
      BY <2>5 DEF StopBeforeClaim
    <3>2. H \in SUBSET Hashes
      BY <2>3, HashesAreKnown DEF Stated
    <3> QED BY <2>1, <2>2, <2>5, <3>1, <3>2 DEF StopBeforeClaim, SignCommitment
  <2> QED BY <2>1, <2>4, <2>5 DEF SignCommitment
<1>3. CASE \E c \in Usable, capacity \in Bound.payouts : SignClose(c, capacity)
  <2>1. Usable \subseteq Channels
    BY DEF Usable, Used
  <2> QED BY <1>3, <2>1, BoundIs
<1> QED BY <1>1, <1>2, <1>3 DEF Next

LEMMA ClaimIs ==
    ASSUME Typed, NEW c \in Channels, NEW w \in Views, NEW next, Stated(next), Claims(c, w, next)
    PROVE  /\ views'[c][w] = NextSnapshot(views[c][w], next, Context(c, next))
           /\ views'[c][w] \in Snapshots
           /\ \A v \in Views \ {w} : views'[c][v] = views[c][v]
           /\ \A d \in Channels \ {c} : views'[d] = views[d]
           /\ views' \in [Channels -> [Views -> Snapshots]]
           /\ views'[c][w].tlcs = next.tlcs
           /\ JudgeCommitment(views[c], w, next, Context(c, next))
           /\ HashesOf(next.tlcs) \in SUBSET Hashes
           /\ FileChannel(c, HashesOf(next.tlcs))
<1> DEFINE n == NextSnapshot(views[c][w], next, Context(c, next))
<1>1. views[c][w] \in Snapshots
  BY DEF Typed
<1>2. n \in Snapshots
  BY <1>1, ContextIs, NextType
<1>3. n.tlcs = next.tlcs
  BY NextSnapshotIs
<1>4. views' = [views EXCEPT ![c][w] = n]
  BY DEF Claims, Claim
<1> HIDE DEF n
<1>5. /\ views'[c][w] = n
      /\ \A v \in Views \ {w} : views'[c][v] = views[c][v]
      /\ \A d \in Channels \ {c} : views'[d] = views[d]
      /\ views' \in [Channels -> [Views -> Snapshots]]
  BY <1>2, <1>4 DEF Typed
<1>6. JudgeCommitment(views[c], w, next, Context(c, next)) /\ FileChannel(c, HashesOf(next.tlcs))
  BY DEF Claims, Acceptable, Claim
<1>7. HashesOf(next.tlcs) \in SUBSET Hashes
  BY HashesAreKnown DEF Stated
<1> QED BY <1>2, <1>3, <1>5, <1>6, <1>7 DEF n

LEMMA StepTyped ==
    ASSUME Typed, [Next]_vars
    PROVE  Typed'
<1>1. CASE UNCHANGED vars
  BY <1>1 DEF Typed, vars
<1>2. ASSUME NEW h \in Hashes, NEW max \in Nat, RecordDebitIntent(h, max) PROVE Typed'
  <2>1. [max |-> max, open |-> TRUE, channels |-> ListedChannels(intents[h])] \in DebitIntents
    BY DEF Typed, ListedChannels, DebitIntents
  <2>2. intents' \in [Hashes -> DebitIntents \cup {NoRecord}]
    BY <1>2, <2>1 DEF RecordDebitIntent, Typed
  <2>3. Max({approved[h], max}) \in Nat
    BY MaxOfTwo DEF Typed
  <2>4. approved' \in [Hashes -> Nat]
    BY <1>2, <2>3 DEF RecordDebitIntent, Typed
  <2> QED BY <1>2, <2>2, <2>4 DEF RecordDebitIntent, Typed
<1>3. ASSUME NEW h \in Hashes, CloseDebitIntent(h) PROVE Typed'
  <2>1. intents[h] \in DebitIntents
    BY <1>3 DEF CloseDebitIntent, Typed
  <2>2. [intents[h] EXCEPT !.open = FALSE] \in DebitIntents
    BY <2>1 DEF DebitIntents
  <2>3. intents' = [intents EXCEPT ![h] = [intents[h] EXCEPT !.open = FALSE]]
    BY <1>3 DEF CloseDebitIntent
  <2>4. intents' \in [Hashes -> DebitIntents \cup {NoRecord}]
    BY <2>2, <2>3 DEF Typed
  <2> QED BY <1>3, <2>4 DEF CloseDebitIntent, Typed
<1>4. ASSUME NEW h \in Hashes, NEW amount \in Nat \ {0}, RecordHoldInvoice(h, amount) PROVE Typed'
  <2>1. [amount |-> amount, released |-> FALSE, channels |-> {}] \in HoldInvoices
    BY DEF HoldInvoices
  <2>2. invoices' \in [Hashes -> HoldInvoices \cup {NoRecord}]
    BY <1>4, <2>1 DEF RecordHoldInvoice, Typed
  <2> QED BY <1>4, <2>2 DEF RecordHoldInvoice, Typed
<1>5. ASSUME NEW h \in Hashes, MarkHoldInvoiceReleased(h) PROVE Typed'
  <2>1. invoices[h] \in HoldInvoices
    BY <1>5 DEF MarkHoldInvoiceReleased, Typed
  <2>2. [invoices[h] EXCEPT !.released = TRUE] \in HoldInvoices
    BY <2>1 DEF HoldInvoices
  <2>3. invoices' = [invoices EXCEPT ![h] = [invoices[h] EXCEPT !.released = TRUE]]
    BY <1>5 DEF MarkHoldInvoiceReleased
  <2>4. invoices' \in [Hashes -> HoldInvoices \cup {NoRecord}]
    BY <2>2, <2>3 DEF Typed
  <2> QED BY <1>5, <2>4 DEF MarkHoldInvoiceReleased, Typed
<1>6. ASSUME NEW c \in Channels, NEW w \in Views, NEW next, Stated(next), Claims(c, w, next) PROVE Typed'
  <2>1. views' \in [Channels -> [Views -> Snapshots]]
    BY <1>6, ClaimIs
  <2>2. intents' \in [Hashes -> DebitIntents \cup {NoRecord}] /\ invoices' \in [Hashes -> HoldInvoices \cup {NoRecord}]
    <3>1. HashesOf(next.tlcs) \in SUBSET Hashes /\ FileChannel(c, HashesOf(next.tlcs))
      BY <1>6, ClaimIs
    <3>2. CASE Hashes = {}
      <4>1. intents' = [h \in Hashes |-> intents'[h]] /\ invoices' = [h \in Hashes |-> invoices'[h]]
        BY <3>1 DEF FileChannel, WithChannel
      <4> QED BY <3>2, <4>1
    <3>3. CASE Hashes # {}
      BY <3>1, <3>3, Filed
    <3> QED BY <3>2, <3>3
  <2>3. opened' \in [Channels -> BOOLEAN]
    BY <1>6 DEF Claims, Claim, Typed
  <2> QED BY <1>6, <2>1, <2>2, <2>3 DEF Claims, Typed
<1>7. ASSUME NEW c \in Channels, NEW H \in SUBSET Hashes, FileChannel(c, H),
             UNCHANGED <<views, opened, now, approved, payout, bound>>
      PROVE  Typed'
  <2>1. intents' \in [Hashes -> DebitIntents \cup {NoRecord}] /\ invoices' \in [Hashes -> HoldInvoices \cup {NoRecord}]
    <3>2. CASE Hashes = {}
      <4>1. intents' = [h \in Hashes |-> intents'[h]] /\ invoices' = [h \in Hashes |-> invoices'[h]]
        BY <1>7 DEF FileChannel, WithChannel
      <4> QED BY <3>2, <4>1
    <3>3. CASE Hashes # {}
      BY <1>7, <3>3, Filed
    <3> QED BY <3>2, <3>3
  <2> QED BY <1>7, <2>1 DEF Typed
<1>8. ASSUME NEW c \in Channels, NEW capacity \in Nat, SignClose(c, capacity) PROVE Typed'
  BY <1>8 DEF SignClose, Typed
<1>9. CASE Tick
  BY <1>9 DEF Tick, Typed
<1> QED BY <1>1, <1>2, <1>3, <1>4, <1>5, <1>6, <1>7, <1>8, <1>9, NextCases

LEMMA StepViews ==
    ASSUME Typed, [Next]_vars
    PROVE  \/ views' = views
           \/ \E c \in Channels, w \in Views : \E next : Stated(next) /\ Claims(c, w, next)
<1>1. CASE UNCHANGED vars
  BY <1>1 DEF vars
<1>2. CASE Next
  BY <1>2, NextCases DEF RecordDebitIntent, CloseDebitIntent, RecordHoldInvoice, MarkHoldInvoiceReleased, SignClose, Tick
<1> QED BY <1>1, <1>2

(* Intents list no fewer channels, and stay within what was approved. *)
LEMMA StepIntents ==
    ASSUME Typed, BudgetIsApproved, [Next]_vars, NEW h \in Hashes
    PROVE  /\ ListedChannels(intents[h]) \subseteq ListedChannels(intents'[h])
           /\ approved[h] <= approved'[h]
           /\ intents'[h] # NoRecord => intents'[h].max <= approved'[h]
<1>0. approved[h] \in Nat /\ approved'[h] \in Nat
  BY StepTyped DEF Typed
<1> USE <1>0
<1>1. ASSUME intents' = intents, approved' = approved
      PROVE  /\ ListedChannels(intents[h]) \subseteq ListedChannels(intents'[h])
             /\ approved[h] <= approved'[h]
             /\ intents'[h] # NoRecord => intents'[h].max <= approved'[h]
  BY <1>1 DEF BudgetIsApproved
<1>2. ASSUME NEW g \in Hashes, NEW max \in Nat, RecordDebitIntent(g, max)
      PROVE  /\ ListedChannels(intents[h]) \subseteq ListedChannels(intents'[h])
             /\ approved[h] <= approved'[h]
             /\ intents'[h] # NoRecord => intents'[h].max <= approved'[h]
  <2>1. CASE g # h
    <3>1. intents'[h] = intents[h] /\ approved'[h] = approved[h]
      BY <1>2, <2>1 DEF RecordDebitIntent, Typed
    <3> QED BY <3>1 DEF BudgetIsApproved
  <2>2. CASE g = h
    <3>1. intents'[h] = [max |-> max, open |-> TRUE, channels |-> ListedChannels(intents[h])]
      BY <1>2, <2>2 DEF RecordDebitIntent, Typed
    <3>2. approved'[h] = Max({approved[h], max})
      BY <1>2, <2>2 DEF RecordDebitIntent, Typed
    <3>3. approved'[h] >= approved[h] /\ approved'[h] >= max
      BY <3>2, MaxOfTwo
    <3>4. ListedChannels(intents[h]) \subseteq ListedChannels(intents'[h])
      <4>1. intents'[h] \in DebitIntents
        BY <3>1 DEF Typed, ListedChannels, DebitIntents
      <4>2. intents'[h] # NoRecord
        BY <4>1, FundsAssumption DEF FundsAssumption
      <4>3. intents'[h].channels = ListedChannels(intents[h])
        BY <3>1
      <4> QED BY <4>2, <4>3 DEF ListedChannels
    <3>5. intents'[h].max = max
      BY <3>1
    <3> QED BY <3>3, <3>4, <3>5
  <2> QED BY <2>1, <2>2
<1>3. ASSUME NEW g \in Hashes, CloseDebitIntent(g)
      PROVE  /\ ListedChannels(intents[h]) \subseteq ListedChannels(intents'[h])
             /\ approved[h] <= approved'[h]
             /\ intents'[h] # NoRecord => intents'[h].max <= approved'[h]
  <2>1. CASE g # h
    <3>1. intents'[h] = intents[h] /\ approved'[h] = approved[h]
      BY <1>3, <2>1 DEF CloseDebitIntent, Typed
    <3> QED BY <3>1 DEF BudgetIsApproved
  <2>2. CASE g = h
    <3>1. intents[h] # NoRecord /\ intents[h] \in DebitIntents /\ approved' = approved
      BY <1>3, <2>2 DEF CloseDebitIntent, Typed
    <3>2. intents'[h] = [intents[h] EXCEPT !.open = FALSE]
      BY <1>3, <2>2 DEF CloseDebitIntent, Typed
    <3> DEFINE r == intents[h]
               k == intents'[h]
    <3> HIDE DEF r, k
    <3>3. k = [r EXCEPT !.open = FALSE] /\ r \in DebitIntents
      BY <3>1, <3>2 DEF r, k
    <3>4. k.max = r.max /\ k.channels = r.channels /\ k \in DebitIntents
      BY <3>3 DEF DebitIntents
    <3>5. k # NoRecord
      BY <3>4, FundsAssumption DEF FundsAssumption
    <3> QED BY <3>1, <3>4, <3>5 DEF r, k, ListedChannels, BudgetIsApproved
  <2> QED BY <2>1, <2>2
<1>4. ASSUME NEW c \in Channels, NEW H \in SUBSET Hashes, FileChannel(c, H), approved' = approved
      PROVE  /\ ListedChannels(intents[h]) \subseteq ListedChannels(intents'[h])
             /\ approved[h] <= approved'[h]
             /\ intents'[h] # NoRecord => intents'[h].max <= approved'[h]
  BY <1>4, Filed DEF ListedChannels, BudgetIsApproved
<1>5. ASSUME NEW c \in Channels, NEW w \in Views, NEW next, Stated(next), Claims(c, w, next)
      PROVE  HashesOf(next.tlcs) \in SUBSET Hashes /\ FileChannel(c, HashesOf(next.tlcs)) /\ approved' = approved
  BY <1>5, ClaimIs DEF Claims
<1>6. CASE UNCHANGED vars
  BY <1>1, <1>6 DEF vars
<1>7. CASE Next
  BY <1>1, <1>2, <1>3, <1>4, <1>5, <1>7, NextCases
     DEF RecordHoldInvoice, MarkHoldInvoiceReleased, SignClose, Tick
<1> QED BY <1>6, <1>7

(* An invoice is recorded, released, or only lists more channels. *)
LEMMA StepInvoices ==
    ASSUME Typed, [Next]_vars, NEW h \in Hashes
    PROVE  \/ /\ invoices[h] = NoRecord /\ invoices'[h] # NoRecord
              /\ ~invoices'[h].released /\ views' = views /\ Unheard(h)
           \/ /\ invoices[h] # NoRecord /\ invoices'[h] # NoRecord /\ views' = views
              /\ invoices'[h].amount = invoices[h].amount /\ invoices'[h].channels = invoices[h].channels
              /\ JudgeRelease(h, invoices[h].amount, [c \in invoices[h].channels |-> views[c]], now + Margin)
           \/ /\ invoices'[h] = NoRecord <=> invoices[h] = NoRecord
              /\ invoices[h] # NoRecord =>
                     /\ invoices'[h].amount = invoices[h].amount /\ invoices'[h].released = invoices[h].released
                     /\ invoices[h].channels \subseteq invoices'[h].channels
<1> DEFINE Recorded == /\ invoices[h] = NoRecord /\ invoices'[h] # NoRecord
                       /\ ~invoices'[h].released /\ views' = views /\ Unheard(h)
           Marked == /\ invoices[h] # NoRecord /\ invoices'[h] # NoRecord /\ views' = views
                     /\ invoices'[h].amount = invoices[h].amount /\ invoices'[h].channels = invoices[h].channels
                     /\ JudgeRelease(h, invoices[h].amount, [c \in invoices[h].channels |-> views[c]], now + Margin)
           Kept == /\ invoices'[h] = NoRecord <=> invoices[h] = NoRecord
                   /\ invoices[h] # NoRecord =>
                          /\ invoices'[h].amount = invoices[h].amount /\ invoices'[h].released = invoices[h].released
                          /\ invoices[h].channels \subseteq invoices'[h].channels
<1>1. ASSUME invoices'[h] = invoices[h] PROVE Kept
  BY <1>1
<1>2. ASSUME NEW g \in Hashes, NEW amount \in Nat \ {0}, RecordHoldInvoice(g, amount) PROVE Recorded \/ Kept
  <2>1. CASE g # h
    BY <1>1, <1>2, <2>1 DEF RecordHoldInvoice, Typed
  <2>2. CASE g = h
    <3>1. invoices'[h] = [amount |-> amount, released |-> FALSE, channels |-> {}]
      BY <1>2, <2>2 DEF RecordHoldInvoice, Typed
    <3>2. invoices'[h] \in HoldInvoices /\ ~invoices'[h].released
      BY <3>1 DEF HoldInvoices
    <3>3. invoices'[h] # NoRecord
      BY <3>2, FundsAssumption DEF FundsAssumption
    <3> QED BY <1>2, <2>2, <3>2, <3>3 DEF RecordHoldInvoice
  <2> QED BY <2>1, <2>2
<1>3. ASSUME NEW g \in Hashes, MarkHoldInvoiceReleased(g) PROVE Marked \/ Kept
  <2>1. CASE g # h
    BY <1>1, <1>3, <2>1 DEF MarkHoldInvoiceReleased, Typed
  <2>2. CASE g = h
    <3>1. invoices[h] # NoRecord /\ invoices[h] \in HoldInvoices /\ views' = views
      BY <1>3, <2>2 DEF MarkHoldInvoiceReleased, Typed
    <3>2. invoices'[h] = [invoices[h] EXCEPT !.released = TRUE]
      BY <1>3, <2>2 DEF MarkHoldInvoiceReleased, Typed
    <3>3. JudgeRelease(h, invoices[h].amount, [c \in invoices[h].channels |-> views[c]], now + Margin)
      BY <1>3, <2>2 DEF MarkHoldInvoiceReleased
    <3> DEFINE r == invoices[h]
               k == invoices'[h]
    <3> HIDE DEF r, k
    <3>4. k = [r EXCEPT !.released = TRUE] /\ r \in HoldInvoices
      BY <3>1, <3>2 DEF r, k
    <3>5. k.amount = r.amount /\ k.channels = r.channels /\ k \in HoldInvoices
      BY <3>4 DEF HoldInvoices
    <3>6. k # NoRecord
      BY <3>5, FundsAssumption DEF FundsAssumption
    <3> QED BY <3>1, <3>3, <3>5, <3>6 DEF r, k
  <2> QED BY <2>1, <2>2
<1>4. ASSUME NEW c \in Channels, NEW H \in SUBSET Hashes, FileChannel(c, H) PROVE Kept
  BY <1>4, Filed
<1>5. ASSUME NEW c \in Channels, NEW w \in Views, NEW next, Stated(next), Claims(c, w, next) PROVE Kept
  <2>1. HashesOf(next.tlcs) \in SUBSET Hashes /\ FileChannel(c, HashesOf(next.tlcs))
    BY <1>5, ClaimIs
  <2> HIDE DEF Kept
  <2> QED BY <1>4, <2>1
<1>6. CASE UNCHANGED vars
  BY <1>1, <1>6 DEF vars
<1>7. CASE Next
  <2> HIDE DEF Recorded, Marked, Kept
  <2>1. Recorded \/ Marked \/ Kept
    BY <1>1, <1>2, <1>3, <1>4, <1>5, <1>7, NextCases DEF RecordDebitIntent, CloseDebitIntent, SignClose, Tick
  <2> QED BY <2>1 DEF Recorded, Marked, Kept
<1> QED BY <1>6, <1>7

LEMMA StepFalls ==
    ASSUME Typed, FallsAreCharged, [Next]_vars
    PROVE  FallsAreCharged'
<1>1. CASE views' = views
  BY <1>1 DEF FallsAreCharged
<1>2. ASSUME NEW c \in Channels, NEW w \in Views, NEW next, Stated(next), Claims(c, w, next)
      PROVE  FallsAreCharged'
  <2>1. HasDue(views[c][w]) /\ views[c][w] \in Snapshots
    BY DEF FallsAreCharged, HasDue, Typed
  <2>2. FallAccounted(views[c][w], next, Context(c, next))
    BY <1>2, ClaimIs DEF JudgeCommitment
  <2>3. HasDue(NextSnapshot(views[c][w], next, Context(c, next)))
    BY <1>2, <2>1, <2>2, ContextIs, NextHasDue
  <2>4. HasDue(views'[c][w])
    BY <1>2, <2>3, ClaimIs
  <2>5. ASSUME NEW d \in Channels, NEW v \in Views PROVE HasDue(views'[d][v])
    <3>1. CASE d = c /\ v = w
      BY <2>4, <3>1
    <3>2. CASE ~(d = c /\ v = w)
      <4>1. views'[d][v] = views[d][v]
        BY <1>2, <3>2, ClaimIs
      <4> QED BY <4>1 DEF FallsAreCharged, HasDue
    <3> QED BY <3>1, <3>2
  <2> QED BY <2>5 DEF FallsAreCharged, HasDue
<1> QED BY <1>1, <1>2, StepViews

(* What a claimed commitment draws more is under an open intent and, with  *)
(* the other channels, within its budget.                                  *)
LEMMA ClaimDraws ==
    ASSUME Typed, NEW c \in Channels, NEW w \in Views, NEW next, Stated(next), Claims(c, w, next),
           NEW h \in Hashes
    PROVE  \/ DrawnByChannel(views'[c], h) <= DrawnByChannel(views[c], h)
           \/ /\ h \in HashesOf(next.tlcs)
              /\ intents[h] # NoRecord /\ intents[h].open
              /\ DrawnByChannel(views'[c], h)
                     + SumFunction([d \in DOMAIN Context(c, next).others |-> DrawnByChannel(Context(c, next).others[d], h)])
                     <= intents[h].max
<1> DEFINE old == views[c]
           new == views'[c]
           here == Drawn(new[w], h)
           ctx == Context(c, next)
           there == SumFunction([d \in DOMAIN ctx.others |-> DrawnByChannel(ctx.others[d], h)])
<1>1. old \in [Views -> Snapshots] /\ new \in [Views -> Snapshots]
  BY ClaimIs DEF Typed
<1>2. new[w] = NextSnapshot(old[w], next, ctx) /\ \A v \in Views \ {w} : new[v] = old[v]
  BY ClaimIs
<1>3. JudgeCommitment(old, w, next, ctx) /\ ctx.intents = intents /\ ContextOK(ctx)
  BY ClaimIs, ContextIs
<1> HIDE DEF old, new, ctx
<1>4. /\ DrawnByChannel(old, h) \in Nat /\ DrawnByChannel(new, h) \in Nat
      /\ \A v \in Views : Drawn(old[v], h) <= DrawnByChannel(old, h)
      /\ \E v \in Views : Drawn(new[v], h) = DrawnByChannel(new, h)
      /\ \A v \in Views : Drawn(old[v], h) \in Nat
  <2>1. \A v \in Views : old[v] \in Snapshots
    BY <1>1
  <2> QED BY <1>1, <2>1, DrawnByChannelIs, DrawnNat
<1>5. PICK v \in Views : Drawn(new[v], h) = DrawnByChannel(new, h)
  BY <1>4
<1>6. CASE v # w
  <2>1. new[v] = old[v] /\ Drawn(old[v], h) <= DrawnByChannel(old, h)
    BY <1>2, <1>4, <1>6
  <2>2. DrawnByChannel(new, h) <= DrawnByChannel(old, h)
    BY <1>5, <2>1
  <2> QED BY <2>2 DEF old, new
<1>7. CASE v = w /\ h \notin {t.hash : t \in DOMAIN next.tlcs \cap Offered}
  <2>1. old[w] \in Snapshots
    BY <1>1
  <2>2. here <= Drawn(old[w], h)
    BY <1>2, <1>3, <1>7, <2>1, NextDraws
  <2>3. here = DrawnByChannel(new, h)
    BY <1>5, <1>7
  <2> HIDE DEF here
  <2> QED BY <1>4, <2>2, <2>3 DEF old, new
<1>8. CASE v = w /\ h \in {t.hash : t \in DOMAIN next.tlcs \cap Offered}
  <2>1. here = DrawnByChannel(new, h)
    BY <1>5, <1>8
  <2>2. h \in HashesOf(next.tlcs)
    BY <1>8 DEF HashesOf, BagToSet
  <2>3. here > DrawnByChannel(old, h) =>
            intents[h] # NoRecord /\ intents[h].open /\ here + there <= intents[h].max
    BY <1>2, <1>3, <1>8 DEF JudgeCommitment, WithinBudget
  <2> HIDE DEF here, there
  <2>4. CASE here > DrawnByChannel(old, h)
    BY <2>1, <2>2, <2>3, <2>4 DEF old, new, ctx, there
  <2>5. CASE ~(here > DrawnByChannel(old, h))
    BY <1>4, <2>1, <2>5 DEF old, new
  <2> QED BY <2>4, <2>5
<1> QED BY <1>6, <1>7, <1>8 DEF old, new

LEMMA StepDrawn ==
    ASSUME Typed, DrawnIsListed, BudgetIsApproved, [Next]_vars
    PROVE  DrawnIsListed'
<1>1. SUFFICES ASSUME NEW d \in Channels, NEW h \in Hashes, DrawnByChannel(views'[d], h) > 0
               PROVE  d \in ListedChannels(intents'[h])
  BY DEF DrawnIsListed
<1>2. ListedChannels(intents[h]) \subseteq ListedChannels(intents'[h])
  BY StepIntents
<1>3. CASE views'[d] = views[d]
  BY <1>1, <1>2, <1>3 DEF DrawnIsListed
<1>4. ASSUME NEW c \in Channels, NEW w \in Views, NEW next, Stated(next), Claims(c, w, next)
      PROVE  d \in ListedChannels(intents'[h])
  <2>1. CASE d # c
    BY <1>3, <1>4, <2>1, ClaimIs
  <2>2. CASE d = c /\ DrawnByChannel(views'[c], h) <= DrawnByChannel(views[c], h)
    <3>1. views[c] \in [Views -> Snapshots] /\ views'[c] \in [Views -> Snapshots]
      BY <1>4, ClaimIs DEF Typed
    <3> DEFINE old == views[c]
               new == views'[c]
    <3> HIDE DEF old, new
    <3>2. DrawnByChannel(old, h) \in Nat /\ DrawnByChannel(new, h) \in Nat
      BY <3>1, DrawnByChannelIs DEF old, new
    <3>3. DrawnByChannel(old, h) > 0
      BY <1>1, <2>2, <3>2 DEF old, new
    <3> QED BY <1>2, <2>2, <3>3 DEF old, DrawnIsListed
  <2>3. CASE d = c /\ h \in HashesOf(next.tlcs) /\ intents[h] # NoRecord
    <3>1. HashesOf(next.tlcs) \in SUBSET Hashes /\ FileChannel(c, HashesOf(next.tlcs))
      BY <1>4, ClaimIs
    <3> QED BY <2>3, <3>1, Filed DEF ListedChannels
  <2> QED BY <1>4, <2>1, <2>2, <2>3, ClaimDraws
<1> QED BY <1>3, <1>4, StepViews

LEMMA DrawnFunction ==
    ASSUME NEW vs \in [Channels -> [Views -> Snapshots]], NEW h \in Hashes
    PROVE  /\ [c \in Channels |-> DrawnByChannel(vs[c], h)] \in [Channels -> Nat]
           /\ IsFiniteSet(Channels)
  BY DrawnByChannelIs, FundsAssumption DEF FundsAssumption

LEMMA StepBudget ==
    ASSUME Typed, DrawnIsListed, BudgetIsApproved, BudgetHolds, [Next]_vars
    PROVE  BudgetHolds'
<1>1. SUFFICES ASSUME NEW h \in Hashes
               PROVE  SumFunction([d \in Channels |-> DrawnByChannel(views'[d], h)]) <= approved'[h]
  BY DEF BudgetHolds, DrawnAnywhere
<1>2. approved[h] \in Nat /\ approved'[h] \in Nat /\ approved[h] <= approved'[h]
  BY StepTyped, StepIntents DEF Typed
<1> DEFINE f == [d \in Channels |-> DrawnByChannel(views[d], h)]
           g == [d \in Channels |-> DrawnByChannel(views'[d], h)]
<1>3. f \in [Channels -> Nat] /\ g \in [Channels -> Nat] /\ IsFiniteSet(Channels)
  <2>1. views \in [Channels -> [Views -> Snapshots]] /\ views' \in [Channels -> [Views -> Snapshots]]
    BY StepTyped DEF Typed
  <2> QED BY <2>1, DrawnFunction
<1>4. SumFunction(f) <= approved[h] /\ SumFunction(f) \in Nat /\ SumFunction(g) \in Nat
  <2>1. SumFunction(f) <= approved[h]
    BY DEF BudgetHolds, DrawnAnywhere
  <2> HIDE DEF f, g
  <2> QED BY <1>3, <2>1, SumNat
<1>5. ASSUME \A d \in Channels : g[d] <= f[d] PROVE SumFunction(g) <= approved'[h]
  <2> HIDE DEF f, g
  <2>1. SumFunction(g) <= SumFunction(f)
    BY <1>3, <1>5, SumMonotone
  <2> QED BY <1>2, <1>4, <2>1
<1>6. CASE views' = views
  <2>1. \A d \in Channels : g[d] <= f[d]
    BY <1>3, <1>6
  <2> QED BY <1>5, <2>1
<1>7. ASSUME NEW c \in Channels, NEW w \in Views, NEW next, Stated(next), Claims(c, w, next)
      PROVE  SumFunction(g) <= approved'[h]
  <2>1. \A d \in Channels \ {c} : g[d] = f[d]
    BY <1>7, ClaimIs
  <2>2. CASE DrawnByChannel(views'[c], h) <= DrawnByChannel(views[c], h)
    <3>1. g[c] <= f[c]
      BY <2>2
    <3> HIDE DEF f, g
    <3>2. \A d \in Channels : g[d] <= f[d]
      BY <1>3, <2>1, <3>1
    <3> QED BY <1>5, <3>2
  <2>3. CASE /\ h \in HashesOf(next.tlcs) /\ intents[h] # NoRecord
             /\ DrawnByChannel(views'[c], h)
                    + SumFunction([d \in DOMAIN Context(c, next).others |-> DrawnByChannel(Context(c, next).others[d], h)])
                    <= intents[h].max
    <3> DEFINE ctx == Context(c, next)
               D == DOMAIN ctx.others
               k == [d \in Channels \ {c} |-> f[d]]
    <3>1. D \subseteq Channels \ {c} /\ \A d \in D : ctx.others[d] = views[d]
      BY <1>7, ContextIs
    <3>2. ListedChannels(intents[h]) \ {c} \subseteq D
      BY <1>7, <2>3, ContextIs
    <3> HIDE DEF ctx, D
    <3>3. \A d \in (Channels \ {c}) \ D : f[d] = 0
      <4>1. \A d \in (Channels \ {c}) \ D : ~(DrawnByChannel(views[d], h) > 0)
        BY <3>2 DEF DrawnIsListed
      <4>2. \A d \in Channels : f[d] \in Nat /\ f[d] = DrawnByChannel(views[d], h)
        BY <1>3
      <4> HIDE DEF f
      <4> QED BY <4>1, <4>2
    <3>4. [d \in D |-> DrawnByChannel(ctx.others[d], h)] = [d \in D |-> f[d]]
      BY <3>1
    <3>5. g[c] = DrawnByChannel(views'[c], h)
      OBVIOUS
    <3>6. g[c] + SumFunction([d \in D |-> f[d]]) <= intents[h].max
      BY <2>3, <3>4, <3>5 DEF ctx, D
    <3>7. intents[h].max <= approved[h] /\ intents[h].max \in Nat
      BY <2>3 DEF BudgetIsApproved, Typed, DebitIntents
    <3> HIDE DEF f, g
    <3>8. [d \in Channels \ {c} |-> g[d]] = k
      BY <2>1
    <3>9. k \in [Channels \ {c} -> Nat] /\ IsFiniteSet(Channels \ {c})
      BY <1>3, FS_Subset
    <3>10. [d \in D |-> k[d]] = [d \in D |-> f[d]] /\ \A d \in (Channels \ {c}) \ D : k[d] = 0
      BY <3>1, <3>3
    <3> HIDE DEF k
    <3>11. SumFunction(k) = SumFunction([d \in D |-> f[d]]) /\ SumFunction(k) \in Nat
      BY <3>1, <3>9, <3>10, SumWithin, SumNat
    <3>12. SumFunction(g) = g[c] + SumFunction(k)
      BY <1>3, <3>8, SumPeel
    <3>13. g[c] \in Nat
      BY <1>3
    <3> QED BY <1>2, <3>6, <3>7, <3>11, <3>12, <3>13
  <2> QED BY <1>7, <2>2, <2>3, ClaimDraws
<1> QED BY <1>6, <1>7, StepViews

LEMMA StepHeld ==
    ASSUME Typed, HeldIsListed, [Next]_vars
    PROVE  HeldIsListed'
<1>1. SUFFICES ASSUME NEW d \in Channels, NEW v \in Views, NEW h \in Hashes,
                      invoices'[h] # NoRecord, h \in HashesOf(views'[d][v].tlcs)
               PROVE  d \in invoices'[h].channels
  BY DEF HeldIsListed
<1>2. CASE views'[d][v] = views[d][v]
  <2>1. ~(views' = views /\ Unheard(h))
    <3>1. SUFFICES ASSUME views' = views, Unheard(h) PROVE FALSE
      OBVIOUS
    <3>2. h \in HashesOf(views[d][v].tlcs)
      BY <1>1, <1>2
    <3> QED BY <3>1, <3>2 DEF Unheard
  <2>2. invoices[h] # NoRecord /\ invoices[h].channels \subseteq invoices'[h].channels
    BY <1>1, <2>1, StepInvoices
  <2>3. h \in HashesOf(views[d][v].tlcs)
    BY <1>1, <1>2
  <2> QED BY <2>2, <2>3 DEF HeldIsListed
<1>3. ASSUME NEW c \in Channels, NEW w \in Views, NEW next, Stated(next), Claims(c, w, next)
      PROVE  d \in invoices'[h].channels
  <2>1. CASE d = c /\ v = w
    <3>1. HashesOf(next.tlcs) \in SUBSET Hashes /\ FileChannel(c, HashesOf(next.tlcs)) /\ views'[d][v].tlcs = next.tlcs
      BY <1>3, <2>1, ClaimIs
    <3>2. h \in HashesOf(next.tlcs)
      BY <1>1, <3>1
    <3> QED BY <1>1, <2>1, <3>1, <3>2, Filed
  <2>2. CASE ~(d = c /\ v = w)
    <3>1. views'[d][v] = views[d][v]
      BY <1>3, <2>2, ClaimIs
    <3> QED BY <1>2, <3>1
  <2> QED BY <2>1, <2>2
<1> QED BY <1>2, <1>3, StepViews

(* NeverMixed, TLC by TLC. *)
KeptApart(vs, inv) ==
    \A c \in Channels, h \in Hashes, v \in Views, w \in Views :
        (inv[h] # NoRecord /\ inv[h].released) =>
            ~(DOMAIN vs[c][v].tlcs \cap Offered # {} /\ DOMAIN vs[c][w].tlcs \cap HeldUnder(h) # {})

LEMMA NeverMixedIs ==
    ASSUME NEW vs, NEW inv
    PROVE  (\A c \in Channels : ~Mixes(UNION {BagToSet(vs[c][w].tlcs) : w \in Views}, [invoices |-> inv]))
              <=> KeptApart(vs, inv)
  BY DEF Mixes, ReleasedHeld, BagToSet, KeptApart

LEMMA StepMixed ==
    ASSUME Typed, HeldIsListed, NeverMixed, [Next]_vars
    PROVE  NeverMixed'
<1>1. KeptApart(views, invoices)
  BY NeverMixedIs DEF NeverMixed
<1>2. SUFFICES KeptApart(views', invoices')
  BY NeverMixedIs DEF NeverMixed
<1>3. SUFFICES ASSUME NEW d \in Channels, NEW h \in Hashes, NEW u \in Views, NEW v \in Views,
                      invoices'[h] # NoRecord, invoices'[h].released,
                      NEW t \in DOMAIN views'[d][u].tlcs \cap Offered,
                      NEW x \in DOMAIN views'[d][v].tlcs \cap HeldUnder(h)
               PROVE  FALSE
  BY DEF KeptApart
<1>4. CASE /\ invoices[h] # NoRecord /\ views' = views
           /\ JudgeRelease(h, invoices[h].amount, [c \in invoices[h].channels |-> views[c]], now + Margin)
  <2>1. x.hash = h /\ x \in DOMAIN views[d][v].tlcs /\ x \in ListedUnder(h)
    BY <1>3, <1>4 DEF HeldUnder, ListedUnder, Under
  <2>2. d \in invoices[h].channels
    BY <1>4, <2>1 DEF HeldIsListed, HashesOf, BagToSet
  <2> DEFINE channels == [c \in invoices[h].channels |-> views[c]]
             shown == UNION {DOMAIN channels[d][w].tlcs : w \in Views}
  <2>3. channels[d] = views[d] /\ d \in DOMAIN channels
    BY <2>2
  <2>4. shown \cap ListedUnder(h) # {} => shown \cap Offered = {}
    BY <1>4, <2>3 DEF JudgeRelease
  <2>5. x \in shown /\ t \in shown
    BY <1>3, <1>4, <2>1, <2>3
  <2> HIDE DEF shown
  <2> QED BY <2>1, <2>4, <2>5
<1>5. CASE Released(h)
  <2>1. CASE views'[d] = views[d]
    BY <1>1, <1>3, <1>5, <2>1 DEF KeptApart, Released
  <2>2. ASSUME NEW c \in Channels, NEW w \in Views, NEW next, Stated(next), Claims(c, w, next)
        PROVE  FALSE
    <3>1. CASE d # c
      BY <2>1, <2>2, <3>1, ClaimIs
    <3>2. CASE d = c
      <4> DEFINE ctx == Context(c, next)
                 o == OtherView(w)
                 other == DOMAIN views[c][o].tlcs
      <4>1. o \in Views \ {w} /\ Views = {w, o}
        BY DEF OtherView, Views
      <4>2. ctx.invoices = invoices
        BY <2>2, ContextIs
      <4>3. Mixes(DOMAIN next.tlcs \cup other, ctx) => Mixes(DOMAIN views[c][w].tlcs \cup other, ctx)
        BY <2>2, ClaimIs DEF JudgeCommitment, NoNewMix
      <4>4. views'[c][w].tlcs = next.tlcs /\ views'[c][o].tlcs = views[c][o].tlcs
        BY <2>2, <4>1, ClaimIs
      <4> HIDE DEF ctx, o
      <4>5. ~Mixes(DOMAIN views[c][w].tlcs \cup other, ctx)
        BY <1>1, <4>1, <4>2 DEF Mixes, ReleasedHeld, KeptApart
      <4>6. t \in DOMAIN next.tlcs \cup other /\ x \in DOMAIN next.tlcs \cup other
        BY <1>3, <3>2, <4>1, <4>4
      <4>7. x \in ReleasedHeld(ctx) /\ t \in Offered
        BY <1>3, <1>5, <4>2 DEF ReleasedHeld, Released
      <4> QED BY <4>3, <4>5, <4>6, <4>7 DEF Mixes
    <3> QED BY <3>1, <3>2
  <2> QED BY <2>1, <2>2, StepViews
<1> QED BY <1>3, <1>4, <1>5, StepInvoices DEF Released

(* The invoice's TLCs its preimage opens. *)
Fitting(h) == {t \in HeldUnder(h) : t.fits}

SecuredIn(view, h) == Amount(view.tlcs, Fitting(h)) + view.credited[h]

LEMMA SecuredInNat ==
    ASSUME NEW view \in Snapshots, NEW h \in Hashes
    PROVE  /\ Amount(view.tlcs, Fitting(h)) \in Nat /\ view.credited[h] \in Nat
           /\ SecuredIn(view, h) \in Nat
<1>1. view.tlcs \in Listings /\ view.credited[h] \in Nat
  BY DEF Snapshots
<1>2. Amount(view.tlcs, Fitting(h)) \in Nat
  BY <1>1, AmountNat
<1> QED BY <1>1, <1>2 DEF SecuredIn

LEMMA SecuredIs ==
    ASSUME NEW channel \in [Views -> Snapshots], NEW h \in Hashes
    PROVE  /\ Secured(channel, h) \in Nat
           /\ \A w \in Views : Secured(channel, h) <= SecuredIn(channel[w], h)
           /\ \E w \in Views : Secured(channel, h) = SecuredIn(channel[w], h)
<1> DEFINE a == SecuredIn(channel["remote"], h)
           b == SecuredIn(channel["local"], h)
<1>1. a \in Nat /\ b \in Nat
  BY SecuredInNat DEF Views
<1>2. {Amount(channel[w].tlcs, {t \in HeldUnder(h) : t.fits}) + channel[w].credited[h] : w \in Views} = {a, b}
  BY DEF Views, SecuredIn, Fitting
<1>3. Secured(channel, h) = Min({a, b})
  BY <1>2 DEF Secured
<1> HIDE DEF a, b
<1>4. Min({a, b}) = IF a <= b THEN a ELSE b
  BY <1>1, MinOfTwo
<1>5. Secured(channel, h) \in Nat /\ Secured(channel, h) <= a /\ Secured(channel, h) <= b
  BY <1>1, <1>3, <1>4
<1>6. Secured(channel, h) \in {a, b}
  BY <1>3, <1>4
<1> QED BY <1>5, <1>6 DEF a, b, Views

LEMMA HeldByChannelIs ==
    ASSUME NEW channel \in [Views -> Snapshots], NEW h \in Hashes
    PROVE  /\ HeldByChannel(channel, h) \in Nat
           /\ \A w \in Views : HeldByChannel(channel, h) <= Amount(channel[w].tlcs, ListedUnder(h))
<1> DEFINE a == Amount(channel["remote"].tlcs, ListedUnder(h))
           b == Amount(channel["local"].tlcs, ListedUnder(h))
<1>1. a \in Nat /\ b \in Nat
  BY AmountNat DEF Views, Snapshots
<1>2. {Amount(channel[w].tlcs, ListedUnder(h)) : w \in Views} = {a, b}
  BY DEF Views
<1>3. HeldByChannel(channel, h) = Min({a, b})
  BY <1>2 DEF HeldByChannel
<1> HIDE DEF a, b
<1>4. Min({a, b}) = IF a <= b THEN a ELSE b
  BY <1>1, MinOfTwo
<1>5. HeldByChannel(channel, h) \in Nat /\ HeldByChannel(channel, h) <= a /\ HeldByChannel(channel, h) <= b
  BY <1>1, <1>3, <1>4
<1> QED BY <1>5 DEF a, b, Views

(* A view that signs secures no less than it did, or its invoice is then   *)
(* credited in full.                                                       *)
LEMMA NextSecures ==
    ASSUME NEW view \in Snapshots, NEW next, Stated(next), NEW ctx, ContextOK(ctx), NEW h \in Hashes,
           ctx.invoices[h] # NoRecord, ctx.invoices[h].released
    PROVE  \/ SecuredIn(NextSnapshot(view, next, ctx), h) >= SecuredIn(view, h)
           \/ SecuredIn(NextSnapshot(view, next, ctx), h)
                  + SumFunction([d \in DOMAIN ctx.others |-> CreditedByChannel(ctx.others[d], h)])
                  >= ctx.invoices[h].amount
<1> DEFINE n == NextSnapshot(view, next, ctx)
           left == Left(view, next)
           credit == Credit(view, left, ctx, h)
           there == SumFunction([d \in DOMAIN ctx.others |-> CreditedByChannel(ctx.others[d], h)])
           price == ctx.invoices[h].amount
           a == Amount(view.tlcs, Fitting(h))
           l == Amount(left, Fitting(h))
           m == Amount(left, HeldUnder(h))
           z == Amount(next.tlcs, Fitting(h))
           x == view.credited[h]
<1>1. n.tlcs = next.tlcs /\ n.credited[h] = x + credit
  BY NextSnapshotIs
<1>2. view.tlcs \in Listings /\ next.tlcs \in Listings /\ left \in Listings
  BY FallInt DEF Snapshots, Stated
<1>3. a \in Nat /\ l \in Nat /\ m \in Nat /\ z \in Nat
  BY <1>2, AmountNat
<1>4. x \in Nat /\ price \in Nat
  BY DEF Snapshots, ContextOK
<1>5. a <= l + z
  BY <1>2, AmountLeft DEF Left
<1>6. l <= m
  <2>1. \A t \in DOMAIN left \cap Fitting(h) : t \in DOMAIN left \cap HeldUnder(h) /\ left[t] <= left[t]
    BY <1>2, ListingType DEF Fitting
  <2> HIDE DEF left
  <2> QED BY <1>2, <2>1, AmountMonotone
<1>7. credit \in Nat /\ (credit = m \/ credit + CreditedAcross(view, ctx, h) >= price)
  BY <1>2, CreditIs
<1>8. CreditedAcross(view, ctx, h) = x + there /\ there \in Nat
  <2> DEFINE f == [d \in DOMAIN ctx.others |-> CreditedByChannel(ctx.others[d], h)]
  <2>1. f \in [DOMAIN ctx.others -> Nat] /\ IsFiniteSet(DOMAIN ctx.others)
    BY CreditedByChannelIs DEF ContextOK
  <2>2. SumFunction(f) \in Nat
    BY <2>1, SumNat
  <2> QED BY <2>2 DEF CreditedAcross
<1>9. SecuredIn(n, h) = z + (x + credit) /\ SecuredIn(view, h) = a + x
  BY <1>1 DEF SecuredIn
<1> HIDE DEF n, left, credit, there, price, a, l, m, z, x
<1>10. SecuredIn(n, h) >= SecuredIn(view, h) \/ SecuredIn(n, h) + there >= price
  BY <1>3, <1>4, <1>5, <1>6, <1>7, <1>8, <1>9
<1> QED BY <1>10 DEF n, there, price

LEMMA SecuredFunction ==
    ASSUME NEW vs \in [Channels -> [Views -> Snapshots]], NEW h \in Hashes
    PROVE  /\ [c \in Channels |-> Secured(vs[c], h)] \in [Channels -> Nat]
           /\ IsFiniteSet(Channels)
  BY SecuredIs, FundsAssumption DEF FundsAssumption

(* The release finds the invoice's amount in TLCs its preimage opens. *)
LEMMA ReleaseSecures ==
    ASSUME Typed, NEW h \in Hashes, invoices[h] # NoRecord,
           JudgeRelease(h, invoices[h].amount, [c \in invoices[h].channels |-> views[c]], now + Margin)
    PROVE  SumFunction([c \in Channels |-> Secured(views[c], h)]) >= invoices[h].amount
<1> DEFINE D == invoices[h].channels
           channels == [c \in D |-> views[c]]
           f == [c \in Channels |-> Secured(views[c], h)]
           held == [c \in D |-> HeldByChannel(channels[c], h)]
           part == [c \in D |-> f[c]]
<1>1. D \subseteq Channels /\ invoices[h].amount \in Nat
  BY DEF Typed, HoldInvoices
<1>2. f \in [Channels -> Nat] /\ IsFiniteSet(Channels) /\ IsFiniteSet(D)
  BY <1>1, SecuredFunction, FS_Subset DEF Typed
<1>3. SumFunction(held) >= invoices[h].amount
  BY DEF JudgeRelease
<1>4. \A c \in D : views[c] \in [Views -> Snapshots]
  BY <1>1 DEF Typed
<1>5. ASSUME NEW c \in D PROVE HeldByChannel(views[c], h) <= Secured(views[c], h)
  <2> DEFINE shown == UNION {DOMAIN channels[c][w].tlcs : w \in Views}
  <2>1. shown \cap ListedUnder(h) # {} =>
            shown \cap Offered = {} /\ \A t \in shown \cap ListedUnder(h) : t.fits
    BY DEF JudgeRelease
  <2>2. PICK w \in Views : Secured(views[c], h) = SecuredIn(views[c][w], h)
    BY <1>4, SecuredIs
  <2>3. views[c][w] \in Snapshots /\ views[c][w].tlcs \in Listings
    BY <1>4 DEF Snapshots
  <2>4. DOMAIN views[c][w].tlcs \subseteq shown
    OBVIOUS
  <2>5. DOMAIN views[c][w].tlcs \subseteq Tlcs /\ \A t \in DOMAIN views[c][w].tlcs : views[c][w].tlcs[t] <= views[c][w].tlcs[t]
    BY <2>3, ListingType
  <2>6. \A t \in Tlcs : t \in ListedUnder(h) /\ t \notin Offered => t \in HeldUnder(h)
    BY RuleAssumption DEF RuleAssumption, HeldUnder, Offered, Received
  <2> HIDE DEF shown
  <2>7. \A t \in DOMAIN views[c][w].tlcs \cap ListedUnder(h) :
            t \in DOMAIN views[c][w].tlcs \cap Fitting(h) /\ views[c][w].tlcs[t] <= views[c][w].tlcs[t]
    BY <2>1, <2>4, <2>5, <2>6 DEF Fitting
  <2>8. Amount(views[c][w].tlcs, ListedUnder(h)) <= Amount(views[c][w].tlcs, Fitting(h))
    BY <2>3, <2>7, AmountMonotone
  <2>9. HeldByChannel(views[c], h) <= Amount(views[c][w].tlcs, ListedUnder(h)) /\ HeldByChannel(views[c], h) \in Nat
    BY <1>4, HeldByChannelIs
  <2>10. /\ Amount(views[c][w].tlcs, Fitting(h)) \in Nat /\ views[c][w].credited[h] \in Nat
         /\ SecuredIn(views[c][w], h) = Amount(views[c][w].tlcs, Fitting(h)) + views[c][w].credited[h]
    BY <2>3, SecuredInNat DEF SecuredIn
  <2>11. Amount(views[c][w].tlcs, ListedUnder(h)) \in Nat
    BY <2>3, AmountNat
  <2> QED BY <2>2, <2>8, <2>9, <2>10, <2>11
<1>6. held \in [D -> Nat]
  <2>1. \A c \in D : HeldByChannel(views[c], h) \in Nat
    BY <1>4, HeldByChannelIs
  <2> QED BY <2>1
<1>7. part \in [D -> Nat] /\ \A c \in D : held[c] <= part[c]
  BY <1>1, <1>2, <1>5
<1> HIDE DEF held, part, f, D
<1>8. SumFunction(held) <= SumFunction(part)
  BY <1>2, <1>6, <1>7, SumMonotone
<1>9. SumFunction(part) <= SumFunction(f)
  BY <1>1, <1>2, SumPart DEF part
<1>10. SumFunction(held) \in Nat /\ SumFunction(part) \in Nat /\ SumFunction(f) \in Nat
  BY <1>2, <1>6, <1>7, SumNat
<1> QED BY <1>1, <1>3, <1>8, <1>9, <1>10 DEF f

LEMMA ClaimSecures ==
    ASSUME Typed, NEW c \in Channels, NEW w \in Views, NEW next, Stated(next), Claims(c, w, next),
           NEW h \in Hashes, invoices[h] # NoRecord, invoices[h].released
    PROVE  \/ Secured(views'[c], h) >= Secured(views[c], h)
           \/ Secured(views'[c], h)
                  + SumFunction([d \in DOMAIN Context(c, next).others |-> CreditedByChannel(Context(c, next).others[d], h)])
                  >= invoices[h].amount
<1> DEFINE old == views[c]
           new == views'[c]
           ctx == Context(c, next)
           there == SumFunction([d \in DOMAIN ctx.others |-> CreditedByChannel(ctx.others[d], h)])
<1>1. old \in [Views -> Snapshots] /\ new \in [Views -> Snapshots] /\ old[w] \in Snapshots
  BY ClaimIs DEF Typed
<1>2. new[w] = NextSnapshot(old[w], next, ctx) /\ \A v \in Views \ {w} : new[v] = old[v]
  BY ClaimIs
<1>3. ctx.invoices = invoices /\ ContextOK(ctx)
  BY ContextIs
<1> HIDE DEF old, new, ctx
<1>4. PICK v \in Views : Secured(new, h) = SecuredIn(new[v], h)
  BY <1>1, SecuredIs
<1>5. Secured(old, h) \in Nat /\ Secured(old, h) <= SecuredIn(old[v], h)
  BY <1>1, SecuredIs
<1>6. CASE v # w
  <2>1. new[v] = old[v]
    BY <1>2, <1>6
  <2>2. Secured(new, h) >= Secured(old, h)
    <3>1. SecuredIn(old[v], h) \in Nat
      BY <1>1, SecuredInNat
    <3> QED BY <1>4, <1>5, <2>1, <3>1
  <2> QED BY <2>2 DEF old, new
<1>7. CASE v = w
  <2>1. \/ SecuredIn(new[w], h) >= SecuredIn(old[w], h)
        \/ SecuredIn(new[w], h) + there >= invoices[h].amount
    BY <1>1, <1>2, <1>3, NextSecures
  <2>2. SecuredIn(new[w], h) \in Nat /\ SecuredIn(old[w], h) \in Nat
    <3>1. new[w] \in Snapshots /\ old[w] \in Snapshots
      BY <1>1
    <3> QED BY <3>1, SecuredInNat
  <2> HIDE DEF there
  <2>3. Secured(new, h) >= Secured(old, h) \/ Secured(new, h) + there >= invoices[h].amount
    BY <1>4, <1>5, <1>7, <2>1, <2>2
  <2> QED BY <2>3 DEF old, new, there, ctx
<1> QED BY <1>6, <1>7

LEMMA StepPaid ==
    ASSUME Typed, ReleasedIsPaid, [Next]_vars
    PROVE  ReleasedIsPaid'
<1>1. SUFFICES ASSUME NEW h \in Hashes, invoices'[h] # NoRecord, invoices'[h].released
               PROVE  SumFunction([c \in Channels |-> Secured(views'[c], h)]) >= invoices'[h].amount
  BY DEF ReleasedIsPaid
<1> DEFINE f == [c \in Channels |-> Secured(views[c], h)]
           g == [c \in Channels |-> Secured(views'[c], h)]
           price == invoices[h].amount
<1>2. CASE /\ invoices[h] # NoRecord /\ views' = views
           /\ invoices'[h].amount = price
           /\ JudgeRelease(h, invoices[h].amount, [c \in invoices[h].channels |-> views[c]], now + Margin)
  <2>1. SumFunction(f) >= price
    BY <1>2, ReleaseSecures
  <2>2. g = f
    BY <1>2
  <2> HIDE DEF f, g
  <2>3. SumFunction(g) >= invoices'[h].amount
    BY <1>2, <2>1, <2>2
  <2> QED BY <2>3 DEF g
<1>3. CASE invoices[h] # NoRecord /\ invoices[h].released /\ invoices'[h].amount = price
  <2>1. SumFunction(f) >= price /\ price \in Nat
    BY <1>3 DEF ReleasedIsPaid, Typed, HoldInvoices
  <2>2. f \in [Channels -> Nat] /\ g \in [Channels -> Nat] /\ IsFiniteSet(Channels)
    <3>1. views \in [Channels -> [Views -> Snapshots]] /\ views' \in [Channels -> [Views -> Snapshots]]
      BY StepTyped DEF Typed
    <3> QED BY <3>1, SecuredFunction
  <2>3. ASSUME \A d \in Channels : g[d] >= f[d] PROVE SumFunction(g) >= price
    <3> HIDE DEF f, g
    <3>1. \A d \in Channels : f[d] \in Nat /\ g[d] \in Nat /\ f[d] <= g[d]
      BY <2>2, <2>3
    <3>2. SumFunction(f) <= SumFunction(g)
      BY <2>2, <3>1, SumMonotone
    <3>3. SumFunction(f) \in Nat /\ SumFunction(g) \in Nat
      BY <2>2, SumNat
    <3> QED BY <2>1, <3>2, <3>3
  <2>4. CASE views' = views
    <3>1. \A d \in Channels : g[d] >= f[d]
      BY <2>2, <2>4
    <3> QED BY <1>3, <2>3, <3>1
  <2>5. ASSUME NEW c \in Channels, NEW w \in Views, NEW next, Stated(next), Claims(c, w, next)
        PROVE  SumFunction(g) >= price
    <3>1. \A d \in Channels \ {c} : g[d] = f[d]
      BY <2>5, ClaimIs
    <3>2. CASE Secured(views'[c], h) >= Secured(views[c], h)
      <4>1. g[c] >= f[c]
        BY <3>2
      <4> HIDE DEF f, g
      <4>2. \A d \in Channels : g[d] >= f[d]
        BY <2>2, <3>1, <4>1
      <4> QED BY <2>3, <4>2
    <3>3. CASE Secured(views'[c], h)
                   + SumFunction([d \in DOMAIN Context(c, next).others |-> CreditedByChannel(Context(c, next).others[d], h)])
                   >= price
      <4> DEFINE ctx == Context(c, next)
                 D == DOMAIN ctx.others
                 k == [d \in Channels \ {c} |-> g[d]]
                 part == [d \in D |-> k[d]]
                 least == [d \in D |-> CreditedByChannel(ctx.others[d], h)]
      <4>1. D \subseteq Channels \ {c} /\ \A d \in D : ctx.others[d] = views[d]
        BY <2>5, ContextIs
      <4>2. g[c] + SumFunction(least) >= price
        BY <3>3
      <4>3. ASSUME NEW d \in D PROVE least[d] \in Nat /\ least[d] <= f[d]
        <5>1. d \in Channels /\ ctx.others[d] = views[d] /\ views[d] \in [Views -> Snapshots]
          BY <4>1 DEF Typed
        <5>2. PICK v \in Views : Secured(views[d], h) = SecuredIn(views[d][v], h)
          BY <5>1, SecuredIs
        <5>3. CreditedByChannel(views[d], h) \in Nat /\ CreditedByChannel(views[d], h) <= views[d][v].credited[h]
          BY <5>1, CreditedByChannelIs
        <5>4. /\ Amount(views[d][v].tlcs, Fitting(h)) \in Nat /\ views[d][v].credited[h] \in Nat
              /\ SecuredIn(views[d][v], h) = Amount(views[d][v].tlcs, Fitting(h)) + views[d][v].credited[h]
          BY <5>1, SecuredInNat DEF SecuredIn
        <5>5. CreditedByChannel(views[d], h) <= Secured(views[d], h)
          BY <5>2, <5>3, <5>4
        <5> QED BY <5>1, <5>3, <5>5
      <4> HIDE DEF f, g, D, ctx
      <4>4. k \in [Channels \ {c} -> Nat] /\ IsFiniteSet(Channels \ {c}) /\ IsFiniteSet(D)
        BY <2>2, <4>1, FS_Subset
      <4>5. \A d \in D : k[d] = f[d]
        BY <3>1, <4>1
      <4>6. part \in [D -> Nat] /\ least \in [D -> Nat] /\ \A d \in D : least[d] <= part[d]
        <5>1. \A d \in D : k[d] \in Nat
          BY <4>1, <4>4
        <5>2. DOMAIN least = D /\ least = [d \in D |-> least[d]]
          OBVIOUS
        <5> HIDE DEF k, least
        <5>3. least \in [D -> Nat]
          BY <4>3, <5>2
        <5> QED BY <4>3, <4>5, <5>1, <5>3
      <4> HIDE DEF k, part, least
      <4>7. SumFunction(least) <= SumFunction(part)
        BY <4>4, <4>6, SumMonotone
      <4>8. SumFunction(part) <= SumFunction(k)
        BY <4>1, <4>4, SumPart DEF part
      <4>9. SumFunction(g) = g[c] + SumFunction(k)
        BY <2>2, SumPeel DEF k
      <4>10. SumFunction(least) \in Nat /\ SumFunction(part) \in Nat /\ SumFunction(k) \in Nat /\ g[c] \in Nat
        BY <2>2, <4>4, <4>6, SumNat
      <4> QED BY <2>1, <4>2, <4>7, <4>8, <4>9, <4>10
    <3> QED BY <1>3, <2>5, <3>2, <3>3, ClaimSecures
  <2>6. SumFunction(g) >= price
    BY <2>4, <2>5, <1>3, StepViews
  <2> HIDE DEF g, price
  <2>7. SumFunction(g) >= invoices'[h].amount
    BY <1>3, <2>6
  <2> QED BY <2>7 DEF g
<1> QED BY <1>1, <1>2, <1>3, StepInvoices

-----------------------------------------------------------------------------
(* The invariant holds, and what follows from it. *)

LEMMA OpeningIs ==
    /\ OpeningSnapshot(Funded) \in Snapshots
    /\ HasDue(OpeningSnapshot(Funded))
    /\ \A h \in Hashes : Drawn(OpeningSnapshot(Funded), h) = 0
<1> DEFINE o == OpeningSnapshot(Funded)
           zero == [h \in Hashes |-> 0]
<1>1. Funded \in Nat
  BY FundsAssumption DEF FundsAssumption
<1>2. o = [exposure |-> Funded, tlcs |-> EmptyBag, charged |-> zero, credited |-> zero]
  BY DEF OpeningSnapshot
<1>3. zero \in [Hashes -> Nat] /\ EmptyBag \in Listings
  BY AmountEmpty
<1>4. o \in Snapshots
  BY <1>1, <1>2, <1>3 DEF Snapshots
<1>5. o.exposure = Funded /\ o.tlcs = EmptyBag /\ o.charged = zero /\ o.credited = zero
  BY <1>2
<1>6. \A h \in Hashes : zero[h] = 0
  OBVIOUS
<1> HIDE DEF o, zero
<1>7. SumFunction(zero) \in Nat
  BY <1>3, SumNat, RuleAssumption DEF RuleAssumption
<1>8. Holdings(o.exposure, o.tlcs) = Funded
  BY <1>1, <1>5, AmountEmpty DEF Holdings
<1>9. HasDue(o)
  BY <1>1, <1>5, <1>7, <1>8 DEF HasDue
<1>10. \A h \in Hashes : Drawn(o, h) = 0
  BY <1>5, <1>6, AmountEmpty DEF Drawn
<1> QED BY <1>4, <1>9, <1>10 DEF o

LEMMA InitIInv == Init => IInv
<1> SUFFICES ASSUME Init PROVE IInv
  OBVIOUS
<1>1. \A c \in Channels, w \in Views : views[c][w] = OpeningSnapshot(Funded)
  BY DEF Init
<1>2. Typed
  <2>1. views \in [Channels -> [Views -> Snapshots]]
    BY OpeningIs DEF Init
  <2> QED BY <2>1 DEF Init, Typed
<1>3. FallsAreCharged
  BY <1>1, OpeningIs DEF FallsAreCharged, HasDue
<1>4. ASSUME NEW c \in Channels, NEW h \in Hashes PROVE DrawnByChannel(views[c], h) = 0
  <2>1. PICK w \in Views : Drawn(views[c][w], h) = DrawnByChannel(views[c], h)
    BY <1>2, DrawnByChannelIs DEF Typed
  <2> QED BY <1>1, <2>1, OpeningIs
<1>5. DrawnIsListed /\ BudgetIsApproved
  BY <1>4 DEF DrawnIsListed, BudgetIsApproved, Init
<1>6. BudgetHolds
  <2>1. ASSUME NEW h \in Hashes PROVE DrawnAnywhere(h) <= approved[h]
    <3> DEFINE f == [c \in Channels |-> DrawnByChannel(views[c], h)]
    <3>1. f \in [Channels -> Nat] /\ \A c \in Channels \ {} : f[c] = 0
      BY <1>4
    <3> HIDE DEF f
    <3>2. SumFunction(f) = SumFunction([c \in {} |-> f[c]])
      BY <3>1, SumWithin, FundsAssumption DEF FundsAssumption
    <3>3. SumFunction([c \in {} |-> f[c]]) = 0
      BY SumEmpty
    <3>4. approved[h] = 0
      BY DEF Init
    <3> QED BY <3>2, <3>3, <3>4 DEF DrawnAnywhere, f
  <2> QED BY <2>1 DEF BudgetHolds
<1>7. HeldIsListed /\ ReleasedIsPaid
  BY DEF Init, HeldIsListed, ReleasedIsPaid
<1>8. NeverMixed
  <2>1. KeptApart(views, invoices)
    BY DEF Init, KeptApart
  <2> QED BY <2>1, NeverMixedIs DEF NeverMixed
<1> QED BY <1>2, <1>3, <1>5, <1>6, <1>7, <1>8 DEF IInv

LEMMA StepIInv == IInv /\ [Next]_vars => IInv'
<1> SUFFICES ASSUME IInv, [Next]_vars PROVE IInv'
  OBVIOUS
<1>1. Typed' /\ FallsAreCharged'
  BY StepTyped, StepFalls DEF IInv
<1>2. DrawnIsListed' /\ BudgetHolds'
  BY StepDrawn, StepBudget DEF IInv
<1>3. BudgetIsApproved'
  <2>1. ASSUME NEW h \in Hashes PROVE intents'[h] # NoRecord => intents'[h].max <= approved'[h]
    BY StepIntents DEF IInv
  <2> QED BY <2>1 DEF BudgetIsApproved
<1>4. HeldIsListed' /\ NeverMixed' /\ ReleasedIsPaid'
  BY StepHeld, StepMixed, StepPaid DEF IInv
<1> QED BY <1>1, <1>2, <1>3, <1>4 DEF IInv

LEMMA InvariantHolds == Spec => []IInv
  BY InitIInv, StepIInv, PTL DEF Spec

(* Every record, snapshot and listing keeps its shape, for any hashes,     *)
(* TLCs, channels and commitments the node states: no amount ever charged  *)
(* or credited is negative.                                                *)
THEOREM FundsTypeOK == Spec => []Typed
<1>1. IInv => Typed
  BY DEF IInv
<1> QED BY <1>1, InvariantHolds, PTL

(* judgeCommitment, fileChannel: the channels together draw no more under a*)
(* payment's hash than its user ever approved, whichever commitments reach *)
(* the chain.                                                              *)
THEOREM PaymentsStayInBudget == Spec => []BudgetHolds
<1>1. IInv => BudgetHolds
  BY DEF IInv
<1> QED BY <1>1, InvariantHolds, PTL

(* chargedTlcs: whatever left a view's holdings is charged to payments.    *)
THEOREM LossesAreCharged == Spec => []FallsAreCharged
<1>1. IInv => FallsAreCharged
  BY DEF IInv
<1> QED BY <1>1, InvariantHolds, PTL

(* judgeHoldInvoiceRelease, creditedAcross: a released invoice stays held  *)
(* or credited in full, whichever commitments reach the chain.             *)
THEOREM ReleasedStaysPaid == Spec => []ReleasedIsPaid
<1>1. IInv => ReleasedIsPaid
  BY DEF IInv
<1> QED BY <1>1, InvariantHolds, PTL

(* judgeHoldInvoiceRelease, mixesReleasedHeld: no channel shows an offered *)
(* TLC beside a held one whose preimage is out.                            *)
THEOREM ReleasedStaysApart == Spec => []NeverMixed
<1>1. IInv => NeverMixed
  BY DEF IInv
<1> QED BY <1>1, InvariantHolds, PTL

(* closeDebitIntent: no step draws more under a hash no intent is open for.*)
THEOREM ClosedStaysClosed == Spec => ClosedDrawsNoMore
<1> DEFINE Draw == \A c \in Channels : views'[c] # views[c] =>
                      \A h \in Hashes : (intents[h] = NoRecord \/ ~intents[h].open) =>
                          DrawnByChannel(views'[c], h) <= DrawnByChannel(views[c], h)
<1>1. IInv /\ [Next]_vars => [Draw]_vars
  <2>1. SUFFICES ASSUME IInv, [Next]_vars, NEW c \in Channels, views'[c] # views[c],
                        NEW h \in Hashes, intents[h] = NoRecord \/ ~intents[h].open
                 PROVE  DrawnByChannel(views'[c], h) <= DrawnByChannel(views[c], h)
    OBVIOUS
  <2>2. Typed
    BY <2>1 DEF IInv
  <2>3. ASSUME NEW d \in Channels, NEW w \in Views, NEW next, Stated(next), Claims(d, w, next)
        PROVE  DrawnByChannel(views'[c], h) <= DrawnByChannel(views[c], h)
    <3>1. d = c
      BY <2>1, <2>2, <2>3, ClaimIs
    <3> QED BY <2>1, <2>2, <2>3, <3>1, ClaimDraws
  <2> QED BY <2>1, <2>2, <2>3, StepViews
<1> QED BY <1>1, InvariantHolds, PTL DEF Spec, ClosedDrawsNoMore

(* judgeClosingTx: a close pays what either view has, but for its charges  *)
(* and the fee.                                                            *)
THEOREM ClosesPayDue == Spec => ClosePaysDue
<1> DEFINE Pays == \A c \in Channels, w \in Views :
                      payout'[c] # payout[c] =>
                          payout'[c] + ShutdownFee + SumFunction(views[c][w].charged)
                              >= Funded + SumFunction(views[c][w].credited)
<1>1. IInv /\ [Next]_vars => [Pays]_vars
  <2>1. SUFFICES ASSUME IInv, [Next]_vars, NEW c \in Channels, NEW w \in Views, payout'[c] # payout[c]
                 PROVE  payout'[c] + ShutdownFee + SumFunction(views[c][w].charged)
                            >= Funded + SumFunction(views[c][w].credited)
    OBVIOUS
  <2>2. Typed
    BY <2>1 DEF IInv
  <2>3. PICK d \in Channels, capacity \in Nat : SignClose(d, capacity)
    BY <2>1, <2>2, NextCases
       DEF vars, RecordDebitIntent, CloseDebitIntent, RecordHoldInvoice, MarkHoldInvoiceReleased, Claims, Tick
  <2>4. d = c /\ payout'[c] = capacity
    BY <2>1, <2>2, <2>3 DEF SignClose, Typed
  <2> DEFINE view == views[c][w]
  <2>5. view.tlcs = EmptyBag /\ capacity + ShutdownFee >= view.exposure
    BY <2>3, <2>4 DEF SignClose, JudgeClosing
  <2>6. HasDue(view) /\ view \in Snapshots
    BY <2>1, <2>2 DEF IInv, FallsAreCharged, HasDue, Typed
  <2> HIDE DEF view
  <2>7. view.exposure \in Nat /\ view.charged \in [Hashes -> Nat] /\ view.credited \in [Hashes -> Nat]
    BY <2>6 DEF Snapshots
  <2>8. SumFunction(view.charged) \in Nat /\ SumFunction(view.credited) \in Nat
    BY <2>7, SumNat, RuleAssumption DEF RuleAssumption
  <2>9. Holdings(view.exposure, view.tlcs) = view.exposure
    BY <2>5, <2>7, AmountEmpty DEF Holdings
  <2>10. Funded \in Nat /\ ShutdownFee \in Nat
    BY FundsAssumption DEF FundsAssumption
  <2>11. capacity + ShutdownFee + SumFunction(view.charged) >= Funded + SumFunction(view.credited)
    BY <2>5, <2>6, <2>7, <2>8, <2>9, <2>10 DEF HasDue
  <2> QED BY <2>4, <2>11 DEF view
<1> QED BY <1>1, InvariantHolds, PTL DEF Spec, ClosePaysDue

=============================================================================
