------------------------- MODULE InvoiceCodecProofs -------------------------
(***************************************************************************)
(* Proofs about InvoiceCodec, for any widths, models of any counts, f64    *)
(* rounding either way and streams of any bits: arDecompress's range       *)
(* always holds its value, and so the value lands in a symbol's share.     *)
(*                                                                         *)
(* A range that need not be widened has a quarter of the full one, more    *)
(* than twice the counts there can be; so each count's share has a width,  *)
(* whichever way its two ends are rounded, and both loops end.  They take  *)
(* the same off the value as off the range.                                *)
(*                                                                         *)
(* The model's recursive functions are shown to have a solution as far as  *)
(* they are used, each by counting up.                                     *)
(***************************************************************************)
EXTENDS InvoiceCodec, FiniteSetTheorems, WellFoundedInduction, TLAPS

(* What 0 has and each number hands on to the next, all have: an induction *)
(* over a set, by the least number of 0 .. n that is not in it.            *)
LEMMA CountingUp ==
    ASSUME NEW n \in Nat, NEW Good, 0 \in Good, \A i \in 0 .. n - 1 : i \in Good => i + 1 \in Good
    PROVE  \A i \in 0 .. n : i \in Good
<1> DEFINE Bad == {i \in 0 .. n : i \notin Good}
           UpTo(i) == 1 .. i
           Sets == {UpTo(i) : i \in Bad}
<1>1. SUFFICES ASSUME Bad # {} PROVE FALSE
  OBVIOUS
<1>2. Sets \subseteq FiniteSubsetsOf(1 .. n) /\ Sets # {}
  <2>1. IsFiniteSet(1 .. n)
    BY FS_Interval
  <2>2. Sets \subseteq SUBSET (1 .. n)
    OBVIOUS
  <2>3. Sets # {}
    BY <1>1
  <2> HIDE DEF Sets
  <2> QED
    BY <2>1, <2>2, <2>3, FS_FiniteSubsetsOfFinite
<1>3. PICK T \in Sets : \A U \in Sets : <<U, T>> \notin StrictSubsetOrdering(1 .. n)
  <2> HIDE DEF Sets
  <2>1. IsFiniteSet(1 .. n)
    BY FS_Interval
  <2> QED
    BY <1>2, <2>1, WFMin, FS_StrictSubsetOrderingWellFounded
<1>4. PICK i \in Bad : T = UpTo(i)
  BY <1>3
<1>5. i - 1 \in 0 .. n - 1
  OBVIOUS
<1>6. <<UpTo(i - 1), UpTo(i)>> \in StrictSubsetOrdering(1 .. n)
  <2>1. UpTo(i - 1) \subseteq UpTo(i) /\ i \in UpTo(i) /\ i \notin UpTo(i - 1) /\ UpTo(i) \subseteq 1 .. n
    BY <1>5
  <2> QED
    BY <2>1 DEF StrictSubsetOrdering
<1>7. i - 1 \in Good
  <2>1. i - 1 \in 0 .. n
    BY <1>5
  <2>2. i - 1 \notin Bad
    BY <1>3, <1>4, <1>6
  <2> QED
    BY <2>1, <2>2
<1> QED
  BY <1>5, <1>7

(* The recursion of Power, as far as n, and its solution. *)
Doubles(f, n) == f = [i \in 0 .. n |-> IF i = 0 THEN 1 ELSE 2 * f[i - 1]]

LEMMA PowerSteps == Power[0] = 1 /\ \A n \in 1 .. Precision : Power[n] = 2 * Power[n - 1]
<1> DEFINE Good == {n \in 0 .. Precision : \E f : Doubles(f, n)}
<1>1. Precision \in Nat
  BY CoderAssumption
<1>2. 0 \in Good
  <2> DEFINE f == [i \in 0 .. 0 |-> 1]
  <2>1. Doubles(f, 0)
    BY DEF Doubles
  <2> QED
    BY <1>1, <2>1
<1>3. ASSUME NEW n \in 0 .. Precision - 1, n \in Good PROVE n + 1 \in Good
  <2>1. PICK f : Doubles(f, n)
    BY <1>3
  <2> DEFINE g == [i \in 0 .. n + 1 |-> IF i = 0 THEN 1 ELSE 2 * f[i - 1]]
  <2>2. \A i \in 0 .. n : f[i] = IF i = 0 THEN 1 ELSE 2 * f[i - 1]
    BY <2>1 DEF Doubles
  <2>3. \A i \in 0 .. n : g[i] = f[i]
    BY <2>2
  <2>4. \A i \in 0 .. n + 1 : i # 0 => i - 1 \in 0 .. n
    OBVIOUS
  <2>5. g = [i \in 0 .. n + 1 |-> IF i = 0 THEN 1 ELSE 2 * g[i - 1]]
    BY <2>3, <2>4
  <2> HIDE DEF g
  <2>6. Doubles(g, n + 1) /\ n + 1 \in 0 .. Precision
    BY <1>1, <2>5 DEF Doubles
  <2> QED
    BY <2>6
<1>4. Precision \in Good
  <2> HIDE DEF Good
  <2>1. \A n \in 0 .. Precision : n \in Good
    BY <1>1, <1>2, <1>3, CountingUp
  <2> QED
    BY <1>1, <2>1
<1>5. Power = CHOOSE f : Doubles(f, Precision)
  BY DEF Power, Doubles
<1>6. Doubles(Power, Precision)
  BY <1>4, <1>5
<1>7. \A n \in 0 .. Precision : Power[n] = IF n = 0 THEN 1 ELSE 2 * Power[n - 1]
  BY <1>6 DEF Doubles
<1> QED
  BY <1>1, <1>7

(* Powers of two up to the coder's precision are positive. *)
LEMMA Powers == \A n \in 0 .. Precision : Power[n] \in Nat \ {0}
<1> DEFINE Good == {n \in 0 .. Precision : Power[n] \in Nat \ {0}}
<1>1. Precision \in Nat
  BY CoderAssumption
<1>2. 0 \in Good
  BY <1>1, PowerSteps
<1>3. ASSUME NEW i \in 0 .. Precision - 1, i \in Good PROVE i + 1 \in Good
  <2>1. i + 1 \in 1 .. Precision /\ (i + 1) - 1 = i
    BY <1>1
  <2>2. Power[i + 1] = 2 * Power[i]
    BY <2>1, PowerSteps
  <2> QED
    BY <1>3, <2>1, <2>2
<1>4. \A i \in 0 .. Precision : i \in Good
  <2> HIDE DEF Good
  <2> QED
    BY <1>1, <1>2, <1>3, CountingUp
<1> QED
  BY <1>4

(* The coder's parts of its full range. *)
LEMMA Parts ==
    /\ Quarter \in Nat /\ Half = 2 * Quarter /\ ThreeQuarters = 3 * Quarter /\ Full = 4 * Quarter
    /\ Base \in Nat /\ Base > 1 /\ Symbols = Base + 1 /\ MaxData \in Nat /\ 2 * (Symbols + MaxData) < Quarter
<1>1. Precision \in Nat /\ Precision >= 2 /\ ByteBits \in 1 .. Precision
  BY CoderAssumption
<1>2. Power[Precision] = 2 * Power[Precision - 1] /\ Power[Precision - 1] = 2 * Power[Precision - 2]
  <2>1. Precision - 1 \in 1 .. Precision /\ (Precision - 1) - 1 = Precision - 2 /\ Precision \in 1 .. Precision
    BY <1>1
  <2> QED
    BY <2>1, PowerSteps
<1>3. Power[Precision - 2] \in Nat
  BY <1>1, Powers
<1>4. Power[ByteBits] = 2 * Power[ByteBits - 1] /\ Power[ByteBits - 1] \in Nat \ {0}
  BY <1>1, PowerSteps, Powers
<1>5. PICK q \in Nat : q = Power[Precision - 2]
  BY <1>3
<1>6. Full = 4 * q
  BY <1>2, <1>5 DEF Full
<1>7. Half = 2 * q /\ Quarter = q
  BY <1>6 DEF Half, Quarter
<1>8. PICK b \in Nat \ {0} : b = Power[ByteBits - 1]
  BY <1>4
<1>9. Base = 2 * b
  BY <1>4, <1>8 DEF Base
<1> QED
  BY <1>6, <1>7, <1>9, CoderAssumption DEF ThreeQuarters, Symbols

-----------------------------------------------------------------------------
(* Counts and shares *)

(* A model after n bytes: every symbol has a count. *)
ModelOK(m, n) ==
    /\ m \in [0 .. Symbols -> Nat] /\ m[0] = 0 /\ m[Symbols] = Symbols + n
    /\ \A s \in 0 .. Base : m[s] < m[s + 1] /\ m[s + 1] <= m[Symbols]

LEMMA StartModelOK == ModelOK(StartModel, 0)
  BY Parts DEF ModelOK, StartModel

(* update: the counts stay, and the total is one more. *)
LEMMA CountedOK ==
    ASSUME NEW m, NEW n \in Nat, ModelOK(m, n), NEW symbol \in 0 .. Base
    PROVE  ModelOK(Counted(m, symbol), n + 1)
<1> DEFINE c == Counted(m, symbol)
<1>1. \A s \in 0 .. Symbols : c[s] = IF s > symbol THEN m[s] + 1 ELSE m[s]
  BY DEF Counted
<1>2. c \in [0 .. Symbols -> Nat]
  BY DEF Counted, ModelOK
<1>3. c[0] = 0 /\ c[Symbols] = Symbols + (n + 1)
  BY <1>1, Parts DEF ModelOK
<1>4. ASSUME NEW s \in 0 .. Base PROVE c[s] < c[s + 1] /\ c[s + 1] <= c[Symbols]
  <2>1. s \in 0 .. Symbols /\ s + 1 \in 0 .. Symbols /\ Symbols \in 0 .. Symbols /\ Symbols > symbol
    BY Parts
  <2>2. m[s] \in Nat /\ m[s + 1] \in Nat /\ m[Symbols] \in Nat /\ m[s] < m[s + 1] /\ m[s + 1] <= m[Symbols]
    BY <2>1 DEF ModelOK
  <2> QED
    BY <1>1, <2>1, <2>2, Parts
<1> HIDE DEF c
<1>5. ModelOK(c, n + 1)
  BY <1>2, <1>3, <1>4 DEF ModelOK
<1> QED
  BY <1>5 DEF c

(* Division, in the terms that Scale uses. *)
LEMMA Division ==
    ASSUME NEW a \in Nat, NEW b \in Nat \ {0}
    PROVE  /\ a \div b \in Nat /\ a % b \in 0 .. b - 1
           /\ a = b * (a \div b) + (a % b)
  OBVIOUS

(* A larger share of the counts scales to a larger share of the width,     *)
(* however the two round: the width gives each count more than two.        *)
LEMMA ScaleGrows ==
    ASSUME NEW width \in Nat, NEW total \in Nat \ {0}, 2 * total < width, NEW how,
           NEW j \in 0 .. total, NEW k \in 0 .. total, j < k
    PROVE  /\ Scale(width, j, total, how) \in Int /\ Scale(width, k, total, how) \in Int
           /\ Scale(width, j, total, how) < Scale(width, k, total, how)
<1> DEFINE wholeJ == (width * j) \div total
           wholeK == (width * k) \div total
           restJ == (width * j) % total
           restK == (width * k) % total
           slipJ == Scale(width, j, total, how) - wholeJ
           slipK == Scale(width, k, total, how) - wholeK
<1>1. width * j \in Nat /\ width * k \in Nat
  OBVIOUS
<1>2. width * k >= width * j + width
  <2>1. PICK d \in Nat : k = j + 1 + d
    <3>1. k - j - 1 \in Nat /\ k = j + 1 + (k - j - 1)
      OBVIOUS
    <3> QED
      BY <3>1
  <2>2. width * k = width * j + width + width * d
    BY <2>1
  <2>3. width * d \in Nat
    BY <2>1
  <2> QED
    BY <1>1, <2>2, <2>3
<1>3. /\ wholeJ \in Nat /\ restJ \in 0 .. total - 1 /\ width * j = total * wholeJ + restJ
      /\ wholeK \in Nat /\ restK \in 0 .. total - 1 /\ width * k = total * wholeK + restK
  BY <1>1, Division
<1>4. Accuracy \in Nat /\ Accuracy >= 2
  BY CoderAssumption
<1>5. /\ Scale(width, j, total, how) = wholeJ \/ Scale(width, j, total, how) = wholeJ - 1
         \/ (Scale(width, j, total, how) = wholeJ + 1 /\ (total - restJ) * Accuracy < total)
      /\ Scale(width, k, total, how) = wholeK \/ Scale(width, k, total, how) = wholeK + 1
         \/ (Scale(width, k, total, how) = wholeK - 1 /\ restK * Accuracy < total)
  BY <1>3 DEF Scale
<1> HIDE DEF wholeJ, wholeK, restJ, restK
<1>6. total * wholeK + restK > total * wholeJ + restJ + 2 * total
  BY <1>1, <1>2, <1>3
<1>7. wholeK >= wholeJ + 2
  <2>1. SUFFICES ASSUME wholeK <= wholeJ + 1 PROVE FALSE
    BY <1>3
  <2>2. total * wholeK <= total * wholeJ + total
    <3>1. PICK d \in Nat : wholeJ + 1 = wholeK + d
      <4>1. wholeJ + 1 - wholeK \in Nat /\ wholeJ + 1 = wholeK + (wholeJ + 1 - wholeK)
        BY <1>3, <2>1
      <4> QED
        BY <4>1
    <3>2. total * (wholeJ + 1) = total * wholeK + total * d /\ total * d \in Nat /\ total * wholeK \in Nat
      BY <1>3, <3>1
    <3>3. total * (wholeJ + 1) = total * wholeJ + total /\ total * wholeJ \in Nat
      BY <1>3
    <3> QED
      BY <3>2, <3>3
  <2> QED
    BY <1>3, <1>6, <2>2
<1>8. wholeK = wholeJ + 2 => restK > restJ
  <2>1. total * (wholeJ + 2) = total * wholeJ + 2 * total /\ total * wholeJ \in Nat
    BY <1>3
  <2> QED
    BY <1>3, <1>6, <2>1
<1>9. ASSUME restK > restJ, (total - restJ) * Accuracy < total, restK * Accuracy < total PROVE FALSE
  <2>1. PICK e \in Nat : Accuracy = 2 + e
    <3>1. Accuracy - 2 \in Nat /\ Accuracy = 2 + (Accuracy - 2)
      BY <1>4
    <3> QED
      BY <3>1
  <2>2. /\ (total - restJ) * Accuracy = 2 * (total - restJ) + (total - restJ) * e
        /\ restK * Accuracy = 2 * restK + restK * e
        /\ (total - restJ) * e \in Nat /\ restK * e \in Nat
    BY <1>3, <2>1
  <2> QED
    BY <1>3, <1>9, <2>2
<1> QED
  BY <1>3, <1>5, <1>7, <1>8, <1>9

(* At either end the share is exact. *)
LEMMA ScaleEnds ==
    ASSUME NEW width \in Nat, NEW total \in Nat \ {0}, NEW how
    PROVE  Scale(width, 0, total, how) = 0 /\ Scale(width, total, total, how) = width
<1>1. width * 0 = 0 /\ 0 \div total = 0
  OBVIOUS
<1>2. (width * total) \div total = width
  <2>1. width * total \in Nat
    OBVIOUS
  <2>2. PICK q \in Nat : q = (width * total) \div total
    BY <2>1, Division
  <2>3. PICK d \in 0 .. total - 1 : width * total = total * q + d
    BY <2>1, <2>2, Division
  <2>4. total * (width - q) = d
    BY <2>3
  <2>5. width - q = 0
    <3>1. ASSUME width - q >= 1 PROVE FALSE
      <4>1. PICK e \in Nat : width - q = 1 + e
        <5>1. width - q - 1 \in Nat /\ width - q = 1 + (width - q - 1)
          BY <3>1
        <5> QED
          BY <5>1
      <4>2. total * (1 + e) = total + total * e /\ total * e \in Nat
        BY <4>1
      <4> QED
        BY <2>4, <4>1, <4>2
    <3>2. ASSUME q - width >= 1 PROVE FALSE
      <4>1. PICK e \in Nat : q - width = 1 + e
        <5>1. q - width - 1 \in Nat /\ q - width = 1 + (q - width - 1)
          BY <3>2
        <5> QED
          BY <5>1
      <4>2. total * (1 + e) = total + total * e /\ total * e \in Nat
        BY <4>1
      <4>3. total * (q - width) = 0 - d
        BY <2>3
      <4> QED
        BY <4>1, <4>2, <4>3
    <3> QED
      BY <3>1, <3>2
  <2> QED
    BY <2>2, <2>5
<1>3. Scale(width, 0, total, how) = (width * 0) \div total + 0
  BY DEF Scale
<1>4. Scale(width, total, total, how) = (width * total) \div total + 0
  BY DEF Scale
<1> QED
  BY <1>1, <1>2, <1>3, <1>4

-----------------------------------------------------------------------------
(* Ranges *)

Holds(r, value) == r.low <= value /\ value < r.high

(* Where a symbol's share begins. *)
Edge(r, m, s, how) == r.low + Scale(r.high - r.low, m[s], m[Symbols], how)

LEMMA RangeParts ==
    ASSUME NEW r \in Ranges
    PROVE  r.low \in 0 .. Full /\ r.high \in 0 .. Full /\ r.low < r.high /\ r = [low |-> r.low, high |-> r.high]
  BY DEF Ranges

LEMMA RescaledIsWide ==
    ASSUME NEW r \in Ranges, ~IsNarrow(r)
    PROVE  r.high - r.low >= Quarter
  BY RangeParts, Parts DEF IsNarrow

(* share: the shares are not empty, one begins where the last one ends, and*)
(* together they make up the range.                                        *)
LEMMA Edges ==
    ASSUME NEW r \in Ranges, ~IsNarrow(r), NEW n \in 0 .. MaxData, NEW m, ModelOK(m, n), NEW how
    PROVE  /\ Edge(r, m, 0, how) = r.low /\ Edge(r, m, Symbols, how) = r.high
           /\ \A s \in 0 .. Symbols : Edge(r, m, s, how) \in r.low .. r.high
           /\ \A s \in 0 .. Base : Edge(r, m, s, how) < Edge(r, m, s + 1, how)
<1> DEFINE width == r.high - r.low
           total == m[Symbols]
<1>1. r.low \in Nat /\ r.high \in Nat /\ width \in Nat /\ width >= Quarter
  BY RangeParts, RescaledIsWide, Parts
<1>2. total \in Nat \ {0} /\ 2 * total < width
  BY <1>1, Parts DEF ModelOK
<1>3. \A s \in 0 .. Symbols : m[s] \in 0 .. total
  <2>1. ASSUME NEW s \in 0 .. Symbols, s # 0 PROVE m[s] \in Nat /\ m[s] <= total
    <3>1. s - 1 \in 0 .. Base /\ (s - 1) + 1 = s
      BY <2>1, Parts
    <3> QED
      BY <3>1 DEF ModelOK
  <2>2. m[0] = 0
    BY DEF ModelOK
  <2> QED
    BY <1>2, <2>1, <2>2
<1> HIDE DEF width, total
<1>4. Scale(width, 0, total, how) = 0 /\ Scale(width, total, total, how) = width
  BY <1>1, <1>2, ScaleEnds
<1>5. \A j, k \in 0 .. total : j < k =>
         /\ Scale(width, j, total, how) \in Int /\ Scale(width, k, total, how) \in Int
         /\ Scale(width, j, total, how) < Scale(width, k, total, how)
  BY <1>1, <1>2, ScaleGrows
<1>6. \A k \in 0 .. total : Scale(width, k, total, how) \in 0 .. width
  <2>1. ASSUME NEW k \in 0 .. total PROVE Scale(width, k, total, how) \in 0 .. width
    <3>1. k = 0 \/ 0 < k
      BY <1>2
    <3>2. k = total \/ k < total
      BY <1>2
    <3>3. 0 \in 0 .. total /\ total \in 0 .. total
      BY <1>2
    <3> QED
      BY <1>1, <1>4, <1>5, <3>1, <3>2, <3>3
  <2> QED
    BY <2>1
<1>7. \A s : Edge(r, m, s, how) = r.low + Scale(width, m[s], total, how)
  BY DEF Edge, width, total
<1>8. \A s \in 0 .. Base : s \in 0 .. Symbols /\ s + 1 \in 0 .. Symbols /\ m[s] < m[s + 1]
  BY Parts DEF ModelOK
<1>9. m[0] = 0 /\ r.high = r.low + width
  BY <1>1 DEF ModelOK, width
<1>10. Edge(r, m, 0, how) = r.low /\ Edge(r, m, Symbols, how) = r.high
  BY <1>1, <1>4, <1>7, <1>9 DEF total
<1>11. \A s \in 0 .. Symbols : Edge(r, m, s, how) \in r.low .. r.high
  BY <1>1, <1>3, <1>6, <1>7, <1>9
<1>12. ASSUME NEW s \in 0 .. Base PROVE Edge(r, m, s, how) < Edge(r, m, s + 1, how)
  <2>1. m[s] \in 0 .. total /\ m[s + 1] \in 0 .. total /\ m[s] < m[s + 1]
    BY <1>3, <1>8
  <2>2. /\ Scale(width, m[s], total, how) \in Int /\ Scale(width, m[s + 1], total, how) \in Int
        /\ Scale(width, m[s], total, how) < Scale(width, m[s + 1], total, how)
    BY <1>5, <2>1
  <2> QED
    BY <1>1, <1>7, <2>2
<1> QED
  BY <1>10, <1>11, <1>12

LEMMA SharesAreEdges ==
    ASSUME NEW r, NEW m, NEW s, NEW how
    PROVE  SubRange(r, m, s, how) = [low |-> Edge(r, m, s, how), high |-> Edge(r, m, s + 1, how)]
  BY DEF SubRange, Edge

(* subRange: a symbol's share is a range of some width. *)
LEMMA ShareIsRange ==
    ASSUME NEW r \in Ranges, ~IsNarrow(r), NEW n \in 0 .. MaxData, NEW m, ModelOK(m, n), NEW how, NEW s \in 0 .. Base
    PROVE  SubRange(r, m, s, how) \in Ranges
<1>1. s \in 0 .. Symbols /\ s + 1 \in 0 .. Symbols
  BY Parts
<1>2. /\ Edge(r, m, s, how) \in r.low .. r.high /\ Edge(r, m, s + 1, how) \in r.low .. r.high
      /\ Edge(r, m, s, how) < Edge(r, m, s + 1, how)
  BY <1>1, Edges
<1>3. r.low \in 0 .. Full /\ r.high \in 0 .. Full /\ Full \in Nat
  BY RangeParts, Parts
<1> QED
  BY <1>2, <1>3, SharesAreEdges DEF Ranges

LEMMA Least ==
    ASSUME NEW n \in Nat, NEW S \in SUBSET (0 .. n), S # {}
    PROVE  Min(S) \in S
<1> DEFINE Good == {i \in 0 .. n : \A j \in 0 .. i : j \notin S}
<1>1. SUFFICES ASSUME \A x \in S : \E y \in S : ~(x <= y) PROVE FALSE
  BY DEF Min
<1>2. 0 \in Good
  BY <1>1
<1>3. ASSUME NEW i \in 0 .. n - 1, i \in Good PROVE i + 1 \in Good
  BY <1>1, <1>3
<1>4. n \in Good
  <2> HIDE DEF Good
  <2> QED
    BY <1>2, <1>3, CountingUp
<1> QED
  BY <1>4

(* find: "The end marker's sub-range reaches the range's high, so the value*)
(* always lands by here."                                                  *)
LEMMA FindHolds ==
    ASSUME NEW r \in Ranges, ~IsNarrow(r), NEW n \in 0 .. MaxData, NEW m, ModelOK(m, n), NEW how,
           NEW value \in Int, Holds(r, value)
    PROVE  /\ Find(r, m, value, how) \in 0 .. Base
           /\ Holds(SubRange(r, m, Find(r, m, value, how), how), value)
<1> DEFINE holding == {s \in Bytes : Holds(SubRange(r, m, s, how), value)}
<1>1. Find(r, m, value, how) = IF holding = {} THEN EndOfData ELSE Min(holding)
  BY DEF Find, Holds
<1>2. Bytes = 0 .. Base - 1 /\ EndOfData = Base /\ Base \in Nat /\ Base > 1 /\ Symbols = Base + 1
  BY Parts DEF Bytes, EndOfData
<1>3. \A s : Holds(SubRange(r, m, s, how), value) <=> (Edge(r, m, s, how) <= value /\ value < Edge(r, m, s + 1, how))
  BY SharesAreEdges DEF Holds
<1>4. r.low \in Int /\ r.high \in Int
  BY RangeParts, Parts
<1> HIDE DEF holding
<1>5. CASE holding # {}
  <2>1. holding \in SUBSET (0 .. Base - 1) /\ Base - 1 \in Nat
    BY <1>2 DEF holding
  <2>2. Min(holding) \in holding
    BY <1>5, <2>1, Least
  <2>3. \A s \in holding : s \in 0 .. Base
    BY <1>2, <2>1
  <2> QED
    BY <1>1, <1>5, <2>2, <2>3 DEF holding
<1>6. CASE holding = {}
  <2> DEFINE Good == {s \in 0 .. Base : Edge(r, m, s, how) <= value}
  <2>1. 0 \in Good
    <3>1. Edge(r, m, 0, how) = r.low
      BY Edges
    <3> QED
      BY <1>2, <3>1 DEF Holds
  <2>2. ASSUME NEW s \in 0 .. Base - 1, s \in Good PROVE s + 1 \in Good
    <3>1. s \in Bytes /\ s \notin holding /\ s + 1 \in 0 .. Base /\ s + 1 \in 0 .. Symbols
      BY <1>2, <1>6
    <3>2. ~(value < Edge(r, m, s + 1, how))
      BY <1>3, <2>2, <3>1 DEF holding
    <3>3. Edge(r, m, s + 1, how) \in Int
      BY <1>4, <3>1, Edges
    <3> QED
      BY <3>1, <3>2, <3>3
  <2>3. Base \in Good
    <3> HIDE DEF Good
    <3> QED
      BY <1>2, <2>1, <2>2, CountingUp
  <2>4. Edge(r, m, Base + 1, how) = r.high
    BY <1>2, Edges
  <2>5. Holds(SubRange(r, m, Base, how), value)
    BY <1>3, <2>3, <2>4 DEF Holds
  <2> QED
    BY <1>1, <1>2, <1>6, <2>5
<1> QED
  BY <1>5, <1>6

-----------------------------------------------------------------------------
(* The loops that widen a range *)

Width(r) == r.high - r.low

(* One of the loops' steps: the range is doubled, and keeps what it holds. *)
LEMMA DoubledHolds ==
    ASSUME NEW r \in Ranges, IsNarrow(r)
    PROVE  LET d == Doubled(r, Excess(r))
           IN  /\ Excess(r) \in {0, Quarter, Half}
               /\ d \in Ranges /\ Width(d) = 2 * Width(r)
               /\ \A v \in Int, bit \in {0, 1} : Holds(r, v) => Holds(d, 2 * (v - Excess(r)) + bit)
<1> DEFINE d == Doubled(r, Excess(r))
<1>1. /\ r.low \in 0 .. Full /\ r.high \in 0 .. Full /\ r.low < r.high
      /\ Quarter \in Nat /\ Half = 2 * Quarter /\ ThreeQuarters = 3 * Quarter /\ Full = 4 * Quarter
  BY RangeParts, Parts
<1>2. Excess(r) \in {0, Quarter, Half}
  BY DEF Excess
<1>3. d.low = 2 * (r.low - Excess(r)) /\ d.high = 2 * (r.high - Excess(r)) /\ d = [low |-> d.low, high |-> d.high]
  BY DEF Doubled
<1>4. r.low >= Excess(r) /\ 2 * (r.high - Excess(r)) <= Full
  BY <1>1 DEF IsNarrow, Excess
<1> HIDE DEF d
<1>5. d.low \in 0 .. Full /\ d.high \in 0 .. Full /\ d.low < d.high
  BY <1>1, <1>2, <1>3, <1>4
<1>6. d \in Ranges
  BY <1>3, <1>5 DEF Ranges
<1>7. Width(d) = 2 * Width(r)
  BY <1>1, <1>2, <1>3 DEF Width
<1>8. \A v \in Int, bit \in {0, 1} : Holds(r, v) => Holds(d, 2 * (v - Excess(r)) + bit)
  BY <1>1, <1>2, <1>3 DEF Holds
<1> QED
  BY <1>2, <1>6, <1>7, <1>8 DEF d

(* The recursion of Rescale, over some ranges. *)
Widens(f, D) ==
    f = [r \in D |-> IF ~IsNarrow(r) THEN [range |-> r, offsets |-> <<>>]
                     ELSE [f[Doubled(r, Excess(r))] EXCEPT !.offsets = <<Excess(r)>> \o @]]

(* It has a solution, as no range is wider than the full one. *)
LEMMA RescaleWidens == Widens(Rescale, Ranges)
<1> DEFINE Wide(k) == {r \in Ranges : Width(r) > Full - k}
           Good == {k \in 0 .. Full : \E f : Widens(f, Wide(k))}
<1>1. Full \in Nat /\ \A r \in Ranges : Width(r) \in 1 .. Full
  BY RangeParts, Parts DEF Width
<1>2. 0 \in Good
  <2>1. Wide(0) = {}
    BY <1>1
  <2> DEFINE f == [r \in {} |-> 0]
  <2>2. Widens(f, {})
    BY DEF Widens
  <2>3. 0 \in 0 .. Full
    BY <1>1
  <2> QED
    BY <2>1, <2>2, <2>3, Zenon
<1>3. ASSUME NEW k \in 0 .. Full - 1, k \in Good PROVE k + 1 \in Good
  <2>1. PICK f : Widens(f, Wide(k))
    BY <1>3
  <2> DEFINE Step(g, r) == IF ~IsNarrow(r) THEN [range |-> r, offsets |-> <<>>]
                           ELSE [g[Doubled(r, Excess(r))] EXCEPT !.offsets = <<Excess(r)>> \o @]
             g == [r \in Wide(k + 1) |-> Step(f, r)]
  <2>2. Wide(k) \subseteq Wide(k + 1)
    BY <1>1
  <2>3. \A r \in Wide(k + 1) : IsNarrow(r) => Doubled(r, Excess(r)) \in Wide(k)
    <3>1. ASSUME NEW r \in Wide(k + 1), IsNarrow(r) PROVE Doubled(r, Excess(r)) \in Wide(k)
      <4>1. Doubled(r, Excess(r)) \in Ranges /\ Width(Doubled(r, Excess(r))) = 2 * Width(r)
        BY <3>1, DoubledHolds
      <4>2. Width(r) \in 1 .. Full /\ Width(r) > Full - (k + 1)
        BY <1>1, <3>1
      <4> QED
        BY <1>1, <4>1, <4>2
    <3> QED
      BY <3>1
  <2>4. \A r \in Wide(k) : f[r] = Step(f, r)
    <3> HIDE DEF Wide
    <3> QED
      BY <2>1 DEF Widens
  <2> HIDE DEF Wide
  <2>5. \A r \in Wide(k) : g[r] = f[r]
    BY <2>2, <2>4
  <2>6. \A r \in Wide(k + 1) : Step(f, r) = Step(g, r)
    BY <2>3, <2>5
  <2>7. g = [r \in Wide(k + 1) |-> Step(g, r)]
    BY <2>6
  <2> HIDE DEF g
  <2>8. Widens(g, Wide(k + 1))
    BY <2>7 DEF Widens
  <2>9. k + 1 \in 0 .. Full
    BY <1>1
  <2> QED
    BY <2>8, <2>9
<1>4. Full \in Good
  <2> HIDE DEF Good
  <2> QED
    BY <1>1, <1>2, <1>3, CountingUp
<1>5. Wide(Full) = Ranges
  BY <1>1
<1>6. \E f : Widens(f, Ranges)
  <2> HIDE DEF Wide
  <2> QED
    BY <1>4, <1>5
<1>7. Rescale = CHOOSE f : Widens(f, Ranges)
  BY DEF Rescale, Widens
<1> QED
  BY <1>6, <1>7

LEMMA RescaleStep ==
    ASSUME NEW r \in Ranges
    PROVE  /\ ~IsNarrow(r) => Rescale[r] = [range |-> r, offsets |-> <<>>]
           /\ IsNarrow(r) => Rescale[r] = [Rescale[Doubled(r, Excess(r))] EXCEPT !.offsets = <<Excess(r)>> \o @]
  BY RescaleWidens DEF Widens

(* What the loops end with: a wide range, and the offsets taken off. *)
RescaledOK(q) ==
    /\ q = [range |-> q.range, offsets |-> q.offsets]
    /\ q.range \in Ranges /\ ~IsNarrow(q.range)
    /\ q.offsets \in Seq({0, Quarter, Half})

LEMMA RescaleEnds == \A r \in Ranges : RescaledOK(Rescale[r])
<1> DEFINE Good == {k \in 0 .. Full : \A r \in Ranges : Width(r) > Full - k => RescaledOK(Rescale[r])}
<1>1. Full \in Nat /\ \A r \in Ranges : Width(r) \in 1 .. Full
  BY RangeParts, Parts DEF Width
<1>2. 0 \in Good
  BY <1>1
<1>3. ASSUME NEW k \in 0 .. Full - 1, k \in Good PROVE k + 1 \in Good
  <2>1. ASSUME NEW r \in Ranges, Width(r) > Full - (k + 1) PROVE RescaledOK(Rescale[r])
    <3>1. CASE ~IsNarrow(r)
      <4>1. Rescale[r] = [range |-> r, offsets |-> <<>>]
        BY <3>1, RescaleStep
      <4> QED
        BY <3>1, <4>1 DEF RescaledOK
    <3>2. CASE IsNarrow(r)
      <4> DEFINE d == Doubled(r, Excess(r))
      <4>1. d \in Ranges /\ Width(d) = 2 * Width(r) /\ Excess(r) \in {0, Quarter, Half}
        BY <3>2, DoubledHolds
      <4>2. Width(d) > Full - k
        BY <1>1, <2>1, <4>1
      <4>3. RescaledOK(Rescale[d])
        BY <1>3, <4>1, <4>2
      <4>4. Rescale[r] = [Rescale[d] EXCEPT !.offsets = <<Excess(r)>> \o @]
        BY <3>2, RescaleStep
      <4> HIDE DEF d
      <4>5. <<Excess(r)>> \o Rescale[d].offsets \in Seq({0, Quarter, Half})
        <5>1. <<Excess(r)>> \in Seq({0, Quarter, Half})
          BY <4>1
        <5> QED
          BY <4>3, <5>1 DEF RescaledOK
      <4> QED
        BY <4>3, <4>4, <4>5 DEF RescaledOK
    <3> QED
      BY <3>1, <3>2
  <2>2. k + 1 \in 0 .. Full
    BY <1>1
  <2> QED
    BY <2>1, <2>2
<1>4. Full \in Good
  <2> HIDE DEF Good
  <2> QED
    BY <1>1, <1>2, <1>3, CountingUp
<1> QED
  BY <1>1, <1>4

-----------------------------------------------------------------------------
(* The decoder *)

DecoderOK(d) ==
    /\ d = [bits |-> d.bits, read |-> d.read, range |-> d.range, model |-> d.model, coded |-> d.coded, value |-> d.value]
    /\ d.bits \in Seq({0, 1}) /\ d.read \in Nat /\ d.coded \in Seq(0 .. Base)
    /\ Len(d.coded) <= MaxData /\ ModelOK(d.model, Len(d.coded))
    /\ d.range \in Ranges /\ ~IsNarrow(d.range)
    /\ d.value \in Int /\ Holds(d.range, d.value)

LEMMA BitIsBit ==
    ASSUME NEW bits \in Seq({0, 1}), NEW i \in Nat \ {0}
    PROVE  BitAt(bits, i) \in {0, 1}
  BY DEF BitAt

(* The recursion of DecodeSymbol over the offsets, and its solution. *)
Shifts(f, d, offsets, n) == f = [i \in 0 .. n |-> IF i = 0 THEN d ELSE ShiftIn(f[i - 1], offsets[i])]

LEMMA ShiftsExist ==
    ASSUME NEW d, NEW offsets, NEW n \in Nat
    PROVE  \E f : Shifts(f, d, offsets, n)
<1> DEFINE Good == {k \in 0 .. n : \E f : Shifts(f, d, offsets, k)}
<1>1. 0 \in Good
  <2> DEFINE f == [i \in 0 .. 0 |-> d]
  <2>1. Shifts(f, d, offsets, 0)
    BY DEF Shifts
  <2> QED
    BY <2>1
<1>2. ASSUME NEW k \in 0 .. n - 1, k \in Good PROVE k + 1 \in Good
  <2>1. PICK f : Shifts(f, d, offsets, k)
    BY <1>2
  <2> DEFINE g == [i \in 0 .. k + 1 |-> IF i = 0 THEN d ELSE ShiftIn(f[i - 1], offsets[i])]
  <2>2. \A i \in 0 .. k : f[i] = IF i = 0 THEN d ELSE ShiftIn(f[i - 1], offsets[i])
    BY <2>1 DEF Shifts
  <2>3. \A i \in 0 .. k : g[i] = f[i]
    BY <2>2
  <2>4. \A i \in 0 .. k + 1 : i # 0 => i - 1 \in 0 .. k
    OBVIOUS
  <2>5. g = [i \in 0 .. k + 1 |-> IF i = 0 THEN d ELSE ShiftIn(g[i - 1], offsets[i])]
    BY <2>3, <2>4
  <2> HIDE DEF g
  <2>6. Shifts(g, d, offsets, k + 1)
    BY <2>5 DEF Shifts
  <2> QED
    BY <2>6
<1>3. n \in Good
  <2> HIDE DEF Good
  <2> QED
    BY <1>1, <1>2, CountingUp
<1> QED
  BY <1>3

(* The first offset, and the rest, of what the loops take off. *)
LEMMA RescaleHead ==
    ASSUME NEW q \in Ranges
    PROVE  LET o == Rescale[q].offsets
               p == Doubled(q, Excess(q))
           IN  /\ Len(o) \in Nat
               /\ Len(o) = 0 => Rescale[q].range = q
               /\ Len(o) # 0 => /\ IsNarrow(q) /\ o[1] = Excess(q) /\ Rescale[q].range = Rescale[p].range
                                /\ Len(o) = Len(Rescale[p].offsets) + 1
                                /\ \A j \in 1 .. Len(o) - 1 : Rescale[p].offsets[j] = o[j + 1]
<1> DEFINE p == Doubled(q, Excess(q))
<1>1. CASE ~IsNarrow(q)
  <2>1. Rescale[q] = [range |-> q, offsets |-> <<>>]
    BY <1>1, RescaleStep
  <2>2. Rescale[q].range = q /\ Len(Rescale[q].offsets) = 0
    BY <2>1
  <2> QED
    BY <2>2
<1>2. CASE IsNarrow(q)
  <2>1. p \in Ranges /\ Excess(q) \in {0, Quarter, Half}
    BY <1>2, DoubledHolds
  <2>2. RescaledOK(Rescale[p])
    BY <2>1, RescaleEnds
  <2>3. Rescale[q] = [Rescale[p] EXCEPT !.offsets = <<Excess(q)>> \o @]
    BY <1>2, RescaleStep
  <2> HIDE DEF p
  <2>4. Rescale[q].range = Rescale[p].range /\ Rescale[q].offsets = <<Excess(q)>> \o Rescale[p].offsets
    BY <2>2, <2>3 DEF RescaledOK
  <2>5. PICK t : t = Rescale[p].offsets /\ t \in Seq({0, Quarter, Half})
    BY <2>2 DEF RescaledOK
  <2>6. PICK o : o = Rescale[q].offsets /\ o = <<Excess(q)>> \o t
    BY <2>4, <2>5
  <2>7. Len(t) \in Nat /\ Len(o) = Len(t) + 1 /\ o[1] = Excess(q) /\ \A j \in 1 .. Len(t) : t[j] = o[j + 1]
    BY <2>1, <2>5, <2>6
  <2>8. /\ Len(Rescale[q].offsets) = Len(Rescale[p].offsets) + 1 /\ Len(Rescale[q].offsets) \in Nat
        /\ Rescale[q].offsets[1] = Excess(q)
        /\ \A j \in 1 .. Len(Rescale[q].offsets) - 1 : Rescale[p].offsets[j] = Rescale[q].offsets[j + 1]
        /\ Len(Rescale[q].offsets) # 0
    <3>1. \A j \in 1 .. Len(o) - 1 : j \in 1 .. Len(t)
      BY <2>7
    <3> QED
      BY <2>5, <2>6, <2>7, <3>1
  <2> QED
    BY <1>2, <2>4, <2>8 DEF p
<1> QED
  BY <1>1, <1>2

(* What the loops leave of a decoder: only the value and the place change. *)
Shifted(d, e) ==
    /\ e = [bits |-> d.bits, read |-> e.read, range |-> d.range, model |-> d.model, coded |-> d.coded, value |-> e.value]
    /\ e.read \in Nat /\ e.value \in Int

LEMMA ShiftInKeeps ==
    ASSUME NEW d, d.bits \in Seq({0, 1}), NEW e, Shifted(d, e), NEW offset \in Int
    PROVE  /\ Shifted(d, ShiftIn(e, offset))
           /\ \E bit \in {0, 1} : ShiftIn(e, offset).value = 2 * (e.value - offset) + bit
<1> DEFINE bit == BitAt(e.bits, e.read + 1)
<1>1. bit \in {0, 1}
  <2>1. e.bits = d.bits /\ e.read + 1 \in Nat \ {0}
    BY DEF Shifted
  <2> QED
    BY <2>1, BitIsBit
<1>2. ShiftIn(e, offset) = [e EXCEPT !.value = 2 * (e.value - offset) + bit, !.read = e.read + 1]
  BY DEF ShiftIn
<1> HIDE DEF bit
<1>3. PICK k \in Nat, v \in Int : e = [bits |-> d.bits, read |-> k, range |-> d.range, model |-> d.model,
                                     coded |-> d.coded, value |-> v]
  BY DEF Shifted
<1>4. ShiftIn(e, offset) = [bits |-> d.bits, read |-> e.read + 1, range |-> d.range, model |-> d.model,
                            coded |-> d.coded, value |-> 2 * (e.value - offset) + bit]
  BY <1>2, <1>3
<1>5. 2 * (e.value - offset) + bit \in Int /\ e.read + 1 \in Nat
  BY <1>1 DEF Shifted
<1> QED
  BY <1>1, <1>4, <1>5 DEF Shifted

(* arDecompress, the two loops: each takes the same off the value as off   *)
(* the range, so the range still holds it.                                 *)
LEMMA ShiftsHold ==
    ASSUME NEW d, DecoderOK(d), NEW r \in Ranges, Holds(r, d.value), NEW f,
           Shifts(f, d, Rescale[r].offsets, Len(Rescale[r].offsets))
    PROVE  LET last == f[Len(Rescale[r].offsets)] IN Shifted(d, last) /\ Holds(Rescale[r].range, last.value)
<1> DEFINE n == Len(Rescale[r].offsets)
           Ahead(i, q) == /\ Holds(q, f[i].value) /\ Rescale[q].range = Rescale[r].range
                          /\ Len(Rescale[q].offsets) = n - i
                          /\ \A j \in 1 .. n - i : Rescale[q].offsets[j] = Rescale[r].offsets[i + j]
           Good == {i \in 0 .. n : Shifted(d, f[i]) /\ \E q \in Ranges : Ahead(i, q)}
<1>1. n \in Nat
  BY RescaleHead
<1>2. \A i \in 0 .. n : f[i] = IF i = 0 THEN d ELSE ShiftIn(f[i - 1], Rescale[r].offsets[i])
  BY DEF Shifts
<1>3. 0 \in Good
  <2>1. f[0] = d
    BY <1>1, <1>2
  <2>2. Shifted(d, f[0])
    BY <2>1 DEF DecoderOK, Shifted
  <2>3. Ahead(0, r)
    BY <1>1, <2>1
  <2> HIDE DEF Ahead
  <2> QED
    BY <1>1, <2>2, <2>3
<1> HIDE DEF n
<1>4. ASSUME NEW i \in 0 .. n - 1, i \in Good PROVE i + 1 \in Good
  <2>1. PICK q \in Ranges : Ahead(i, q)
    BY <1>4
  <2> DEFINE e == Excess(q)
             p == Doubled(q, e)
  <2>2. Len(Rescale[q].offsets) = n - i /\ n - i # 0
    BY <1>1, <2>1
  <2>3. /\ IsNarrow(q) /\ Rescale[q].offsets[1] = e /\ Rescale[q].range = Rescale[p].range
        /\ n - i = Len(Rescale[p].offsets) + 1
        /\ \A j \in 1 .. (n - i) - 1 : Rescale[p].offsets[j] = Rescale[q].offsets[j + 1]
    BY <2>2, RescaleHead
  <2>4. /\ e \in {0, Quarter, Half} /\ p \in Ranges
        /\ \A v \in Int, b \in {0, 1} : Holds(q, v) => Holds(p, 2 * (v - e) + b)
    BY <2>3, DoubledHolds
  <2>5. Len(Rescale[p].offsets) \in Nat
    BY <2>4, RescaleHead
  <2> HIDE DEF e, p
  <2>6. e = Rescale[r].offsets[i + 1] /\ e \in Int
    BY <1>1, <2>1, <2>3, <2>4, Parts
  <2>7. f[i + 1] = ShiftIn(f[i], e)
    <3>1. i + 1 \in 0 .. n /\ i + 1 # 0 /\ (i + 1) - 1 = i
      BY <1>1
    <3> QED
      BY <1>2, <2>6, <3>1
  <2>8. Shifted(d, f[i])
    BY <1>4
  <2>9. PICK bit \in {0, 1} : Shifted(d, f[i + 1]) /\ f[i + 1].value = 2 * (f[i].value - e) + bit
    BY <2>6, <2>7, <2>8, ShiftInKeeps DEF DecoderOK
  <2>10. Holds(p, f[i + 1].value)
    BY <2>1, <2>4, <2>8, <2>9 DEF Shifted
  <2>11. \A j \in 1 .. n - (i + 1) : Rescale[p].offsets[j] = Rescale[r].offsets[(i + 1) + j]
    <3>1. ASSUME NEW j \in 1 .. n - (i + 1) PROVE Rescale[p].offsets[j] = Rescale[r].offsets[(i + 1) + j]
      <4>1. j \in 1 .. (n - i) - 1 /\ j + 1 \in 1 .. n - i /\ i + (j + 1) = (i + 1) + j
        BY <1>1
      <4> QED
        BY <2>1, <2>3, <4>1
    <3> QED
      BY <3>1
  <2>12. Ahead(i + 1, p)
    <3>1. Rescale[p].range = Rescale[r].range
      BY <2>1, <2>3
    <3>2. Len(Rescale[p].offsets) = n - (i + 1)
      <4>1. PICK l \in Nat : l = Len(Rescale[p].offsets)
        BY <2>5
      <4>2. n - i = l + 1
        BY <2>3, <4>1
      <4> QED
        BY <1>1, <4>1, <4>2
    <3> QED
      BY <2>10, <2>11, <3>1, <3>2
  <2>13. i + 1 \in 0 .. n
    BY <1>1
  <2> HIDE DEF Ahead
  <2> QED
    BY <2>4, <2>9, <2>12, <2>13
<1>5. n \in Good
  <2> HIDE DEF Good
  <2>1. \A i \in 0 .. n : i \in Good
    BY <1>1, <1>3, <1>4, CountingUp
  <2> QED
    BY <1>1, <2>1
<1>6. PICK q \in Ranges : Ahead(n, q)
  BY <1>5
<1>7. Rescale[q].range = q
  <2>1. Len(Rescale[q].offsets) = 0
    BY <1>1, <1>6
  <2> QED
    BY <2>1, RescaleHead
<1> QED
  BY <1>5, <1>6, <1>7 DEF n

(* A symbol found is decoded: the decoder is as it was, a byte further. *)
LEMMA DecodeKeeps ==
    ASSUME NEW d, DecoderOK(d), NEW how, NEW symbol, symbol = Find(d.range, d.model, d.value, how),
           Len(DecodeSymbol(d, symbol, how).coded) <= MaxData
    PROVE  DecoderOK(DecodeSymbol(d, symbol, how))
<1> DEFINE r == SubRange(d.range, d.model, symbol, how)
           n == Len(Rescale[r].offsets)
           shifts == CHOOSE f : Shifts(f, d, Rescale[r].offsets, n)
           next == DecodeSymbol(d, symbol, how)
<1>1. Len(d.coded) \in 0 .. MaxData
  BY Parts DEF DecoderOK
<1>2. symbol \in 0 .. Base /\ Holds(r, d.value)
  BY <1>1, FindHolds DEF DecoderOK
<1>3. r \in Ranges
  BY <1>1, <1>2, ShareIsRange DEF DecoderOK
<1>4. n \in Nat
  BY <1>3, RescaleHead
<1>5. next = [shifts[n] EXCEPT !.range = Rescale[r].range, !.model = Counted(@, symbol), !.coded = Append(@, symbol)]
  BY DEF DecodeSymbol, Shifts
<1> HIDE DEF r, n, next
<1>6. Shifts(shifts, d, Rescale[r].offsets, n)
  BY <1>4, ShiftsExist
<1> HIDE DEF shifts
<1>7. Shifted(d, shifts[n]) /\ Holds(Rescale[r].range, shifts[n].value)
  BY <1>2, <1>3, <1>6, ShiftsHold DEF n
<1>8. PICK k \in Nat, v \in Int :
         /\ Holds(Rescale[r].range, v)
         /\ shifts[n] = [bits |-> d.bits, read |-> k, range |-> d.range, model |-> d.model, coded |-> d.coded, value |-> v]
  BY <1>7 DEF Shifted
<1>9. next = [bits |-> d.bits, read |-> k, range |-> Rescale[r].range, model |-> Counted(d.model, symbol),
              coded |-> Append(d.coded, symbol), value |-> v]
  <2>1. shifts[n].model = d.model /\ shifts[n].coded = d.coded
    BY <1>8
  <2>2. next = [shifts[n] EXCEPT !.range = Rescale[r].range, !.model = Counted(d.model, symbol),
                                 !.coded = Append(d.coded, symbol)]
    BY <1>5, <2>1
  <2> DEFINE e1 == [shifts[n] EXCEPT !.range = Rescale[r].range]
             e2 == [e1 EXCEPT !.model = Counted(d.model, symbol)]
  <2>3. next = [e2 EXCEPT !.coded = Append(d.coded, symbol)]
    BY <2>2
  <2>4. e1 = [bits |-> d.bits, read |-> k, range |-> Rescale[r].range, model |-> d.model, coded |-> d.coded, value |-> v]
    BY <1>8
  <2> HIDE DEF e1
  <2>5. e2 = [bits |-> d.bits, read |-> k, range |-> Rescale[r].range, model |-> Counted(d.model, symbol),
              coded |-> d.coded, value |-> v]
    BY <2>4
  <2> HIDE DEF e2
  <2> QED
    BY <2>3, <2>5
<1>10. Append(d.coded, symbol) \in Seq(0 .. Base) /\ Len(Append(d.coded, symbol)) = Len(d.coded) + 1
  BY <1>2 DEF DecoderOK
<1>11. ModelOK(Counted(d.model, symbol), Len(d.coded) + 1)
  BY <1>1, <1>2, CountedOK DEF DecoderOK
<1>12. Rescale[r].range \in Ranges /\ ~IsNarrow(Rescale[r].range)
  BY <1>3, RescaleEnds DEF RescaledOK
<1>13. Len(Append(d.coded, symbol)) <= MaxData
  BY <1>9 DEF next
<1>14. DecoderOK(next)
  BY <1>8, <1>9, <1>10, <1>11, <1>12, <1>13 DEF DecoderOK
<1> QED
  BY <1>14 DEF next

-----------------------------------------------------------------------------
(* The stream *)

(* The recursion of Number, and its solution. *)
Sums(v, bits, n) == v = [i \in 0 .. n |-> IF i = 0 THEN 0 ELSE 2 * v[i - 1] + bits[i]]

LEMMA SumsExist ==
    ASSUME NEW bits, NEW n \in Nat
    PROVE  \E v : Sums(v, bits, n)
<1> DEFINE Good == {k \in 0 .. n : \E v : Sums(v, bits, k)}
<1>1. 0 \in Good
  <2> DEFINE v == [i \in 0 .. 0 |-> 0]
  <2>1. Sums(v, bits, 0)
    BY DEF Sums
  <2> QED
    BY <2>1
<1>2. ASSUME NEW k \in 0 .. n - 1, k \in Good PROVE k + 1 \in Good
  <2>1. PICK v : Sums(v, bits, k)
    BY <1>2
  <2> DEFINE w == [i \in 0 .. k + 1 |-> IF i = 0 THEN 0 ELSE 2 * v[i - 1] + bits[i]]
  <2>2. \A i \in 0 .. k : v[i] = IF i = 0 THEN 0 ELSE 2 * v[i - 1] + bits[i]
    BY <2>1 DEF Sums
  <2>3. \A i \in 0 .. k : w[i] = v[i]
    BY <2>2
  <2>4. \A i \in 0 .. k + 1 : i # 0 => i - 1 \in 0 .. k
    OBVIOUS
  <2>5. w = [i \in 0 .. k + 1 |-> IF i = 0 THEN 0 ELSE 2 * w[i - 1] + bits[i]]
    BY <2>3, <2>4
  <2> HIDE DEF w
  <2>6. Sums(w, bits, k + 1)
    BY <2>5 DEF Sums
  <2> QED
    BY <2>6
<1>3. n \in Good
  <2> HIDE DEF Good
  <2> QED
    BY <1>1, <1>2, CountingUp
<1> QED
  BY <1>3

(* The number that bits make up, and its bound. *)
LEMMA NumberBounds ==
    ASSUME NEW bits \in Seq({0, 1})
    PROVE  Number(bits) \in Nat /\ (Len(bits) <= Precision => Number(bits) < Power[Len(bits)])
<1> DEFINE n == Len(bits)
           v == CHOOSE u : Sums(u, bits, n)
           Good == {i \in 0 .. n : v[i] \in Nat /\ (i <= Precision => v[i] < Power[i])}
<1>1. n \in Nat /\ Precision \in Nat
  BY CoderAssumption
<1>2. Number(bits) = v[n]
  BY DEF Number, Sums
<1> HIDE DEF v
<1>3. \A i \in 0 .. n : v[i] = IF i = 0 THEN 0 ELSE 2 * v[i - 1] + bits[i]
  <2>1. Sums(v, bits, n)
    BY <1>1, SumsExist DEF v
  <2> QED
    BY <2>1 DEF Sums
<1>4. \A i \in 1 .. n : bits[i] \in {0, 1}
  OBVIOUS
<1> HIDE DEF n
<1>5. 0 \in Good
  BY <1>1, <1>3, PowerSteps
<1>6. ASSUME NEW i \in 0 .. n - 1, i \in Good PROVE i + 1 \in Good
  <2>1. i + 1 \in 1 .. n /\ (i + 1) - 1 = i
    BY <1>1
  <2>2. v[i + 1] = 2 * v[i] + bits[i + 1] /\ bits[i + 1] \in {0, 1} /\ v[i] \in Nat
    BY <1>1, <1>3, <1>4, <1>6, <2>1
  <2>3. ASSUME i + 1 <= Precision PROVE v[i + 1] < Power[i + 1]
    <3>1. i + 1 \in 1 .. Precision /\ i \in 0 .. Precision
      BY <1>1, <2>3
    <3>2. Power[i + 1] = 2 * Power[i] /\ Power[i] \in Nat
      BY <2>1, <3>1, PowerSteps, Powers
    <3>3. v[i] < Power[i]
      BY <1>6, <3>1
    <3>4. PICK p \in Nat : p = Power[i]
      BY <3>2
    <3> QED
      BY <2>2, <3>2, <3>3, <3>4
  <2> QED
    BY <1>1, <2>1, <2>2, <2>3
<1>7. n \in Good
  <2> HIDE DEF Good
  <2>1. \A i \in 0 .. n : i \in Good
    BY <1>1, <1>5, <1>6, CountingUp
  <2> QED
    BY <1>1, <2>1
<1> QED
  BY <1>2, <1>7 DEF n

(* The units of a sequence of bits. *)
LEMMA QuotientCounts ==
    ASSUME NEW width \in Nat \ {0}, NEW n \in Nat
    PROVE  /\ \A i \in 1 .. n * width : (i - 1) \div width \in 0 .. n - 1
           /\ \A i \in 1 .. n \div width : (i - 1) * width \in Nat /\ i * width = (i - 1) * width + width
                                           /\ i * width <= n
<1>1. ASSUME NEW i \in 1 .. n * width PROVE (i - 1) \div width \in 0 .. n - 1
  <2>1. n * width \in Nat
    OBVIOUS
  <2> DEFINE q == (i - 1) \div width
  <2>2. q \in Nat /\ i - 1 >= width * q /\ i - 1 < n * width
    <3>1. i - 1 \in Nat
      BY <2>1
    <3>2. q \in Nat /\ (i - 1) % width \in 0 .. width - 1 /\ i - 1 = width * q + ((i - 1) % width)
      BY <3>1, Division
    <3>3. width * q \in Nat
      BY <3>2
    <3> HIDE DEF q
    <3> QED
      BY <2>1, <3>2, <3>3
  <2> HIDE DEF q
  <2>3. CASE q >= n
    <3>1. PICK e \in Nat : q = n + e
      BY <2>2, <2>3
    <3>2. width * q = n * width + width * e /\ width * e \in Nat
      BY <3>1
    <3> QED
      BY <2>1, <2>2, <3>2
  <2>4. CASE q < n
    BY <2>2, <2>4 DEF q
  <2> QED
    BY <2>2, <2>3, <2>4
<1>2. ASSUME NEW i \in 1 .. n \div width
      PROVE  (i - 1) * width \in Nat /\ i * width = (i - 1) * width + width /\ i * width <= n
  <2> DEFINE q == n \div width
  <2>1. q \in Nat /\ width * q \in Nat /\ width * q <= n
    <3>1. q \in Nat /\ n % width \in 0 .. width - 1 /\ n = width * q + (n % width)
      BY Division
    <3>2. width * q \in Nat
      BY <3>1
    <3> HIDE DEF q
    <3> QED
      BY <3>1, <3>2
  <2>2. i \in 1 .. q
    OBVIOUS
  <2> HIDE DEF q
  <2>3. PICK e \in Nat : q = i + e
    BY <2>1, <2>2
  <2>4. width * q = i * width + width * e /\ width * e \in Nat /\ i * width \in Nat
    BY <2>2, <2>3
  <2>5. (i - 1) * width \in Nat /\ i * width = (i - 1) * width + width
    BY <2>2
  <2> QED
    BY <2>1, <2>4, <2>5
<1> QED
  BY <1>1, <1>2

(* Bits are bits. *)
LEMMA BitsAreBits ==
    ASSUME NEW s \in Seq(Nat), NEW width \in 1 .. ByteBits
    PROVE  BitsOf(s, width) \in Seq({0, 1})
<1> DEFINE n == Len(s)
           At(i) == (s[(i - 1) \div width + 1] \div Power[width - 1 - ((i - 1) % width)]) % 2
<1>1. width \in Nat \ {0} /\ width <= Precision /\ n \in Nat /\ Precision \in Nat
  BY CoderAssumption
<1>2. n * width \in Nat
  BY <1>1
<1>3. ASSUME NEW i \in 1 .. n * width PROVE At(i) \in {0, 1}
  <2>1. (i - 1) \div width \in 0 .. n - 1
    BY <1>1, QuotientCounts
  <2>2. PICK j \in 1 .. n : j = (i - 1) \div width + 1
    BY <1>1, <2>1
  <2>3. (i - 1) % width \in 0 .. width - 1
    <3>1. i - 1 \in Nat
      BY <1>2
    <3> QED
      BY <1>1, <3>1, Division
  <2>4. width - 1 - ((i - 1) % width) \in 0 .. Precision
    BY <1>1, <2>3
  <2>5. PICK p \in Nat \ {0} : p = Power[width - 1 - ((i - 1) % width)]
    BY <2>4, Powers
  <2>6. s[j] \in Nat
    OBVIOUS
  <2>7. s[j] \div p \in Nat
    BY <2>6, Division
  <2>8. (s[j] \div p) % 2 \in 0 .. 1
    BY <2>7
  <2> QED
    BY <2>2, <2>5, <2>8
<1>4. BitsOf(s, width) = [i \in 1 .. n * width |-> At(i)]
  BY DEF BitsOf
<1> HIDE DEF At, n
<1> QED
  BY <1>2, <1>3, <1>4

(* FromBits: whole units of bits are numbers. *)
LEMMA UnitsAreNumbers ==
    ASSUME NEW bits \in Seq({0, 1}), NEW width \in 1 .. ByteBits
    PROVE  FromBits(bits, width) \in Seq(Nat)
<1> DEFINE n == Len(bits)
           Unit(i) == Number(SubSeq(bits, (i - 1) * width + 1, i * width))
<1>1. width \in Nat \ {0} /\ n \in Nat
  BY CoderAssumption
<1>2. ASSUME NEW i \in 1 .. n \div width PROVE Unit(i) \in Nat
  <2>1. (i - 1) * width \in Nat /\ i * width = (i - 1) * width + width /\ i * width <= n
    BY <1>1, QuotientCounts
  <2>2. PICK a \in Nat : a = (i - 1) * width
    BY <2>1
  <2>3. a + width <= n
    BY <2>1, <2>2
  <2>4. SubSeq(bits, a + 1, a + width) \in Seq({0, 1})
    BY <1>1, <2>3
  <2> QED
    BY <2>1, <2>2, <2>4, NumberBounds
<1>3. n \div width \in Nat
  BY <1>1, Division
<1>4. FromBits(bits, width) = [i \in 1 .. n \div width |-> Unit(i)]
  BY DEF FromBits
<1> HIDE DEF Unit, n
<1> QED
  BY <1>2, <1>3, <1>4

(* A string that reads hands the decoder a stream of bits, and the full    *)
(* range holds the value it starts with.                                   *)
LEMMA StartHolds ==
    ASSUME NEW groups \in Seq(Groups)
    PROVE  DecoderOK(StartDecoder(GroupsToBytes(groups)))
<1> DEFINE bits == BitsOf(GroupsToBytes(groups), ByteBits)
           first == [i \in 1 .. Precision |-> BitAt(bits, i)]
           full == [low |-> 0, high |-> Full]
<1>1. GroupBits \in 1 .. ByteBits /\ ByteBits \in 1 .. ByteBits /\ Precision \in Nat
  BY CoderAssumption
<1>2. bits \in Seq({0, 1})
  <2>1. Groups \subseteq Nat
    <3>1. GroupBits \in 0 .. Precision
      BY CoderAssumption
    <3> QED
      BY <3>1, Powers DEF Groups
  <2>2. groups \in Seq(Nat)
    <3>1. Len(groups) \in Nat /\ groups = [i \in 1 .. Len(groups) |-> groups[i]]
      OBVIOUS
    <3>2. \A i \in 1 .. Len(groups) : groups[i] \in Groups
      OBVIOUS
    <3>3. \A i \in 1 .. Len(groups) : groups[i] \in Nat
      BY <2>1, <3>2
    <3> QED
      BY <3>1, <3>3
  <2>3. GroupsToBytes(groups) \in Seq(Nat)
    BY <1>1, <2>2, BitsAreBits, UnitsAreNumbers DEF GroupsToBytes
  <2> QED
    BY <1>1, <2>3, BitsAreBits
<1> HIDE DEF bits
<1>3. first \in Seq({0, 1}) /\ Len(first) = Precision
  <2>1. \A i \in 1 .. Precision : BitAt(bits, i) \in {0, 1}
    BY <1>1, <1>2, BitIsBit
  <2> QED
    BY <1>1, <2>1
<1> HIDE DEF first
<1>4. Number(first) \in Nat /\ Number(first) < Full
  BY <1>1, <1>3, NumberBounds DEF Full
<1>5. full \in Ranges /\ ~IsNarrow(full)
  BY Parts DEF Ranges, IsNarrow
<1>6. Holds(full, Number(first))
  BY <1>4 DEF Holds
<1>7. StartDecoder(GroupsToBytes(groups))
      = [bits |-> bits, read |-> Precision, range |-> full, model |-> StartModel, coded |-> <<>>, value |-> Number(first)]
  BY DEF StartDecoder, bits, first
<1> HIDE DEF full
<1>8. MaxData \in Nat /\ <<>> \in Seq(0 .. Base) /\ Len(<<>>) = 0
  BY Parts
<1> QED
  BY <1>1, <1>2, <1>4, <1>5, <1>6, <1>7, <1>8, StartModelOK DEF DecoderOK

-----------------------------------------------------------------------------
(* The reading *)

(* While symbols are read, the decoder is one a stream of bits leads to. *)
CodecInv == pc = "symbols" => DecoderOK(decoder)

LEMMA HandStarts == ASSUME NEW t, Hand(t) PROVE CodecInv'
<1>1. CASE TextReads(t)
  <2>1. t.groups \in Seq(Groups) /\ decoder' = StartDecoder(GroupsToBytes(t.groups))
    BY <1>1 DEF Hand, TextReads
  <2> QED
    BY <2>1, StartHolds DEF CodecInv
<1>2. CASE ~TextReads(t)
  BY <1>2 DEF Hand, CodecInv
<1> QED
  BY <1>1, <1>2

LEMMA ReadSymbolKeeps == ASSUME CodecInv, ReadSymbol PROVE CodecInv'
<1> DEFINE symbol == Find(decoder.range, decoder.model, decoder.value, slips)
           next == DecodeSymbol(decoder, symbol, slips)
<1>1. pc = "symbols" /\ DecoderOK(decoder)
  BY DEF ReadSymbol, CodecInv
<1>2. pc' = "symbols" => decoder' = next /\ Len(next.coded) <= MaxData
  <2> HIDE DEF next, symbol
  <2>1. \/ pc' = "data"
        \/ decoder' = next /\ Len(next.coded) <= MaxData
        \/ pc' = "refused"
    BY DEF ReadSymbol, Refuse, next, symbol
  <2> QED
    BY <2>1
<1>3. CASE pc' = "symbols"
  <2>1. DecoderOK(next)
    BY <1>1, <1>2, <1>3, DecodeKeeps
  <2> QED
    BY <1>2, <1>3, <2>1 DEF CodecInv
<1> QED
  BY <1>3 DEF CodecInv

LEMMA CodecInvHolds == Spec => []CodecInv
<1>1. Init => CodecInv
  BY DEF Init, CodecInv
<1>2. CodecInv /\ [Next]_vars => CodecInv'
  <2> SUFFICES ASSUME CodecInv, [Next]_vars PROVE CodecInv'
    OBVIOUS
  <2>1. CASE HandGenuine
    BY <2>1, HandStarts DEF HandGenuine
  <2>2. CASE HandTwisted
    <3>1. \E t : Hand(t)
      BY <2>2 DEF HandTwisted
    <3> QED
      BY <3>1, HandStarts
  <2>3. CASE HandForged
    BY <2>3, HandStarts DEF HandForged
  <2>4. CASE ReadSymbol
    BY <2>4, ReadSymbolKeeps
  <2>5. CASE ReadData
    BY <2>5 DEF ReadData, Refuse, CodecInv
  <2>6. CASE UNCHANGED vars
    BY <2>6 DEF vars, CodecInv
  <2> QED
    BY <2>1, <2>2, <2>3, <2>4, <2>5, <2>6 DEF Next
<1> QED
  BY <1>1, <1>2, PTL DEF Spec

(* arDecompress, find: whatever stream of bits a string carries, and       *)
(* however f64 rounds the shares, the current range holds the value and is *)
(* wide enough to give each symbol a share, and the value lies in the share*)
(* of the symbol found, the end marker's if it is in no byte's.            *)
THEOREM EveryValueLands == Spec => []ValueInRange
<1>1. CodecInv => ValueInRange
  <2> SUFFICES ASSUME CodecInv, pc = "symbols" PROVE ValueInRange
    BY DEF ValueInRange
  <2> DEFINE r == decoder.range
             m == decoder.model
             symbol == Find(r, m, decoder.value, slips)
             n == Len(decoder.coded)
  <2>1. DecoderOK(decoder)
    BY DEF CodecInv
  <2>2. n \in 0 .. MaxData /\ ModelOK(m, n) /\ r \in Ranges /\ ~IsNarrow(r) /\ decoder.value \in Int /\ Holds(r, decoder.value)
    BY <2>1, Parts DEF DecoderOK
  <2> HIDE DEF r, m, n
  <2>3. symbol \in 0 .. Base /\ Holds(SubRange(r, m, symbol, slips), decoder.value)
    BY <2>2, FindHolds
  <2> HIDE DEF symbol
  <2>4. symbol \in 0 .. Symbols /\ symbol + 1 \in 0 .. Symbols
    BY <2>3, Parts
  <2>5. Edge(r, m, symbol, slips) \in r.low .. r.high /\ Edge(r, m, symbol + 1, slips) \in r.low .. r.high
    BY <2>2, <2>4, Edges
  <2>6. r.high - r.low >= Quarter
    BY <2>2, RescaledIsWide
  <2>7. r.low \in Int /\ r.high \in Int
    BY <2>2, RangeParts, Parts
  <2>8. r.low <= SubRange(r, m, symbol, slips).low /\ SubRange(r, m, symbol, slips).high <= r.high
    BY <2>5, <2>7, SharesAreEdges
  <2> QED
    BY <2>3, <2>6, <2>8 DEF ValueInRange, Holds, r, m, symbol
<1> QED
  BY <1>1, CodecInvHolds, PTL

=============================================================================
