---------------------------- MODULE BulkLoad_proofs ----------------------------
(***************************************************************************)
(* Proofs about the tree of oram.cpp, for every height, and about BulkLoad: for *)
(* every tree and any records to load, what load writes is what ordinary       *)
(* accesses could have written.                                             *)
(***************************************************************************)
EXTENDS BulkLoad, LoadPlans, PathORAM_proofs, WellFoundedInduction

-----------------------------------------------------------------------------
(* Numbers *)

(* Induction for a set: of the numbers it lacks, none can be the least. *)
LEMMA UpTo ==
  ASSUME NEW n \in Nat, NEW S, 0 \in S, \A i \in 0 .. n - 1 : i \in S => i + 1 \in S
  PROVE  \A i \in 0 .. n : i \in S
<1> DEFINE missing == {i \in 0 .. n : i \notin S}
           T == {0 .. i : i \in missing}
           R == StrictSubsetOrdering(0 .. n)
<1> SUFFICES ASSUME missing # {} PROVE FALSE
  OBVIOUS
<1>1. IsWellFoundedOn(R, SUBSET (0 .. n))
  <2>1. IsFiniteSet(0 .. n)
    BY FS_Interval
  <2>2. FiniteSubsetsOf(0 .. n) = SUBSET (0 .. n)
    BY <2>1, FS_FiniteSubsetsOfFinite
  <2>3. IsWellFoundedOn(R, FiniteSubsetsOf(0 .. n))
    BY FS_StrictSubsetOrderingWellFounded
  <2> QED
    BY <2>2, <2>3
<1>2. T # {} /\ T \subseteq SUBSET (0 .. n)
  OBVIOUS
<1>3. PICK x \in T : \A y \in T : <<y, x>> \notin R
  <2> HIDE DEF T, R
  <2> QED
    BY <1>1, <1>2, WFMin
<1>4. PICK i \in missing : x = 0 .. i
  BY <1>3
<1>5. i # 0 /\ i - 1 \in 0 .. n - 1 /\ i - 1 \in missing
  <2>1. i \in 0 .. n /\ i \notin S /\ i # 0
    BY <1>4
  <2>2. i - 1 \in 0 .. n - 1 /\ (i - 1) + 1 = i
    BY <2>1
  <2> QED
    BY <2>1, <2>2
<1>6. 0 .. i - 1 \in T /\ 0 .. i - 1 \subseteq 0 .. i /\ 0 .. i - 1 # 0 .. i
  <2>1. i \in 0 .. i /\ i \notin 0 .. i - 1
    BY <1>4
  <2> QED
    BY <1>5, <2>1
<1>7. <<0 .. i - 1, 0 .. i>> \in R
  BY <1>4, <1>6 DEF StrictSubsetOrdering
<1> QED
  BY <1>3, <1>4, <1>6, <1>7

(* Powers of two double, as far as n: arithmetic that the provers lack. *)
Doubling(n) == 2^0 = 1 /\ \A k \in 0 .. n : 2^(k + 1) = 2 * 2^k

(* Powers of two are positive, and the larger the more. *)
LEMMA PowerFacts ==
  ASSUME NEW n \in Nat, Doubling(n)
  PROVE  /\ \A k \in 0 .. n + 1 : 2^k \in Nat \ {0} /\ k + 1 <= 2^k
         /\ \A k, l \in 0 .. n + 1 : k <= l => 2^k <= 2^l
         /\ \A k, l \in 0 .. n + 1 : k + l <= n + 1 => 2^(k + l) = 2^k * 2^l
<1>0. 2^0 = 1 /\ \A k \in 0 .. n : 2^(k + 1) = 2 * 2^k
  BY DEF Doubling
<1>1. \A k \in 0 .. n + 1 : 2^k \in Nat \ {0} /\ k + 1 <= 2^k
  <2> DEFINE S == {k \in 0 .. n + 1 : 2^k \in Nat \ {0} /\ k + 1 <= 2^k}
  <2>1. 0 \in S
    BY <1>0
  <2>2. ASSUME NEW i \in 0 .. (n + 1) - 1, i \in S
        PROVE  i + 1 \in S
    BY <1>0, <2>2
  <2>3. \A i \in 0 .. n + 1 : i \in S
    <3> HIDE DEF S
    <3> QED
      BY <2>1, <2>2, UpTo
  <2> QED
    BY <2>3
<1>2. ASSUME NEW k \in 0 .. n + 1
      PROVE  \A l \in 0 .. n + 1 - k : 2^(k + l) = 2^k * 2^l
  <2> DEFINE S == {l \in 0 .. n + 1 - k : 2^(k + l) = 2^k * 2^l}
  <2>1. 0 \in S
    BY <1>0, <1>1
  <2>2. ASSUME NEW i \in 0 .. (n + 1 - k) - 1, i \in S
        PROVE  i + 1 \in S
    <3>1. /\ i \in 0 .. n /\ k + i \in 0 .. n /\ i + 1 \in 0 .. n + 1 - k
          /\ k + (i + 1) = (k + i) + 1
      OBVIOUS
    <3>2. 2^(k + (i + 1)) = 2 * 2^(k + i) /\ 2^(i + 1) = 2 * 2^i
      BY <1>0, <3>1
    <3>3. 2^(k + i) = 2^k * 2^i /\ 2^k \in Nat /\ 2^i \in Nat
      BY <1>1, <2>2, <3>1
    <3>4. 2 * (2^k * 2^i) = 2^k * (2 * 2^i)
      BY <3>3
    <3> QED
      BY <3>1, <3>2, <3>3, <3>4
  <2>3. \A i \in 0 .. n + 1 - k : i \in S
    <3>1. n + 1 - k \in Nat
      OBVIOUS
    <3> HIDE DEF S
    <3> QED
      BY <2>1, <2>2, <3>1, UpTo
  <2> QED
    BY <2>3
<1>3. \A k, l \in 0 .. n + 1 : k + l <= n + 1 => 2^(k + l) = 2^k * 2^l
  <2>1. \A k, l \in 0 .. n + 1 : k + l <= n + 1 => l \in 0 .. n + 1 - k
    OBVIOUS
  <2> QED
    BY <1>2, <2>1
<1>4. ASSUME NEW k \in 0 .. n + 1, NEW l \in 0 .. n + 1, k <= l
      PROVE  2^k <= 2^l
  <2>1. l - k \in 0 .. n + 1 - k /\ k + (l - k) = l /\ l - k \in 0 .. n + 1
    BY <1>4
  <2>2. 2^l = 2^k * 2^(l - k)
    BY <1>2, <2>1
  <2>3. 2^k \in Nat /\ 2^(l - k) \in Nat \ {0}
    BY <1>1, <2>1
  <2>4. \A x, y \in Nat : y # 0 => x <= x * y
    <3> SUFFICES ASSUME NEW x \in Nat, NEW y \in Nat \ {0} PROVE x <= x * y
      OBVIOUS
    <3>1. x * y = x + x * (y - 1) /\ x * (y - 1) >= 0
      <4>1. y - 1 \in Nat
        OBVIOUS
      <4> QED
        BY <4>1
    <3> QED
      BY <3>1
  <2> QED
    BY <2>2, <2>3, <2>4
<1> QED
  BY <1>1, <1>3, <1>4

(* What dividing gives. *)
LEMMA Quotient ==
  ASSUME NEW x \in Int, NEW d \in Nat \ {0}
  PROVE  /\ x \div d \in Int
         /\ (x \div d) * d <= x /\ x < (x \div d) * d + d
  OBVIOUS

(* A quotient is known from the bounds of the dividend. *)
LEMMA QuotientIs ==
  ASSUME NEW x \in Int, NEW d \in Nat \ {0}, NEW q \in Int, q * d <= x, x < q * d + d
  PROVE  x \div d = q
  OBVIOUS

(* Bounds of a dividend are bounds of the quotient. *)
LEMMA QuotientBetween ==
  ASSUME NEW x \in Int, NEW d \in Nat \ {0}, NEW a \in Int, NEW b \in Int,
         a * d <= x, x < b * d
  PROVE  x \div d \in a .. b - 1
<1> DEFINE q == x \div d
<1>1. q \in Int /\ q * d <= x /\ x < q * d + d
  BY Quotient
<1> HIDE DEF q
<1>2. ASSUME q < a PROVE FALSE
  <2>1. a - (q + 1) \in Nat
    BY <1>1, <1>2
  <2>2. (a - (q + 1)) * d >= 0
    BY <2>1
  <2>3. (a - (q + 1)) * d = a * d - (q * d + d)
    BY <1>1
  <2> QED
    BY <1>1, <2>2, <2>3
<1>3. ASSUME b <= q PROVE FALSE
  <2>1. q - b \in Nat
    BY <1>1, <1>3
  <2>2. (q - b) * d >= 0
    BY <2>1
  <2>3. (q - b) * d = q * d - b * d
    BY <1>1
  <2> QED
    BY <1>1, <2>2, <2>3
<1> QED
  BY <1>1, <1>2, <1>3 DEF q

(* Dividing by twice a number is dividing by it and halving. *)
LEMMA QuotientHalved ==
  ASSUME NEW x \in Nat, NEW d \in Nat \ {0}
  PROVE  x \div (2 * d) = (x \div d) \div 2
<1> DEFINE q == x \div d
           r == q \div 2
<1>1. q \in Int /\ q * d <= x /\ x < q * d + d
  BY Quotient
<1>2. r \in Int /\ (q = 2 * r \/ q = 2 * r + 1)
  <2> HIDE DEF q
  <2> QED
    BY <1>1
<1> HIDE DEF q, r
<1>3. r * (2 * d) <= x /\ x < r * (2 * d) + 2 * d
  <2>1. (2 * r) * d = r * (2 * d) /\ (2 * r + 1) * d = r * (2 * d) + d
    BY <1>2
  <2> QED
    BY <1>1, <1>2, <2>1
<1>4. \A e \in Nat \ {0} : r * e <= x /\ x < r * e + e => x \div e = r
  BY <1>2, QuotientIs
<1>5. x \div (2 * d) = r
  <2>1. 2 * d \in Nat \ {0}
    OBVIOUS
  <2> QED
    BY <1>3, <1>4, <2>1, Zenon
<1> QED
  BY <1>5 DEF q, r

-----------------------------------------------------------------------------
(* The tree *)

(* The powers of two that a tree of h levels takes. *)
LEMMA TreePowers ==
  ASSUME NEW h \in Nat \ {0}, NEW n \in Nat, Doubling(n), h <= n, NEW l \in LevelsOf(h)
  PROVE  /\ 2^l \in Nat \ {0} /\ 2^(h - 1 - l) \in Nat \ {0} /\ 2^(h - 1) \in Nat \ {0}
         /\ 2^(h - 1) = 2^l * 2^(h - 1 - l)
         /\ 2^(l + 1) = 2 * 2^l /\ 2^(l + 1) <= 2^h /\ 2^h \in Nat
         /\ l \in 0 .. h - 1 /\ h - 1 - l \in 0 .. h - 1
<1>1. /\ l \in 0 .. h - 1 /\ h - 1 - l \in 0 .. h - 1 /\ l + (h - 1 - l) = h - 1
      /\ {l, h - 1 - l, h - 1, l + 1, h} \subseteq 0 .. n + 1 /\ l \in 0 .. n
  BY DEF LevelsOf
<1>2. \A k \in {l, h - 1 - l, h - 1, l + 1, h} : 2^k \in Nat \ {0}
  BY <1>1, PowerFacts
<1>3. 2^(h - 1) = 2^l * 2^(h - 1 - l)
  <2>1. 2^(l + (h - 1 - l)) = 2^l * 2^(h - 1 - l)
    BY <1>1, PowerFacts
  <2> QED
    BY <1>1, <2>1
<1>4. 2^(l + 1) <= 2^h
  BY <1>1, PowerFacts
<1>5. 2^(l + 1) = 2 * 2^l
  BY <1>1 DEF Doubling
<1> QED
  BY <1>1, <1>2, <1>3, <1>4, <1>5

(* The bucket of a level is one of those of that level. *)
LEMMA BucketOfLevel ==
  ASSUME NEW h \in Nat \ {0}, NEW n \in Nat, Doubling(n), h <= n,
         NEW l \in LevelsOf(h), NEW leaf \in LeavesOf(h)
  PROVE  BucketForLevelLeaf(h, l, leaf) \in 2^l .. 2^(l + 1) - 1
<1> DEFINE p == 2^l
           d == 2^(h - 1 - l)
           half == 2^(h - 1)
<1>1. p \in Nat \ {0} /\ d \in Nat \ {0} /\ half \in Nat \ {0} /\ half = p * d /\ 2^(l + 1) = 2 * p
  BY TreePowers
<1>2. BucketForLevelLeaf(h, l, leaf) = (leaf + half) \div d
  BY DEF BucketForLevelLeaf
<1>3. leaf \in 0 .. half - 1
  BY DEF LeavesOf
<1> HIDE DEF p, d, half
<1>4. leaf + half \in Int /\ p * d <= leaf + half /\ leaf + half < (2 * p) * d
  <2>1. (2 * p) * d = half + half
    BY <1>1
  <2> QED
    BY <1>1, <1>3, <2>1
<1>5. (leaf + half) \div d \in p .. (2 * p) - 1
  <2>1. p \in Int /\ 2 * p \in Int
    BY <1>1
  <2> QED
    BY <1>1, <1>4, <2>1, QuotientBetween, Zenon
<1> QED
  BY <1>1, <1>2, <1>5 DEF p

(* What PathORAM assumes of its tree is true of the tree of oram.cpp, whatever  *)
(* its height: the buckets bucketForLevelLeaf computes are among its 2^h - 1    *)
(* locations, and no two levels share one.                                    *)
THEOREM TreeAsAssumed ==
  ASSUME NEW h \in Nat \ {0}, NEW n \in Nat, Doubling(n), h <= n
  PROVE  /\ \A l \in LevelsOf(h), leaf \in LeavesOf(h) :
              BucketForLevelLeaf(h, l, leaf) \in LocationsOf(h)
         /\ \A l, m \in LevelsOf(h), x, y \in LeavesOf(h) :
              BucketForLevelLeaf(h, l, x) = BucketForLevelLeaf(h, m, y) => l = m
<1>1. ASSUME NEW l \in LevelsOf(h), NEW leaf \in LeavesOf(h)
      PROVE  BucketForLevelLeaf(h, l, leaf) \in LocationsOf(h)
  BY BucketOfLevel, TreePowers DEF LocationsOf
<1>2. ASSUME NEW l \in LevelsOf(h), NEW m \in LevelsOf(h), l < m,
             NEW x \in LeavesOf(h), NEW y \in LeavesOf(h)
      PROVE  BucketForLevelLeaf(h, l, x) < BucketForLevelLeaf(h, m, y)
  <2>1. l \in 0 .. n + 1 /\ m \in 0 .. n + 1 /\ l + 1 \in 0 .. n + 1 /\ l + 1 <= m
    BY <1>2 DEF LevelsOf
  <2>2. 2^(l + 1) <= 2^m
    BY <2>1, PowerFacts
  <2>3. 2^l \in Nat /\ 2^(l + 1) \in Nat /\ 2^m \in Nat /\ 2^(m + 1) \in Nat
    BY TreePowers
  <2>4. /\ BucketForLevelLeaf(h, l, x) \in 2^l .. 2^(l + 1) - 1
        /\ BucketForLevelLeaf(h, m, y) \in 2^m .. 2^(m + 1) - 1
    BY BucketOfLevel
  <2> QED
    BY <2>2, <2>3, <2>4
<1>3. \A l \in LevelsOf(h), leaf \in LeavesOf(h) : BucketForLevelLeaf(h, l, leaf) \in Int
  BY <1>1 DEF LocationsOf
<1>4. \A l, m \in LevelsOf(h) : l < m \/ m < l \/ l = m
  BY DEF LevelsOf
<1> QED
  BY <1>1, <1>2, <1>3, <1>4

(* The bucket of the level above is the parent in heap order. *)
LEMMA ParentAbove ==
  ASSUME NEW h \in Nat \ {0}, NEW n \in Nat, Doubling(n), h <= n,
         NEW l \in LevelsOf(h) \ {0}, NEW leaf \in LeavesOf(h)
  PROVE  BucketForLevelLeaf(h, l - 1, leaf) = BucketForLevelLeaf(h, l, leaf) \div 2
<1> DEFINE d == 2^(h - 1 - l)
           half == 2^(h - 1)
<1>1. h - 1 - (l - 1) = (h - 1 - l) + 1 /\ h - 1 - l \in 0 .. n
  BY DEF LevelsOf
<1>2. 2^(h - 1 - (l - 1)) = 2 * d /\ d \in Nat \ {0} /\ half \in Nat
  <2>1. 2^((h - 1 - l) + 1) = 2 * 2^(h - 1 - l)
    BY <1>1 DEF Doubling
  <2> QED
    BY <1>1, <2>1, TreePowers
<1>3. leaf + half \in Nat
  BY <1>2 DEF LeavesOf
<1> HIDE DEF d, half
<1>4. (leaf + half) \div (2 * d) = ((leaf + half) \div d) \div 2
  BY <1>2, <1>3, QuotientHalved
<1> QED
  BY <1>2, <1>4 DEF BucketForLevelLeaf, d, half

(* Whatever the height: the buckets bucketForLevelLeaf gives on the levels are  *)
(* a branch of the tree, from the root over children to the location that is    *)
(* the leaf's own.                                                          *)
THEOREM PathGoesDown ==
  ASSUME NEW h \in Nat \ {0}, NEW n \in Nat, Doubling(n), h <= n, NEW leaf \in LeavesOf(h)
  PROVE  /\ BucketForLevelLeaf(h, 0, leaf) = 1
         /\ \A l \in LevelsOf(h) \ {0} :
              BucketForLevelLeaf(h, l, leaf)
                \in {2 * BucketForLevelLeaf(h, l - 1, leaf), 2 * BucketForLevelLeaf(h, l - 1, leaf) + 1}
         /\ BucketForLevelLeaf(h, h - 1, leaf) = leaf + 2^(h - 1)
<1>1. 0 \in LevelsOf(h) /\ h - 1 \in LevelsOf(h) /\ h - 1 - (h - 1) = 0 /\ 0 \in 0 .. n
  BY DEF LevelsOf
<1>2. 2^0 = 1 /\ 2^(0 + 1) = 2 * 2^0
  BY <1>1 DEF Doubling
<1>3. BucketForLevelLeaf(h, 0, leaf) = 1
  <2>1. BucketForLevelLeaf(h, 0, leaf) \in 2^0 .. 2^(0 + 1) - 1
    BY <1>1, BucketOfLevel
  <2> QED
    BY <1>2, <2>1
<1>4. ASSUME NEW l \in LevelsOf(h) \ {0}
      PROVE  BucketForLevelLeaf(h, l, leaf)
               \in {2 * BucketForLevelLeaf(h, l - 1, leaf), 2 * BucketForLevelLeaf(h, l - 1, leaf) + 1}
  <2>1. BucketForLevelLeaf(h, l - 1, leaf) = BucketForLevelLeaf(h, l, leaf) \div 2
    BY ParentAbove
  <2>2. BucketForLevelLeaf(h, l, leaf) \in Nat
    BY TreeAsAssumed DEF LocationsOf
  <2>3. \A b \in Nat : b \in {2 * (b \div 2), 2 * (b \div 2) + 1}
    OBVIOUS
  <2> QED
    BY <2>1, <2>2, <2>3
<1>5. BucketForLevelLeaf(h, h - 1, leaf) = leaf + 2^(h - 1)
  <2>1. 2^(h - 1) \in Nat
    BY <1>1, TreePowers
  <2>2. leaf + 2^(h - 1) \in Nat
    BY <2>1 DEF LeavesOf
  <2>3. \A v \in Nat : v \div 1 = v
    OBVIOUS
  <2> QED
    BY <1>1, <1>2, <2>2, <2>3 DEF BucketForLevelLeaf
<1> QED
  BY <1>3, <1>4, <1>5

(* Above a shared bucket everything is shared. *)
LEMMA SharedAbove ==
  ASSUME NEW h \in Nat \ {0}, NEW n \in Nat, Doubling(n), h <= n,
         NEW x \in LeavesOf(h), NEW y \in LeavesOf(h),
         NEW level \in LevelsOf(h), CanIncludeAt(h, x, y, level)
  PROVE  \A above \in LevelsOf(h) : above <= level => CanIncludeAt(h, x, y, above)
<1> DEFINE S == {i \in 0 .. level : CanIncludeAt(h, x, y, level - i)}
<1>1. level \in Nat /\ level <= h - 1
  BY DEF LevelsOf
<1>2. 0 \in S
  BY <1>1
<1>3. ASSUME NEW i \in 0 .. level - 1, i \in S
      PROVE  i + 1 \in S
  <2> DEFINE l == level - i
  <2>1. l \in LevelsOf(h) \ {0} /\ level - (i + 1) = l - 1 /\ i + 1 \in 0 .. level
    BY <1>1 DEF LevelsOf
  <2>2. BucketForLevelLeaf(h, l, x) = BucketForLevelLeaf(h, l, y)
    BY <1>3 DEF CanIncludeAt
  <2> HIDE DEF l
  <2>3. CanIncludeAt(h, x, y, l - 1)
    BY <2>1, <2>2, ParentAbove DEF CanIncludeAt
  <2> QED
    BY <2>1, <2>3
<1>4. \A i \in 0 .. level : i \in S
  <2> HIDE DEF S
  <2> QED
    BY <1>1, <1>2, <1>3, UpTo
<1>5. ASSUME NEW above \in LevelsOf(h), above <= level
      PROVE  CanIncludeAt(h, x, y, above)
  <2>1. level - above \in 0 .. level /\ level - (level - above) = above
    BY <1>1, <1>5 DEF LevelsOf
  <2> QED
    BY <1>4, <2>1
<1> QED
  BY <1>5

(* Whatever the height and the leaves: the buckets two paths share are those of *)
(* the levels that canInclude accepts, from the root down to one of them. So a  *)
(* block that eviction accepts for a bucket lies on its own path.             *)
THEOREM SharedFromTheRoot ==
  ASSUME NEW h \in Nat \ {0}, NEW n \in Nat, Doubling(n), h <= n,
         NEW x \in LeavesOf(h), NEW y \in LeavesOf(h)
  PROVE  LET accepts == {level \in LevelsOf(h) : CanIncludeAt(h, x, y, level)}
         IN  /\ ReadPathLocations(h, x) \cap ReadPathLocations(h, y)
                  = {BucketForLevelLeaf(h, level, x) : level \in accepts}
             /\ \A level \in accepts, above \in LevelsOf(h) :
                  above <= level => above \in accepts
<1> DEFINE accepts == {level \in LevelsOf(h) : CanIncludeAt(h, x, y, level)}
<1>1. ReadPathLocations(h, x) \cap ReadPathLocations(h, y)
        = {BucketForLevelLeaf(h, level, x) : level \in accepts}
  <2>1. ASSUME NEW l \in LevelsOf(h), NEW m \in LevelsOf(h),
               BucketForLevelLeaf(h, l, x) = BucketForLevelLeaf(h, m, y)
        PROVE  l \in accepts
    <3>1. l = m
      BY <2>1, TreeAsAssumed
    <3> QED
      BY <2>1, <3>1 DEF CanIncludeAt
  <2> QED
    BY <2>1 DEF ReadPathLocations, CanIncludeAt
<1>2. \A level \in accepts, above \in LevelsOf(h) : above <= level => above \in accepts
  BY SharedAbove
<1> QED
  BY <1>1, <1>2

(* The level of a location, and of no other. *)
LEMMA LevelFacts ==
  ASSUME NEW n \in Nat, Doubling(n), NEW location \in Nat \ {0}, location <= n
  PROVE  /\ LevelOfLocation(location) \in 0 .. location
         /\ 2^LevelOfLocation(location) <= location
         /\ location < 2^(LevelOfLocation(location) + 1)
         /\ \A level \in 0 .. n : 2^level <= location /\ location < 2^(level + 1)
               => level = LevelOfLocation(location)
<1> DEFINE Fits(level) == 2^level <= location /\ location < 2^(level + 1)
<1>1. /\ \A k \in 0 .. n + 1 : 2^k \in Nat \ {0} /\ k + 1 <= 2^k
      /\ \A k, l \in 0 .. n + 1 : k <= l => 2^k <= 2^l
  BY PowerFacts
<1>2. \E level \in 0 .. location : Fits(level)
  <2> SUFFICES ASSUME \A level \in 0 .. location : ~Fits(level) PROVE FALSE
    OBVIOUS
  <2> DEFINE S == {k \in 0 .. location : 2^k <= location}
  <2>1. 0 \in S
    BY DEF Doubling
  <2>2. ASSUME NEW i \in 0 .. location - 1, i \in S
        PROVE  i + 1 \in S
    <3>1. i \in 0 .. location /\ i + 1 \in 0 .. location /\ i + 1 \in 0 .. n + 1
      OBVIOUS
    <3>2. ~(location < 2^(i + 1))
      BY <2>2, <3>1
    <3>3. 2^(i + 1) \in Nat
      BY <1>1, <3>1
    <3> QED
      BY <3>1, <3>2, <3>3
  <2>3. location \in S
    <3> HIDE DEF S
    <3>1. \A i \in 0 .. location : i \in S
      BY <2>1, <2>2, UpTo
    <3> QED
      BY <3>1
  <2>4. location \in 0 .. n + 1
    OBVIOUS
  <2>5. 2^location \in Nat /\ location + 1 <= 2^location
    BY <1>1, <2>4
  <2> QED
    BY <2>3, <2>5
<1>3. LevelOfLocation(location) \in 0 .. location /\ Fits(LevelOfLocation(location))
  BY <1>2 DEF LevelOfLocation
<1>4. ASSUME NEW k \in 0 .. n, NEW l \in 0 .. n, Fits(k), Fits(l), k < l
      PROVE  FALSE
  <2>1. k + 1 \in 0 .. n + 1 /\ l \in 0 .. n + 1 /\ k + 1 <= l
    BY <1>4
  <2>2. 2^(k + 1) <= 2^l /\ 2^(k + 1) \in Nat /\ 2^l \in Nat
    BY <1>1, <2>1
  <2> QED
    BY <1>4, <2>2
<1>5. ASSUME NEW level \in 0 .. n, Fits(level)
      PROVE  level = LevelOfLocation(location)
  <2> DEFINE m == LevelOfLocation(location)
  <2>1. m \in 0 .. n /\ Fits(m)
    BY <1>3
  <2> HIDE DEF m, Fits
  <2>2. ~(level < m) /\ ~(m < level)
    BY <1>4, <1>5, <2>1
  <2> QED
    BY <2>1, <2>2 DEF m
<1> QED
  BY <1>3, <1>5

(* The level of a location is one of the tree; its leaves are as many as the    *)
(* levels below make, in order.                                             *)
LEMMA LeafRange ==
  ASSUME NEW h \in Nat \ {0}, NEW n \in Nat, Doubling(n), h <= n, 2^h <= n,
         NEW location \in LocationsOf(h)
  PROVE  LET level == LevelOfLocation(location)
             d     == 2^(h - 1 - level)
             half  == 2^(h - 1)
         IN  /\ location \in Nat \ {0} /\ level \in LevelsOf(h)
             /\ 2^level <= location /\ location < 2^(level + 1)
             /\ \A l \in 0 .. n : 2^l <= location /\ location < 2^(l + 1) => l = level
             /\ d \in Nat \ {0} /\ half \in Nat \ {0}
             /\ LeavesForLocation(h, location)[1] = location * d - half
             /\ LeavesForLocation(h, location)[2] = (location + 1) * d - 1 - half
<1> DEFINE level == LevelOfLocation(location)
           d == 2^(h - 1 - level)
           half == 2^(h - 1)
<1>1. location \in Nat \ {0} /\ location < 2^h /\ 2^h \in Nat
  <2>1. h \in 0 .. n + 1
    OBVIOUS
  <2>2. 2^h \in Nat
    BY <2>1, PowerFacts
  <2> QED
    BY <2>2 DEF LocationsOf
<1>2. /\ level \in Nat /\ level <= n /\ 2^level <= location /\ location < 2^(level + 1)
      /\ \A l \in 0 .. n : 2^l <= location /\ location < 2^(l + 1) => l = level
  <2>1. location <= n
    BY <1>1
  <2> QED
    BY <1>1, <2>1, LevelFacts
<1> HIDE DEF level
<1>3. level \in LevelsOf(h)
  <2> SUFFICES ASSUME h <= level PROVE FALSE
    BY <1>2 DEF LevelsOf
  <2>1. h \in 0 .. n + 1 /\ level \in 0 .. n + 1
    BY <1>2
  <2>2. 2^h <= 2^level /\ 2^level \in Nat
    BY <2>1, PowerFacts
  <2> QED
    BY <1>1, <1>2, <2>2
<1>4. d \in Nat \ {0} /\ half \in Nat \ {0} /\ h - level - 1 = h - 1 - level
  BY <1>3, TreePowers DEF LevelsOf
<1>5. /\ LeavesForLocation(h, location)[1] = location * d - half
      /\ LeavesForLocation(h, location)[2] = (location + 1) * d - 1 - half
  BY <1>4 DEF LeavesForLocation, level
<1> QED
  BY <1>1, <1>2, <1>3, <1>4, <1>5 DEF level, d, half

(* Whatever the height: leavesForLocation gives exactly the leaves whose path   *)
(* goes through the location, those that load may map its records to.          *)
THEOREM LeavesBelow ==
  ASSUME NEW h \in Nat \ {0}, NEW n \in Nat, Doubling(n), h <= n, 2^h <= n,
         NEW location \in LocationsOf(h), NEW leaf \in LeavesOf(h)
  PROVE  location \in ReadPathLocations(h, leaf)
           <=> leaf \in LeavesForLocation(h, location)[1] .. LeavesForLocation(h, location)[2]
<1> DEFINE level == LevelOfLocation(location)
           d == 2^(h - 1 - level)
           half == 2^(h - 1)
<1>1. /\ location \in Nat \ {0}
      /\ \A l \in 0 .. n : 2^l <= location /\ location < 2^(l + 1) => l = level
      /\ level \in LevelsOf(h)
      /\ d \in Nat \ {0} /\ half \in Nat \ {0}
      /\ LeavesForLocation(h, location)[1] = location * d - half
      /\ LeavesForLocation(h, location)[2] = (location + 1) * d - 1 - half
  BY LeafRange
<1> HIDE DEF level
<1>2. BucketForLevelLeaf(h, level, leaf) = (leaf + half) \div d
  BY DEF BucketForLevelLeaf
<1>3. leaf \in Nat
  BY <1>1 DEF LeavesOf
<1>4. location \in ReadPathLocations(h, leaf) <=> BucketForLevelLeaf(h, level, leaf) = location
  <2>1. ASSUME NEW l \in LevelsOf(h), BucketForLevelLeaf(h, l, leaf) = location
        PROVE  l = level
    <3>1. location \in 2^l .. 2^(l + 1) - 1 /\ 2^l \in Nat /\ 2^(l + 1) \in Nat
      BY <2>1, BucketOfLevel, TreePowers
    <3>2. l \in 0 .. n
      BY DEF LevelsOf
    <3> QED
      BY <1>1, <3>1, <3>2
  <2> QED
    BY <1>1, <2>1 DEF ReadPathLocations
<1> HIDE DEF d, half
<1>5. ASSUME leaf \in location * d - half .. (location + 1) * d - 1 - half
      PROVE  (leaf + half) \div d = location
  <2>1. leaf + half \in Int /\ location * d <= leaf + half
        /\ leaf + half < location * d + d
    BY <1>1, <1>3, <1>5
  <2> QED
    BY <1>1, <2>1, QuotientIs
<1>6. ASSUME (leaf + half) \div d = location
       PROVE  leaf \in location * d - half .. (location + 1) * d - 1 - half
  <2>1. location * d <= leaf + half /\ leaf + half < location * d + d
    <3>1. leaf + half \in Int
      BY <1>1, <1>3
    <3>2. /\ ((leaf + half) \div d) * d <= leaf + half
          /\ leaf + half < ((leaf + half) \div d) * d + d
      BY <1>1, <3>1, Quotient
    <3> QED
      BY <1>6, <3>2, Zenon
  <2>2. (location + 1) * d = location * d + d /\ location * d \in Int
    BY <1>1
  <2> QED
    BY <1>1, <1>3, <2>1, <2>2
<1> QED
  BY <1>1, <1>2, <1>4, <1>5, <1>6

(* What a tree of h levels is: its root, and its last level. *)
LEMMA LastLevel ==
  ASSUME NEW h \in Nat \ {0}, NEW n \in Nat, Doubling(n), h <= n
  PROVE  /\ 2^(h - 1) \in Nat \ {0} /\ 2^h = 2 * 2^(h - 1)
         /\ LeafLocations(h) = 2^(h - 1) .. 2^h - 1
<1>1. h - 1 \in 0 .. n /\ (h - 1) + 1 = h /\ 0 \in LevelsOf(h)
  BY DEF LevelsOf
<1>2. 2^(h - 1) \in Nat \ {0}
  BY <1>1, TreePowers
<1>3. 2^h = 2 * 2^(h - 1)
  <2>1. 2^((h - 1) + 1) = 2 * 2^(h - 1)
    BY <1>1 DEF Doubling
  <2> QED
    BY <1>1, <2>1
<1> DEFINE half == 2^(h - 1)
<1>4. \A k \in 1 .. 2 * half - 1 : 2 * k \notin 1 .. 2 * half - 1 <=> k \in half .. 2 * half - 1
  <2> HIDE DEF half
  <2> QED
    BY <1>2 DEF half
<1>5. LocationsOf(h) = 1 .. 2 * half - 1
  BY <1>3 DEF LocationsOf
<1>6. half .. 2 * half - 1 \subseteq 1 .. 2 * half - 1
  BY <1>2
<1>7. LeafLocations(h) = half .. 2 * half - 1
  <2> HIDE DEF half
  <2> QED
    BY <1>4, <1>5, <1>6 DEF LeafLocations
<1> QED
  BY <1>2, <1>3, <1>7

(* The path of a leaf has a bucket for each level. *)
LEMMA PathLength ==
  ASSUME NEW h \in Nat \ {0}, NEW n \in Nat, Doubling(n), h <= n, NEW leaf \in LeavesOf(h)
  PROVE  Cardinality(ReadPathLocations(h, leaf)) = h
<1> DEFINE path == ReadPathLocations(h, leaf)
           f == [l \in LevelsOf(h) |-> BucketForLevelLeaf(h, l, leaf)]
<1>1. \A l, m \in LevelsOf(h) : f[l] = f[m] => l = m
  BY TreeAsAssumed
<1>2. f \in Bijection(LevelsOf(h), path)
  <2>1. f \in [LevelsOf(h) -> path] /\ \A p \in path : \E l \in LevelsOf(h) : f[l] = p
    BY DEF ReadPathLocations
  <2> HIDE DEF f, path
  <2> QED
    BY <1>1, <2>1 DEF Bijection, Injection, Surjection, IsInjective
<1>3. IsFiniteSet(LevelsOf(h)) /\ Cardinality(LevelsOf(h)) = h
  <2>1. 0 \in Int /\ h - 1 \in Int
    OBVIOUS
  <2>2. IsFiniteSet(0 .. h - 1) /\ Cardinality(0 .. h - 1) = h
    BY <2>1, FS_Interval
  <2> QED
    BY <2>2 DEF LevelsOf
<1>4. ExistsBijection(LevelsOf(h), path)
  BY <1>2 DEF ExistsBijection
<1> HIDE DEF path, f
<1>5. Cardinality(path) = Cardinality(LevelsOf(h))
  BY <1>3, <1>4, FS_Bijection
<1> QED
  BY <1>3, <1>5 DEF path

(* The path of a leaf is a branch. *)
LEMMA PathBranches ==
  ASSUME NEW h \in Nat \ {0}, NEW n \in Nat, Doubling(n), h <= n, NEW leaf \in LeavesOf(h)
  PROVE  IsBranch(ReadPathLocations(h, leaf), leaf + 2^(h - 1))
<1> DEFINE path == ReadPathLocations(h, leaf)
           B(l) == BucketForLevelLeaf(h, l, leaf)
<1>1. /\ B(0) = 1 /\ B(h - 1) = leaf + 2^(h - 1)
      /\ \A l \in LevelsOf(h) \ {0} : B(l) \in {2 * B(l - 1), 2 * B(l - 1) + 1}
  BY PathGoesDown
<1>2. path = {B(l) : l \in LevelsOf(h)}
  BY DEF ReadPathLocations
<1>3. /\ 0 \in LevelsOf(h) /\ h - 1 \in LevelsOf(h)
      /\ \A l \in LevelsOf(h) \ {0} : l - 1 \in LevelsOf(h)
      /\ \A l \in LevelsOf(h) \ {h - 1} : l + 1 \in LevelsOf(h) \ {0} /\ (l + 1) - 1 = l
  BY DEF LevelsOf
<1> HIDE DEF path, B
<1>4. \A k \in path \ {1} : \E p \in path : k \in {2 * p, 2 * p + 1}
  <2> SUFFICES ASSUME NEW l \in LevelsOf(h), B(l) # 1
               PROVE  \E p \in path : B(l) \in {2 * p, 2 * p + 1}
    BY <1>2
  <2>1. l \in LevelsOf(h) \ {0} /\ B(l - 1) \in path
    BY <1>1, <1>2, <1>3
  <2> QED
    BY <1>1, <2>1
<1>5. \A k \in path \ {leaf + 2^(h - 1)} : \E c \in path : c \in {2 * k, 2 * k + 1}
  <2> SUFFICES ASSUME NEW l \in LevelsOf(h), B(l) # B(h - 1)
               PROVE  \E c \in path : c \in {2 * B(l), 2 * B(l) + 1}
    BY <1>1, <1>2
  <2>1. l + 1 \in LevelsOf(h) \ {0} /\ B(l + 1) \in path /\ (l + 1) - 1 = l
    BY <1>2, <1>3
  <2>2. B(l + 1) \in {2 * B(l), 2 * B(l) + 1}
    BY <1>1, <2>1
  <2> QED
    BY <2>1, <2>2
<1>6. 1 \in path /\ leaf + 2^(h - 1) \in path
  BY <1>1, <1>2, <1>3
<1> QED
  BY <1>4, <1>5, <1>6 DEF IsBranch, path

(* There are as many leaves to the left of a leaf as its number says. *)
LEMMA LeavesToTheLeft ==
  ASSUME NEW h \in Nat \ {0}, NEW n \in Nat, Doubling(n), h <= n, NEW leaf \in LeavesOf(h)
  PROVE  /\ leaf + 2^(h - 1) \in LeafLocations(h)
         /\ Cardinality({k \in LeafLocations(h) : k < leaf + 2^(h - 1)}) = leaf
<1> DEFINE half == 2^(h - 1)
<1>1. /\ half \in Nat \ {0} /\ LeafLocations(h) = half .. 2 * half - 1
      /\ leaf \in 0 .. half - 1
  BY LastLevel DEF LeavesOf
<1> HIDE DEF half
<1>2. {k \in LeafLocations(h) : k < leaf + half} = half .. leaf + half - 1
  BY <1>1
<1>3. Cardinality(half .. leaf + half - 1) = leaf
  <2>1. half \in Int /\ leaf + half - 1 \in Int /\ (leaf + half - 1) - half + 1 = leaf
        /\ (half > leaf + half - 1 <=> leaf = 0)
    BY <1>1
  <2> QED
    BY <2>1, FS_Interval
<1>4. leaf + half \in LeafLocations(h)
  BY <1>1
<1> QED
  BY <1>2, <1>3, <1>4 DEF half

(* The leaves of a location are leaves of the tree. *)
LEMMA LeavesOfTree ==
  ASSUME NEW h \in Nat \ {0}, NEW n \in Nat, Doubling(n), h <= n, 2^h <= n,
         NEW location \in LocationsOf(h)
  PROVE  LeavesForLocation(h, location)[1] .. LeavesForLocation(h, location)[2] \subseteq LeavesOf(h)
<1> DEFINE level == LevelOfLocation(location)
           d == 2^(h - 1 - level)
           half == 2^(h - 1)
<1>1. /\ location \in Nat \ {0} /\ level \in LevelsOf(h)
      /\ 2^level <= location /\ location < 2^(level + 1)
      /\ d \in Nat \ {0} /\ half \in Nat \ {0}
      /\ LeavesForLocation(h, location)[1] = location * d - half
      /\ LeavesForLocation(h, location)[2] = (location + 1) * d - 1 - half
  BY LeafRange
<1>2. 2^level \in Nat /\ half = 2^level * d /\ 2^(level + 1) = 2 * 2^level
  BY <1>1, TreePowers
<1> DEFINE p == 2^level
<1>3. p * d <= location * d /\ (location + 1) * d <= (2 * p) * d
  <2> HIDE DEF level, d, half
  <2>1. location - p \in Nat /\ (2 * p) - (location + 1) \in Nat
    BY <1>1, <1>2
  <2> HIDE DEF p
  <2>2. (location - p) * d >= 0 /\ ((2 * p) - (location + 1)) * d >= 0
    BY <1>1, <2>1
  <2>3. p \in Nat
    BY <1>2 DEF p
  <2>4. (location - p) * d = location * d - p * d
        /\ ((2 * p) - (location + 1)) * d = (2 * p) * d - (location + 1) * d
    BY <1>1, <2>3
  <2>5. location * d \in Int /\ p * d \in Int /\ (2 * p) * d \in Int /\ (location + 1) * d \in Int
    BY <1>1, <2>3
  <2> QED
    BY <2>2, <2>4, <2>5
<1>4. (2 * p) * d = half + half /\ p * d = half
  BY <1>1, <1>2
<1> HIDE DEF p, d, half
<1>5. location * d - half >= 0 /\ (location + 1) * d - 1 - half <= half - 1
      /\ location * d - half \in Int /\ (location + 1) * d - 1 - half \in Int
  BY <1>1, <1>3, <1>4
<1>6. location * d - half .. (location + 1) * d - 1 - half \subseteq 0 .. half - 1
  BY <1>1, <1>5
<1> QED
  BY <1>1, <1>6 DEF LeavesOf, half

(* What an input is that stands for a tree. *)
LEMMA TreeInput ==
  ASSUME NEW n \in Nat, MaxHeight <= n,
         NEW Others, \A other \in Others : other.kind # "tree",
         NEW i \in Trees \cup Others, i.kind = "tree"
  PROVE  /\ i.height \in 1 .. MaxHeight /\ i.height \in Nat \ {0} /\ i.height <= n
         /\ i.leaf \in LeavesOf(i.height) /\ i.other \in LeavesOf(i.height)
         /\ i.location \in LocationsOf(i.height)
<1>1. i \in Trees
  OBVIOUS
<1>2. PICK h \in 1 .. MaxHeight :
        i \in [kind : {"tree"}, height : {h}, leaf : LeavesOf(h), other : LeavesOf(h),
               location : LocationsOf(h)]
  BY <1>1 DEF Trees
<1>3. i.height = h
  BY <1>2
<1>4. h \in Nat \ {0} /\ h <= n
  BY <1>2, HeightAssumption
<1> QED
  BY <1>2, <1>3, <1>4

(* For trees of any height, whatever else the inputs are: the path to a leaf is  *)
(* a branch of the tree, with one bucket for each level, to the leaf that has   *)
(* as many to its left as its number says.                                    *)
THEOREM PathsAreBranches ==
  ASSUME NEW n \in Nat, Doubling(n), MaxHeight <= n,
         NEW Others, \A other \in Others : other.kind # "tree"
  PROVE  Given(Trees \cup Others) => []PathIsBranch
<1> DEFINE inputs == Trees \cup Others
<1>1. input \in inputs => PathIsBranch
  <2> SUFFICES ASSUME input \in inputs, input.kind = "tree"
               PROVE  PathIsBranch
    BY DEF PathIsBranch
  <2> DEFINE h == input.height
             leaf == input.leaf
  <2>1. h \in Nat \ {0} /\ h <= n /\ leaf \in LeavesOf(h)
    BY TreeInput
  <2> HIDE DEF h, leaf
  <2>2. /\ leaf + 2^(h - 1) \in LeafLocations(h)
        /\ IsBranch(ReadPathLocations(h, leaf), leaf + 2^(h - 1))
        /\ Cardinality(ReadPathLocations(h, leaf)) = h
        /\ Cardinality({k \in LeafLocations(h) : k < leaf + 2^(h - 1)}) = leaf
    BY <2>1, LeavesToTheLeft, PathBranches, PathLength
  <2> QED
    BY <2>2 DEF PathIsBranch, h, leaf
<1>2. input \in inputs /\ [UNCHANGED input]_input => (input \in inputs)'
  OBVIOUS
<1> QED
  BY <1>1, <1>2, PTL DEF Given

(* For trees of any height: two paths share the buckets of the levels that      *)
(* canInclude accepts, and these go down from the root.                        *)
THEOREM PathsShareTheirTop ==
  ASSUME NEW n \in Nat, Doubling(n), MaxHeight <= n,
         NEW Others, \A other \in Others : other.kind # "tree"
  PROVE  Given(Trees \cup Others) => []CanIncludeIsShared
<1> DEFINE inputs == Trees \cup Others
<1>1. input \in inputs => CanIncludeIsShared
  <2> SUFFICES ASSUME input \in inputs, input.kind = "tree"
               PROVE  CanIncludeIsShared
    BY DEF CanIncludeIsShared
  <2> DEFINE h == input.height
             x == input.leaf
             y == input.other
  <2>1. h \in Nat \ {0} /\ h <= n /\ x \in LeavesOf(h) /\ y \in LeavesOf(h)
    BY TreeInput
  <2> HIDE DEF h, x, y
  <2> DEFINE accepts == {level \in LevelsOf(h) : CanIncludeAt(h, x, y, level)}
  <2>2. /\ ReadPathLocations(h, x) \cap ReadPathLocations(h, y)
             = {BucketForLevelLeaf(h, level, x) : level \in accepts}
        /\ \A level \in accepts, above \in LevelsOf(h) : above <= level => above \in accepts
    BY <2>1, SharedFromTheRoot
  <2> QED
    BY <2>2 DEF CanIncludeIsShared, h, x, y
<1>2. input \in inputs /\ [UNCHANGED input]_input => (input \in inputs)'
  OBVIOUS
<1> QED
  BY <1>1, <1>2, PTL DEF Given

(* For trees of any height: leavesForLocation gives the leaves whose paths go    *)
(* through the location, all of them and no other.                            *)
THEOREM LeavesOfLocations ==
  ASSUME NEW n \in Nat, Doubling(n), MaxHeight <= n, \A h \in 1 .. MaxHeight : 2^h <= n,
         NEW Others, \A other \in Others : other.kind # "tree"
  PROVE  Given(Trees \cup Others) => []LeavesAreThoseBelow
<1> DEFINE inputs == Trees \cup Others
<1>1. input \in inputs => LeavesAreThoseBelow
  <2> SUFFICES ASSUME input \in inputs, input.kind = "tree"
               PROVE  LeavesAreThoseBelow
    BY DEF LeavesAreThoseBelow
  <2> DEFINE h == input.height
             location == input.location
  <2>1. h \in Nat \ {0} /\ h <= n /\ 2^h <= n /\ location \in LocationsOf(h)
    BY TreeInput
  <2> HIDE DEF h, location
  <2> DEFINE below == LeavesForLocation(h, location)[1] .. LeavesForLocation(h, location)[2]
  <2>2. \A leaf \in LeavesOf(h) : location \in ReadPathLocations(h, leaf) <=> leaf \in below
    BY <2>1, LeavesBelow
  <2>3. below \subseteq LeavesOf(h)
    BY <2>1, LeavesOfTree
  <2>4. below = {x \in LeavesOf(h) : location \in ReadPathLocations(h, x)}
    BY <2>2, <2>3
  <2> QED
    BY <2>4 DEF LeavesAreThoseBelow, h, location
<1>2. input \in inputs /\ [UNCHANGED input]_input => (input \in inputs)'
  OBVIOUS
<1> QED
  BY <1>1, <1>2, PTL DEF Given

(* The powers of two that the tree of the storage takes. *)
LEMMA Powers ==
  /\ Height \in Nat \ {0} /\ StorageCapacity \in Nat
  /\ Doubling(Height + StorageCapacity) /\ 2^Height \in Nat \ {0} /\ 2^Height <= StorageCapacity
<1>1. Height \in Nat \ {0} /\ StorageCapacity \in Nat
  BY TreeAssumption, StorageAssumption
<1>2. Doubling(Height + StorageCapacity)
  BY PowersOfTwo DEF Doubling
<1>3. 2^Height \in Nat \ {0} /\ Height + 1 <= 2^Height
  <2>1. Height \in 0 .. (Height + StorageCapacity) + 1 /\ Height + StorageCapacity \in Nat
    BY <1>1
  <2> QED
    BY <1>2, <2>1, PowerFacts
<1>4. 2^Height - 1 \in LocationsOf(Height)
  BY <1>1, <1>3 DEF LocationsOf
<1> QED
  BY <1>1, <1>2, <1>3, <1>4, StorageAssumption

(* The path of a leaf under a location goes through it. *)
LEMMA PathThrough ==
  ASSUME NEW location \in LocationsOf(Height),
         NEW leaf \in Leaves, leaf \in LeavesUnder(location)
  PROVE  location \in Path(leaf)
<1> DEFINE n == Height + StorageCapacity
<1>1. /\ n \in Nat /\ Doubling(n) /\ Height <= n /\ 2^Height <= n
      /\ Height \in Nat \ {0} /\ leaf \in LeavesOf(Height)
  BY Powers, StorageAssumption
<1>2. leaf \in LeavesForLocation(Height, location)[1] .. LeavesForLocation(Height, location)[2]
  BY DEF LeavesUnder
<1>3. location \in ReadPathLocations(Height, leaf)
  <2> HIDE DEF n
  <2> QED
    BY <1>1, <1>2, LeavesBelow
<1> QED
  BY <1>3, StorageAssumption DEF ReadPathLocations, Path, Levels, LevelsOf

-----------------------------------------------------------------------------
(* The deal *)

(* A later bucket goes to a larger location, as long as there are enough. *)
LEMMA Spread ==
  ASSUME NEW count \in Nat \ {0}, NEW top \in Nat, count <= top,
         NEW i \in Nat, NEW j \in Nat, i < j
  PROVE  (i * top) \div count < (j * top) \div count
<1> DEFINE q == (i * top) \div count
           r == (j * top) \div count
<1>1. q \in Int /\ q * count <= i * top
  BY Quotient
<1>2. r \in Int /\ j * top < r * count + count
  BY Quotient
<1>3. (i + 1) * top <= j * top
  <2>1. j - (i + 1) \in Nat
    OBVIOUS
  <2>2. (j - (i + 1)) * top >= 0
    BY <2>1
  <2> QED
    BY <2>2
<1>4. (i + 1) * top = i * top + top /\ (q + 1) * count = q * count + count
      /\ (r + 1) * count = r * count + count
  BY <1>1, <1>2
<1> HIDE DEF q, r
<1>5. (q + 1) * count < (r + 1) * count
  BY <1>1, <1>2, <1>3, <1>4
<1>6. q + 1 < r + 1
  <2> SUFFICES ASSUME r + 1 <= q + 1 PROVE (r + 1) * count <= (q + 1) * count
    BY <1>1, <1>2, <1>5
  <2>1. q - r \in Nat
    BY <1>1, <1>2
  <2>2. (q - r) * count >= 0
    BY <2>1
  <2> QED
    BY <1>1, <1>2, <2>2
<1> QED
  BY <1>1, <1>2, <1>6 DEF q, r

(* The locations of the buckets: between 1 and the limit, each larger than the  *)
(* one before.                                                               *)
LEMMA LocationsRise ==
  ASSUME NEW h, NEW count \in Nat \ {0}, maxLocation(h) \in Nat, count <= maxLocation(h)
  PROVE  /\ \A i \in 0 .. count - 1 : LoadLocation(h, i, count) \in 1 .. maxLocation(h)
         /\ \A i, j \in 0 .. count - 1 :
              i < j => LoadLocation(h, i, count) < LoadLocation(h, j, count)
<1> DEFINE top == maxLocation(h)
<1>1. top \in Nat \ {0} /\ count <= top
  OBVIOUS
<1> HIDE DEF top
<1>2. ASSUME NEW i \in 0 .. count - 1
      PROVE  1 + (i * top) \div count \in 1 .. top
  <2>1. i * top \in Int /\ 0 * count <= i * top /\ i * top < top * count
    <3>1. top * (count - 1 - i) >= 0 /\ i * top >= 0
      BY <1>1
    <3>2. top * (count - 1 - i) = top * count - top - i * top
      BY <1>1
    <3> QED
      BY <1>1, <3>1, <3>2
  <2>2. (i * top) \div count \in 0 .. top - 1
    <3>1. 0 \in Int /\ top \in Int
      BY <1>1
    <3> QED
      BY <2>1, <3>1, QuotientBetween, Zenon
  <2> DEFINE q == (i * top) \div count
  <2> HIDE DEF q
  <2>3. q \in 0 .. top - 1 => 1 + q \in 1 .. top
    BY <1>1
  <2> QED
    BY <2>2, <2>3 DEF q
<1>3. ASSUME NEW i \in 0 .. count - 1, NEW j \in 0 .. count - 1, i < j
      PROVE  1 + (i * top) \div count < 1 + (j * top) \div count
  <2>1. (i * top) \div count < (j * top) \div count
    BY <1>1, <1>3, Spread
  <2>2. (i * top) \div count \in Int /\ (j * top) \div count \in Int
    BY <1>1
  <2> QED
    BY <2>1, <2>2
<1> QED
  BY <1>2, <1>3 DEF top, LoadLocation

LEMMA LocationFacts ==
  ASSUME NEW count \in Nat \ {0}, count <= maxLocation(Height)
  PROVE  /\ \A i \in 0 .. count - 1 : LoadLocation(Height, i, count) \in Nat \ {0}
         /\ \A i, j \in 0 .. count - 1 :
              LoadLocation(Height, i, count) = LoadLocation(Height, j, count) => i = j
<1>1. maxLocation(Height) \in Nat
  BY Powers DEF maxLocation
<1>2. /\ \A i \in 0 .. count - 1 : LoadLocation(Height, i, count) \in 1 .. maxLocation(Height)
      /\ \A i, j \in 0 .. count - 1 :
           i < j => LoadLocation(Height, i, count) < LoadLocation(Height, j, count)
  BY <1>1, LocationsRise
<1>3. \A i, j \in 0 .. count - 1 : i < j \/ j < i \/ i = j
  OBVIOUS
<1> QED
  BY <1>1, <1>2, <1>3

(* The buckets are as many as z records each make necessary. *)
LEMMA Buckets ==
  ASSUME NEW z \in Nat \ {0}, NEW n \in Nat \ {0}
  PROVE  /\ BucketCount(z, n) \in Nat \ {0}
         /\ (BucketCount(z, n) - 1) * z < n /\ n <= BucketCount(z, n) * z
<1> DEFINE q == (n + z - 1) \div z
<1>2. q \in Int /\ q * z <= n + z - 1 /\ n + z - 1 < q * z + z
  BY Quotient
<1> HIDE DEF q
<1>3. q >= 1
  <2> SUFFICES ASSUME q <= 0 PROVE FALSE
    BY <1>2
  <2>1. q * z <= 0
    BY <1>2
  <2> QED
    BY <1>2, <2>1
<1>4. (q - 1) * z = q * z - z
  BY <1>2
<1>5. q * z \in Int
  BY <1>2
<1>6. q * z - z < n /\ n <= q * z
  BY <1>2, <1>5
<1> QED
  BY <1>2, <1>3, <1>4, <1>6 DEF q, BucketCount

(* The padding loop adds what is missing: as long as something is, the          *)
(* difference it compares with wraps around to a number beyond any z.          *)
LEMMA Padding ==
  ASSUME NEW z \in Nat, NEW size \in 1 .. z, NumberRange \in Nat, 2 * z < NumberRange
  PROVE  Dummies(z, size) = z - size
<1> DEFINE Stops(i) == /\ ~(i < Unsigned(size + i - z))
                       /\ \A j \in 0 .. i - 1 : j < Unsigned(size + j - z)
<1>1. \A j \in 0 .. z - size - 1 : j < Unsigned(size + j - z)
  BY DEF Unsigned
<1>2. ~(z - size < Unsigned(size + (z - size) - z))
  BY DEF Unsigned
<1>3. z - size \in 0 .. z /\ Stops(z - size)
  BY <1>1, <1>2
<1>4. ASSUME NEW i \in 0 .. z, Stops(i) PROVE i = z - size
  <2>1. ~(i \in 0 .. z - size - 1)
    BY <1>1, <1>4
  <2>2. ~(z - size \in 0 .. i - 1)
    BY <1>2, <1>4
  <2> QED
    BY <2>1, <2>2
<1> HIDE DEF Stops
<1>5. (CHOOSE i \in 0 .. z : Stops(i)) = z - size
  BY <1>3, <1>4
<1> QED
  BY <1>5 DEF Stops, Dummies

(* The buckets that are written are those that were counted, all of size z. *)
LEMMA Requests ==
  ASSUME NEW z \in Nat \ {0}, NEW n \in Nat \ {0}, NumberRange \in Nat, 2 * z < NumberRange
  PROVE  /\ RequestCount(z, n) = BucketCount(z, n)
         /\ \A i \in 0 .. BucketCount(z, n) - 1 : RequestSize(z, n, i) = z
<1> DEFINE q == n \div z
           r == n % z
<1>1. q \in Nat /\ r \in 0 .. z - 1 /\ n = q * z + r
  OBVIOUS
<1> HIDE DEF q, r
<1>2. (n + z - 1) \div z = q + (IF r = 0 THEN 0 ELSE 1)
  <2>1. n + z - 1 \in Int /\ q \in Int /\ q + 1 \in Int
    BY <1>1
  <2>2. CASE r = 0
    <3>1. q * z <= n + z - 1 /\ n + z - 1 < q * z + z
      BY <1>1, <2>2
    <3>2. (n + z - 1) \div z = q
      BY <2>1, <3>1, QuotientIs, Zenon
    <3> QED
      BY <1>1, <2>2, <3>2
  <2>3. CASE r # 0
    <3>1. (q + 1) * z = q * z + z
      BY <1>1
    <3>2. (q + 1) * z <= n + z - 1 /\ n + z - 1 < (q + 1) * z + z
      BY <1>1, <2>3, <3>1
    <3>3. (n + z - 1) \div z = q + 1
      BY <2>1, <3>2, QuotientIs, Zenon
    <3> QED
      BY <2>3, <3>3
  <2> QED
    BY <2>2, <2>3
<1>3. RequestCount(z, n) = q + (IF r = 0 THEN 0 ELSE 1)
  BY DEF RequestCount, q, r
<1>4. BucketCount(z, n) = q + (IF r = 0 THEN 0 ELSE 1)
  BY <1>2 DEF BucketCount
<1>5. ASSUME NEW i \in 0 .. BucketCount(z, n) - 1
      PROVE  RequestSize(z, n, i) = z
  <2>1. RequestSize(z, n, i) = IF i < q THEN z ELSE r + Dummies(z, r)
    BY DEF RequestSize, q, r
  <2>2. CASE i < q
    BY <2>1, <2>2
  <2>3. CASE ~(i < q)
    <3>1. r \in 1 .. z
      BY <1>1, <1>4, <2>3
    <3>2. Dummies(z, r) = z - r
      BY <3>1, Padding
    <3> QED
      BY <2>1, <2>3, <3>1, <3>2
  <2> QED
    BY <2>2, <2>3
<1> QED
  BY <1>3, <1>4, <1>5

(* What an input is that stands for a load. *)
LEMMA LoadInput ==
  ASSUME NEW Others, \A other \in Others : other.kind # "load",
         NEW i \in Loads \cup Others, i.kind = "load"
  PROVE  /\ i.height \in 1 .. MaxHeight /\ i.Z \in 1 .. MaxZ
         /\ i.records \in Nat \ {0} /\ i.records <= i.Z * maxLocation(i.height)
<1>1. i \in Loads
  OBVIOUS
<1> QED
  BY <1>1 DEF Loads

(* For trees of any height, buckets of any size and any number of records that   *)
(* load does not refuse: as many buckets as were counted, each of exactly Z       *)
(* blocks with the dummies in the last one, each at a location of its own, none    *)
(* beyond the limit.                                                         *)
THEOREM LoadsFillBuckets ==
  ASSUME NEW n \in Nat, Doubling(n), MaxHeight <= n,
         NEW Others, \A other \in Others : other.kind # "load"
  PROVE  Given(Loads \cup Others) => []LoadFillsBuckets
<1> DEFINE inputs == Loads \cup Others
<1>1. input \in inputs => LoadFillsBuckets
  <2> SUFFICES ASSUME input \in inputs, input.kind = "load"
               PROVE  LoadFillsBuckets
    BY DEF LoadFillsBuckets
  <2> DEFINE h == input.height
             z == input.Z
             records == input.records
             top == maxLocation(h)
             count == BucketCount(z, records)
  <2>1. /\ h \in 1 .. MaxHeight /\ z \in 1 .. MaxZ
        /\ records \in Nat \ {0} /\ records <= z * top
    BY LoadInput
  <2>2. /\ h \in 0 .. n + 1 /\ z \in Nat \ {0}
        /\ NumberRange \in Nat /\ 2 * z < NumberRange
    BY <2>1, HeightAssumption, LoadAssumption
  <2>3. top \in Nat \ {0}
    BY <2>2, PowerFacts DEF maxLocation
  <2> HIDE DEF h, z, records, top
  <2>4. count \in Nat \ {0} /\ (count - 1) * z < records
    BY <2>1, <2>2, Buckets
  <2>5. /\ RequestCount(z, records) = count
        /\ \A i \in 0 .. count - 1 : RequestSize(z, records, i) = z
    BY <2>1, <2>2, Requests
  <2> HIDE DEF count
  <2>6. count <= top
    <3> SUFFICES ASSUME top <= count - 1 PROVE FALSE
      BY <2>3, <2>4
    <3>1. (count - 1 - top) * z >= 0
      BY <2>2, <2>3, <2>4
    <3>2. (count - 1 - top) * z = (count - 1) * z - z * top
      BY <2>2, <2>3, <2>4
    <3>3. (count - 1) * z \in Int /\ z * top \in Int
      BY <2>2, <2>3, <2>4
    <3> QED
      BY <2>1, <2>4, <3>1, <3>2, <3>3
  <2>7. /\ \A i \in 0 .. count - 1 : LoadLocation(h, i, count) \in 1 .. maxLocation(h)
        /\ \A i, j \in 0 .. count - 1 :
             i < j => LoadLocation(h, i, count) < LoadLocation(h, j, count)
    BY <2>3, <2>4, <2>6, LocationsRise DEF top
  <2> QED
    BY <2>5, <2>7 DEF LoadFillsBuckets, h, z, records, count
<1>2. input \in inputs /\ [UNCHANGED input]_input => (input \in inputs)'
  OBVIOUS
<1> QED
  BY <1>1, <1>2, PTL DEF Given

(* The deal gives no bucket more than Z records: the first ones together take  *)
(* Z each, which leaves no more than Z for the last one.                      *)
LEMMA Dealt ==
  ASSUME NEW ids \in SUBSET Blocks, ids # {}, NEW count, count = BucketCount(Z, Cardinality(ids)),
         NEW deal \in [ids -> 0 .. count - 1], IsDeal(deal, count)
  PROVE  \A i \in 0 .. count - 1 : Cardinality({b \in ids : deal[b] = i}) <= Z
<1> DEFINE Before(k) == {b \in ids : deal[b] < k}
           To(k) == {b \in ids : deal[b] = k}
           n == Cardinality(ids)
<1>1. n \in Nat \ {0} /\ Z \in Nat \ {0}
  <2>1. IsFiniteSet(ids) /\ n \in Nat
    BY BlockSets
  <2>2. n # 0
    BY <2>1, FS_EmptySet
  <2> QED
    BY <2>1, <2>2, SizeAssumption
<1>2. /\ count \in Nat \ {0} /\ (count - 1) * Z < n /\ n <= count * Z
  BY <1>1, Buckets
<1>3. \A k : /\ IsFiniteSet(Before(k)) /\ IsFiniteSet(To(k))
             /\ Cardinality(Before(k)) \in Nat /\ Cardinality(To(k)) \in Nat
  BY BlockSets
<1>4. \A i \in 0 .. count - 2 : Cardinality(To(i)) = Z
  BY DEF IsDeal
<1>5. ASSUME NEW i \in 0 .. count - 1
      PROVE  Cardinality(Before(i + 1)) = Cardinality(Before(i)) + Cardinality(To(i))
  <2>1. Before(i + 1) = Before(i) \cup To(i) /\ Before(i) \cap To(i) = {}
    BY <1>2
  <2>2. /\ IsFiniteSet(Before(i)) /\ IsFiniteSet(To(i))
        /\ Cardinality(Before(i)) \in Nat /\ Cardinality(To(i)) \in Nat
    BY <1>3
  <2> HIDE DEF Before, To
  <2>3. Cardinality(Before(i) \cup To(i))
          = Cardinality(Before(i)) + Cardinality(To(i)) - Cardinality(Before(i) \cap To(i))
    BY <2>2, FS_Union
  <2>4. Cardinality(Before(i) \cap To(i)) = 0
    BY <2>1, FS_EmptySet
  <2>5. Cardinality(Before(i) \cup To(i)) = Cardinality(Before(i)) + Cardinality(To(i))
    BY <2>2, <2>3, <2>4
  <2> QED
    BY <2>1, <2>5
<1>6. Cardinality(Before(count - 1)) = (count - 1) * Z
  <2> DEFINE S == {k \in 0 .. count - 1 : Cardinality(Before(k)) = k * Z}
  <2>1. 0 \in S
    <3>1. Before(0) = {}
      BY <1>2
    <3>2. Cardinality(Before(0)) = 0
      BY <3>1, FS_EmptySet
    <3>3. 0 \in 0 .. count - 1 /\ 0 * Z = 0
      BY <1>1, <1>2
    <3> HIDE DEF Before
    <3> QED
      BY <3>2, <3>3
  <2>2. ASSUME NEW i \in 0 .. (count - 1) - 1, i \in S
        PROVE  i + 1 \in S
    <3>1. i \in 0 .. count - 2 /\ i \in 0 .. count - 1 /\ i + 1 \in 0 .. count - 1
      BY <1>2
    <3>2. Cardinality(Before(i + 1)) = Cardinality(Before(i)) + Cardinality(To(i))
      BY <1>5, <3>1
    <3>3. Cardinality(Before(i)) = i * Z /\ Cardinality(To(i)) = Z
      BY <1>4, <2>2, <3>1
    <3>4. (i + 1) * Z = i * Z + Z
      BY <1>1, <3>1
    <3> HIDE DEF Before, To
    <3> QED
      BY <3>1, <3>2, <3>3, <3>4
  <2>3. \A k \in 0 .. count - 1 : k \in S
    <3> HIDE DEF S
    <3> QED
      BY <1>2, <2>1, <2>2, UpTo
  <2> QED
    BY <1>2, <2>3
<1>7. Cardinality(Before(count)) = n
  <2>1. Before(count) = ids
    BY <1>2
  <2> QED
    BY <2>1
<1>8. Cardinality(To(count - 1)) <= Z
  <2>1. n = (count - 1) * Z + Cardinality(To(count - 1))
    <3>1. (count - 1) + 1 = count /\ count - 1 \in 0 .. count - 1
      BY <1>2
    <3>2. Cardinality(Before((count - 1) + 1))
            = Cardinality(Before(count - 1)) + Cardinality(To(count - 1))
      BY <1>5, <3>1
    <3> QED
      BY <1>6, <1>7, <3>1, <3>2
  <2>2. count * Z = (count - 1) * Z + Z
    BY <1>1, <1>2
  <2>3. Cardinality(To(count - 1)) \in Nat
    BY <1>3
  <2>4. (count - 1) * Z \in Int
    <3> HIDE DEF n
    <3> QED
      BY <1>1, <1>2
  <2> HIDE DEF To, n
  <2> QED
    BY <1>1, <1>2, <2>1, <2>2, <2>3, <2>4
<1>9. \A i \in 0 .. count - 1 : Cardinality(To(i)) <= Z
  <2>1. \A i \in 0 .. count - 1 : i \in 0 .. count - 2 \/ i = count - 1
    BY <1>2
  <2> HIDE DEF To
  <2> QED
    BY <1>1, <1>4, <1>8, <2>1
<1> QED
  BY <1>9

-----------------------------------------------------------------------------
(* What load leaves behind *)

(* Nothing was ever stored: load is only called on a new ORAM. *)
Fresh ==
  stage = "fresh" =>
    /\ stash = Nothing /\ cache = Nothing
    /\ storage = [location \in Locations |-> Nothing]
    /\ phase = "returned" /\ damaged = {}
    /\ expected = [b \in Blocks |-> Empty]

(* The state after records went to their locations. *)
Stored(records, location, leafOf) ==
  /\ positionMap' = [b \in Blocks |-> IF b \in DOMAIN records
                                      THEN leafOf[b] ELSE positionMap[b]]
  /\ storage' = [l \in Locations |->
                   IF \E b \in DOMAIN records : location[b] = l
                   THEN Pad([b \in {x \in DOMAIN records : location[x] = l} |-> records[b]])
                   ELSE storage[l]]
  /\ expected' = [b \in Blocks |-> IF b \in DOMAIN records
                                   THEN records[b] ELSE expected[b]]

(* The state after the write of them was refused. *)
NotStored(records, leafOf) ==
  /\ positionMap' = [b \in Blocks |-> IF b \in DOMAIN records
                                      THEN leafOf[b] ELSE positionMap[b]]
  /\ UNCHANGED <<storage, expected>>

(* What a load decides on, and how it ends. *)
Decided(ids, records, deal, location, leafOf) ==
  /\ leafOf \in [ids -> Leaves]
  /\ \A i \in 0 .. BucketCount(Z, Cardinality(ids)) - 1 :
       Cardinality({b \in ids : deal[b] = i}) <= Z
  /\ \A b, c \in ids : location[b] = location[c] => deal[b] = deal[c]
  /\ \A b \in ids : /\ deal[b] \in 0 .. BucketCount(Z, Cardinality(ids)) - 1
                    /\ location[b] \in Nat \ {0}
                    /\ leafOf[b] \in LeavesUnder(location[b])
  /\ \/ NotStored(records, leafOf)
     \/ /\ Stored(records, location, leafOf)
        /\ \A b \in ids : location[b] \in Locations

LEMMA LoadCases ==
  ASSUME NEW ids \in (SUBSET Blocks) \ {{}}, NEW records \in [ids -> Loadable], Load(records)
  PROVE  \E deal, location, leafOf : Decided(ids, records, deal, location, leafOf)
<1> DEFINE count == BucketCount(Z, Cardinality(ids))
<1>1. DOMAIN records = ids /\ ids # {} /\ Cardinality(ids) \in Nat \ {0}
  <2>1. IsFiniteSet(ids) /\ Cardinality(ids) \in Nat
    BY BlockSets
  <2>2. Cardinality(ids) # 0
    BY <2>1, FS_EmptySet
  <2> QED
    BY <2>1, <2>2
<1>2. count \in Nat \ {0} /\ count <= maxLocation(Height)
  BY <1>1, SizeAssumption, Buckets DEF Load
<1>3. PICK deal \in [ids -> 0 .. count - 1], leafOf \in [ids -> Leaves] :
        LET location == [b \in ids |-> LoadLocation(Height, deal[b], count)]
        IN  /\ IsDeal(deal, count)
            /\ \A b \in ids : leafOf[b] \in LeavesUnder(location[b])
            /\ \/ NotStored(records, leafOf)
               \/ Stored(records, location, leafOf) /\ \A b \in ids : location[b] \in Locations
  <2>1. PICK deal \in [DOMAIN records -> 0 .. BucketCount(Z, Cardinality(DOMAIN records)) - 1],
             leafOf \in [DOMAIN records -> Leaves] :
          LET n == BucketCount(Z, Cardinality(DOMAIN records))
              location == [b \in DOMAIN records |-> LoadLocation(Height, deal[b], n)]
          IN  /\ IsDeal(deal, n)
              /\ \A b \in DOMAIN records : leafOf[b] \in LeavesUnder(location[b])
              /\ \/ NotStored(records, leafOf)
                 \/ /\ Stored(records, location, leafOf)
                    /\ \A b \in DOMAIN records : location[b] \in Locations
    BY DEF Load, NotStored, Stored
  <2> QED
    BY <1>1, <2>1, Zenon
<1> DEFINE location == [b \in ids |-> LoadLocation(Height, deal[b], count)]
<1>4. \A i \in 0 .. count - 1 : Cardinality({b \in ids : deal[b] = i}) <= Z
  BY <1>1, <1>3, Dealt
<1>5. \A b \in ids : deal[b] \in 0 .. count - 1
  BY <1>3
<1>6. /\ \A b, c \in ids : location[b] = location[c] => deal[b] = deal[c]
      /\ \A b \in ids : location[b] \in Nat \ {0}
  <2> HIDE DEF count
  <2> QED
    BY <1>2, <1>5, LocationFacts
<1>7. \/ NotStored(records, leafOf)
      \/ Stored(records, location, leafOf) /\ \A b \in ids : location[b] \in Locations
  BY <1>3
<1>8. \A b \in ids : leafOf[b] \in LeavesUnder(location[b])
  BY <1>3
<1> HIDE DEF location, count
<1> QED
  BY <1>3, <1>4, <1>5, <1>6, <1>7, <1>8 DEF count, Decided

(* What the ORAM then sees in the tree: the storage, with each record at its    *)
(* location.                                                                 *)
SeenAt(ids, records, location) ==
  /\ storage' \in [Locations -> Bucket]
  /\ \A l \in Locations :
       /\ View(l)' = storage'[l]
       /\ DOMAIN storage'[l] = {b \in ids : location[b] = l}
       /\ \A b \in DOMAIN storage'[l] : storage'[l][b] = Padded(records[b])

LEMMA StoredView ==
  ASSUME Fresh, stage = "fresh", UNCHANGED <<stash, cache>>,
         NEW ids \in SUBSET Blocks, NEW records \in [ids -> Loadable],
         NEW location, NEW leafOf, Stored(records, location, leafOf)
  PROVE  SeenAt(ids, records, location)
<1>1. DOMAIN records = ids /\ \A b \in ids : records[b] \in Data
  BY StorageAssumption
<1>2. DOMAIN cache' = {}
  BY NothingType DEF Fresh
<1>3. ASSUME NEW l \in Locations
      PROVE  /\ storage'[l] \in Bucket
             /\ DOMAIN storage'[l] = {b \in ids : location[b] = l}
             /\ \A b \in DOMAIN storage'[l] : storage'[l][b] = Padded(records[b])
  <2> DEFINE here == {b \in ids : location[b] = l}
             bucket == [b \in here |-> records[b]]
  <2>1. bucket \in Bucket /\ DOMAIN bucket = here
    BY <1>1, BucketFunctions
  <2>2. CASE here = {}
    <3>1. storage'[l] = Nothing
      BY <1>1, <2>2 DEF Stored, Fresh
    <3> QED
      BY <2>2, <3>1, NothingType
  <2>3. CASE here # {}
    <3>1. storage'[l] = Pad(bucket)
      BY <1>1, <2>3 DEF Stored
    <3>2. Pad(bucket) = PadIn(bucket, here)
      BY <2>1 DEF Pad
    <3>3. /\ PadIn(bucket, here) \in Bucket /\ DOMAIN PadIn(bucket, here) = here
      BY <2>1, PadType
    <3>4. \A b \in here : PadIn(bucket, here)[b] = Padded(records[b])
      BY <2>1 DEF PadIn
    <3> HIDE DEF bucket
    <3> QED
      BY <3>1, <3>2, <3>3, <3>4
  <2> QED
    BY <2>2, <2>3
<1>4. storage' \in [Locations -> Bucket]
  <2>1. storage' = [l \in Locations |-> storage'[l]]
    BY DEF Stored
  <2> QED
    BY <1>3, <2>1
<1> QED
  BY <1>2, <1>3, <1>4 DEF View, SeenAt

-----------------------------------------------------------------------------
(* Bucket sizes *)

LoadFitsBuckets == \A l \in Locations : Cardinality(DOMAIN storage[l]) <= Z

FitInv == TypeOK /\ CallOK /\ WithinCapacity /\ LoadFitsBuckets /\ Fresh

(* Before a load the ORAM is idle and the storage empty, also after one that    *)
(* threw; after one that did not, the buckets of View are those of the storage.  *)
LEMMA LoadTypes ==
  ASSUME TypeOK, CallOK, Fresh, NEW ids \in (SUBSET Blocks) \ {{}},
         NEW records \in [ids -> Loadable], Load(records)
  PROVE  TypeOK' /\ CallOK'
<1>1. PICK leafOf \in [ids -> Leaves] :
        /\ positionMap' = [b \in Blocks |-> IF b \in ids THEN leafOf[b] ELSE positionMap[b]]
        /\ storage' \in [Locations -> Bucket]
  <2>0. PICK deal, location, leafOf : Decided(ids, records, deal, location, leafOf)
    BY LoadCases
  <2>1. /\ leafOf \in [ids -> Leaves]
        /\ NotStored(records, leafOf) \/ Stored(records, location, leafOf)
    BY <2>0 DEF Decided
  <2>2. stage = "fresh" /\ UNCHANGED <<stash, cache>> /\ DOMAIN records = ids
    BY DEF Load
  <2>3. positionMap' = [b \in Blocks |-> IF b \in ids THEN leafOf[b] ELSE positionMap[b]]
    BY <2>1, <2>2 DEF NotStored, Stored
  <2>4. storage' \in [Locations -> Bucket]
    <3>1. CASE NotStored(records, leafOf)
      BY <3>1 DEF NotStored, TypeOK
    <3>2. CASE Stored(records, location, leafOf)
      BY <2>2, <3>2, StoredView DEF SeenAt
    <3> QED
      BY <2>1, <3>1, <3>2
  <2> QED
    BY <2>1, <2>3, <2>4
<1>2. UNCHANGED <<stash, cache, requests, next, prev, response, phase, damaged>>
  BY DEF Load, call
<1>3. phase = "returned"
  BY DEF Load, Fresh
<1>4. TypeOK'
  BY <1>1, <1>2 DEF TypeOK
<1>5. CallOK'
  BY <1>2, <1>3 DEF CallOK, Idle, InAccess
<1> QED
  BY <1>4, <1>5

LEMMA LoadFits ==
  ASSUME FitInv, NEW ids \in (SUBSET Blocks) \ {{}}, NEW records \in [ids -> Loadable],
         Load(records)
  PROVE  FitInv'
<1>1. /\ stage = "fresh" /\ stage' = "open"
      /\ UNCHANGED <<stash, cache>>
  BY DEF Load
<1>2. TypeOK' /\ CallOK' /\ Fresh'
  BY <1>1, LoadTypes DEF FitInv, Fresh
<1>3. \A l \in Locations : View(l)' = storage'[l] /\ Cardinality(DOMAIN storage'[l]) <= Z
  <2>0. PICK deal, location, leafOf : Decided(ids, records, deal, location, leafOf)
    BY LoadCases
  <2>1. /\ \A i \in 0 .. BucketCount(Z, Cardinality(ids)) - 1 :
             Cardinality({b \in ids : deal[b] = i}) <= Z
        /\ \A b, c \in ids : location[b] = location[c] => deal[b] = deal[c]
        /\ \A b \in ids : deal[b] \in 0 .. BucketCount(Z, Cardinality(ids)) - 1
        /\ NotStored(records, leafOf) \/ Stored(records, location, leafOf)
    BY <2>0 DEF Decided
  <2>2. CASE NotStored(records, leafOf)
    <3>1. UNCHANGED storage /\ DOMAIN cache' = {}
      BY <1>1, <2>2, NothingType DEF NotStored, FitInv, Fresh
    <3> QED
      BY <3>1 DEF View, FitInv, LoadFitsBuckets
  <2>3. CASE Stored(records, location, leafOf)
    <3>0. Fresh /\ ids \in SUBSET Blocks
      BY DEF FitInv
    <3>1. SeenAt(ids, records, location)
      BY <1>1, <2>3, <3>0, StoredView
    <3>2. \A l \in Locations : View(l)' = storage'[l]
      BY <3>1 DEF SeenAt
    <3>3. \A l \in Locations : DOMAIN storage'[l] = {b \in ids : location[b] = l}
      BY <3>1 DEF SeenAt
    <3> SUFFICES ASSUME NEW l \in Locations
                 PROVE  View(l)' = storage'[l] /\ Cardinality(DOMAIN storage'[l]) <= Z
      OBVIOUS
    <3> DEFINE here == {b \in ids : location[b] = l}
    <3>4. CASE here = {}
      <4>1. Cardinality(here) = 0
        BY <3>4, FS_EmptySet
      <4>2. View(l)' = storage'[l] /\ DOMAIN storage'[l] = here
        BY <3>2, <3>3
      <4> HIDE DEF here
      <4> QED
        BY <4>1, <4>2, SizeAssumption
    <3>5. CASE here # {}
      <4>1. PICK c \in ids : location[c] = l
        BY <3>5
      <4> DEFINE dealt == {b \in ids : deal[b] = deal[c]}
      <4>2. here \in SUBSET dealt /\ dealt \in SUBSET Blocks
        BY <2>1, <4>1
      <4>3. Cardinality(dealt) <= Z
        BY <2>1
      <4>4. /\ Cardinality(here) <= Cardinality(dealt)
            /\ Cardinality(here) \in Nat /\ Cardinality(dealt) \in Nat
        <5> HIDE DEF here, dealt
        <5>1. here \in SUBSET Blocks
          BY <4>2
        <5> QED
          BY <4>2, <5>1, BlockSets
      <4> HIDE DEF here, dealt
      <4>5. Cardinality(here) <= Z
        BY <4>3, <4>4, SizeAssumption
      <4> QED
        BY <3>2, <3>3, <4>5 DEF here
    <3> QED
      BY <3>4, <3>5
  <2> QED
    BY <2>1, <2>2, <2>3
<1>4. LoadFitsBuckets'
  BY <1>3 DEF LoadFitsBuckets
<1>5. WithinCapacity'
  <2>1. Cardinality(DOMAIN stash') <= StashCapacity
    BY <1>1 DEF WithinCapacity, FitInv
  <2>2. \A l \in Locations : Cardinality(DOMAIN View(l)') <= Z
    BY <1>3
  <2> QED
    BY <2>1, <2>2 DEF WithinCapacity
<1> QED
  BY <1>2, <1>4, <1>5 DEF FitInv

(* Ordinary use writes what the ORAM saw in its cache, so nothing larger. *)
LEMMA UseFits == TypeOK /\ WithinCapacity /\ LoadFitsBuckets /\ [Next]_vars => LoadFitsBuckets'
<1> SUFFICES ASSUME TypeOK, WithinCapacity, LoadFitsBuckets, [Next]_vars,
                    NEW l \in Locations
             PROVE  Cardinality(DOMAIN storage'[l]) <= Z
  BY DEF LoadFitsBuckets
<1>1. CASE Sync \/ StorageSetFails
  <2>1. PICK locations \in SUBSET (DOMAIN cache) : Upload(locations)
    BY <1>1 DEF Sync, StorageSetFails
  <2>2. CASE l \in locations
    <3>1. storage'[l] = Pad(cache[l]) /\ View(l) = cache[l] /\ cache[l] \in Bucket
      BY <2>1, <2>2 DEF Upload, View, TypeOK
    <3>2. DOMAIN Pad(cache[l]) = DOMAIN cache[l]
      BY <3>1, PadType DEF Pad
    <3>3. DOMAIN storage'[l] = DOMAIN View(l)
      BY <3>1, <3>2
    <3>4. Cardinality(DOMAIN View(l)) <= Z
      BY DEF WithinCapacity
    <3> QED
      BY <3>3, <3>4
  <2>3. CASE l \notin locations
    <3>1. storage'[l] = storage[l]
      BY <2>1, <2>3 DEF Upload
    <3> QED
      BY <3>1 DEF LoadFitsBuckets
  <2> QED
    BY <2>2, <2>3
<1>2. CASE ~(Sync \/ StorageSetFails)
  <2>1. storage' = storage
    BY <1>2 DEF Next, vars, Get, Put, Multiple, Begin, Prefetch, Remap, ReadPath,
                ReadPathOverflows, StorageGetFails, Update, UpdateOverflows, WritePath,
                SyncRejected, tree
  <2> QED
    BY <2>1 DEF LoadFitsBuckets
<1> QED
  BY <1>1, <1>2

(* An access that the storage refuses because of a block gone astray. *)
LEMMA StrayTypes == TypeOK /\ CallOK /\ UseAstray => TypeOK' /\ CallOK'
<1> SUFFICES ASSUME TypeOK, CallOK, UseAstray PROVE TypeOK' /\ CallOK'
  OBVIOUS
<1>1. UNCHANGED <<stash, cache, storage>> /\ Leave("threw")
  BY DEF UseAstray, tree
<1>2. CASE phase = "remap"
  <2>1. Current.block \in Blocks
    BY <1>2, CurrentType DEF CallOK
  <2> QED
    BY <1>1, <1>2, <2>1, NothingType, SizeAssumption
    DEF UseAstray, Leave, TypeOK, CallOK, Idle, InAccess
<1>3. CASE phase # "remap"
  BY <1>1, <1>3, NothingType, SizeAssumption
  DEF UseAstray, Leave, TypeOK, CallOK, Idle, InAccess
<1> QED
  BY <1>2, <1>3

LEMMA FitStep == FitInv /\ [LoadNext]_allVars => FitInv'
<1> SUFFICES ASSUME FitInv, [LoadNext]_allVars PROVE FitInv'
  OBVIOUS
<1>1. ASSUME NEW ids \in (SUBSET Blocks) \ {{}}, NEW records \in [ids -> Loadable],
             Load(records)
      PROVE  FitInv'
  BY <1>1, LoadFits
<1>2. ASSUME [Next]_vars, Fresh' PROVE FitInv'
  BY <1>2, TypeStep, CapacityStep, UseFits DEF FitInv
<1>3. ASSUME NEW records, LoadTooMuch(records) PROVE FitInv'
  BY <1>2, <1>3 DEF LoadTooMuch, Fresh
<1>4. CASE Use
  BY <1>2, <1>4 DEF Use, Fresh
<1>6. CASE UseAstray
  <2>1. TypeOK' /\ CallOK'
    BY <1>6, StrayTypes DEF FitInv
  <2>2. UNCHANGED <<stash, cache, storage, stage>> /\ stage = "open"
    BY <1>6 DEF UseAstray, tree
  <2>3. WithinCapacity' /\ LoadFitsBuckets' /\ Fresh'
    BY <2>2 DEF FitInv, WithinCapacity, View, LoadFitsBuckets, Fresh
  <2> QED
    BY <2>1, <2>3 DEF FitInv
<1>5. CASE UNCHANGED allVars
  <2>1. Fresh'
    BY <1>5 DEF allVars, vars, Fresh, FitInv
  <2> QED
    BY <1>2, <1>5, <2>1 DEF allVars
<1> QED
  BY <1>1, <1>3, <1>4, <1>5, <1>6 DEF LoadNext

LEMMA LoadInitFits == LoadInit => FitInv
<1> SUFFICES ASSUME LoadInit PROVE FitInv
  OBVIOUS
<1>1. TypeOK /\ CallOK /\ WithinCapacity
  BY InitType, InitCapacity DEF LoadInit
<1>2. LoadFitsBuckets
  <2>1. \A l \in Locations : DOMAIN storage[l] = {}
    BY NothingType DEF LoadInit, Init
  <2> QED
    BY <2>1, FS_EmptySet, SizeAssumption DEF LoadFitsBuckets
<1>3. Fresh
  BY DEF Fresh, LoadInit, Init
<1> QED
  BY <1>1, <1>2, <1>3 DEF FitInv

(* However many records are loaded and however they are dealt, no bucket of the *)
(* storage holds more than Z: two buckets' worth of records never meet at one    *)
(* location, the last bucket gets no more than what is left, and the accesses   *)
(* that follow keep to it.                                                    *)
THEOREM BucketsFit == LoadSpec => []LoadFitsBuckets
<1>1. FitInv => LoadFitsBuckets
  BY DEF FitInv
<1> QED
  BY <1>1, LoadInitFits, FitStep, PTL DEF LoadSpec

-----------------------------------------------------------------------------
(* What the records are worth *)

(* The storage has no location beyond those of the tree: a bucket that load     *)
(* writes to such a location is on no path.                                   *)
NoSpareLocations == StorageCapacity = 2^Height

(* Every block that no exception cost holds what it was last given. *)
Holding ==
  /\ expected \in [Blocks -> Data]
  /\ \A b \in Blocks : b \notin damaged => Padded(ValueOf(b)) = Padded(expected[b])

LoadInv == SInv /\ Fresh /\ Holding /\ LoadedIsServed

(* A load is the first thing that happens to an ORAM, and no access follows *)
(* before it is over.                                                      *)
LEMMA LoadQuiet ==
  ASSUME SInv, Fresh, NEW records, Load(records)
  PROVE  /\ stage = "fresh" /\ stage' = "open" /\ phase' = "returned"
         /\ UNCHANGED <<stash, cache>> /\ damaged' = {}
         /\ DOMAIN stash' = {} /\ ~InAccess' /\ Served' /\ PathLoaded'
BY NothingType DEF Load, Fresh, InAccess, Served, PathLoaded

(* Each record is on the path of the leaf its block is mapped to, and nowhere   *)
(* else; a load that was refused leaves the tree empty.                       *)
LEMMA LoadStores ==
  ASSUME NoSpareLocations, SInv, Fresh, NEW ids \in (SUBSET Blocks) \ {{}},
         NEW records \in [ids -> Loadable], Load(records)
  PROVE  /\ \A l \in Locations : \A b \in DOMAIN View(l)' :
              /\ b \in ids /\ l \in Path(positionMap'[b])
              /\ View(l)'[b] = Padded(records[b]) /\ expected'[b] = records[b]
         /\ expected' \in [Blocks -> Data]
         /\ \A b \in Blocks : (\A l \in Locations : b \notin DOMAIN View(l)') => expected'[b] = Empty
<1>1. PICK deal, location, leafOf : Decided(ids, records, deal, location, leafOf)
  BY LoadCases
<1>2. /\ stage = "fresh" /\ UNCHANGED <<stash, cache>> /\ DOMAIN cache' = {}
      /\ DOMAIN records = ids /\ ids \subseteq Blocks
  BY LoadQuiet, NothingType DEF Fresh
<1>3. expected = [b \in Blocks |-> Empty]
  BY <1>2 DEF Fresh
<1>4. CASE NotStored(records, leafOf)
  <2>1. \A l \in Locations : DOMAIN View(l)' = {}
    BY <1>2, <1>4, NothingType DEF NotStored, View, Fresh
  <2>2. expected' = expected
    BY <1>4 DEF NotStored
  <2> QED
    BY <1>3, <2>1, <2>2, DataAssumption
<1>5. CASE /\ Stored(records, location, leafOf)
           /\ \A b \in ids : location[b] \in Locations
  <2>0. /\ Fresh /\ stage = "fresh" /\ UNCHANGED <<stash, cache>>
        /\ ids \in SUBSET Blocks /\ Stored(records, location, leafOf)
    BY <1>2, <1>5
  <2>01. SeenAt(ids, records, location)
    BY <2>0, StoredView
  <2>1. \A l \in Locations : View(l)' = storage'[l]
    BY <2>01 DEF SeenAt
  <2>2. \A l \in Locations : DOMAIN storage'[l] = {b \in ids : location[b] = l}
    BY <2>01 DEF SeenAt
  <2>3. \A l \in Locations : \A b \in DOMAIN storage'[l] : storage'[l][b] = Padded(records[b])
    BY <2>01 DEF SeenAt
  <2>4. /\ \A b \in ids : positionMap'[b] = leafOf[b] /\ expected'[b] = records[b]
        /\ \A b \in Blocks \ ids : expected'[b] = Empty
        /\ expected' = [b \in Blocks |-> expected'[b]]
    BY <1>2, <1>3, <1>5 DEF Stored
  <2>5. \A b \in ids : records[b] \in Data
    BY StorageAssumption
  <2>6. ASSUME NEW b \in ids
        PROVE  location[b] \in Path(leafOf[b])
    <3>1. /\ leafOf[b] \in Leaves /\ leafOf[b] \in LeavesUnder(location[b])
          /\ location[b] \in Nat \ {0}
      BY <1>1 DEF Decided
    <3>2. location[b] \in LocationsOf(Height)
      <4>1. location[b] \in 0 .. StorageCapacity - 1 /\ StorageCapacity \in Nat
        BY <1>5, StorageAssumption
      <4>2. LocationsOf(Height) = 1 .. StorageCapacity - 1
        BY DEF NoSpareLocations, LocationsOf
      <4> QED
        BY <3>1, <4>1, <4>2
    <3> QED
      BY <3>1, <3>2, PathThrough
  <2>7. \A l \in Locations : \A b \in DOMAIN View(l)' :
          b \in ids /\ location[b] = l /\ View(l)'[b] = Padded(records[b])
    BY <2>1, <2>2, <2>3
  <2>8. \A b \in ids : b \in DOMAIN View(location[b])'
    BY <1>5, <2>1, <2>2
  <2>9. expected' \in [Blocks -> Data]
    <3>1. \A b \in Blocks : expected'[b] \in Data
      BY <2>4, <2>5, DataAssumption
    <3> QED
      BY <2>4, <3>1
  <2>10. \A b \in Blocks : (\A l \in Locations : b \notin DOMAIN View(l)') => expected'[b] = Empty
    BY <1>5, <2>4, <2>8
  <2>11. \A l \in Locations : \A b \in DOMAIN View(l)' :
              /\ b \in ids /\ l \in Path(positionMap'[b])
              /\ View(l)'[b] = Padded(records[b]) /\ expected'[b] = records[b]
    BY <2>4, <2>6, <2>7
  <2> QED
    BY <2>9, <2>10, <2>11
<1> QED
  BY <1>1, <1>4, <1>5 DEF Decided

LEMMA LoadHolds ==
  ASSUME NoSpareLocations, LoadInv, NEW ids \in (SUBSET Blocks) \ {{}},
         NEW records \in [ids -> Loadable], Load(records)
  PROVE  LoadInv'
<1>1. SInv /\ Fresh
  BY DEF LoadInv
<1>2. /\ \A l \in Locations : \A b \in DOMAIN View(l)' :
           /\ b \in ids /\ l \in Path(positionMap'[b])
           /\ View(l)'[b] = Padded(records[b]) /\ expected'[b] = records[b]
      /\ expected' \in [Blocks -> Data]
      /\ \A b \in Blocks : (\A l \in Locations : b \notin DOMAIN View(l)') => expected'[b] = Empty
  BY <1>1, LoadStores
<1>3. /\ stage' = "open" /\ phase' = "returned" /\ damaged' = {}
      /\ DOMAIN stash' = {} /\ ~InAccess' /\ Served' /\ PathLoaded'
  BY <1>1, LoadQuiet
<1>4. TypeOK' /\ CallOK'
  BY <1>1, LoadTypes DEF SInv
<1>5. \A b \in Blocks : PositionOf(b)' = positionMap'[b]
  BY <1>3 DEF PositionOf
<1>6. OnMappedPath'
  BY <1>2, <1>5 DEF OnMappedPath, Holds
<1>7. ASSUME NEW b \in Blocks
      PROVE  \A d \in CopiesOf(b)' : d = Padded(expected'[b])
  BY <1>2, <1>3 DEF CopiesOf, Holds
<1>8. CopiesAgree'
  BY <1>7 DEF CopiesAgree
<1>9. SInv'
  BY <1>3, <1>4, <1>6, <1>8 DEF SInv, IInv
<1>10. ASSUME NEW b \in Blocks
       PROVE  Padded(ValueOf(b)') = Padded(expected'[b])
  <2>1. ~BeingReplaced(b)' /\ b \notin damaged'
    BY <1>3 DEF BeingReplaced
  <2>2. /\ CopiesOf(b)' = {} => ValueOf(b)' = Empty
        /\ \A c \in CopiesOf(b)' : Padded(ValueOf(b)') = Padded(c)
    BY <1>9, <2>1, ValuesNext DEF ValuesAreCopies
  <2>3. CASE CopiesOf(b)' = {}
    <3>1. \A l \in Locations : b \notin DOMAIN View(l)'
      BY <2>3 DEF CopiesOf, Holds
    <3> QED
      BY <1>2, <2>2, <2>3, <3>1
  <2>4. CASE CopiesOf(b)' # {}
    <3>1. PICK c \in CopiesOf(b)' : c = Padded(expected'[b])
      BY <1>7, <2>4
    <3>2. expected'[b] \in Data
      BY <1>2
    <3> QED
      BY <2>2, <3>1, <3>2, DataAssumption
  <2> QED
    BY <2>3, <2>4
<1>11. Fresh' /\ LoadedIsServed'
  BY <1>3 DEF Fresh, LoadedIsServed
<1>12. Holding'
  BY <1>2, <1>10 DEF Holding
<1> QED
  BY <1>9, <1>11, <1>12 DEF LoadInv

(* Every step but the update of an access leaves all values as they are. *)
LEMMA OthersKeep ==
  ASSUME SInv, SInv', [Next]_vars, ~Update
  PROVE  /\ damaged \subseteq damaged' /\ Keeps(Blocks \ damaged')
         /\ ~(phase = "update" /\ phase' = "write")
<1>1. ASSUME NEW batch, NEW firstPhase \in {"remap", "prefetch"}, Begin(batch, firstPhase)
      PROVE  /\ Keeps(Blocks) /\ UNCHANGED damaged /\ phase # "update"
  <2>1. \A b \in Blocks : HoldersOf(b)' = HoldersOf(b)
    BY <1>1 DEF Begin, HoldersOf, PositionOf, InAccess, Idle, Holds, View, tree
  <2>2. \A b \in Blocks : ValueOf(b)' = ValueOf(b)
    BY <1>1, <2>1 DEF Begin, ValueOf, View, tree
  <2> QED
    BY <1>1, <2>2 DEF Begin, Keeps, Idle
<1>2. CASE \/ \E b \in Blocks : Get(b)
           \/ \E b \in Blocks, d \in Data : Put(b, d)
           \/ \E batch \in Calls : Multiple(batch)
  BY <1>1, <1>2 DEF Get, Put, Multiple, Keeps
<1>3. CASE Prefetch \/ Remap \/ ReadPath
  <2>1. \A location : View(location)' = View(location)
    BY <1>3, FetchView DEF Prefetch, Remap, ReadPath, View, tree
  <2>2. /\ phase # "write" /\ phase' # "write" /\ UNCHANGED damaged
    BY <1>3 DEF Prefetch, Remap, ReadPath
  <2>3. /\ DOMAIN stash \subseteq DOMAIN stash'
        /\ \A b \in DOMAIN stash' :
             \/ b \in DOMAIN stash /\ stash'[b] = stash[b]
             \/ \E location \in Locations :
                  Holds(location, b) /\ stash'[b] = View(location)[b]
    BY <1>3, AddToStashCopies DEF Prefetch, Remap, ReadPath, SInv, CallOK, InAccess
  <2>4. Keeps(Blocks \ damaged')
    BY <2>1, <2>2, <2>3, KeptView
  <2> QED
    BY <2>2, <2>4
<1>4. CASE WritePath
  BY <1>4, WritePathValues DEF WritePath
<1>5. CASE Sync \/ SyncRejected \/ StorageSetFails
  BY <1>5, SyncValues DEF Sync, SyncRejected, StorageSetFails
<1>6. CASE ReadPathOverflows \/ StorageGetFails \/ UpdateOverflows
  <2>1. Keeps(Blocks \ damaged')
    BY <1>6, InterruptedValues
  <2> QED
    BY <1>6, <2>1 DEF ReadPathOverflows, StorageGetFails, UpdateOverflows, Orphan, Leave
<1>7. CASE UNCHANGED vars
  <2>1. \A b \in Blocks : HoldersOf(b)' = HoldersOf(b)
    BY <1>7 DEF vars, HoldersOf, PositionOf, InAccess, Current, Holds, View
  <2>2. \A b \in Blocks : ValueOf(b)' = ValueOf(b)
    BY <1>7, <2>1 DEF vars, ValueOf, View
  <2> QED
    BY <1>7, <2>2 DEF vars, Keeps
<1> QED
  BY <1>2, <1>3, <1>4, <1>5, <1>6, <1>7 DEF Next

LEMMA UseHolds ==
  ASSUME LoadInv, Use
  PROVE  LoadInv'
<1>1. SInv /\ SInv' /\ [Next]_vars /\ Fresh'
  BY InvariantHolds DEF LoadInv, Use, Fresh
<1>2. CASE ~Update
  <2>1. damaged \subseteq damaged' /\ Keeps(Blocks \ damaged') /\ expected' = expected
    BY <1>1, <1>2, OthersKeep DEF Use
  <2>2. Holding'
    BY <2>1 DEF Holding, Keeps, LoadInv
  <2>3. phase' # "write"
    BY <1>2 DEF Use, Next, Get, Put, Multiple, Begin, Prefetch, Remap, ReadPath,
                ReadPathOverflows, StorageGetFails, UpdateOverflows, WritePath, Sync,
                SyncRejected, StorageSetFails, Leave
  <2> QED
    BY <1>1, <2>2, <2>3 DEF LoadInv, LoadedIsServed
<1>3. CASE Update
  <2>1. /\ UNCHANGED damaged /\ phase = "update" /\ phase' = "write" /\ Current' = Current
        /\ Current.block \in Blocks /\ Current.data \in Data
    BY <1>1, <1>3, CurrentType DEF Update, Current, SInv, CallOK, InAccess
  <2>2. /\ Keeps(Blocks \ (damaged \cup {Current.block}))
        /\ Current.write =>
             response' = Current.data /\ Padded(ValueOf(Current.block))' = Padded(Current.data)
        /\ ~Current.write /\ Current.block \notin damaged =>
             /\ Padded(response') = Padded(ValueOf(Current.block))
             /\ Padded(ValueOf(Current.block))' = Padded(ValueOf(Current.block))
    BY <1>1, <1>3, UpdateValues
  <2>3. CASE Current.write
    <3>1. expected' = [expected EXCEPT ![Current.block] = Current.data]
      BY <2>1, <2>3 DEF Use
    <3>2. Holding'
      BY <2>1, <2>2, <2>3, <3>1 DEF Holding, Keeps, LoadInv
    <3> QED
      BY <1>1, <2>1, <2>3, <3>2 DEF LoadInv, LoadedIsServed
  <2>4. CASE ~Current.write
    <3>1. expected' = expected
      BY <2>1, <2>4 DEF Use
    <3>2. Holding'
      BY <2>1, <2>2, <2>4, <3>1 DEF Holding, Keeps, LoadInv
    <3>3. LoadedIsServed'
      BY <2>1, <2>2, <2>4, <3>1 DEF LoadedIsServed, Holding, LoadInv
    <3> QED
      BY <1>1, <3>2, <3>3 DEF LoadInv
  <2> QED
    BY <2>3, <2>4
<1> QED
  BY <1>2, <1>3

(* The storage refuses the path of a block gone astray: the block is mapped     *)
(* anew, and as no bucket of the tree holds it, nothing is lost but that.       *)
LEMMA StrayHolds ==
  ASSUME LoadInv, UseAstray
  PROVE  LoadInv'
<1>1. SInv /\ TypeOK /\ CallOK /\ IInv
  BY DEF LoadInv, SInv
<1>2. /\ UNCHANGED <<stash, cache, storage, stage, expected>> /\ stage = "open"
      /\ phase' = "threw" /\ phase \in {"prefetch", "remap"} /\ damaged \subseteq damaged'
  BY DEF UseAstray, Strays, Leave, tree
<1>3. TypeOK' /\ CallOK'
  BY <1>1, StrayTypes
<1>4. /\ \A location : View(location)' = View(location)
      /\ \A location, b : Holds(location, b)' <=> Holds(location, b)
      /\ \A b : CopiesOf(b)' = CopiesOf(b)
  BY <1>2 DEF View, Holds, CopiesOf
<1>5. OnMappedPath'
  <2> SUFFICES ASSUME NEW location \in Locations, NEW b \in Blocks, b \notin damaged',
                      Holds(location, b)
               PROVE  location \in Path(positionMap'[b])
    BY <1>2, <1>4 DEF OnMappedPath, PositionOf, InAccess
  <2>1. location \in Path(positionMap[b])
    BY <1>1, <1>2 DEF IInv, OnMappedPath, PositionOf, InAccess
  <2>2. positionMap'[b] = positionMap[b]
    <3>1. CASE phase = "remap"
      <4>1. b # Current.block
        BY <3>1 DEF UseAstray, InTree
      <4> QED
        BY <1>1, <3>1, <4>1 DEF UseAstray, TypeOK
    <3>2. CASE phase # "remap"
      BY <3>2 DEF UseAstray
    <3> QED
      BY <3>1, <3>2
  <2> QED
    BY <2>1, <2>2
<1>6. CopiesAgree'
  BY <1>1, <1>2, <1>4 DEF IInv, CopiesAgree, BeingReplaced
<1>7. SInv'
  BY <1>2, <1>3, <1>5, <1>6 DEF SInv, IInv, PathLoaded, Served
<1>8. ASSUME NEW b \in Blocks, b \notin damaged'
      PROVE  Padded(ValueOf(b)') = Padded(ValueOf(b))
  <2>1. b \notin damaged /\ ~BeingReplaced(b) /\ ~BeingReplaced(b)'
    BY <1>2, <1>8 DEF BeingReplaced
  <2> QED
    BY <1>1, <1>4, <1>7, <1>8, <2>1, KeptCopies
<1>9. Holding'
  BY <1>2, <1>8 DEF LoadInv, Holding
<1>10. Fresh' /\ LoadedIsServed'
  BY <1>2 DEF Fresh, LoadedIsServed
<1> QED
  BY <1>7, <1>9, <1>10 DEF LoadInv

LEMMA LoadStep == NoSpareLocations /\ LoadInv /\ [LoadNext]_allVars => LoadInv'
<1> SUFFICES ASSUME NoSpareLocations, LoadInv, [LoadNext]_allVars PROVE LoadInv'
  OBVIOUS
<1>1. ASSUME NEW ids \in (SUBSET Blocks) \ {{}}, NEW records \in [ids -> Loadable],
             Load(records)
      PROVE  LoadInv'
  BY <1>1, LoadHolds
<1>2. ASSUME UNCHANGED <<vars, expected>>, Fresh' PROVE LoadInv'
  <2>1. SInv'
    BY <1>2, InvariantHolds DEF LoadInv
  <2>2. \A b \in Blocks : HoldersOf(b)' = HoldersOf(b)
    BY <1>2 DEF vars, HoldersOf, PositionOf, InAccess, Current, Holds, View
  <2>3. \A b \in Blocks : ValueOf(b)' = ValueOf(b)
    BY <1>2, <2>2 DEF vars, ValueOf, View
  <2>4. Holding'
    BY <1>2, <2>3 DEF Holding, LoadInv, vars
  <2>5. LoadedIsServed'
    BY <1>2 DEF LoadedIsServed, LoadInv, vars, Current
  <2> QED
    BY <1>2, <2>1, <2>4, <2>5 DEF LoadInv
<1>3. ASSUME NEW records, LoadTooMuch(records) PROVE LoadInv'
  BY <1>2, <1>3 DEF LoadTooMuch, Fresh
<1>4. CASE Use
  BY <1>4, UseHolds
<1>6. CASE UseAstray
  BY <1>6, StrayHolds
<1>5. CASE UNCHANGED allVars
  <2>1. Fresh'
    BY <1>5 DEF allVars, vars, Fresh, LoadInv
  <2> QED
    BY <1>2, <1>5, <2>1 DEF allVars
<1> QED
  BY <1>1, <1>3, <1>4, <1>5, <1>6 DEF LoadNext

LEMMA LoadInitHolds == LoadInit => LoadInv
<1> SUFFICES ASSUME LoadInit PROVE LoadInv
  OBVIOUS
<1>1. SInv /\ Fresh
  BY InvariantHolds DEF LoadInit, Fresh, Init
<1>2. \A b \in Blocks : ValueOf(b) = Empty
  <2>1. DOMAIN stash = {} /\ \A location \in Locations : DOMAIN View(location) = {}
    BY NothingType DEF LoadInit, Init, View
  <2>2. \A b \in Blocks : b \notin damaged /\ ~BeingReplaced(b) /\ CopiesOf(b) = {}
    BY <2>1 DEF LoadInit, Init, BeingReplaced, CopiesOf, Holds
  <2> QED
    BY <1>1, <2>2, Values DEF ValuesAreCopies
<1>3. Holding
  BY <1>2, DataAssumption DEF Holding, LoadInit
<1>4. LoadedIsServed
  BY DEF LoadedIsServed, LoadInit, Init
<1> QED
  BY <1>1, <1>3, <1>4 DEF LoadInv

(* In a storage of just the tree's locations, for every tree and all records,   *)
(* load puts each record on the path of the leaf it maps it to, and the         *)
(* accesses, faults and exceptions that follow keep every block on its path.    *)
THEOREM LoadKeepsOram == NoSpareLocations => (LoadSpec => []LoadPreservesInvariant)
<1> SUFFICES ASSUME NoSpareLocations PROVE LoadSpec => []LoadPreservesInvariant
  OBVIOUS
<1>1. LoadInv => LoadPreservesInvariant
  BY DEF LoadInv, SInv, IInv, LoadPreservesInvariant
<1>2. LoadInv /\ [LoadNext]_allVars => LoadInv'
  BY LoadStep
<1> QED
  BY <1>1, <1>2, LoadInitHolds, PTL DEF LoadSpec

(* In such a storage a GET answers the loaded record until a PUT replaces it,   *)
(* whatever is accessed, evicted or interrupted in between, and nothing for a   *)
(* block that no load or PUT has stored.                                      *)
THEOREM LoadedComesBack == NoSpareLocations => (LoadSpec => []LoadedIsServed)
<1> SUFFICES ASSUME NoSpareLocations PROVE LoadSpec => []LoadedIsServed
  OBVIOUS
<1>1. LoadInv => LoadedIsServed
  BY DEF LoadInv
<1>2. LoadInv /\ [LoadNext]_allVars => LoadInv'
  BY LoadStep
<1> QED
  BY <1>1, <1>2, LoadInitHolds, PTL DEF LoadSpec

=============================================================================
