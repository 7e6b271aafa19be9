------------------------- MODULE QuiltTopologyProofs -------------------------
(* What the arithmetic of the torus guarantees, for every size of patches and chunks. *)
EXTENDS QuiltTopology, TLAPS

-----------------------------------------------------------------------------
(* Quotients and remainders *)

\* A number is its quotient times the divisor and a remainder below the divisor.
LEMMA Division ==
  ASSUME NEW n \in Nat \ {0}, NEW x \in Int
  PROVE  /\ x \div n \in Int /\ x % n \in 0..(n - 1)
         /\ x = n * (x \div n) + (x % n)
  BY SMT

\* The quotient is the only one with such a remainder.
LEMMA Quotient ==
  ASSUME NEW n \in Nat \ {0}, NEW x \in Int, NEW q \in Int, n * q <= x, x < n * q + n
  PROVE  x \div n = q
  BY SMT

\* So is the remainder.
LEMMA RemainderIsUnique ==
  ASSUME NEW n \in Nat \ {0}, NEW x \in Int, NEW q \in Int, NEW r \in 0..(n - 1), x = n * q + r
  PROVE  x % n = r /\ x \div n = q
<1>1. x \div n = q BY Quotient
<1>2. x = n * (x \div n) + (x % n) /\ x % n \in 0..(n - 1) BY Division
<1>3. x = n * q + (x % n) BY <1>1, <1>2
<1>4. n * q \in Int BY SMT
<1>5. ASSUME NEW p \in Int, x = p + (x % n), x = p + r PROVE x % n = r BY <1>2, <1>5, SMT
<1> QED BY <1>1, <1>3, <1>4, <1>5

\* Quotients keep the order.
LEMMA QuotientIsMonotone ==
  ASSUME NEW n \in Nat \ {0}, NEW x \in Int, NEW y \in Int, x <= y
  PROVE  x \div n <= y \div n
  BY SMT

\* Whole laps do not change the remainder.
LEMMA LapsDoNotCount ==
  ASSUME NEW n \in Nat \ {0}, NEW x \in Int, NEW k \in Int
  PROVE  (x + n * k) % n = x % n
<1> DEFINE q == x \div n
           r == x % n
<1>1. q \in Int /\ r \in 0..(n - 1) /\ x = n * q + r BY Division
<1> HIDE DEF q, r
<1>2. x + n * k = n * (q + k) + r /\ q + k \in Int /\ x + n * k \in Int BY <1>1, SMT
<1>3. (x + n * k) % n = r BY <1>1, <1>2, RemainderIsUnique
<1> QED BY <1>3 DEF r

\* Numbers below the divisor are their own remainders.
LEMMA SmallNumbers ==
  ASSUME NEW n \in Nat \ {0}, NEW x \in 0..(n - 1)
  PROVE  x % n = x
  BY SMT

-----------------------------------------------------------------------------
(* Points *)

\* The double remainder of the code is the mathematical one, also for the negative
\* coordinates a camera that has gone round several times produces: one canonical form for
\* all aliases of a point, and canonical points stay as they are.
THEOREM WrappingIsCanonical ==
  ASSUME NEW m \in Nat \ {0}, NEW v \in Int
  PROVE  /\ PositiveModulo(v, m) = v % m
         /\ PositiveModulo(v, m) \in 0..(m - 1)
         /\ \A k \in Int : PositiveModulo(v + m * k, m) = PositiveModulo(v, m)
         /\ PositiveModulo(PositiveModulo(v, m), m) = PositiveModulo(v, m)
<1>1. ASSUME NEW w \in Int PROVE PositiveModulo(w, m) = w % m
  <2> DEFINE r == Remainder(w, m)
  <2>1. r \in Int /\ r + m >= 0 /\ (r + m) % m = w % m
    <3>1. CASE w >= 0
      <4>1. r = w % m /\ r \in 0..(m - 1) BY <3>1, Division DEF Remainder
      <4> HIDE DEF r
      <4>6. r \in Int BY <4>1
      <4>2. ASSUME NEW k \in Int PROVE (r + m * k) % m = r % m BY <4>6, LapsDoNotCount
      <4>5. m * 1 = m /\ 1 \in Int OBVIOUS
      <4>3. r % m = r BY <4>1, SmallNumbers
      <4> QED BY <4>1, <4>2, <4>3, <4>5
    <3>2. CASE ~(w >= 0)
      <4> DEFINE q == (-w) \div m
                 s == (-w) % m
      <4>1. r = -s BY <3>2 DEF Remainder
      <4>2. q \in Int /\ s \in 0..(m - 1) /\ -w = m * q + s
        <5>1. -w \in Int OBVIOUS
        <5> QED BY <5>1, Division
      <4> HIDE DEF r, q, s
      <4>3. -s + m = w + m * (q + 1) /\ q + 1 \in Int BY <4>2, SMT
      <4>4. (w + m * (q + 1)) % m = w % m BY <4>3, LapsDoNotCount
      <4> QED BY <4>1, <4>2, <4>3, <4>4
    <3> QED BY <3>1, <3>2
  <2>2. PositiveModulo(w, m) = (r + m) % m BY <2>1 DEF PositiveModulo, Remainder
  <2> QED BY <2>1, <2>2
<1>2. v % m \in 0..(m - 1) BY Division
<1>3. ASSUME NEW k \in Int PROVE PositiveModulo(v + m * k, m) = PositiveModulo(v, m)
  <2>1. v + m * k \in Int BY SMT
  <2> QED BY <1>1, <2>1, LapsDoNotCount
<1>4. (v % m) % m = v % m BY <1>2, SmallNumbers
<1>5. v % m \in Int BY <1>2
<1> QED BY <1>1, <1>2, <1>3, <1>4, <1>5

\* Collisions and display compare a tile with the image of its neighbour nearest to it:
\* the delta is an image's, and no image is nearer.
THEOREM NearestImageIsNearest ==
  ASSUME NEW h \in Nat \ {0}, NEW delta \in Int
  PROVE  LET near == NearestImageDelta(delta, 2 * h) IN
         /\ \E k \in Int : near = delta + (2 * h) * k
         /\ -h <= near /\ near < h
         /\ \A k \in Int : -h <= delta + (2 * h) * k /\ delta + (2 * h) * k < h
                             => near = delta + (2 * h) * k
<1> DEFINE p == 2 * h
           near == NearestImageDelta(delta, p)
           q == (delta + h) \div p
<1>1. p \in Nat \ {0} /\ p \div 2 = h BY SMT
<1>2. near = ((delta + h) % p) - h
  <2>1. delta + h \in Int OBVIOUS
  <2> HIDE DEF p
  <2> QED BY <1>1, <2>1, WrappingIsCanonical DEF NearestImageDelta
<1> HIDE DEF near
<1>3. q \in Int /\ (delta + h) % p \in 0..(p - 1) /\ delta + h = p * q + ((delta + h) % p)
  <2>1. delta + h \in Int OBVIOUS
  <2> HIDE DEF p
  <2> QED BY <1>1, <2>1, Division
<1>4. near = delta + p * (-q) /\ -q \in Int
  <2> HIDE DEF q
  <2>1. p * (-q) = -(p * q) BY <1>1, <1>3, SMT
  <2>2. p * q \in Int BY <1>1, <1>3, SMT
  <2>3. (delta + h) % p \in Int BY <1>3
  <2> HIDE DEF p
  <2> QED BY <1>2, <1>3, <2>1, <2>2, <2>3
<1>5. -h <= near /\ near < h
  <2> DEFINE r == (delta + h) % p
  <2>1. r \in Int /\ 0 <= r /\ r <= p - 1 BY <1>1, <1>3
  <2> HIDE DEF r
  <2>2. near = r - h BY <1>2 DEF r
  <2> QED BY <2>1, <2>2
<1>6. ASSUME NEW k \in Int, -h <= delta + p * k, delta + p * k < h PROVE near = delta + p * k
  <2>1. delta + p * k + h \in 0..(p - 1) BY <1>1, <1>6, SMT
  <2>2. (delta + p * k + h) % p = delta + p * k + h
    <3> HIDE DEF p
    <3> QED BY <1>1, <2>1, SmallNumbers
  <2>3. ((delta + h) + p * k) % p = (delta + h) % p
    <3>1. delta + h \in Int OBVIOUS
    <3> HIDE DEF p
    <3> QED BY <1>1, <3>1, LapsDoNotCount
  <2>4. (delta + h) + p * k = delta + p * k + h /\ p * k \in Int BY SMT
  <2> HIDE DEF p
  <2> QED BY <1>2, <2>2, <2>3, <2>4, SMT
<1> QED BY <1>4, <1>5, <1>6 DEF near

-----------------------------------------------------------------------------
(* Intervals *)

\* The quilt has a width and a height.
LEMMA PeriodIsPositive == Period \in Nat \ {0}
<1>1. PatchSize * PatchCount \in Nat /\ PatchSize * PatchCount # 0 BY QuiltTopologyAssumption, SMT
<1> QED BY <1>1 DEF Period

\* Products keep the order of their factors.
LEMMA ProductIsMonotone ==
  ASSUME NEW n \in Nat, NEW a \in Int, NEW b \in Int, a <= b
  PROVE  n * a <= n * b /\ n * a \in Int /\ n * b \in Int
  BY SMT

\* Patches follow each other along the axis, the first at its start.
LEMMA PatchesInOrder ==
  ASSUME NEW c \in Int, NEW d \in Int, c <= d
  PROVE  /\ PatchAt(c) \in Int /\ PatchAt(c) <= PatchAt(d)
         /\ PatchAt(c) <= PatchCount - 1
         /\ c >= 0 => PatchAt(c) >= 0
<1>1. c \div PatchSize \in Int /\ d \div PatchSize \in Int /\ c \div PatchSize <= d \div PatchSize
  BY QuiltTopologyAssumption, Division, QuotientIsMonotone
<1>2. c >= 0 => c \div PatchSize >= 0 BY QuiltTopologyAssumption, SMT
<1>3. PatchCount \in Int /\ PatchCount >= 1 BY QuiltTopologyAssumption
<1> QED BY <1>1, <1>2, <1>3 DEF PatchAt, Least

\* The pieces an interval is cut into hold the canonical form of each of its points.
LEMMA PiecesHoldThePoints ==
  ASSUME NEW min \in Int, NEW max \in Int, NEW x \in Int, min <= max,
         min <= x, x < max \/ x = min
  PROVE  /\ PositiveModulo(x, Period) \in 0..(Period - 1)
         /\ \E i \in DecomposeAxis(min, max, Period) :
              /\ i[1] \in Int /\ i[2] \in Int
              /\ i[1] <= PositiveModulo(x, Period) /\ PositiveModulo(x, Period) <= i[2]
<1> DEFINE low == PositiveModulo(min, Period)
           c == PositiveModulo(x, Period)
<1>1. low \in 0..(Period - 1) /\ c \in 0..(Period - 1) /\ Period \in Nat \ {0}
  BY PeriodIsPositive, WrappingIsCanonical
<1>2. /\ x - min < Period - low => c = low + (x - min)
      /\ Period - low <= x - min /\ x - min < Period => c = low + (x - min) - Period
  <2> DEFINE q == min \div Period
  <2>1. q \in Int /\ min = Period * q + low
    BY <1>1, Division, WrappingIsCanonical
  <2> HIDE DEF q, low, c
  <2>2. \A y \in 0..(Period - 1), r \in Int : x = Period * r + y => c = y
    <3>1. ASSUME NEW y \in 0..(Period - 1), NEW r \in Int, x = Period * r + y PROVE c = y
      <4>1. x % Period = y BY <1>1, <3>1, RemainderIsUnique
      <4> QED BY <1>1, <4>1, WrappingIsCanonical DEF c
    <3> QED BY <3>1
  <2>3. x = Period * q + (low + (x - min)) BY <1>1, <2>1, SMT
  <2>4. x = Period * (q + 1) + (low + (x - min) - Period) /\ q + 1 \in Int BY <1>1, <2>1, SMT
  <2>5. ASSUME x - min < Period - low PROVE c = low + (x - min)
    <3>1. low + (x - min) \in 0..(Period - 1) BY <1>1, <2>5
    <3> QED BY <2>1, <2>2, <2>3, <3>1
  <2>6. ASSUME Period - low <= x - min, x - min < Period PROVE c = low + (x - min) - Period
    <3>1. low + (x - min) - Period \in 0..(Period - 1) BY <1>1, <2>6
    <3> QED BY <2>2, <2>4, <3>1
  <2> QED BY <2>5, <2>6
<1>6. /\ max - min >= Period => DecomposeAxis(min, max, Period) = {<<0, Period>>}
      /\ ~(max - min >= Period) /\ low + (max - min) <= Period
           => DecomposeAxis(min, max, Period) = {<<low, low + (max - min)>>}
      /\ ~(max - min >= Period) /\ ~(low + (max - min) <= Period)
           => DecomposeAxis(min, max, Period) = {<<low, Period>>, <<0, (low + (max - min)) - Period>>}
  BY Zenon DEF DecomposeAxis
<1> HIDE DEF low, c
<1>4. SUFFICES \E i \in DecomposeAxis(min, max, Period) :
                 i[1] \in Int /\ i[2] \in Int /\ i[1] <= c /\ c <= i[2]
  BY <1>1 DEF c
<1>5. ASSUME NEW a \in Int, NEW b \in Int, a <= c, c <= b,
             <<a, b>> \in DecomposeAxis(min, max, Period)
      PROVE  \E i \in DecomposeAxis(min, max, Period) :
               i[1] \in Int /\ i[2] \in Int /\ i[1] <= c /\ c <= i[2]
  BY <1>5
<1>7. CASE max - min >= Period
  <2>1. 0 <= c /\ c <= Period /\ 0 \in Int /\ Period \in Int BY <1>1
  <2>2. <<0, Period>> \in DecomposeAxis(min, max, Period) BY <1>6, <1>7
  <2> QED BY <1>5, <2>1, <2>2
<1>8. CASE max - min < Period /\ low + (max - min) <= Period
  <2>1. low <= c /\ c <= low + (max - min) BY <1>1, <1>2, <1>8
  <2>2. low \in Int /\ low + (max - min) \in Int BY <1>1
  <2>3. ~(max - min >= Period) BY <1>1, <1>8
  <2>4. <<low, low + (max - min)>> \in DecomposeAxis(min, max, Period) BY <1>6, <1>8, <2>3
  <2> QED BY <1>5, <2>1, <2>2, <2>4
<1>9. CASE max - min < Period /\ low + (max - min) > Period
  <2>1. \/ low <= c /\ c <= Period
        \/ 0 <= c /\ c <= (low + (max - min)) - Period
    BY <1>1, <1>2, <1>9
  <2>2. low \in Int /\ Period \in Int /\ (low + (max - min)) - Period \in Int BY <1>1
  <2>3. ~(max - min >= Period) /\ ~(low + (max - min) <= Period) BY <1>1, <1>9
  <2>4. /\ <<low, Period>> \in DecomposeAxis(min, max, Period)
        /\ <<0, (low + (max - min)) - Period>> \in DecomposeAxis(min, max, Period)
    BY <1>6, <2>3
  <2> QED BY <1>5, <2>1, <2>2, <2>4
<1> QED BY <1>1, <1>7, <1>8, <1>9

\* A placement locks, and needs the ownership of, every patch a point of the tile lies in,
\* also when the tile lies across the seam or is wider than the quilt.
THEOREM TilesAreLockedWhereTheyLie ==
  ASSUME NEW min \in Int, NEW max \in Int, NEW x \in Int, min <= max,
         min <= x, x < max \/ x = min
  PROVE  ResolveCanonicalPoint(x).patch \in AffectedPatches(min, max)
<1> DEFINE c == PositiveModulo(x, Period)
<1>1. c \in Int /\ \E i \in DecomposeAxis(min, max, Period) :
                     i[1] \in Int /\ i[2] \in Int /\ i[1] <= c /\ c <= i[2]
  BY PiecesHoldThePoints, PeriodIsPositive
<1>2. ResolveCanonicalPoint(x).patch = PatchAt(c) BY DEF ResolveCanonicalPoint
<1> HIDE DEF c
<1>3. PICK i \in DecomposeAxis(min, max, Period) :
        i[1] \in Int /\ i[2] \in Int /\ i[1] <= c /\ c <= i[2]
  BY <1>1
<1>4. /\ PatchAt(i[1]) <= PatchAt(c) /\ PatchAt(c) <= PatchAt(i[2])
      /\ PatchAt(i[1]) \in Int /\ PatchAt(c) \in Int /\ PatchAt(i[2]) \in Int
  BY <1>1, <1>3, PatchesInOrder
<1>5. PatchAt(c) \in PatchesAlong(i) BY <1>4 DEF PatchesAlong
<1> QED BY <1>2, <1>3, <1>5 DEF AffectedPatches

\* A client asks for the chunk of every point it has in view, also across the seam and
\* when the last chunk of the axis is cut short by it.
THEOREM ChunksInViewAreAsked ==
  ASSUME NEW min \in Int, NEW max \in Int, NEW x \in Int, min <= max,
         min <= x, x < max \/ x = min
  PROVE  PositiveModulo(x, Period) \div ChunkSize \in ViewportChunks(min, max)
<1> DEFINE c == PositiveModulo(x, Period)
           k == c \div ChunkSize
<1>1. c \in 0..(Period - 1) /\ \E i \in DecomposeAxis(min, max, Period) :
                     i[1] \in Int /\ i[2] \in Int /\ i[1] <= c /\ c <= i[2]
  BY PiecesHoldThePoints
<1>2. Period \in Nat \ {0} /\ ChunkSize \in Nat \ {0}
  BY PeriodIsPositive, QuiltTopologyAssumption
<1> HIDE DEF c
<1>3. PICK i \in DecomposeAxis(min, max, Period) :
        i[1] \in Int /\ i[2] \in Int /\ i[1] <= c /\ c <= i[2]
  BY <1>1
<1>4. k \in ChunksAlong(i)
  <2>1. c \in Int BY <1>1
  <2>2. i[1] \div ChunkSize <= k BY <1>2, <1>3, <2>1, QuotientIsMonotone
  <2>3. k <= i[2] \div ChunkSize BY <1>2, <1>3, <2>1, QuotientIsMonotone
  <2>4. i[1] \div ChunkSize \in Int /\ k \in Int /\ i[2] \div ChunkSize \in Int
    BY <1>2, <1>3, <2>1, Division
  <2> QED BY <2>2, <2>3, <2>4 DEF ChunksAlong
<1>5. k \in 0..(ChunkCount - 1) /\ ChunkCount \in Nat \ {0}
  <2> DEFINE q == (-Period) \div ChunkSize
  <2>1. -Period \in Int BY <1>2
  <2>2. /\ q \in Int /\ -Period = ChunkSize * q + ((-Period) % ChunkSize)
        /\ (-Period) % ChunkSize \in 0..(ChunkSize - 1)
    BY <1>2, <2>1, Division
  <2>3. /\ k \in Int /\ c = ChunkSize * k + (c % ChunkSize) /\ c % ChunkSize \in 0..(ChunkSize - 1)
    BY <1>1, <1>2, Division, SMTT(60)
  <2> HIDE DEF q, k
  <2>4. ChunkSize * k \in Int /\ ChunkSize * q \in Int BY <1>2, <2>2, <2>3, SMT
  <2>5. ChunkSize * k <= c /\ c < ChunkSize * k + ChunkSize /\ ChunkSize * q <= -Period
    BY <1>1, <1>2, <2>2, <2>3, <2>4
  <2>6. 0 <= k
    <3>1. SUFFICES ASSUME k <= -1 PROVE FALSE BY <2>3
    <3>2. ChunkSize * k <= ChunkSize * (-1) BY <1>2, <2>3, <3>1, ProductIsMonotone
    <3>3. ChunkSize * (-1) = -ChunkSize BY <1>2, SMT
    <3> QED BY <1>1, <1>2, <2>4, <2>5, <3>2, <3>3
  <2>7. k < -q
    <3>1. SUFFICES ASSUME -q <= k PROVE FALSE BY <2>2, <2>3
    <3>2. ChunkSize * (-q) <= ChunkSize * k BY <1>2, <2>2, <2>3, <3>1, ProductIsMonotone
    <3>3. ChunkSize * (-q) = -(ChunkSize * q) BY <1>2, <2>2, SMT
    <3> QED BY <1>1, <1>2, <2>4, <2>5, <3>2, <3>3
  <2>8. ChunkCount = -q BY DEF ChunkCount, q
  <2> QED BY <2>2, <2>3, <2>6, <2>7, <2>8
<1>6. PositiveModulo(k, ChunkCount) = k
  <2> HIDE DEF k
  <2>1. k \in Int /\ k % ChunkCount = k BY <1>5, SmallNumbers
  <2>2. PositiveModulo(k, ChunkCount) = k % ChunkCount BY <1>5, <2>1, WrappingIsCanonical
  <2> QED BY <2>1, <2>2
<1>7. k \in ViewportChunks(min, max) BY <1>3, <1>4, <1>6 DEF ViewportChunks
<1> QED BY <1>7 DEF c

\* Two aliases of a footprint, whole laps apart, lock the same patches.
THEOREM AliasesLockAlike ==
  ASSUME NEW min \in Int, NEW max \in Int, NEW k \in Int
  PROVE  AffectedPatches(min + Period * k, max + Period * k) = AffectedPatches(min, max)
<1>1. PositiveModulo(min + Period * k, Period) = PositiveModulo(min, Period)
  BY PeriodIsPositive, WrappingIsCanonical
<1>2. Period * k \in Int BY PeriodIsPositive, SMT
<1>3. (max + Period * k) - (min + Period * k) = max - min
  <2> DEFINE d == Period * k
  <2>1. d \in Int BY <1>2
  <2> HIDE DEF d
  <2>2. (max + d) - (min + d) = max - min BY <2>1
  <2> QED BY <2>2 DEF d
<1> QED BY <1>1, <1>3 DEF AffectedPatches, DecomposeAxis

\* The renderer draws exactly the images of a tile that reach into the viewport: none is
\* left out at a seam and none drawn beside the view.
THEOREM ImagesAreThoseThatShow ==
  ASSUME NEW lo \in Int, NEW hi \in Int, NEW min \in Int, NEW max \in Int, NEW i \in Int
  PROVE  i \in PeriodicImages(lo, hi, min, max)
           <=> lo + Period * i < max /\ hi + Period * i > min
<1> DEFINE n == Period
<1>1. n \in Nat \ {0} BY PeriodIsPositive
<1> HIDE DEF n
<1>2. ASSUME NEW d \in Int, NEW j \in Int PROVE j > d \div n <=> n * j > d
  <2> DEFINE q == d \div n
  <2>1. q \in Int /\ n * q <= d /\ d < n * q + n
    <3>1. q \in Int /\ d = n * q + (d % n) /\ d % n \in 0..(n - 1) BY <1>1, <1>2, Division
    <3> HIDE DEF q
    <3>2. n * q \in Int BY <1>1, <3>1, SMT
    <3> QED BY <1>1, <3>1, <3>2
  <2> HIDE DEF q
  <2>2. CASE j > q
    <3>1. q + 1 \in Int /\ q + 1 <= j BY <2>1, <2>2
    <3>2. n * (q + 1) <= n * j BY <1>1, <1>2, <3>1, ProductIsMonotone
    <3>3. n * (q + 1) = n * q + n BY <1>1, <2>1, SMT
    <3>4. n * q \in Int /\ n * j \in Int BY <1>1, <1>2, <2>1, SMT
    <3> QED BY <1>1, <2>1, <2>2, <3>2, <3>3, <3>4 DEF q
  <2>3. CASE ~(j > q)
    <3>1. n * j <= n * q /\ n * j \in Int /\ n * q \in Int
      BY <1>1, <1>2, <2>1, <2>3, ProductIsMonotone
    <3> QED BY <2>1, <2>3, <3>1 DEF q
  <2> QED BY <2>2, <2>3
<1>3. n * i \in Int /\ n * (-i) = -(n * i) /\ -i \in Int BY <1>1, SMT
<1>4. /\ min - hi \in Int /\ lo - max \in Int
      /\ (min - hi) \div n \in Int /\ (lo - max) \div n \in Int
  BY <1>1, Division
<1>5. i > (min - hi) \div n <=> n * i > min - hi BY <1>2, <1>4
<1>6. -i > (lo - max) \div n <=> n * (-i) > lo - max BY <1>2, <1>3, <1>4
<1>7. i \in PeriodicImages(lo, hi, min, max)
        <=> i > (min - hi) \div n /\ -i > (lo - max) \div n
  BY <1>4 DEF PeriodicImages, n
<1> QED BY <1>3, <1>5, <1>6, <1>7 DEF n

-----------------------------------------------------------------------------
(* What reaches the client *)

\* A tile is delivered to whoever has one of its points in view, if the patch of that point
\* is the one its chunk is asked of.
THEOREM WatchedPointsArrive ==
  ASSUME NEW min \in Int, NEW max \in Int, NEW x \in Int, min <= max,
         min <= x, x < max \/ x = min,
         NEW from \in Int, NEW to \in Int, from <= to,
         from <= x, x < to \/ x = from,
         PatchOfChunk(PositiveModulo(x, Period) \div ChunkSize) = ResolveCanonicalPoint(x).patch
  PROVE  Delivers(ViewportChunks(from, to), min, max)
<1> DEFINE c == PositiveModulo(x, Period)
           k == c \div ChunkSize
<1>1. /\ c \in 0..(Period - 1)
      /\ \E i \in DecomposeAxis(min, max, Period) :
           i[1] \in Int /\ i[2] \in Int /\ i[1] <= c /\ c <= i[2]
  BY PiecesHoldThePoints
<1>2. k \in ViewportChunks(from, to) BY ChunksInViewAreAsked
<1>3. PatchOfChunk(k) = PatchAt(c) BY DEF ResolveCanonicalPoint
<1>4. Period \in Nat \ {0} BY PeriodIsPositive
<1> HIDE DEF c
<1>5. PICK i \in DecomposeAxis(min, max, Period) :
        i[1] \in Int /\ i[2] \in Int /\ i[1] <= c /\ c <= i[2]
  BY <1>1
<1>6. c \in Int BY <1>1, <1>4
<1>7. PatchAt(c) \in PatchesAlong(i)
  <2>1. /\ PatchAt(i[1]) <= PatchAt(c) /\ PatchAt(c) <= PatchAt(i[2])
        /\ PatchAt(i[1]) \in Int /\ PatchAt(c) \in Int /\ PatchAt(i[2]) \in Int
    BY <1>5, <1>6, PatchesInOrder
  <2> QED BY <2>1 DEF PatchesAlong
<1>8. k \in ChunksAlong(i)
  <2>1. /\ i[1] \div ChunkSize <= k /\ k <= i[2] \div ChunkSize
        /\ i[1] \div ChunkSize \in Int /\ k \in Int /\ i[2] \div ChunkSize \in Int
    BY <1>5, <1>6, QuiltTopologyAssumption, QuotientIsMonotone, Division
  <2> QED BY <2>1 DEF ChunksAlong
<1>9. <<PatchAt(c), k>> \in SpatialRefs(min, max)
  BY <1>5, <1>7, <1>8 DEF SpatialRefs
<1>10. <<PatchAt(c), k>> \in Subscribed(ViewportChunks(from, to)) BY <1>2, <1>3 DEF Subscribed
<1> QED BY <1>9, <1>10 DEF Delivers

\* Where a patch begins within a chunk, a tile between the border and the end of that chunk
\* reaches nobody: whatever chunks a client has in view, it asks the chunk of the patch
\* before, and the tile is filed under the patch after.
THEOREM StripsAreUnwatched ==
  ASSUME NEW c \in 1..(PatchCount - 1), NEW k \in Nat,
         k * ChunkSize < c * PatchSize,
         NEW min \in Int, NEW max \in Int,
         c * PatchSize <= min, min <= max,
         max < (k + 1) * ChunkSize, max < (c + 1) * PatchSize,
         NEW chunks
  PROVE  ~Delivers(chunks, min, max)
<1>1. /\ PatchSize \in Nat \ {0} /\ PatchCount \in Nat \ {0} /\ ChunkSize \in Nat \ {0}
      /\ c \in Int /\ 1 <= c /\ c <= PatchCount - 1
  BY QuiltTopologyAssumption
<1>2. /\ c * PatchSize = PatchSize * c /\ (c + 1) * PatchSize = PatchSize * c + PatchSize
      /\ k * ChunkSize = ChunkSize * k /\ (k + 1) * ChunkSize = ChunkSize * k + ChunkSize
      /\ PatchSize * c \in Int /\ ChunkSize * k \in Int /\ 0 <= PatchSize * c /\ 0 <= ChunkSize * k
  BY <1>1, SMT
<1>3. PatchSize * c + PatchSize <= Period
  <2>1. PatchSize * (c + 1) <= PatchSize * PatchCount BY <1>1, ProductIsMonotone
  <2>2. PatchSize * (c + 1) = PatchSize * c + PatchSize BY <1>1, SMT
  <2> QED BY <2>1, <2>2 DEF Period
<1>4. DecomposeAxis(min, max, Period) = {<<min, max>>}
  <2>1. min \in 0..(Period - 1) /\ max < Period /\ Period \in Nat \ {0}
    BY <1>1, <1>2, <1>3, PeriodIsPositive
  <2>2. PositiveModulo(min, Period) = min BY <2>1, WrappingIsCanonical, SmallNumbers
  <2>3. ~(max - min >= Period) /\ min + (max - min) <= Period /\ min + (max - min) = max
    BY <2>1
  <2> QED BY <2>2, <2>3 DEF DecomposeAxis
<1>5. PatchesAlong(<<min, max>>) = {c}
  <2>1. min \div PatchSize = c /\ max \div PatchSize = c
    <3>1. /\ PatchSize * c <= min /\ min < PatchSize * c + PatchSize
          /\ PatchSize * c <= max /\ max < PatchSize * c + PatchSize
      BY <1>1, <1>2
    <3> QED BY <1>1, <3>1, Quotient
  <2>2. PatchAt(min) = c /\ PatchAt(max) = c BY <1>1, <2>1 DEF PatchAt, Least
  <2> QED BY <1>1, <2>2 DEF PatchesAlong
<1>6. ChunksAlong(<<min, max>>) = {k}
  <2>1. /\ ChunkSize * k <= min /\ min < ChunkSize * k + ChunkSize
        /\ ChunkSize * k <= max /\ max < ChunkSize * k + ChunkSize
    BY <1>1, <1>2
  <2>2. min \div ChunkSize = k /\ max \div ChunkSize = k BY <1>1, <2>1, Quotient
  <2> QED BY <2>2 DEF ChunksAlong
<1>7. SpatialRefs(min, max) = {<<c, k>>}
  BY <1>4, <1>5, <1>6 DEF SpatialRefs
<1>8. PatchOfChunk(k) # c
  <2> DEFINE q == (k * ChunkSize) \div PatchSize
  <2>1. q \in Int /\ PatchSize * q <= k * ChunkSize /\ k * ChunkSize \in Nat
    <3>1. k * ChunkSize \in Int /\ k * ChunkSize \in Nat BY <1>1, SMT
    <3>2. q \in Int /\ k * ChunkSize = PatchSize * q + ((k * ChunkSize) % PatchSize)
          /\ (k * ChunkSize) % PatchSize \in 0..(PatchSize - 1)
      BY <1>1, <3>1, Division
    <3> HIDE DEF q
    <3>3. PatchSize * q \in Int BY <1>1, <3>2, SMT
    <3> QED BY <1>1, <3>1, <3>2, <3>3
  <2>2. q >= 0 BY <1>1, <2>1, SMT
  <2> HIDE DEF q
  <2>3. q < c
    <3>1. SUFFICES ASSUME c <= q PROVE FALSE BY <1>1, <2>1
    <3>2. PatchSize * c <= PatchSize * q /\ PatchSize * q \in Int
      BY <1>1, <2>1, <3>1, ProductIsMonotone
    <3> QED BY <1>2, <2>1, <3>2
  <2>4. q \in 0..(PatchCount - 1) BY <1>1, <2>1, <2>2, <2>3
  <2>5. PositiveModulo(q, PatchCount) = q
    <3>1. q % PatchCount = q BY <1>1, <2>4, SmallNumbers
    <3>2. PositiveModulo(q, PatchCount) = q % PatchCount BY <1>1, <2>1, WrappingIsCanonical
    <3> QED BY <3>1, <3>2
  <2> QED BY <1>1, <2>1, <2>3, <2>5 DEF PatchOfChunk, q
<1>9. <<c, k>> \notin Subscribed(chunks)
  BY <1>8 DEF Subscribed
<1> QED BY <1>7, <1>9 DEF Delivers
=============================================================================
