--------------------------- MODULE SpectrumProofs ---------------------------
(***************************************************************************)
(* Theorems about the two programs that look at a spectrum.  rtl_power's   *)
(* plan (PowerPlan), for every request whose bandwidth is an int: the rows *)
(* tile the range and every hop can be sampled.  The spike detector of     *)
(* rtl_tcp (Detector), for every number of points and bands, every window  *)
(* and whatever the FFT puts out: what the pin says, the order of the      *)
(* bins, and the bands that do not fit threshold_array.                    *)
(***************************************************************************)
EXTENDS Detector, PowerPlan, WellFoundedInduction, FiniteSetTheorems, TLAPS

-----------------------------------------------------------------------------
(* Arithmetic.                                                             *)

LEMMA Divides ==
  ASSUME NEW x \in Int, NEW t \in Nat \ {0}
  PROVE  x \div t \in Int /\ t * (x \div t) <= x /\ x < t * (x \div t) + t
OBVIOUS

LEMMA QuotientIs ==
  ASSUME NEW x \in Int, NEW t \in Nat \ {0}, NEW q \in Int, t * q <= x, x < t * q + t
  PROVE  x \div t = q
<1> DEFINE p == x \div t
<1>1. p \in Int /\ t * p <= x /\ x < t * p + t
  BY Divides
<1> HIDE DEF p
<1>2. t * p < t * (q + 1) /\ t * q < t * (p + 1)
  BY <1>1
<1>3. p < q + 1 /\ q < p + 1
  BY <1>1, <1>2
<1> QED
  BY <1>1, <1>3 DEF p

LEMMA Least ==
  ASSUME NEW T \in SUBSET Nat, T # {}
  PROVE  \E x \in T : \A y \in T : x <= y
<1> DEFINE R == {ss \in Nat \X Nat : ss[1] < ss[2]}
<1>1. IsWellFoundedOn(R, Nat)
  BY NatLessThanWellFounded DEF OpToRel
<1>2. PICK x \in T : \A y \in T : ~ (<<y, x>> \in R)
  BY <1>1, WFMin
<1>3. x \in Nat /\ \A y \in T : y \in Nat /\ ~ (y < x)
  BY <1>2
<1> QED
  BY <1>3

-----------------------------------------------------------------------------
(* Least and greatest, and powers of 2.                                    *)

LEMMA MinIs ==
  ASSUME NEW T \in SUBSET Nat, T # {}
  PROVE  Min(T) \in T /\ \A y \in T : Min(T) <= y
<1>1. \E x \in T : \A y \in T : x <= y
  BY Least
<1> QED
  BY <1>1, Zenon DEF Min

\* A set of numbers that are none above b has a greatest one.
LEMMA MaxIs ==
  ASSUME NEW b \in Nat, NEW T \in SUBSET (0 .. b), T # {}
  PROVE  Max(T) \in T /\ \A y \in T : y <= Max(T)
<1> DEFINE below == {x \in 0 .. b : b - x \in T}
<1>1. below \in SUBSET Nat /\ below # {}
  <2>1. PICK t \in T : TRUE
    OBVIOUS
  <2>2. b - t \in 0 .. b /\ b - (b - t) = t
    OBVIOUS
  <2> QED
    BY <2>2
<1>2. PICK x \in below : \A y \in below : x <= y
  BY <1>1, Least
<1>3. ASSUME NEW y \in T PROVE y <= b - x
  <2>1. b - y \in below
    <3>1. b - y \in 0 .. b /\ b - (b - y) = y
      OBVIOUS
    <3> QED
      BY <3>1
  <2>2. x \in 0 .. b /\ y \in 0 .. b /\ x <= b - y
    BY <1>2, <2>1
  <2> QED
    BY <2>2
<1>4. b - x \in T
  OBVIOUS
<1>5. \E z \in T : \A y \in T : z >= y
  BY <1>3, <1>4
<1>6. Max(T) \in T /\ \A y \in T : Max(T) >= y
  BY <1>5, Zenon DEF Max
<1> QED
  BY <1>6

LEMMA MaxOfTwo ==
  ASSUME NEW x \in Nat, NEW y \in Nat
  PROVE  Max({x, y}) = IF x >= y THEN x ELSE y
<1>1. \E z \in {x, y} : \A v \in {x, y} : z >= v
  OBVIOUS
<1>2. Max({x, y}) \in {x, y} /\ \A v \in {x, y} : Max({x, y}) >= v
  BY <1>1, Zenon DEF Max
<1> QED
  BY <1>2

\* A power of 2, which the provers then take as it is.
Two(ix) == 2^ix

LEMMA Powers ==
  /\ Two(0) = 1 /\ Two(1) = 2 /\ Two(2) = 4 /\ Two(3) = 8 /\ Two(4) = 16 /\ Two(5) = 32
  /\ Two(6) = 64 /\ Two(7) = 128 /\ Two(8) = 256 /\ Two(9) = 512 /\ Two(10) = 1024
  /\ Two(11) = 2048 /\ Two(12) = 4096 /\ Two(13) = 8192 /\ Two(14) = 16384
  /\ Two(15) = 32768 /\ Two(16) = 65536 /\ Two(17) = 131072 /\ Two(18) = 262144
  /\ Two(19) = 524288 /\ Two(20) = 1048576 /\ Two(21) = 2097152
BY SMT DEF Two

LEMMA Exponents ==
  ASSUME NEW ix \in 0 .. 21
  PROVE  \/ ix = 0 \/ ix = 1 \/ ix = 2 \/ ix = 3 \/ ix = 4 \/ ix = 5 \/ ix = 6 \/ ix = 7
         \/ ix = 8 \/ ix = 9 \/ ix = 10 \/ ix = 11 \/ ix = 12 \/ ix = 13 \/ ix = 14 \/ ix = 15
         \/ ix = 16 \/ ix = 17 \/ ix = 18 \/ ix = 19 \/ ix = 20 \/ ix = 21
BY SMT

LEMMA PowerIs ==
  ASSUME NEW ix \in 0 .. 21
  PROVE  /\ Two(ix) \in Nat \ {0}
         /\ ix < 21 => Two(ix + 1) = 2 * Two(ix)
         /\ ix > 0 => Two(ix) = 2 \/ Two(ix) = 4 \/ ix > 2
BY Exponents, Powers, SMTT(60)

\* A power of 2 is 1048576 or 2097152, or less than both.
Leap(t) == t <= 524288 \/ t = 1048576 \/ t = 2097152

LEMMA Leaps ==
  ASSUME NEW ix \in 0 .. 21
  PROVE  Leap(Two(ix))
BY Exponents, Powers, SMTT(60) DEF Leap

\* The multiples of 8 among them, and the divisors of 8192.
LEMMA PowerOf ==
  ASSUME NEW ix \in 0 .. 21
  PROVE  /\ ix > 2 => \E b \in Nat \ {0} : Two(ix) = 8 * b
         /\ Two(ix) >= 8192 \/ \E b \in Nat \ {0} : 8192 = b * Two(ix)
<1>1. ix > 2 => ix - 3 \in 0 .. 21 /\ Two(ix) = 8 * Two(ix - 3)
  <2>1. ix > 2 => \/ ix = 3 \/ ix = 4 \/ ix = 5 \/ ix = 6 \/ ix = 7
      \/ ix = 8 \/ ix = 9 \/ ix = 10 \/ ix = 11 \/ ix = 12 \/ ix = 13 \/ ix = 14 \/ ix = 15
      \/ ix = 16 \/ ix = 17 \/ ix = 18 \/ ix = 19 \/ ix = 20 \/ ix = 21
    BY SMT
  <2> QED
    BY <2>1, Powers, SMTT(60)
<1>2. ix <= 13 => 13 - ix \in 0 .. 21 /\ 8192 = Two(13 - ix) * Two(ix)
  <2>1. ix <= 13 => \/ ix = 0 \/ ix = 1 \/ ix = 2 \/ ix = 3 \/ ix = 4 \/ ix = 5 \/ ix = 6 \/ ix = 7
      \/ ix = 8 \/ ix = 9 \/ ix = 10 \/ ix = 11 \/ ix = 12 \/ ix = 13
    BY SMT
  <2> QED
    BY <2>1, Powers, SMTT(60)
<1>3. ix > 13 => Two(ix) >= 8192
  <2>1. ix > 13 => \/ ix = 14 \/ ix = 15
      \/ ix = 16 \/ ix = 17 \/ ix = 18 \/ ix = 19 \/ ix = 20 \/ ix = 21
    BY SMT
  <2> QED
    BY <2>1, Powers, SMT
<1>p. \A j \in 0 .. 21 : Two(j) \in Nat \ {0}
  BY PowerIs, Zenon
<1>4. CASE ix > 2
  BY <1>1, <1>2, <1>3, <1>4, <1>p, SMT
<1>5. CASE ix <= 2
  BY <1>2, <1>5, <1>p, SMT
<1> QED
  BY <1>4, <1>5, SMT

\* The greatest power of 2 that is none above d.
LEMMA LargestPower ==
  ASSUME NEW d \in Nat, 1 <= d, d <= MAXIMUM_RATE
  PROVE  \E ix \in 0 .. 21 : /\ Max({k \in {Two(j) : j \in 0 .. 21} : k <= d}) = Two(ix)
                            /\ Two(ix) <= d /\ d < 2 * Two(ix)
<1>0. MAXIMUM_RATE = 2800000
  BY SMT DEF MAXIMUM_RATE
<1> DEFINE T == {k \in {Two(j) : j \in 0 .. 21} : k <= d}
<1>p. \A j \in 0 .. 21 : Two(j) \in Nat \ {0} /\ (j < 21 => Two(j + 1) = 2 * Two(j))
  BY PowerIs, Zenon
<1>1. T \in SUBSET (0 .. d) /\ 1 \in T
  <2>1. Two(0) = 1 /\ 0 \in 0 .. 21
    BY <1>0, Powers, SMT
  <2>2. ASSUME NEW k \in T PROVE k \in 0 .. d
    BY <1>0, <2>2, <1>p, SMT
  <2>3. 1 \in {Two(j) : j \in 0 .. 21} /\ 1 <= d
    BY <1>0, <2>1, SMT
  <2> QED
    BY <1>0, <2>2, <2>3, SMT
<1>2. Max(T) \in T /\ \A y \in T : y <= Max(T)
  <2>1. d \in Nat /\ T # {}
    BY <1>1, SMT
  <2> HIDE DEF T
  <2> QED
    BY <1>1, <2>1, MaxIs
<1>3. PICK ix \in 0 .. 21 : Max(T) = Two(ix)
  BY <1>0, <1>2, SMT
<1>4. Two(ix) <= d
  BY <1>0, <1>2, <1>3, SMT
<1>5. CASE ix = 21
  BY <1>0, <1>3, <1>4, <1>5, Powers, SMT
<1>6. CASE ix < 21
  <2>1. Two(ix + 1) = 2 * Two(ix) /\ ix + 1 \in 0 .. 21 /\ Two(ix) \in Nat \ {0}
    BY <1>0, <1>6, <1>p, SMT
  <2>2. ~ (Two(ix + 1) <= d)
    <3>1. SUFFICES ASSUME Two(ix + 1) <= d PROVE FALSE
      BY <1>0, SMT
    <3>2. Two(ix + 1) \in T
      BY <1>0, <2>1, <3>1, SMT
    <3>3. Two(ix + 1) <= Two(ix)
      BY <1>0, <1>2, <1>3, <3>2, SMT
    <3> QED
      BY <1>0, <2>1, <3>3, SMT
  <2> QED
    BY <1>0, <1>3, <1>4, <2>1, <2>2, SMT
<1> QED
  BY <1>0, <1>5, <1>6, SMT

-----------------------------------------------------------------------------
(* The plan.                                                               *)

Requests == [width : Widths, size : Sizes, crop : Crops, boxcar : BOOLEAN]

Within(w, c) ==
  /\ w < 2147483648
  /\ c = 1 => w < 1610612736
  /\ c = 2 => w < 1073741824
  /\ c = 3 => w < 536870912

LEMMA WithinInt ==
  ASSUME NEW w \in Nat \ {0}, NEW c \in 0 .. 3, FitsInt(w, c)
  PROVE  Within(w, c)
<1>1. w \div (4 - c) < 536870912
  BY SMT DEF FitsInt
<1>2. CASE c = 0
  BY <1>1, <1>2, SMT DEF Within
<1>3. CASE c = 1
  BY <1>1, <1>3, SMT DEF Within
<1>4. CASE c = 2
  BY <1>1, <1>4, SMT DEF Within
<1>5. CASE c = 3
  BY <1>1, <1>5, SMT DEF Within
<1> QED
  BY <1>2, <1>3, <1>4, <1>5, SMT

LEMMA RequestIs ==
  ASSUME NEW a \in Requests
  PROVE  /\ a.width \in Nat \ {0} /\ a.size \in Nat \ {0} /\ a.crop \in 0 .. 3
         /\ a.boxcar \in BOOLEAN
         /\ Within(a.width, a.crop)
<1>1. a.width \in Widths /\ a.size \in Sizes /\ a.crop \in Crops /\ a.boxcar \in BOOLEAN
  BY Zenon DEF Requests
<1>2. FitsInt(a.width, a.crop)
  BY <1>1, PlanAssumption, Zenon DEF PlanAssumption
<1>3. a.width \in Nat \ {0} /\ a.size \in Nat \ {0} /\ a.crop \in 0 .. 3
  BY <1>1, PlanAssumption, Zenon DEF PlanAssumption
<1>4. Within(a.width, a.crop)
  BY <1>2, <1>3, WithinInt, Zenon
<1> QED
  BY <1>1, <1>3, <1>4, Zenon

\* u is what the conversion to int leaves of a bandwidth bw with the crop c.
CropOf(bw, c, u) ==
  /\ u \in Nat /\ u >= bw
  /\ c = 0 \/ c = 1 \/ c = 2 \/ c = 3
  /\ c = 0 => u = bw
  /\ c = 1 => 3 * u <= 4 * bw /\ 4 * bw <= 3 * u + 2
  /\ c = 2 => u = 2 * bw
  /\ c = 3 => u = 4 * bw

LEMMA UncroppedIs ==
  ASSUME NEW bw \in Nat, NEW c \in 0 .. 3
  PROVE  CropOf(bw, c, Uncropped(bw, c))
<1>1. CASE c = 0
  BY <1>1, SMT DEF Uncropped, CropOf
<1>2. CASE c = 1
  BY <1>2, SMT DEF Uncropped, CropOf
<1>3. CASE c = 2
  BY <1>3, SMT DEF Uncropped, CropOf
<1>4. CASE c = 3
  BY <1>4, SMT DEF Uncropped, CropOf
<1> QED
  BY <1>1, <1>2, <1>3, <1>4, SMT

\* One part more makes parts of more than half.
LEMMA OneMore ==
  ASSUME NEW w \in Nat, NEW n \in Nat, n > 1
  PROVE  2 * (w \div n) + 2 > w \div (n - 1)
<1> DEFINE b == w \div n
           q == w \div (n - 1)
<1>1. b \in Int /\ w < n * b + n
  BY Divides, SMT
<1>2. q \in Int /\ (n - 1) * q <= w
  BY Divides, SMT
<1>3. w >= 0 /\ b >= 0 /\ q >= 0
  BY SMT
<1> HIDE DEF b, q
<1>4. ASSUME 2 * b + 2 <= q PROVE FALSE
  <2>1. n * (2 * b + 2) <= n * q
    BY <1>1, <1>2, <1>4, SMT
  <2>2. n * (2 * b + 2) = 2 * (n * b + n)
    BY <1>1, SMT
  <2>3. (n - 1) * q = n * q - q
    BY <1>2, SMT
  <2>4. 2 * (n * q - q) < n * q
    BY <1>1, <1>2, <2>1, <2>2, <2>3, n * q \in Int, n * b \in Int, SMT
  <2>5. n * q < 2 * q
    BY <1>2, <2>4, n * q \in Int, SMT
  <2>6. 2 * q <= n * q
    BY <1>2, <1>3, SMT
  <2> QED
    BY <1>2, <2>5, <2>6, n * q \in Int, SMT
<1> QED
  BY <1>1, <1>2, <1>4, SMT DEF b, q

LEMMA SplitIs ==
  ASSUME NEW a \in Requests
  PROVE  \E n \in 1 .. LongestSplit :
           LET s == a.width \div n IN
           /\ Split(a.width, a.crop) = [tune_count |-> n, bw_seen |-> s, downsample |-> 1,
                                        bw_used |-> Uncropped(s, a.crop)]
           /\ s \in Nat \ {0} /\ n * s <= a.width /\ a.width < n * s + n
           /\ Uncropped(s, a.crop) <= MAXIMUM_RATE
           /\ n = 1 \/ Uncropped(s, a.crop) >= MINIMUM_RATE
<1> DEFINE w == a.width
           c == a.crop
           T == {ix \in 1 .. LongestSplit : Uncropped(w \div ix, c) <= MAXIMUM_RATE}
           n == Min(T)
           s == w \div n
<1>1. w \in Nat \ {0} /\ c \in 0 .. 3
  BY RequestIs, SMT
<1>a. Within(w, c)
  BY RequestIs, SMT
<1>0. MAXIMUM_RATE = 2800000 /\ MINIMUM_RATE = 1000000 /\ LongestSplit = 1499
  BY SMT DEF MAXIMUM_RATE, MINIMUM_RATE, LongestSplit
<1> HIDE DEF w, c
<1>2. 1499 \in T
  <2> DEFINE u == w \div 1499
  <2>1. u \in Nat /\ 1499 * u <= w
    BY <1>1, SMT
  <2> HIDE DEF u
  <2>2. CropOf(u, c, Uncropped(u, c))
    BY <1>1, <2>1, UncroppedIs, Zenon
  <2>3. Uncropped(u, c) <= 2800000
    BY <1>1, <1>a, <2>1, <2>2, SMT DEF CropOf, Within
  <2> QED
    BY <2>3, <1>0, SMT DEF u
<1>3. n \in T /\ \A y \in T : n <= y
  <2>1. T \in SUBSET Nat /\ T # {}
    BY <1>2, SMT
  <2> HIDE DEF T
  <2> QED
    BY <2>1, MinIs, SMT
<1> HIDE DEF n
<1>4. /\ n \in 1 .. LongestSplit /\ Uncropped(s, c) <= MAXIMUM_RATE
      /\ n \in Nat /\ 1 <= n /\ n <= LongestSplit
  BY <1>3, <1>0, SMT
<1>5. s \in Nat /\ n * s <= w /\ w < n * s + n
  BY <1>1, <1>4, Divides, <1>0, SMT
<1>6. \/ n = 1
      \/ n > 1 /\ n - 1 \in 1 .. LongestSplit /\ Uncropped(w \div (n - 1), c) > MAXIMUM_RATE
  <2>1. CASE n > 1
    <3>1. n - 1 \in 1 .. LongestSplit /\ n - 1 \notin T
      BY <1>3, <1>4, <2>1, <1>0, SMT
    <3>2. w \div (n - 1) \in Nat
      BY <1>1, <1>4, <2>1, <1>0, SMT
    <3>3. CropOf(w \div (n - 1), c, Uncropped(w \div (n - 1), c))
      BY <1>1, <3>2, UncroppedIs, Zenon
    <3>4. ~ (Uncropped(w \div (n - 1), c) <= MAXIMUM_RATE)
      BY <1>0, <3>1, SMT
    <3>5. Uncropped(w \div (n - 1), c) \in Nat
      BY <3>3, Zenon DEF CropOf
    <3>6. Uncropped(w \div (n - 1), c) > MAXIMUM_RATE
      BY <1>0, <3>4, <3>5, SMT
    <3> QED
      BY <2>1, <3>1, <3>6, Zenon
  <2>2. n = 1 \/ n > 1
    BY <1>4, SMT
  <2> QED
    BY <2>1, <2>2, Zenon
<1>7. n = 1 \/ (Uncropped(s, c) >= MINIMUM_RATE /\ s > 0)
  <2>1. CASE n > 1
    <3> DEFINE q == w \div (n - 1)
    <3>0. w \in Nat /\ n \in Nat
      BY <1>1, <1>4, SMT
    <3>1. q \in Nat /\ 2 * s + 2 > q
      <4>1. 2 * s + 2 > q
        BY <3>0, <2>1, OneMore, Zenon
      <4>2. q \in Nat
        BY <3>0, <2>1, SMT
      <4> QED
        BY <4>1, <4>2
    <3>2. Uncropped(q, c) > MAXIMUM_RATE
      BY <1>6, <2>1, SMT
    <3>3. CropOf(q, c, Uncropped(q, c)) /\ CropOf(s, c, Uncropped(s, c))
      BY <1>1, <1>5, <3>1, UncroppedIs, Zenon
    <3> HIDE DEF q, s
    <3>4. Uncropped(s, c) >= MINIMUM_RATE /\ s > 0
      BY <1>0, <1>5, <3>1, <3>2, <3>3, SMT DEF CropOf
    <3> QED
      BY <3>4, Zenon
  <2> QED
    BY <1>6, <2>1, SMT
<1>8. s > 0
  BY <1>0, <1>1, <1>5, <1>7, SMT
<1>9. Split(w, c) = [tune_count |-> n, bw_seen |-> s, downsample |-> 1,
                     bw_used |-> Uncropped(s, c)]
  BY SMT DEF Split, n
<1>10. s \in Nat \ {0} /\ (Uncropped(s, c) <= MAXIMUM_RATE)
       /\ (n = 1 \/ Uncropped(s, c) >= MINIMUM_RATE)
  BY <1>0, <1>4, <1>5, <1>7, <1>8, SMT
<1> QED
  BY <1>4, <1>5, <1>9, <1>10, Zenon DEF w, c

LEMMA Rates ==
  /\ MINIMUM_RATE = 1000000 /\ MAXIMUM_RATE = 2800000 /\ HIGHEST_RATE = 3200000
  /\ LongestSplit = 1499
BY SMT DEF MINIMUM_RATE, MAXIMUM_RATE, HIGHEST_RATE, LongestSplit

\* A rate b with the decimation d shows s of every so many Hz; the crop hides the rest.
Covers(s, d, b, c) == /\ 4 * (s * d) - 2 * d <= b * (4 - c)
                      /\ b * (4 - c) <= 4 * (s * d)

LEMMA CoversOnce ==
  ASSUME NEW s \in Nat, NEW c, NEW b, CropOf(s, c, b)
  PROVE  Covers(s, 1, b, c)
BY SMT DEF Covers, CropOf

\* A narrow range is sampled so many times faster that the rate is nearly the highest.
LEMMA RaisedRate ==
  ASSUME NEW f \in Nat \ {0}, f < MINIMUM_RATE, NEW ds, ds = MAXIMUM_RATE \div f
  PROVE  /\ ds \in Nat /\ 2 <= ds /\ ds <= MAXIMUM_RATE
         /\ f * ds <= MAXIMUM_RATE /\ MAXIMUM_RATE < f * ds + f
<1>1. ds \in Int /\ f * ds <= MAXIMUM_RATE /\ MAXIMUM_RATE < f * ds + f
  BY Rates, Divides, SMT
<1>2. ds >= 2
  <2>1. SUFFICES ASSUME ds <= 1 PROVE FALSE
    BY <1>1, SMT
  <2>2. f * ds <= f
    BY <1>1, <2>1, SMT
  <2> QED
    BY <1>1, <2>2, Rates, f * ds \in Int, SMT
<1>3. ds <= f * ds
  BY <1>1, <1>2, SMT
<1> QED
  BY <1>1, <1>2, <1>3, Rates, f * ds \in Int, SMT

LEMMA CoversRaised ==
  ASSUME NEW s \in Nat, NEW c, NEW f \in Nat, NEW d \in Nat, CropOf(s, c, f)
  PROVE  Covers(s, d, f * d, c)
<1>1. 4 * s - 2 <= f * (4 - c) /\ f * (4 - c) <= 4 * s /\ 4 - c \in Nat
  BY SMT DEF CropOf
<1> DEFINE x == f * (4 - c)
           k == 4 - c
<1>2. x \in Int /\ 4 * s - 2 <= x /\ x <= 4 * s /\ k \in Nat
  BY <1>1, SMT
<1>3. x * d = (f * d) * k
  BY <1>1, SMT
<1> HIDE DEF x, k
<1>4. (4 * s - 2) * d <= x * d /\ x * d <= (4 * s) * d
  BY <1>2, SMT
<1>5. (4 * s - 2) * d = 4 * (s * d) - 2 * d /\ (4 * s) * d = 4 * (s * d)
  BY SMT
<1> QED
  BY <1>3, <1>4, <1>5, Zenon DEF Covers, k

\* With the recursive filter, the decimation is a power of 2, t, and the rate is
\* rounded after it, not before.
LEMMA HalvedRate ==
  ASSUME NEW s \in Nat \ {0}, NEW c \in 0 .. 3, NEW f \in Nat \ {0}, CropOf(s, c, f),
         NEW ds \in Nat, f * ds <= MAXIMUM_RATE, MAXIMUM_RATE < f * ds + f,
         NEW t \in Nat \ {0}, t <= ds, ds < 2 * t,
         Leap(t),
         NEW u, CropOf(s * t, c, u)
  PROVE  /\ MINIMUM_RATE <= u /\ u <= HIGHEST_RATE
         /\ Covers(s, t, u, c)
<1> DEFINE ft == f * t
           fd == f * ds
           st == s * t
<1>1. ft \in Nat /\ fd \in Nat /\ st \in Nat /\ u \in Nat
  BY SMT DEF CropOf
<1>2. ft <= fd /\ fd + f <= 2 * ft
  <2>1. f * t <= f * ds
    BY SMT
  <2>2. f * (ds + 1) <= f * (2 * t)
    BY SMT
  <2> QED
    BY <2>1, <2>2, SMT
<1>3. c = 0 \/ c = 1 \/ c = 2 \/ c = 3
  BY SMT
<1>4. CASE c = 0
  <2>1. f = s /\ u = st /\ ft = st
    BY <1>4, SMT DEF CropOf
  <2> HIDE DEF ft, fd, st
  <2> QED
    BY <1>1, <1>2, <1>4, <2>1, Rates, SMT DEF fd, st, Covers
<1>5. CASE c = 1
  <2>1. /\ 3 * f <= 4 * s /\ 4 * s <= 3 * f + 2
        /\ 3 * u <= 4 * st /\ 4 * st <= 3 * u + 2
    BY <1>5, SMT DEF CropOf
  <2>2. 3 * ft <= 4 * st /\ 4 * st <= 3 * ft + 2 * t
    <3>1. (3 * f) * t <= (4 * s) * t /\ (4 * s) * t <= (3 * f + 2) * t
      BY <2>1, SMT
    <3> QED
      BY <3>1, SMT
  <2>3. CASE t <= 524288
    <3> HIDE DEF ft, fd, st
    <3>1. u <= 3200000 /\ 1000000 <= u
      BY <1>1, <1>2, <2>1, <2>2, <2>3, Rates, SMT DEF fd
    <3> QED
      BY <1>1, <1>5, <2>1, <2>2, <3>1, Rates, SMT DEF st, Covers
  <2>4. CASE ~ (t <= 524288)
    <3>0. t = 1048576 \/ t = 2097152
      BY <2>4, SMT DEF Leap
    <3>1. f < 3
      BY <1>1, <1>2, <3>0, Rates, SMT
    <3>2. s = 1 \/ s = 2
      BY <2>1, <3>1, SMT
    <3>3. ~ (s = 2 /\ t = 2097152)
      BY <2>1, <1>2, Rates, SMT
    <3>4. \/ s = 1 /\ t = 1048576 /\ st = 1048576
          \/ s = 1 /\ t = 2097152 /\ st = 2097152
          \/ s = 2 /\ t = 1048576 /\ st = 2097152
      BY <3>0, <3>2, <3>3, SMT
    <3>5. ~ (s = 1 /\ t = 1048576)
      BY <2>1, <1>2, Rates, SMT
    <3> HIDE DEF ft, fd, st
    <3>6. 1000000 <= u /\ u <= 3200000 /\ 4 * st - 2 * t <= u * 3 /\ u * 3 <= 4 * st
      BY <1>1, <2>1, <3>4, <3>5, SMT
    <3> QED
      BY <1>5, <3>6, Rates, SMT DEF Covers, st
  <2> QED
    BY <2>3, <2>4, SMT
<1>6. CASE c = 2
  <2>1. f = 2 * s /\ u = 2 * st /\ ft = 2 * st
    BY <1>6, SMT DEF CropOf
  <2> HIDE DEF ft, fd, st
  <2> QED
    BY <1>1, <1>2, <1>6, <2>1, Rates, SMT DEF fd, st, Covers
<1>7. CASE c = 3
  <2>1. f = 4 * s /\ u = 4 * st /\ ft = 4 * st
    BY <1>7, SMT DEF CropOf
  <2> HIDE DEF ft, fd, st
  <2> QED
    BY <1>1, <1>2, <1>7, <2>1, Rates, SMT DEF fd, st, Covers
<1> QED
  BY <1>3, <1>4, <1>5, <1>6, <1>7, SMT

\* What the planner's first part makes of a request: n hops of s Hz each, at a rate
\* b that is decimated by d.
Even(a, n, s, d, b) ==
  /\ n \in Nat /\ 1 <= n /\ n <= LongestSplit
  /\ s \in Nat \ {0} /\ n * s <= a.width /\ a.width < n * s + n
  /\ d \in Nat \ {0} /\ d <= MAXIMUM_RATE
  /\ d > 1 => a.width < MINIMUM_RATE
  /\ b \in Nat /\ MINIMUM_RATE <= b /\ b <= HIGHEST_RATE
  /\ (d = 1 \/ a.boxcar) => b <= MAXIMUM_RATE
  /\ Covers(s, d, b, a.crop)
Hops(n, s, d, b) == [tune_count |-> n, bw_seen |-> s, downsample |-> d, bw_used |-> b]
First(a) == Halvings(Raise(Split(a.width, a.crop)), a.crop, a.boxcar)

LEMMA FirstIs ==
  ASSUME NEW a \in Requests
  PROVE  \E n, s, d, b : First(a) = Hops(n, s, d, b) /\ Even(a, n, s, d, b)
<1> DEFINE w == a.width
           c == a.crop
<1>1. w \in Nat \ {0} /\ c \in 0 .. 3 /\ a.boxcar \in BOOLEAN
  BY RequestIs, Zenon
<1>2. PICK n \in 1 .. LongestSplit :
           LET s == w \div n IN
           /\ Split(w, c) = [tune_count |-> n, bw_seen |-> s, downsample |-> 1,
                             bw_used |-> Uncropped(s, c)]
           /\ s \in Nat \ {0} /\ n * s <= w /\ w < n * s + n
           /\ Uncropped(s, c) <= MAXIMUM_RATE
           /\ n = 1 \/ Uncropped(s, c) >= MINIMUM_RATE
  BY SplitIs, Zenon
<1> DEFINE s == w \div n
           f == Uncropped(s, c)
           p == [tune_count |-> n, bw_seen |-> s, downsample |-> 1, bw_used |-> f]
           ds == MAXIMUM_RATE \div f
<1>3. /\ Split(w, c) = p /\ s \in Nat \ {0} /\ n * s <= w /\ w < n * s + n
      /\ f <= MAXIMUM_RATE /\ (n = 1 \/ f >= MINIMUM_RATE)
      /\ n \in Nat /\ 1 <= n /\ n <= LongestSplit
  <2>1. n \in Nat /\ 1 <= n /\ n <= LongestSplit
    BY Rates, SMT
  <2> QED
    BY <1>2, <2>1, Zenon
<1>4. CropOf(s, c, f) /\ f \in Nat /\ f >= s
  <2>1. s \in Nat
    BY <1>3, SMT
  <2>2. CropOf(s, c, f)
    BY <1>1, <2>1, UncroppedIs, Zenon
  <2> QED
    BY <2>2, Zenon DEF CropOf
<1>a. w \in Nat /\ c \in 0 .. 3
  BY <1>1, SMT
<1> HIDE DEF w, c, s, f
<1>5. CASE f >= MINIMUM_RATE
  <2>1. Halvings(Raise(p), c, a.boxcar) = p
    BY <1>5, SMT DEF Raise, Halvings
  <2>2. Covers(s, 1, f, c)
    BY <1>3, <1>4, CoversOnce, Zenon
  <2>3. f <= HIGHEST_RATE
    BY <1>3, <1>4, Rates, SMT
  <2>4. Even(a, n, s, 1, f)
    BY <1>3, <1>4, <1>5, <2>2, <2>3, Rates, SMT DEF Even, w, c
  <2> QED
    BY <1>3, <2>1, <2>4, Zenon DEF First, Hops, w, c
<1>6. CASE ~ (f >= MINIMUM_RATE)
  <2>1. n = 1 /\ s = w /\ f \in Nat \ {0} /\ f < MINIMUM_RATE /\ w < MINIMUM_RATE
    BY <1>3, <1>4, <1>6, <1>a, Rates, SMT
  <2>2. /\ ds \in Nat /\ 2 <= ds /\ ds <= MAXIMUM_RATE
        /\ f * ds <= MAXIMUM_RATE /\ MAXIMUM_RATE < f * ds + f
    BY <2>1, RaisedRate, Zenon
  <2>3. Raise(p) = Hops(1, s, ds, f * ds)
    <3>1. p.bw_used = f /\ p.bw_seen = s
      OBVIOUS
    <3> QED
      BY <1>6, <3>1, Zenon DEF Raise, Hops
  <2> HIDE DEF ds
  <2>4. CASE a.boxcar
    <3>1. Halvings(Raise(p), c, a.boxcar) = Hops(1, s, ds, f * ds)
      BY <2>3, <2>4, Zenon DEF Halvings
    <3>2. Covers(s, ds, f * ds, c)
      BY <1>3, <1>4, <2>2, CoversRaised, SMT
    <3>3. f * ds \in Nat /\ MINIMUM_RATE <= f * ds /\ f * ds <= HIGHEST_RATE
      BY <2>1, <2>2, Rates, SMT
    <3>4. Even(a, 1, s, ds, f * ds)
      BY <1>3, <2>1, <2>2, <3>2, <3>3, Rates, SMT DEF Even, w, c
    <3> QED
      BY <1>3, <3>1, <3>4, Zenon DEF First, w, c
  <2>5. CASE ~ a.boxcar
    <3>1. PICK ix \in 0 .. 21 : /\ Max({k \in {Two(j) : j \in 0 .. 21} : k <= ds}) = Two(ix)
                               /\ Two(ix) <= ds /\ ds < 2 * Two(ix)
      <4>1. ds \in Nat /\ 1 <= ds /\ ds <= MAXIMUM_RATE
        BY <2>2, SMT
      <4> QED
        BY <4>1, LargestPower, Zenon
    <3> DEFINE t == Two(ix)
               u == Uncropped(s * t, c)
    <3>2. /\ t \in Nat \ {0}
          /\ Leap(t)
          /\ t <= ds /\ ds < 2 * t
      BY <3>1, PowerIs, Leaps, Zenon
    <3>3. s * t \in Nat
      BY <1>3, <3>2, SMT
    <3> HIDE DEF t
    <3>4. CropOf(s * t, c, u)
      BY <1>a, <3>3, UncroppedIs, Zenon
    <3> HIDE DEF u
    <3>5. MINIMUM_RATE <= u /\ u <= HIGHEST_RATE /\ Covers(s, t, u, c)
      BY <1>3, <1>4, <1>a, <2>1, <2>2, <3>2, <3>4, HalvedRate, Zenon
    <3>6. Halvings(Raise(p), c, a.boxcar) = Hops(1, s, t, u)
      <4>1. Raise(p).downsample = ds /\ ds # 1 /\ Raise(p).bw_seen = s
        BY <2>2, <2>3, SMT DEF Hops
      <4>2. Max({k \in {2^j : j \in 0 .. 21} : k <= ds}) = t
        BY <3>1, Zenon DEF Two, t
      <4>3. Raise(p).tune_count = 1
        BY <2>3, SMT DEF Hops
      <4> QED
        BY <2>5, <4>1, <4>2, <4>3, Zenon DEF Halvings, Hops, u
    <3>7. u \in Nat
      BY <3>4, Zenon DEF CropOf
    <3>8. Even(a, 1, s, t, u)
      BY <1>3, <2>1, <2>2, <2>5, <3>2, <3>5, <3>7, Rates, SMT DEF Even, w, c
    <3> QED
      BY <1>3, <3>6, <3>8, Zenon DEF First, w, c
  <2> QED
    BY <1>1, <2>4, <2>5, Zenon
<1> QED
  BY <1>5, <1>6, Zenon

-----------------------------------------------------------------------------
(* What the whole of frequency_range makes of a request.                   *)

BufLen(e, d) == IF DEFAULT_BUF_LENGTH >= 2 * Two(e) * d THEN DEFAULT_BUF_LENGTH ELSE 2 * Two(e) * d

\* The plan p of a request a for bins, and of one for giant bins.
Binned(a, p) ==
  /\ Even(a, p.tune_count, p.bw_seen, p.downsample, p.bw_used)
  /\ p.crop = a.crop
  /\ p.bin_e \in 1 .. 21
  /\ p.bin_e < 21 => Fine(p, p.bin_e, a.size)
  /\ p.bin_e > 1 => ~ Fine(p, p.bin_e - 1, a.size)
  /\ p.buf_len = BufLen(p.bin_e, p.downsample)
Undivided(a, p) ==
  /\ p.tune_count = a.width \div a.size
  /\ p.bw_seen = a.size /\ p.bw_used = a.size
  /\ p.bin_e = 0 /\ p.crop = 0
  /\ p.tune_count = 0 \/ p.downsample = 1

\* The planner's bins are the fewest that are fine enough, or the most it tries.
LEMMA BinsAre ==
  ASSUME NEW p, NEW size
  PROVE  /\ BinExponent(p, size) \in 1 .. 21
         /\ BinExponent(p, size) < 21 => Fine(p, BinExponent(p, size), size)
         /\ BinExponent(p, size) > 1 => ~ Fine(p, BinExponent(p, size) - 1, size)
<1> DEFINE T == {ix \in 1 .. 21 : Fine(p, ix, size) \/ ix = 21}
<1>1. PICK x \in T : \A y \in T : x <= y
  <2>1. 21 \in T /\ T \in SUBSET Nat
    BY SMT
  <2> HIDE DEF T
  <2> QED
    BY <2>1, Least, Zenon
<1>2. \A j \in 1 .. (x - 1) : ~ Fine(p, j, size)
  <2>1. \A j \in 1 .. (x - 1) : j \in 1 .. 21 /\ ~ (x <= j)
    BY <1>1, SMT
  <2> QED
    BY <1>1, <2>1, Zenon
<1> DEFINE Chosen(ix) == /\ Fine(p, ix, size) \/ ix = 21
                        /\ \A j \in 1 .. (ix - 1) : ~ Fine(p, j, size)
<1>3. \E ix \in 1 .. 21 : Chosen(ix)
  BY <1>1, <1>2, Zenon
<1>4. BinExponent(p, size) = CHOOSE ix \in 1 .. 21 : Chosen(ix)
  BY Zenon DEF BinExponent
<1>5. BinExponent(p, size) \in 1 .. 21 /\ Chosen(BinExponent(p, size))
  <2> HIDE DEF Chosen
  <2> QED
    BY <1>3, <1>4, Zenon
<1>6. Fine(p, BinExponent(p, size), size) \/ BinExponent(p, size) = 21
  BY <1>5, Zenon
<1>7. ASSUME BinExponent(p, size) > 1 PROVE ~ Fine(p, BinExponent(p, size) - 1, size)
  <2>1. BinExponent(p, size) - 1 \in 1 .. (BinExponent(p, size) - 1)
    BY <1>5, <1>7, SMT
  <2> QED
    BY <1>5, <2>1, Zenon
<1>8. BinExponent(p, size) < 21 => Fine(p, BinExponent(p, size), size)
  BY <1>6, SMT
<1> QED
  BY <1>5, <1>7, <1>8, Zenon

LEMMA BufferIs ==
  ASSUME NEW e \in 0 .. 21, NEW d \in Nat
  PROVE  Max({DEFAULT_BUF_LENGTH, 2 * 2^e * d}) = BufLen(e, d)
<1>1. Two(e) \in Nat
  <2>1. Two(e) \in Nat \ {0}
    BY PowerIs, Zenon
  <2> QED
    BY <2>1, SMT
<1>2. DEFAULT_BUF_LENGTH \in Nat /\ 2 * Two(e) * d \in Nat
  BY <1>1, SMT DEF DEFAULT_BUF_LENGTH
<1>3. Max({DEFAULT_BUF_LENGTH, 2 * Two(e) * d}) = BufLen(e, d)
  BY <1>2, MaxOfTwo, Zenon DEF BufLen
<1> QED
  BY <1>3, Zenon DEF Two

LEMMA PlanIs ==
  ASSUME NEW a \in Requests
  PROVE  /\ a.size >= MINIMUM_RATE => Undivided(a, frequency_range(a))
         /\ ~ (a.size >= MINIMUM_RATE) => Binned(a, frequency_range(a))
<1> DEFINE q == First(a)
           z == Sized(q, a)
           p == frequency_range(a)
<1>1. PICK n, s, d, b : q = Hops(n, s, d, b) /\ Even(a, n, s, d, b)
  BY FirstIs, Zenon
<1>2. q.tune_count = n /\ q.bw_seen = s /\ q.downsample = d /\ q.bw_used = b
  BY <1>1, SMT DEF Hops
<1>3. p = Buffered(z)
  BY Zenon DEF frequency_range, First
<1>4. d \in Nat \ {0} /\ (d > 1 => a.width < MINIMUM_RATE)
  BY <1>1, Zenon DEF Even
<1> HIDE DEF q
<1>5. CASE a.size >= MINIMUM_RATE
  <2>1. z = [tune_count |-> a.width \div a.size, bw_seen |-> a.size, bw_used |-> a.size,
             bin_e |-> 0, crop |-> 0, downsample |-> d, buf_len |-> DEFAULT_BUF_LENGTH]
    BY <1>2, <1>5, Zenon DEF Sized
  <2>2. p = [tune_count |-> a.width \div a.size, bw_seen |-> a.size, bw_used |-> a.size,
             bin_e |-> 0, crop |-> 0, downsample |-> d,
             buf_len |-> Max({DEFAULT_BUF_LENGTH, 2 * 2^0 * d})]
    BY <1>3, <2>1, SMT DEF Buffered
  <2>3. d > 1 => a.width \div a.size = 0
    <3>1. a.width \in Nat /\ a.size \in Nat \ {0}
      BY RequestIs, Zenon
    <3>2. MINIMUM_RATE \in Nat
      BY Rates, SMT
    <3>3. d > 1 => a.width < a.size
      BY <1>4, <1>5, <3>1, <3>2, SMT
    <3> QED
      BY <3>1, <3>3, SMT
  <2>4. a.width \div a.size = 0 \/ d = 1
    BY <1>4, <2>3, SMT
  <2>5. /\ p.tune_count = a.width \div a.size /\ p.bw_seen = a.size /\ p.bw_used = a.size
        /\ p.bin_e = 0 /\ p.crop = 0 /\ p.downsample = d
    BY <2>2, SMT
  <2> HIDE DEF p
  <2>6. Undivided(a, p)
    BY <2>4, <2>5, Zenon DEF Undivided
  <2> QED
    BY <1>5, <2>6, Zenon DEF p
<1>6. CASE ~ (a.size >= MINIMUM_RATE)
  <2> DEFINE e == BinExponent(q, a.size)
  <2>0. /\ e \in 1 .. 21 /\ (e < 21 => Fine(q, e, a.size))
        /\ e > 1 => ~ Fine(q, e - 1, a.size)
    BY BinsAre, Zenon
  <2>1. z = [tune_count |-> n, bw_seen |-> s, bw_used |-> b,
             bin_e |-> e, crop |-> a.crop, downsample |-> d, buf_len |-> DEFAULT_BUF_LENGTH]
    BY <1>2, <1>6, Zenon DEF Sized
  <2> HIDE DEF e
  <2>2. p = [tune_count |-> n, bw_seen |-> s, bw_used |-> b,
             bin_e |-> e, crop |-> a.crop, downsample |-> d,
             buf_len |-> Max({DEFAULT_BUF_LENGTH, 2 * 2^e * d})]
    BY <1>3, <2>1, SMT DEF Buffered
  <2>3. e \in 0 .. 21 /\ d \in Nat
    BY <1>4, <2>0, SMT
  <2>4. Max({DEFAULT_BUF_LENGTH, 2 * 2^e * d}) = BufLen(e, d)
    BY <2>3, BufferIs, Zenon
  <2>5. /\ p.tune_count = n /\ p.bw_seen = s /\ p.bw_used = b /\ p.bin_e = e
        /\ p.crop = a.crop /\ p.downsample = d /\ p.buf_len = BufLen(e, d)
    BY <2>2, <2>4, SMT
  <2> HIDE DEF p
  <2>6. (e < 21 => Fine(p, e, a.size)) /\ (e > 1 => ~ Fine(p, e - 1, a.size))
    BY <1>2, <2>0, <2>5, Zenon DEF Fine
  <2>7. Binned(a, p)
    BY <1>1, <2>0, <2>5, <2>6, Zenon DEF Binned
  <2> QED
    BY <1>6, <2>7, Zenon DEF p
<1> QED
  BY <1>5, <1>6, Zenon

-----------------------------------------------------------------------------
(* The rows of a hop of s Hz whose rate b is decimated by d.               *)

LEMMA Multiples ==
  ASSUME NEW h \in Int, NEW d \in Int, NEW g \in Int
  PROVE  /\ (8 * d) * h = 8 * (h * d) /\ (2 * 2 * d) * h = 4 * (h * d) /\ (2 * d) * g = 2 * (g * d)
         /\ h * d \in Int /\ g * d \in Int
         /\ (2 * h + g + 3) * d = 2 * (h * d) + g * d + 3 * d
<1>1. (8 * d) * h = 8 * (h * d) /\ (2 * 2 * d) * h = 4 * (h * d) /\ (2 * d) * g = 2 * (g * d)
  BY SMT
<1>2. h * d \in Int /\ g * d \in Int
  BY SMT
<1> DEFINE k == 2 * h
<1>3. k \in Int /\ k * d = 2 * (h * d)
  BY SMT
<1> HIDE DEF k
<1>4. (k + g + 3) * d = k * d + g * d + 3 * d
  BY <1>3, SMT
<1> QED
  BY <1>1, <1>2, <1>3, <1>4, Zenon DEF k

\* Four bins or more.
LEMMA HalfOfMany ==
  ASSUME NEW s \in Nat, NEW d \in Nat \ {0}, NEW b \in Nat, NEW c \in 0 .. 3, Covers(s, d, b, c),
         NEW h, h = (b * (4 - c)) \div (8 * d)
  PROVE  h \in Nat /\ 2 * h <= s /\ s <= 2 * h + 2
<1> DEFINE x == b * (4 - c)
           m == 8 * d
           sd == s * d
           hd == h * d
<1>1. x \in Nat /\ x \in Int /\ m \in Nat \ {0} /\ sd \in Nat
  BY SMT
<1>2. h \in Int /\ m * h <= x /\ x < m * h + m
  BY <1>1, Divides, Zenon
<1>3. m * h = 8 * hd /\ hd \in Int
  <2>1. d \in Int /\ 0 \in Int
    BY SMT
  <2> QED
    BY <1>2, <2>1, Multiples, Zenon
<1>4. 4 * sd - 2 * d <= x /\ x <= 4 * sd
  BY Zenon DEF Covers
<1> HIDE DEF x, sd, hd
<1>5. 2 * hd <= sd /\ 2 * sd < 4 * hd + 5 * d
  BY <1>1, <1>2, <1>3, <1>4, SMT
<1>6. h >= 0
  <2>1. SUFFICES ASSUME h <= 0 - 1 PROVE FALSE
    BY <1>2, SMT
  <2>2. m * h <= m * (0 - 1)
    BY <1>1, <1>2, <2>1, SMT
  <2> QED
    BY <1>1, <1>2, <1>3, <2>2, SMT
<1>7. ~ (2 * h > s)
  <2>1. SUFFICES ASSUME s + 1 <= 2 * h PROVE FALSE
    BY <1>2, SMT
  <2>2. (s + 1) * d <= (2 * h) * d
    BY <1>2, <2>1, SMT
  <2>3. (s + 1) * d = sd + d /\ (2 * h) * d = 2 * hd
    BY <1>2, SMT DEF sd, hd
  <2> QED
    BY <1>1, <1>3, <1>5, <2>2, <2>3, SMT
<1>8. ~ (s > 2 * h + 2)
  <2>1. SUFFICES ASSUME 2 * h + 3 <= s PROVE FALSE
    BY <1>2, SMT
  <2>2. (2 * h + 3) * d <= s * d
    BY <1>2, <2>1, SMT
  <2>3. (2 * h + 3) * d = 2 * hd + 3 * d
    BY <1>2, SMT DEF hd
  <2> QED
    BY <1>1, <1>3, <1>5, <2>2, <2>3, SMT DEF sd
<1> QED
  BY <1>2, <1>6, <1>7, <1>8, SMT

\* Two bins: the crop may take one of them, or both.
LEMMA HalfOfTwo ==
  ASSUME NEW s \in Nat, NEW d \in Nat \ {0}, NEW b \in Nat, NEW c \in 0 .. 3, Covers(s, d, b, c),
         NEW h, h = (b * ((2 * (4 - c)) \div 4)) \div (2 * 2 * d),
         NEW g, g = b \div (2 * d)
  PROVE  h \in Nat /\ g \in Nat /\ 2 * h <= s /\ s <= 2 * h + g + 2
<1> DEFINE k == (2 * (4 - c)) \div 4
           x == b * k
           m == 2 * 2 * d
           sd == s * d
           hd == h * d
           gd == g * d
<1>0. \/ c = 0 /\ k = 2
      \/ c = 1 /\ k = 1
      \/ c = 2 /\ k = 1
      \/ c = 3 /\ k = 0
  BY SMT
<1> HIDE DEF k
<1>k. k \in Nat
  BY <1>0, SMT
<1>1. x \in Int /\ b \in Int /\ m \in Nat \ {0} /\ sd \in Nat /\ 2 * d \in Nat \ {0}
  BY <1>k, SMT
<1>2. h \in Int /\ m * h <= x /\ x < m * h + m
  BY <1>1, Divides, Zenon DEF k
<1>3. g \in Int /\ (2 * d) * g <= b /\ b < (2 * d) * g + 2 * d
  BY <1>1, Divides, Zenon
<1>4. m * h = 4 * hd /\ hd \in Int /\ (2 * d) * g = 2 * gd /\ gd \in Int
  <2>1. h \in Int /\ d \in Int /\ g \in Int
    BY <1>2, <1>3, SMT
  <2> HIDE DEF x
  <2>2. (2 * 2 * d) * h = 4 * (h * d) /\ (2 * d) * g = 2 * (g * d) /\ h * d \in Int /\ g * d \in Int
    BY ONLY <2>1, Multiples, Zenon
  <2> QED
    BY <2>2, Zenon
<1>5. 4 * sd - 2 * d <= b * (4 - c) /\ b * (4 - c) <= 4 * sd
  BY Zenon DEF Covers
<1>6. h >= 0
  <2>1. SUFFICES ASSUME h <= 0 - 1 PROVE FALSE
    BY <1>2, SMT
  <2>2. m * h <= m * (0 - 1)
    BY <1>1, <1>2, <2>1, SMT
  <2> QED
    BY <1>1, <1>2, <1>4, <2>2, SMT
<1>7. g >= 0
  <2>1. SUFFICES ASSUME g <= 0 - 1 PROVE FALSE
    BY <1>3, SMT
  <2>2. (2 * d) * g <= (2 * d) * (0 - 1)
    BY <1>1, <1>3, <2>1, SMT
  <2> QED
    BY <1>3, <2>2, SMT
<1>8. hd >= 0 /\ gd >= 0
  BY <1>2, <1>3, <1>6, <1>7, SMT
<1>9. 2 * hd <= sd /\ sd < 2 * hd + gd + 3 * d
  <2> HIDE DEF sd, hd, gd
  <2>0. x = b * k
    OBVIOUS
  <2> HIDE DEF x
  <2>1. CASE c = 0 /\ k = 2
    BY <1>1, <1>2, <1>3, <1>4, <1>5, <1>8, <2>0, <2>1, SMT
  <2>2. CASE c = 1 /\ k = 1
    BY <1>1, <1>2, <1>3, <1>4, <1>5, <1>8, <2>0, <2>2, SMT
  <2>3. CASE c = 2 /\ k = 1
    BY <1>1, <1>2, <1>3, <1>4, <1>5, <1>8, <2>0, <2>3, SMT
  <2>4. CASE c = 3 /\ k = 0
    BY <1>1, <1>2, <1>3, <1>4, <1>5, <1>8, <2>0, <2>4, SMT
  <2> QED
    BY <1>0, <2>1, <2>2, <2>3, <2>4, Zenon
<1>10. ~ (2 * h > s)
  <2>1. SUFFICES ASSUME s + 1 <= 2 * h PROVE FALSE
    BY <1>2, SMT
  <2>2. (s + 1) * d <= (2 * h) * d
    BY <1>2, <2>1, SMT
  <2>3. (s + 1) * d = sd + d /\ (2 * h) * d = 2 * hd
    BY <1>2, SMT DEF sd, hd
  <2> HIDE DEF sd, hd, gd
  <2> QED
    BY <1>1, <1>4, <1>9, <2>2, <2>3, SMT
<1>11. ~ (s > 2 * h + g + 2)
  <2>1. SUFFICES ASSUME 2 * h + g + 3 <= s PROVE FALSE
    BY <1>2, <1>3, SMT
  <2>2. (2 * h + g + 3) * d <= s * d
    BY <1>2, <1>3, <2>1, SMT
  <2>3. (2 * h + g + 3) * d = 2 * hd + gd + 3 * d
    <3>1. h \in Int /\ d \in Int /\ g \in Int
      BY <1>2, <1>3, SMT
    <3>2. (2 * h + g + 3) * d = 2 * (h * d) + g * d + 3 * d
      BY ONLY <3>1, Multiples, SMT
    <3> QED
      BY <3>2, Zenon DEF hd, gd
  <2> HIDE DEF hd, gd
  <2> QED
    BY <1>1, <1>4, <1>9, <2>2, <2>3, SMT DEF sd
<1> QED
  BY <1>2, <1>3, <1>6, <1>7, <1>10, <1>11, SMT

\* The bins of a row are those that its width holds, or up to two more; the last is one.
LEMMA ColumnsAre ==
  ASSUME NEW c \in 0 .. 3, NEW L \in Nat,
         \/ L = 1 /\ c = 0
         \/ L = 2
         \/ L = 4
         \/ \E k \in Nat \ {0} : L = 8 * k
  PROVE  LET f == (L * c) \div 8
             t == L - 1 - (L * c) \div 8
         IN  /\ (Cardinality(f .. t) + 1) - (L * (4 - c)) \div 4 \in 1 .. 3
             /\ t \in f .. t
<1> DEFINE f == (L * c) \div 8
           t == L - 1 - f
           q == (L * (4 - c)) \div 4
<1>0. c = 0 \/ c = 1 \/ c = 2 \/ c = 3
  BY SMT
<1>1. f \in Int /\ t \in Int /\ q \in Int
  BY SMT
<1>2. f <= t /\ 0 <= t - f + 1 - q /\ t - f + 1 - q <= 2
  <2>1. CASE L = 1 /\ c = 0
    BY <2>1, SMT
  <2>2. CASE L = 2
    BY <1>0, <2>2, SMT
  <2>3. CASE L = 4
    BY <1>0, <2>3, SMT
  <2>4. CASE \E k \in Nat \ {0} : L = 8 * k
    <3>1. PICK k \in Nat \ {0} : L = 8 * k
      BY <2>4, Zenon
    <3>2. CASE c = 0
      BY <3>1, <3>2, SMT
    <3>3. CASE c = 1
      BY <3>1, <3>3, SMT
    <3>4. CASE c = 2
      BY <3>1, <3>4, SMT
    <3>5. CASE c = 3
      BY <3>1, <3>5, SMT
    <3> QED
      BY <1>0, <3>2, <3>3, <3>4, <3>5, Zenon
  <2> QED
    BY <2>1, <2>2, <2>3, <2>4, Zenon
<1> HIDE DEF f, t, q
<1>3. Cardinality(f .. t) = IF f > t THEN 0 ELSE t - f + 1
  BY <1>1, FS_Interval, Zenon
<1>4. Cardinality(f .. t) = t - f + 1
  BY <1>1, <1>2, <1>3, SMT
<1>5. (Cardinality(f .. t) + 1) - q \in 1 .. 3 /\ t \in f .. t
  BY <1>1, <1>2, <1>4, SMT
<1> QED
  BY <1>5, Zenon DEF f, t, q

\* What the rows of the plan p for the request a rest on.
Laid(a, p) ==
  /\ p.tune_count \in Nat /\ p.bw_seen \in Nat /\ HalfWidth(p) \in Nat /\ BinWidth(p) \in Nat
  /\ 2 * HalfWidth(p) <= p.bw_seen
  /\ p.bw_seen <= 2 * HalfWidth(p) + BinWidth(p) + 1
  /\ p.tune_count * p.bw_seen <= a.width
  /\ a.width + p.bw_seen - p.bw_seen \div 2 - HalfWidth(p)
       <= p.tune_count * p.bw_seen + BinWidth(p) + 1 + p.tune_count
  /\ (Cardinality(FirstBin(p) .. LastBin(p)) + 1) - BinCount(p) \in 1 .. 3
  /\ (IF p.bin_e = 0 THEN 0 ELSE LastBin(p)) \in FirstBin(p) .. LastBin(p)

LEMMA LengthIs ==
  ASSUME NEW p, p.bin_e \in 1 .. 21
  PROVE  \/ BinLen(p) = 2
         \/ BinLen(p) = 4
         \/ \E k \in Nat \ {0} : BinLen(p) = 8 * k
<1>1. BinLen(p) = Two(p.bin_e)
  BY Zenon DEF BinLen, Two
<1>2. p.bin_e \in 0 .. 21
  BY SMT
<1>3. p.bin_e > 2 => \E k \in Nat \ {0} : Two(p.bin_e) = 8 * k
  <2>1. \A ix \in 0 .. 21 : ix > 2 => \E k \in Nat \ {0} : Two(ix) = 8 * k
    BY PowerOf, SMT
  <2> QED
    BY <1>2, <2>1, Zenon
<1>4. p.bin_e = 1 \/ p.bin_e = 2 \/ p.bin_e > 2
  BY SMT
<1>5. Two(1) = 2 /\ Two(2) = 4
  BY Powers, SMT
<1> QED
  BY <1>1, <1>3, <1>4, <1>5, Zenon

LEMMA HalfWidthIs ==
  ASSUME NEW p, NEW a, Binned(a, p), a.crop \in 0 .. 3
  PROVE  /\ HalfWidth(p) \in Nat /\ BinWidth(p) \in Nat
         /\ 2 * HalfWidth(p) <= p.bw_seen
         /\ p.bw_seen <= 2 * HalfWidth(p) + BinWidth(p) + 1
<1> DEFINE s == p.bw_seen
           d == p.downsample
           b == p.bw_used
           c == p.crop
           L == BinLen(p)
           h == HalfWidth(p)
<1>1. Even(a, p.tune_count, s, d, b) /\ c = a.crop /\ p.bin_e \in 1 .. 21
  BY Zenon DEF Binned
<1>2. s \in Nat \ {0} /\ d \in Nat \ {0} /\ b \in Nat /\ Covers(s, d, b, c)
  BY <1>1, Zenon DEF Even
<1>3. c \in 0 .. 3 /\ s \in Nat
  BY <1>1, <1>2, SMT
<1>4. BinWidth(p) = b \div (L * d) + 1
  BY Zenon DEF BinWidth
<1>5. L = 2 \/ L = 4 \/ \E k \in Nat \ {0} : L = 8 * k
  BY <1>1, LengthIs, Zenon
<1>6. CASE L = 2
  <2>1. h = (b * ((2 * (4 - c)) \div 4)) \div (2 * 2 * d)
    <3>1. ~ (L >= 4)
      BY <1>6, SMT
    <3> QED
      BY <1>6, <3>1, Zenon DEF HalfWidth, BinCount
  <2> DEFINE g == b \div (2 * d)
  <2> HIDE DEF s, d, b, c, h, L
  <2>2. h \in Nat /\ g \in Nat /\ 2 * h <= s /\ s <= 2 * h + g + 2
    BY <1>2, <1>3, <2>1, HalfOfTwo, Zenon
  <2>3. BinWidth(p) = g + 1
    BY <1>4, <1>6, Zenon
  <2> HIDE DEF g
  <2>4. /\ h \in Nat /\ BinWidth(p) \in Nat
        /\ 2 * h <= s
        /\ s <= 2 * h + BinWidth(p) + 1
    BY <1>3, <2>2, <2>3, SMT
  <2> QED
    BY <2>4, Zenon DEF s, h
<1>7. CASE L = 4 \/ \E k \in Nat \ {0} : L = 8 * k
  <2>1. L \in Nat \ {0} /\ L >= 4
    BY <1>7, SMT
  <2>2. ((L * (4 - c)) \div 4) \div (L \div 4) = 4 - c
    <3>1. PICK m \in Nat \ {0} : L = 4 * m
      <4>1. CASE L = 4
        <5>1. L = 4 * 1 /\ 1 \in Nat \ {0}
          BY <4>1, SMT
        <5> QED
          BY <5>1, Zenon
      <4>2. CASE \E k \in Nat \ {0} : L = 8 * k
        <5>1. PICK k \in Nat \ {0} : L = 8 * k
          BY <4>2, Zenon
        <5>2. L = 4 * (2 * k) /\ 2 * k \in Nat \ {0}
          BY <5>1, SMT
        <5> QED
          BY <5>2, Zenon
      <4> QED
        BY <1>7, <4>1, <4>2, Zenon
    <3> HIDE DEF L, c
    <3>2. L \div 4 = m
      BY <3>1, SMT
    <3>3. c = 0 \/ c = 1 \/ c = 2 \/ c = 3
      BY <1>3, SMT
    <3>4. (L * (4 - c)) \div 4 = m * (4 - c)
      BY <3>1, <3>3, SMT
    <3>5. (m * (4 - c)) \div m = 4 - c
      BY <3>1, <3>3, SMT
    <3> QED
      BY <3>2, <3>4, <3>5, Zenon
  <2>3. h = (b * (4 - c)) \div (8 * d)
    BY <2>1, <2>2, Zenon DEF HalfWidth, BinCount
  <2> DEFINE g == b \div (L * d)
  <2> HIDE DEF s, d, b, c, h, L
  <2>4. h \in Nat /\ 2 * h <= s /\ s <= 2 * h + 2
    BY <1>2, <1>3, <2>3, HalfOfMany, Zenon
  <2>5. L * d \in Nat \ {0}
    BY <1>2, <2>1, SMT
  <2>6. g \in Nat
    <3> DEFINE m == L * d
    <3> HIDE DEF m
    <3>1. m \in Nat \ {0}
      BY <2>5, Zenon DEF m
    <3>2. b \div m \in Nat
      BY <1>2, <3>1, SMT
    <3> QED
      BY <3>2, Zenon DEF m
  <2> HIDE DEF g
  <2>7. /\ h \in Nat /\ BinWidth(p) \in Nat
        /\ 2 * h <= s
        /\ s <= 2 * h + BinWidth(p) + 1
    <3>1. BinWidth(p) = g + 1
      BY <1>4, Zenon DEF g
    <3> QED
      BY <1>3, <2>4, <2>6, <3>1, SMT
  <2> QED
    BY <2>7, Zenon DEF s, h
<1> QED
  BY <1>5, <1>6, <1>7, Zenon

LEMMA LaidBinned ==
  ASSUME NEW a \in Requests, NEW p, Binned(a, p)
  PROVE  Laid(a, p)
<1> DEFINE n == p.tune_count
           s == p.bw_seen
           h == HalfWidth(p)
           g == BinWidth(p)
<1>1. a.width \in Nat \ {0} /\ a.crop \in 0 .. 3
  BY RequestIs, Zenon
<1>2. h \in Nat /\ g \in Nat /\ 2 * h <= s /\ s <= 2 * h + g + 1
  BY <1>1, HalfWidthIs, Zenon
<1>3. /\ n \in Nat /\ s \in Nat \ {0} /\ n * s <= a.width /\ a.width < n * s + n
      /\ p.crop = a.crop /\ p.bin_e \in 1 .. 21
  BY Zenon DEF Binned, Even
<1>4. /\ (Cardinality(FirstBin(p) .. LastBin(p)) + 1) - BinCount(p) \in 1 .. 3
      /\ (IF p.bin_e = 0 THEN 0 ELSE LastBin(p)) \in FirstBin(p) .. LastBin(p)
  <2> DEFINE L == BinLen(p)
  <2>1. L = 2 \/ L = 4 \/ \E k \in Nat \ {0} : L = 8 * k
    BY <1>3, LengthIs, Zenon
  <2>2. L \in Nat
    BY <2>1, SMT
  <2>3. p.crop \in 0 .. 3
    BY <1>1, <1>3, Zenon
  <2> HIDE DEF L
  <2>4. LET f == (L * p.crop) \div 8
            t == L - 1 - (L * p.crop) \div 8
        IN  /\ (Cardinality(f .. t) + 1) - (L * (4 - p.crop)) \div 4 \in 1 .. 3
            /\ t \in f .. t
    BY <2>1, <2>2, <2>3, ColumnsAre, Zenon
  <2>5. p.bin_e # 0
    BY <1>3, SMT
  <2> QED
    BY <2>4, <2>5, Zenon DEF FirstBin, LastBin, BinCount, L
<1>5. s \in Nat /\ n * s \in Nat /\ a.width \in Nat
  BY <1>1, <1>3, SMT
<1> DEFINE w == a.width
           ns == n * s
<1>6. w + s - s \div 2 - h <= ns + g + 1 + n
  <2>1. h \in Nat /\ g \in Nat /\ s \in Nat /\ ns \in Nat /\ n \in Nat /\ w \in Nat
        /\ 2 * h <= s /\ s <= 2 * h + g + 1 /\ w < ns + n
    BY <1>2, <1>3, <1>5, Zenon
  <2> HIDE DEF h, g, s, ns, n, w
  <2> QED
    BY <2>1, SMT
<1> QED
  BY <1>2, <1>3, <1>4, <1>5, <1>6, Zenon DEF Laid

LEMMA LaidUndivided ==
  ASSUME NEW a \in Requests, NEW p, Undivided(a, p), p.tune_count # 0
  PROVE  Laid(a, p)
<1> DEFINE s == a.size
           w == a.width
           n == w \div s
<1>1. w \in Nat /\ s \in Nat \ {0} /\ s \in Nat /\ n \in Int /\ n * s \in Int
      /\ n * s <= w /\ w < n * s + s /\ n >= 0
  <2>0. w \in Nat \ {0} /\ s \in Nat \ {0}
    BY RequestIs, Zenon
  <2> HIDE DEF w, s
  <2>1. w \in Nat /\ w \in Int /\ s \in Nat \ {0}
    BY <2>0, SMT
  <2>2. n \in Int /\ s * n <= w /\ w < s * n + s
    BY <2>1, Divides, Zenon
  <2>3. n >= 0
    BY <2>1, SMT
  <2> HIDE DEF n
  <2> QED
    BY <2>1, <2>2, <2>3, SMT
<1>2. /\ p.tune_count = n /\ p.bw_seen = s /\ p.bw_used = s /\ p.bin_e = 0 /\ p.crop = 0
      /\ p.downsample = 1
  BY Zenon DEF Undivided
<1>3. BinLen(p) = 1
  <2>1. Two(0) = 1
    BY Powers, SMT
  <2> QED
    BY <1>2, <2>1, Zenon DEF BinLen, Two
<1>4. BinCount(p) = 1
  <2>1. (1 * (4 - 0)) \div 4 = 1
    BY SMT
  <2> QED
    BY <1>2, <1>3, <2>1, Zenon DEF BinCount
<1> HIDE DEF s, w, n
<1>5. HalfWidth(p) = s \div 2
  <2>1. HalfWidth(p) = (s * 1) \div (1 * 2 * 1)
    <3>1. ~ (1 >= 4)
      BY SMT
    <3> QED
      BY <1>2, <1>3, <1>4, <3>1, Zenon DEF HalfWidth
  <2> QED
    BY <1>1, <2>1, SMT
<1>6. BinWidth(p) = s + 1
  <2>1. BinWidth(p) = s \div (1 * 1) + 1
    BY <1>2, <1>3, Zenon DEF BinWidth
  <2> QED
    BY <1>1, <2>1, SMT
<1>7. /\ (Cardinality(FirstBin(p) .. LastBin(p)) + 1) - BinCount(p) \in 1 .. 3
      /\ (IF p.bin_e = 0 THEN 0 ELSE LastBin(p)) \in FirstBin(p) .. LastBin(p)
  <2>1. 0 \in 0 .. 3 /\ 1 \in Nat
    BY SMT
  <2>2. LET f == (1 * 0) \div 8
            t == 1 - 1 - (1 * 0) \div 8
        IN  /\ (Cardinality(f .. t) + 1) - (1 * (4 - 0)) \div 4 \in 1 .. 3
            /\ t \in f .. t
    BY <2>1, ColumnsAre, Zenon
  <2>3. 0 \in ((1 * 0) \div 8) .. (1 - 1 - (1 * 0) \div 8)
    BY SMT
  <2> QED
    BY <1>2, <1>3, <2>2, <2>3, Zenon DEF FirstBin, LastBin, BinCount
<1> DEFINE h == s \div 2
           ns == n * s
<1>8. /\ n \in Nat /\ h \in Nat /\ s + 1 \in Nat /\ 2 * h <= s /\ s <= 2 * h + (s + 1) + 1
      /\ w + s - h - h <= ns + (s + 1) + 1 + n
  <2>1. h \in Nat /\ 2 * h <= s /\ s <= 2 * h + 1
    BY <1>1, SMT
  <2>2. ns \in Int /\ w < ns + s
    BY <1>1, Zenon
  <2> HIDE DEF h, ns
  <2> QED
    BY <1>1, <2>1, <2>2, SMT
<1>9. n * s <= w
  BY <1>1, Zenon
<1> QED
  BY <1>1, <1>2, <1>5, <1>6, <1>7, <1>8, <1>9, Zenon DEF Laid, w

-----------------------------------------------------------------------------
(* The sweep.  The rows printed so far are those of the first hops.        *)

Sweep == /\ hop <= plan.tune_count
         /\ rows \in Seq({csv_dbm(plan, ix) : ix \in Nat})
         /\ Len(rows) = hop
         /\ \A ix \in 1 .. hop : rows[ix] = csv_dbm(plan, ix - 1)

PlanInv == /\ asked \in Requests
           /\ hop \in Nat
           /\ \/ plan = Unplanned /\ hop = 0 /\ rows = <<>>
              \/ plan = frequency_range(asked) /\ Sweep

LEMMA HopsAre ==
  ASSUME NEW a \in Requests
  PROVE  frequency_range(a).tune_count \in Nat
<1> DEFINE p == frequency_range(a)
<1>1. CASE a.size >= MINIMUM_RATE
  <2>1. Undivided(a, p)
    BY <1>1, PlanIs, Zenon
  <2>2. p.tune_count = a.width \div a.size
    BY <2>1, Zenon DEF Undivided
  <2>3. a.width \in Nat \ {0} /\ a.size \in Nat \ {0}
    BY RequestIs, Zenon
  <2>4. a.width \div a.size \in Nat
    BY <2>3, SMT
  <2> QED
    BY <2>2, <2>4, Zenon
<1>2. CASE ~ (a.size >= MINIMUM_RATE)
  <2>1. Binned(a, p)
    BY <1>2, PlanIs, Zenon
  <2> QED
    BY <2>1, Zenon DEF Binned, Even
<1> QED
  BY <1>1, <1>2, Zenon

THEOREM PlanIsInductive == PlanSpec => []PlanInv
<1>1. PlanInit => PlanInv
  <2>1. 0 \in Nat
    OBVIOUS
  <2> QED
    BY <2>1, Zenon DEF PlanInit, PlanInv, Requests
<1>2. PlanInv /\ [PlanNext]_planVars => PlanInv'
  <2> SUFFICES ASSUME PlanInv, [PlanNext]_planVars PROVE PlanInv'
    OBVIOUS
  <2>0. asked \in Requests /\ hop \in Nat
    BY Zenon DEF PlanInv
  <2>1. CASE Plan
    <3>1. plan' = frequency_range(asked') /\ asked' = asked /\ hop' = hop /\ rows' = rows
          /\ plan = Unplanned
      BY <2>1, Zenon DEF Plan
    <3>2. CASE hop = 0 /\ rows = <<>>
      <4>1. hop' <= plan'.tune_count
        <5>1. plan'.tune_count \in Nat
          BY <2>0, <3>1, HopsAre, Zenon
        <5> QED
          BY <3>1, <3>2, <5>1, SMT
      <4>2. /\ rows' \in Seq({csv_dbm(plan', ix) : ix \in Nat})
            /\ Len(rows') = hop'
            /\ \A ix \in 1 .. hop' : rows'[ix] = csv_dbm(plan', ix - 1)
        BY <3>1, <3>2, SMT
      <4> QED
        BY <2>0, <3>1, <4>1, <4>2, Zenon DEF PlanInv, Sweep
    <3>3. CASE plan = frequency_range(asked) /\ Sweep
      <4>1. plan' = plan
        BY <3>1, <3>3, Zenon
      <4>2. Sweep'
        BY <3>1, <3>3, <4>1, Zenon DEF Sweep
      <4> QED
        BY <2>0, <3>1, <4>2, Zenon DEF PlanInv
    <3> QED
      BY <3>2, <3>3, Zenon DEF PlanInv
  <2>2. CASE PrintRow
    <3>1. /\ hop < plan.tune_count /\ rows' = rows \o <<csv_dbm(plan, hop)>>
          /\ hop' = hop + 1 /\ asked' = asked /\ plan' = plan
      BY <2>2, Zenon DEF PrintRow
    <3>2. ~ (plan = Unplanned /\ hop = 0)
      BY <3>1, SMT DEF Unplanned
    <3>3. plan = frequency_range(asked) /\ Sweep
      BY <3>2, Zenon DEF PlanInv
    <3>4. plan.tune_count \in Nat
      BY <2>0, <3>3, HopsAre, Zenon
    <3>5. hop' \in Nat /\ hop' <= plan.tune_count
      BY <2>0, <3>1, <3>4, SMT
    <3> DEFINE R == {csv_dbm(plan, ix) : ix \in Nat}
               x == csv_dbm(plan, hop)
    <3>6. x \in R /\ rows \in Seq(R) /\ Len(rows) = hop
      BY <2>0, <3>3, Zenon DEF Sweep
    <3>7. \A ix \in 1 .. hop : rows[ix] = csv_dbm(plan, ix - 1)
      BY <3>3, Zenon DEF Sweep
    <3>8. rows' \in Seq(R) /\ Len(rows') = hop'
      <4> HIDE DEF R, x
      <4> QED
        BY <2>0, <3>1, <3>6, SMT DEF x
    <3>9. ASSUME NEW ix \in 1 .. hop' PROVE rows'[ix] = csv_dbm(plan, ix - 1)
      <4>1. CASE ix = hop + 1
        <5>1. ix - 1 = hop
          BY <2>0, <4>1, SMT
        <5> HIDE DEF R, x
        <5>2. rows'[ix] = x
          BY <2>0, <3>1, <3>6, <4>1, SMT DEF x
        <5> QED
          BY <5>1, <5>2, Zenon DEF x
      <4>2. CASE ~ (ix = hop + 1)
        <5>1. ix \in 1 .. hop
          BY <2>0, <3>1, <4>2, SMT
        <5> HIDE DEF R, x
        <5>2. rows'[ix] = rows[ix]
          BY <2>0, <3>1, <3>6, <5>1, SMT DEF x
        <5> QED
          BY <3>7, <5>1, <5>2, Zenon
      <4> QED
        BY <4>1, <4>2, Zenon
    <3>10. Sweep'
      BY <3>1, <3>5, <3>8, <3>9, Zenon DEF Sweep
    <3> QED
      BY <2>0, <3>1, <3>3, <3>5, <3>10, Zenon DEF PlanInv
  <2>3. CASE UNCHANGED planVars
    BY <2>3, Zenon DEF planVars, PlanInv, Sweep
  <2> QED
    BY <2>1, <2>2, <2>3, Zenon DEF PlanNext
<1> QED
  BY <1>1, <1>2, PTL DEF PlanSpec

LEMMA RowIs ==
  ASSUME NEW p, NEW ix \in Int, p.bw_seen \in Nat, HalfWidth(p) \in Nat
  PROVE  LET at == Lower + ix * p.bw_seen + p.bw_seen \div 2 IN
         /\ csv_dbm(p, ix).low = at - HalfWidth(p)
         /\ csv_dbm(p, ix).high = at + HalfWidth(p)
         /\ csv_dbm(p, ix).bins = FirstBin(p) .. LastBin(p)
         /\ csv_dbm(p, ix).again = IF p.bin_e = 0 THEN 0 ELSE LastBin(p)
         /\ at \in Int
<1>1. /\ csv_dbm(p, ix).low = Frequency(p, ix) - HalfWidth(p)
      /\ csv_dbm(p, ix).high = Frequency(p, ix) + HalfWidth(p)
      /\ csv_dbm(p, ix).bins = FirstBin(p) .. LastBin(p)
      /\ csv_dbm(p, ix).again = IF p.bin_e = 0 THEN 0 ELSE LastBin(p)
  BY SMT DEF csv_dbm
<1>2. Frequency(p, ix) = Lower + ix * p.bw_seen + p.bw_seen \div 2
  BY Zenon DEF Frequency
<1>3. Lower \in Nat
  BY PlanAssumption, Zenon DEF PlanAssumption
<1>4. Lower + ix * p.bw_seen + p.bw_seen \div 2 \in Int
  <2> DEFINE s == p.bw_seen
  <2>1. s \in Nat
    OBVIOUS
  <2> HIDE DEF s
  <2>2. ix * s \in Int /\ s \div 2 \in Int
    BY <2>1, SMT
  <2>3. Lower + ix * s + s \div 2 \in Int
    BY <1>3, <2>2, SMT
  <2> QED
    BY <2>3, Zenon DEF s
<1> QED
  BY <1>1, <1>2, <1>4, Zenon

\* The arithmetic of rows of s Hz, each printed h to either side of its middle.
LEMMA Tiling ==
  ASSUME NEW s \in Nat, NEW h \in Nat, NEW g \in Nat, 2 * h <= s, s <= 2 * h + g + 1
  PROVE  /\ s \div 2 - h \in 0 .. (g + 1)
         /\ s - 2 * h \in 0 .. (g + 1)
         /\ s - s \div 2 - h \in Nat
BY SMT

THEOREM RowsTileTheRange == PlanSpec => []RowsTile
<1>1. PlanInv => RowsTile
  <2> SUFFICES ASSUME PlanInv, Planned PROVE RowsTile
    BY Zenon DEF RowsTile
  <2> DEFINE n == Len(rows)
             tc == plan.tune_count
             s == plan.bw_seen
             h == HalfWidth(plan)
             g == BinWidth(plan)
  <2>1. asked \in Requests /\ hop \in Nat /\ plan = frequency_range(asked) /\ Sweep
    BY Zenon DEF PlanInv, Planned
  <2>2. n = hop /\ n \in Nat /\ hop <= tc /\ tc \in Nat
    BY <2>1, HopsAre, Zenon DEF Sweep
  <2>3. CASE n = 0
    <3>1. \A ix \in 1 .. (n - 1) : FALSE
      BY <2>3, SMT
    <3>2. \A ix \in 1 .. n : FALSE
      BY <2>3, SMT
    <3>3. ~ (n > 0)
      BY <2>3, SMT
    <3> QED
      BY <3>1, <3>2, <3>3, Zenon DEF RowsTile
  <2>4. CASE n # 0
    <3>1. tc # 0
      BY <2>2, <2>4, SMT
    <3>2. Laid(asked, plan)
      <4>1. CASE asked.size >= MINIMUM_RATE
        BY <2>1, <3>1, <4>1, PlanIs, LaidUndivided, Zenon
      <4>2. CASE ~ (asked.size >= MINIMUM_RATE)
        BY <2>1, <4>2, PlanIs, LaidBinned, Zenon
      <4> QED
        BY <4>1, <4>2, Zenon
    <3>3. /\ s \in Nat /\ h \in Nat /\ g \in Nat /\ 2 * h <= s /\ s <= 2 * h + g + 1
          /\ tc * s <= asked.width /\ asked.width + s - s \div 2 - h <= tc * s + g + 1 + tc
          /\ (Cardinality(FirstBin(plan) .. LastBin(plan)) + 1) - BinCount(plan) \in 1 .. 3
          /\ (IF plan.bin_e = 0 THEN 0 ELSE LastBin(plan)) \in FirstBin(plan) .. LastBin(plan)
      BY <3>2, Zenon DEF Laid
    <3>4. /\ s \div 2 - h \in 0 .. (g + 1)
          /\ s - 2 * h \in 0 .. (g + 1)
          /\ s - s \div 2 - h \in Nat
      BY <3>3, Tiling, Zenon
    <3> DEFINE at(ix) == Lower + (ix - 1) * s + s \div 2
    <3>5. ASSUME NEW ix \in 1 .. n
          PROVE  /\ rows[ix].low = at(ix) - h /\ rows[ix].high = at(ix) + h
                 /\ rows[ix].bins = FirstBin(plan) .. LastBin(plan)
                 /\ rows[ix].again = IF plan.bin_e = 0 THEN 0 ELSE LastBin(plan)
      <4>1. ix - 1 \in Int /\ ix \in 1 .. hop
        BY <2>2, SMT
      <4>2. rows[ix] = csv_dbm(plan, ix - 1)
        BY <2>1, <4>1, Zenon DEF Sweep
      <4> QED
        BY <3>3, <4>1, <4>2, RowIs, Zenon
    <3>l. Lower \in Nat
      BY PlanAssumption, Zenon DEF PlanAssumption
    <3>w. asked.width \in Nat
      <4>1. asked.width \in Nat \ {0}
        BY <2>1, RequestIs, Zenon
      <4> QED
        BY <4>1, SMT
    <3> DEFINE w == asked.width
    <3>a. \A ix \in Int : at(ix) = Lower + (ix - 1) * s + s \div 2
      BY Zenon
    <3> HIDE DEF n, tc, s, h, g, w, at
    <3>6. n > 0 => rows[1].low - Lower \in 0 .. (g + 1)
      <4>1. 1 \in 1 .. n
        BY <2>2, <2>4, SMT
      <4>2. rows[1].low = at(1) - h
        BY <3>5, <4>1, Zenon
      <4>3. at(1) = Lower + s \div 2
        BY <3>3, <3>a, <3>l, SMT
      <4>4. at(1) - h - Lower = s \div 2 - h
        BY <3>3, <3>l, <4>3, SMT
      <4> QED
        BY <3>4, <4>2, <4>4, Zenon
    <3>7. ASSUME NEW ix \in 1 .. (n - 1)
          PROVE  rows[ix + 1].low - rows[ix].high \in 0 .. (g + 1)
      <4>1. ix \in 1 .. n /\ ix + 1 \in 1 .. n /\ ix \in Int /\ ix + 1 \in Int
        BY <2>2, SMT
      <4>2. rows[ix + 1].low = at(ix + 1) - h /\ rows[ix].high = at(ix) + h
        BY <3>5, <4>1, Zenon
      <4> DEFINE x == (ix - 1) * s
                 y == ((ix + 1) - 1) * s
      <4>3. at(ix) = Lower + x + s \div 2 /\ at(ix + 1) = Lower + y + s \div 2
        BY <3>a, <4>1, Zenon
      <4>4. x \in Int /\ y = x + s
        BY <3>3, <4>1, SMT
      <4> HIDE DEF x, y
      <4>5. at(ix + 1) - h - (at(ix) + h) = s - 2 * h
        BY <3>3, <3>l, <4>3, <4>4, SMT
      <4> QED
        BY <3>4, <4>2, <4>5, Zenon
    <3>8. hop = tc /\ n > 0 => Lower + w - rows[n].high \in 0 .. (g + 1 + tc)
      <4> SUFFICES ASSUME hop = tc PROVE Lower + w - rows[n].high \in 0 .. (g + 1 + tc)
        BY Zenon
      <4>1. n \in 1 .. n /\ n \in Int
        BY <2>2, <2>4, SMT
      <4>2. rows[n].high = at(n) + h /\ at(n) = Lower + (n - 1) * s + s \div 2
        BY <3>5, <3>a, <4>1, Zenon
      <4> DEFINE x == (n - 1) * s
                 y == tc * s
      <4>3. x \in Int /\ y = x + s
        <5>1. n = tc
          BY <2>2, Zenon
        <5> QED
          BY <3>3, <4>1, <5>1, SMT
      <4>4. y <= w /\ w + s - s \div 2 - h <= y + g + 1 + tc
        BY <3>3, Zenon DEF w
      <4> HIDE DEF x, y
      <4>5. w \in Nat
        BY <3>w, Zenon DEF w
      <4>6. Lower + w - (Lower + x + s \div 2 + h) \in 0 .. (g + 1 + tc)
        BY <2>2, <3>3, <3>4, <3>l, <4>3, <4>4, <4>5, SMT
      <4> QED
        BY <4>2, <4>6, Zenon DEF x
    <3>9. \A ix \in 1 .. n : /\ Columns(rows[ix]) - BinCount(plan) \in 1 .. 3
                             /\ rows[ix].again \in rows[ix].bins
      <4> SUFFICES ASSUME NEW ix \in 1 .. n
                   PROVE  /\ Columns(rows[ix]) - BinCount(plan) \in 1 .. 3
                          /\ rows[ix].again \in rows[ix].bins
        BY Zenon
      <4>1. /\ rows[ix].bins = FirstBin(plan) .. LastBin(plan)
            /\ rows[ix].again = IF plan.bin_e = 0 THEN 0 ELSE LastBin(plan)
        BY <3>5, Zenon
      <4>3. rows[ix].again \in FirstBin(plan) .. LastBin(plan)
        <5> DEFINE l == IF plan.bin_e = 0 THEN 0 ELSE LastBin(plan)
        <5>1. l \in FirstBin(plan) .. LastBin(plan) /\ rows[ix].again = l
          BY <3>3, <4>1, Zenon
        <5> HIDE DEF l
        <5> QED
          BY <5>1, Zenon
      <4>4. Columns(rows[ix]) - BinCount(plan) \in 1 .. 3
        <5>1. (Cardinality(FirstBin(plan) .. LastBin(plan)) + 1) - BinCount(plan) \in 1 .. 3
          BY <3>3, Zenon
        <5>2. (Cardinality(rows[ix].bins) + 1) - BinCount(plan) \in 1 .. 3
          BY ONLY <4>1, <5>1, Zenon
        <5> QED
          BY ONLY <5>2, Zenon DEF Columns
      <4>5. rows[ix].again \in rows[ix].bins
        BY ONLY <4>1, <4>3, Zenon
      <4> QED
        BY <4>4, <4>5, Zenon
    <3> QED
      BY <3>6, <3>7, <3>8, <3>9, Zenon DEF RowsTile, n, tc, g, w
  <2> QED
    BY <2>3, <2>4, Zenon
<1> QED
  BY <1>1, PlanIsInductive, PTL

-----------------------------------------------------------------------------
(* The windows of a hop's buffer.                                          *)

\* The buffer of a hop holds a window for each sample of the decimated one, and is
\* whole windows when nothing is decimated.
LEMMA BufferHolds ==
  ASSUME NEW e \in 1 .. 21, NEW d \in Nat \ {0}
  PROVE  /\ BufLen(e, d) \in Nat
         /\ 2 * (Two(e) * d) <= BufLen(e, d)
         /\ d = 1 => \E k \in Nat \ {0} : BufLen(e, d) = k * (2 * Two(e))
<1> DEFINE t == Two(e)
           D == DEFAULT_BUF_LENGTH
           x == t * d
<1>1. t \in Nat \ {0}
  <2>1. e \in 0 .. 21
    BY SMT
  <2> QED
    BY <2>1, PowerIs, Zenon
<1>2. t >= 8192 \/ \E b \in Nat \ {0} : 8192 = b * t
  <2>1. \A ix \in 0 .. 21 : Two(ix) >= 8192 \/ \E b \in Nat \ {0} : 8192 = b * Two(ix)
    BY PowerOf, SMT
  <2>2. e \in 0 .. 21
    BY SMT
  <2> HIDE DEF t
  <2> QED
    BY <2>1, <2>2, SMT DEF t
<1>a. D = 16384
  BY SMT DEF DEFAULT_BUF_LENGTH
<1>3. x \in Nat /\ 2 * t * d = 2 * x
  BY <1>1, SMT
<1>4. BufLen(e, d) = IF D >= 2 * x THEN D ELSE 2 * x
  <2>1. BufLen(e, d) = IF D >= 2 * t * d THEN D ELSE 2 * t * d
    BY Zenon DEF BufLen
  <2> HIDE DEF t, D, x
  <2> QED
    BY <1>3, <2>1, Zenon
<1>5. d = 1 => x = t
  BY <1>1, SMT
<1> HIDE DEF t, D, x
<1>6. BufLen(e, d) \in Nat /\ 2 * x <= BufLen(e, d)
  BY <1>a, <1>3, <1>4, SMT
<1>7. ASSUME d = 1 PROVE \E k \in Nat \ {0} : BufLen(e, d) = k * (2 * t)
  <2>1. x = t
    BY <1>5, <1>7, Zenon
  <2>2. CASE t >= 8192
    <3>1. BufLen(e, d) = 1 * (2 * t) /\ 1 \in Nat \ {0}
      BY <1>1, <1>a, <1>3, <1>4, <2>1, <2>2, SMT
    <3> QED
      BY <3>1, Zenon
  <2>3. CASE \E b \in Nat \ {0} : 8192 = b * t
    <3>1. PICK b \in Nat \ {0} : 8192 = b * t
      BY <2>3, SMT
    <3>2. t <= 8192
      <4>1. 1 * t <= b * t
        BY <1>1, SMT
      <4> QED
        BY <1>1, <3>1, <4>1, SMT
    <3>3. BufLen(e, d) = 16384
      BY <1>1, <1>a, <1>3, <1>4, <2>1, <3>2, SMT
    <3>4. b * (2 * t) = 2 * (b * t)
      BY <1>1, SMT
    <3>5. BufLen(e, d) = b * (2 * t)
      BY <3>1, <3>3, <3>4, SMT
    <3> QED
      BY <3>5, Zenon
  <2> QED
    BY <1>2, <2>2, <2>3, SMT
<1> QED
  BY <1>6, <1>7, Zenon DEF t, x

\* A multiple of m below another one, k * m, leaves room for m.
LEMMA RoomForOne ==
  ASSUME NEW m \in Nat \ {0}, NEW w \in Nat, w % m = 0, NEW k \in Nat, w < k * m
  PROVE  w + m <= k * m
<1> DEFINE j == w \div m
<1>1. j \in Int /\ w = m * j
  BY SMT
<1> HIDE DEF j
<1>2. j < k
  <2>1. SUFFICES ASSUME k <= j PROVE FALSE
    BY <1>1, SMT
  <2>2. k * m <= j * m
    BY <1>1, <2>1, SMT
  <2>3. j * m = m * j
    BY <1>1, SMT
  <2> QED
    BY <1>1, <2>2, <2>3, SMT
<1>3. (j + 1) * m <= k * m
  BY <1>1, <1>2, SMT
<1>4. (j + 1) * m = m * j + m
  BY <1>1, SMT
<1> QED
  BY <1>1, <1>3, <1>4, SMT

LEMMA WindowsFit ==
  ASSUME NEW L \in Nat \ {0}, NEW d \in Nat \ {0}, NEW B \in Nat, 2 * (L * d) <= B,
         d = 1 => \E k \in Nat \ {0} : B = k * (2 * L)
  PROVE  /\ 2 * L <= 2 * (B \div (2 * d))
         /\ 0 \in 0 .. (B \div d - 1)
         /\ \A w \in 0 .. (B \div d - 1) : w % (2 * L) = 0 => w + 2 * L <= B
<1> DEFINE q == B \div d
           r == B \div (2 * d)
           m == 2 * L
<1>0. B \in Int /\ 2 * d \in Nat \ {0}
  BY SMT
<1>1. q \in Int /\ d * q <= B /\ B < d * q + d
  BY <1>0, Divides, Zenon
<1>2. r \in Int /\ (2 * d) * r <= B /\ B < (2 * d) * r + 2 * d
  BY <1>0, Divides, Zenon
<1>3. m \in Nat \ {0}
  BY SMT
<1> HIDE DEF q, r
<1>4. L <= r
  <2>1. SUFFICES ASSUME r + 1 <= L PROVE FALSE
    BY <1>2, SMT
  <2>2. (r + 1) * d <= L * d
    BY <1>2, <2>1, SMT
  <2>3. (r + 1) * d = r * d + d /\ (2 * d) * r = 2 * (r * d) /\ r * d \in Int /\ L * d \in Int
    BY <1>2, SMT
  <2> QED
    BY <1>2, <2>2, <2>3, SMT
<1>5. m <= q
  <2>1. SUFFICES ASSUME q + 1 <= 2 * L PROVE FALSE
    BY <1>1, SMT
  <2>2. (q + 1) * d <= (2 * L) * d
    BY <1>1, <2>1, SMT
  <2>3. (q + 1) * d = q * d + d /\ d * q = q * d /\ (2 * L) * d = 2 * (L * d)
        /\ q * d \in Int /\ L * d \in Int
    BY <1>1, SMT
  <2> QED
    BY <1>1, <2>2, <2>3, SMT
<1>6. ASSUME NEW w \in 0 .. (q - 1), w % m = 0 PROVE w + m <= B
  <2>1. CASE d = 1
    <3>1. PICK k \in Nat \ {0} : B = k * m
      BY <2>1, Zenon
    <3>2. q = B
      BY <1>1, <2>1, SMT
    <3>3. w \in Nat /\ k \in Nat /\ w < k * m
      BY <1>1, <3>1, <3>2, SMT
    <3> HIDE DEF m
    <3>4. w + m <= k * m
      BY <1>3, <1>6, <3>3, RoomForOne, Zenon
    <3> QED
      BY <3>1, <3>4, Zenon
  <2>2. CASE d # 1
    <3>1. 2 * q <= d * q
      BY <1>1, <1>3, <1>5, <2>2, SMT
    <3> HIDE DEF m
    <3> QED
      BY <1>1, <1>3, <1>5, <3>1, d * q \in Int, SMT
  <2> QED
    BY <2>1, <2>2, Zenon
<1>7. 0 \in 0 .. (q - 1) /\ 2 * L <= 2 * r
  BY <1>1, <1>2, <1>3, <1>4, <1>5, SMT
<1> QED
  BY <1>6, <1>7, Zenon DEF q, r

\* As the planner takes the first bins that are fine enough, the buffer stays short.
LEMMA BufferIsShort ==
  ASSUME NEW b \in Nat, b <= HIGHEST_RATE, NEW d \in Nat \ {0}, d <= MAXIMUM_RATE,
         NEW e \in 1 .. 21, NEW z \in Nat \ {0},
         e > 1 => ~ (b \div (Two(e - 1) * d)
                      + (IF b % (Two(e - 1) * d) = 0 THEN 0 ELSE 1) <= z)
  PROVE  BufLen(e, d) <= INT_MAX
<1> DEFINE t == Two(e)
           m == Two(e - 1) * d
           x == t * d
<1>1. t \in Nat \ {0} /\ t = 2 * Two(e - 1) /\ Two(e - 1) \in Nat \ {0}
  <2>1. e \in 0 .. 21 /\ e - 1 \in 0 .. 21 /\ e - 1 < 21 /\ (e - 1) + 1 = e
    BY SMT
  <2>2. Two((e - 1) + 1) = 2 * Two(e - 1)
    BY <2>1, PowerIs, Zenon
  <2>3. Two(e) \in Nat \ {0} /\ Two(e - 1) \in Nat \ {0}
    BY <2>1, PowerIs, Zenon
  <2> QED
    BY <2>1, <2>2, <2>3, Zenon
<1>2. m \in Nat \ {0} /\ x = 2 * m /\ x \in Nat /\ 2 * t * d = 2 * x
  BY <1>1, SMT
<1>3. x <= 6400000
  <2>1. CASE e > 1
    <3>1. ~ (b \div m + (IF b % m = 0 THEN 0 ELSE 1) <= z)
      BY <2>1, Zenon
    <3> HIDE DEF m, x, t
    <3>2. m <= b
      BY <1>2, <3>1, SMT
    <3> QED
      BY <1>2, <3>2, Rates, SMT
  <2>2. CASE e = 1
    <3>1. t = 2
      BY <2>2, Powers, SMT
    <3> QED
      BY <3>1, Rates, SMT
  <2> QED
    BY <2>1, <2>2, SMT
<1>4. BufLen(e, d) = IF DEFAULT_BUF_LENGTH >= 2 * x THEN DEFAULT_BUF_LENGTH ELSE 2 * x
  <2>1. BufLen(e, d) =
          IF DEFAULT_BUF_LENGTH >= 2 * t * d THEN DEFAULT_BUF_LENGTH ELSE 2 * t * d
    BY Zenon DEF BufLen
  <2> HIDE DEF t, x
  <2> QED
    BY <1>2, <2>1, Zenon
<1> HIDE DEF x
<1> QED
  BY <1>2, <1>3, <1>4, SMT DEF INT_MAX, DEFAULT_BUF_LENGTH

LEMMA FineIs ==
  ASSUME NEW b \in Nat, NEW m \in Nat \ {0}, NEW z \in Nat \ {0},
         b \div m + (IF b % m = 0 THEN 0 ELSE 1) <= z
  PROVE  (b - 1) \div z < m
<1> DEFINE q == b \div m
           v == (b - 1) \div z
<1>1. q \in Int /\ m * q <= b /\ b < m * q + m
  BY Divides, SMT
<1>2. b % m = b - m * q
  BY SMT
<1>3. b - 1 \in Int
  BY SMT
<1>4. v \in Int /\ z * v <= b - 1 /\ b - 1 < z * v + z
  BY <1>3, Divides, Zenon
<1>5. q <= z /\ (b - m * q # 0 => q + 1 <= z)
  BY <1>1, <1>2, SMT
<1> HIDE DEF q, v
<1>6. b <= m * z
  <2>1. CASE b - m * q = 0
    <3>1. m * q <= m * z
      BY <1>1, <1>5, SMT
    <3> QED
      BY <1>1, <2>1, <3>1, m * q \in Int, m * z \in Int, SMT
  <2>2. CASE b - m * q # 0
    <3>1. m * (q + 1) <= m * z
      BY <1>1, <1>5, <2>2, SMT
    <3>2. m * (q + 1) = m * q + m
      BY <1>1, SMT
    <3> QED
      BY <1>1, <3>1, <3>2, m * q \in Int, m * z \in Int, SMT
  <2> QED
    BY <2>1, <2>2, Zenon
<1>7. ~ (m <= v)
  <2>1. SUFFICES ASSUME m <= v PROVE FALSE
    OBVIOUS
  <2>2. z * m <= z * v
    BY <1>4, <2>1, SMT
  <2>3. z * m = m * z /\ m * z \in Int /\ z * v \in Int
    BY <1>4, SMT
  <2> QED
    BY <1>4, <1>6, <2>2, <2>3, SMT
<1> QED
  BY <1>4, <1>7, SMT DEF v

THEOREM HopsAreSampled == PlanSpec => []HopsSampled
<1>1. PlanInv => HopsSampled
  <2> SUFFICES ASSUME PlanInv, Planned, ~ Giant PROVE HopsSampled
    BY Zenon DEF HopsSampled
  <2> DEFINE d == plan.downsample
             b == plan.bw_used
             e == plan.bin_e
             L == BinLen(plan)
  <2>1. asked \in Requests /\ plan = frequency_range(asked)
    BY Zenon DEF PlanInv, Planned
  <2>2. Binned(asked, plan)
    BY <2>1, PlanIs, Zenon DEF Giant
  <2>3. /\ plan.tune_count \in Nat /\ 1 <= plan.tune_count /\ plan.tune_count <= LongestSplit
        /\ d \in Nat \ {0} /\ b \in Nat /\ MINIMUM_RATE <= b /\ b <= HIGHEST_RATE
        /\ (d = 1 \/ asked.boxcar) => b <= MAXIMUM_RATE
        /\ e \in 1 .. 21 /\ plan.buf_len = BufLen(e, d)
        /\ e < 21 => Fine(plan, e, asked.size)
        /\ d <= MAXIMUM_RATE /\ (e > 1 => ~ Fine(plan, e - 1, asked.size))
    BY <2>2, Zenon DEF Binned, Even
  <2>4. plan.tune_count \in 1 .. LongestSplit
    <3>1. LongestSplit \in Int
      BY Rates, SMT
    <3> QED
      BY <2>3, <3>1, SMT
  <2>5. L = Two(e) /\ L \in Nat \ {0} /\ ~ (e = 0)
    <3>1. e \in 0 .. 21 /\ ~ (e = 0)
      BY <2>3, SMT
    <3>2. Two(e) \in Nat \ {0}
      BY <3>1, PowerIs, Zenon
    <3> QED
      BY <3>1, <3>2, Zenon DEF BinLen, Two
  <2> DEFINE B == plan.buf_len
  <2>6. /\ B \in Nat /\ 2 * (L * d) <= B
        /\ d = 1 => \E k \in Nat \ {0} : B = k * (2 * L)
    BY <2>3, <2>5, BufferHolds, Zenon
  <2> HIDE DEF B, L, e, b, d
  <2>7. /\ 2 * L <= 2 * (B \div (2 * d))
        /\ 0 \in 0 .. (B \div d - 1)
        /\ \A w \in 0 .. (B \div d - 1) : w % (2 * L) = 0 => w + 2 * L <= B
    BY <2>3, <2>5, <2>6, WindowsFit, Zenon
  <2>8. ScanWindows(plan) = {w \in 0 .. (B \div d - 1) : w % (2 * L) = 0}
    BY <2>5, Zenon DEF ScanWindows, B, L, d, e
  <2>9. 0 \in ScanWindows(plan)
    <3>1. 0 % (2 * L) = 0
      BY <2>5, SMT
    <3> QED
      BY <2>7, <2>8, <3>1, Zenon
  <2>10. e < 21 => (b - 1) \div asked.size < L * d
    <3> SUFFICES ASSUME e < 21 PROVE (b - 1) \div asked.size < L * d
      OBVIOUS
    <3> DEFINE m == L * d
    <3>1. b \div m + (IF b % m = 0 THEN 0 ELSE 1) <= asked.size
      BY <2>3, <2>5, Zenon DEF Fine, Two, b, d
    <3>2. m \in Nat \ {0}
      BY <2>3, <2>5, SMT
    <3>3. asked.size \in Nat \ {0}
      BY <2>1, RequestIs, Zenon
    <3> HIDE DEF m
    <3>4. (b - 1) \div asked.size < m
      BY <2>3, <3>1, <3>2, <3>3, FineIs, Zenon
    <3> QED
      BY <3>4, Zenon DEF m
  <2>11. B <= INT_MAX
    <3>1. asked.size \in Nat \ {0}
      BY <2>1, RequestIs, Zenon
    <3>2. e > 1 => ~ (b \div (Two(e - 1) * d)
                        + (IF b % (Two(e - 1) * d) = 0 THEN 0 ELSE 1) <= asked.size)
      BY <2>3, Zenon DEF Fine, Two, b, d
    <3>3. BufLen(e, d) <= INT_MAX
      BY <2>3, <3>1, <3>2, BufferIsShort, Zenon
    <3> QED
      BY <2>3, <3>3, Zenon DEF B
  <2>12. Decimated(plan) = 2 * (B \div (2 * d))
    BY Zenon DEF Decimated, B, d
  <2> QED
    BY <2>3, <2>4, <2>7, <2>8, <2>9, <2>10, <2>11, <2>12, Zenon DEF HopsSampled, B, L, e, b, d
<1> QED
  BY <1>1, PlanIsInductive, PTL

-----------------------------------------------------------------------------
USE DetectorAssumption DEF DetectorAssumption

(* The bands of the detector.                                                              *)

\* n bins in bands of t each, the last one perhaps not full; of one bin each
\* when t is 0.
Bands(n, t) == IF t = 0 THEN n ELSE (n + t - 1) \div t

\* One bin more opens a band when it is out of the last one.
LEMMA BandsStep ==
  ASSUME NEW n \in Nat, NEW t \in Nat
  PROVE  /\ Bands(n, t) \in Int /\ Bands(0, t) = 0
         /\ Bands(n + 1, t) = IF n + 1 > t * Bands(n, t) THEN Bands(n, t) + 1 ELSE Bands(n, t)
<1>1. CASE t = 0
  BY <1>1 DEF Bands
<1>2. CASE t # 0
  <2> DEFINE q == (n + t - 1) \div t
  <2>1. q \in Int /\ t * q <= n + t - 1 /\ n + t - 1 < t * q + t
    BY <1>2, Divides
  <2>2. Bands(n, t) = q /\ Bands(n + 1, t) = (n + t) \div t /\ Bands(0, t) = (t - 1) \div t
    BY <1>2 DEF Bands
  <2> HIDE DEF q
  <2>3. (t - 1) \div t = 0
    BY <1>2, QuotientIs
  <2>4. CASE n + 1 > t * q
    <3>1. t * (q + 1) = t * q + t
      BY <2>1
    <3>2. t * (q + 1) <= n + t /\ n + t < t * (q + 1) + t
      BY <1>2, <2>1, <2>4, <3>1
    <3>3. (n + t) \div t = q + 1
      BY <1>2, <2>1, <3>2, QuotientIs
    <3> QED
      BY <2>1, <2>2, <2>3, <2>4, <3>3
  <2>5. CASE ~(n + 1 > t * q)
    <3>1. t * q <= n + t /\ n + t < t * q + t
      BY <1>2, <2>1, <2>5
    <3>2. (n + t) \div t = q
      BY <1>2, <2>1, <3>1, QuotientIs
    <3> QED
      BY <2>1, <2>2, <2>3, <2>5, <3>2
  <2> QED
    BY <2>1, <2>4, <2>5
<1> QED
  BY <1>1, <1>2

\* What the loop of the threshold window counts.
LEMMA BandIs ==
  ASSUME threshold_lower_pos \in Int, threshold_upper_pos \in Int, Transition \in Nat,
         NEW b \in threshold_lower_pos..(threshold_upper_pos - 1)
  PROVE  Band[b] = Bands(b - threshold_lower_pos, Transition)
<1> DEFINE lo == threshold_lower_pos
           D == lo..(threshold_upper_pos - 1)
           t == Transition
           Is(f) == f = [x \in D |-> IF x = lo THEN 0
                                     ELSE IF x > t * f[x - 1] + lo
                                          THEN f[x - 1] + 1 ELSE f[x - 1]]
           g == [x \in D |-> Bands(x - lo, t)]
<1>1. Band = CHOOSE f : Is(f)
  BY DEF Band
<1> HIDE DEF t
<1>2. t \in Nat /\ lo \in Int /\ \A x \in D : x \in Int /\ x - lo \in Nat
  BY DEF t
<1>3. ASSUME NEW x \in D, x # lo
      PROVE  /\ x - 1 \in D
             /\ Bands(x - lo, t) = IF x > t * Bands((x - 1) - lo, t) + lo
                                   THEN Bands((x - 1) - lo, t) + 1
                                   ELSE Bands((x - 1) - lo, t)
  <2> DEFINE n == (x - 1) - lo
  <2>1. n \in Nat /\ n + 1 = x - lo /\ x - 1 \in D
    BY <1>2, <1>3
  <2> HIDE DEF n
  <2> DEFINE m == Bands(n, t)
  <2>2. m \in Int /\ Bands(n + 1, t) = IF n + 1 > t * m THEN m + 1 ELSE m
    BY <1>2, <2>1, BandsStep
  <2> HIDE DEF m
  <2>3. t * m \in Int
    BY <1>2, <2>2
  <2>4. n + 1 > t * m <=> x > t * m + lo
    BY <1>2, <2>1, <2>3
  <2>5. Bands(x - lo, t) = IF x > t * m + lo THEN m + 1 ELSE m
    BY <2>1, <2>2, <2>4
  <2> QED
    BY <2>1, <2>5 DEF m, n
<1>4. Bands(lo - lo, t) = 0
  <2>1. lo - lo = 0
    BY <1>2
  <2> QED
    BY <1>2, <2>1, BandsStep
<1>5. Is(g)
  <2>1. ASSUME NEW x \in D
        PROVE  g[x] = IF x = lo THEN 0
                      ELSE IF x > t * g[x - 1] + lo THEN g[x - 1] + 1 ELSE g[x - 1]
    <3>1. CASE x = lo
      BY <1>4, <3>1
    <3>2. CASE x # lo
      <4>1. x - 1 \in D
        BY <1>3, <3>2
      <4>2. g[x] = Bands(x - lo, t) /\ g[x - 1] = Bands((x - 1) - lo, t)
        BY <4>1
      <4> HIDE DEF g, D
      <4> QED
        BY <1>3, <3>2, <4>2
    <3> QED
      BY <3>1, <3>2
  <2> QED
    BY <2>1
<1>6. Is(Band)
  <2> HIDE DEF Is
  <2> QED
    BY <1>1, <1>5
<1>7. ASSUME NEW x \in D
      PROVE  Band[x] = IF x = lo THEN 0
                       ELSE IF x > t * Band[x - 1] + lo THEN Band[x - 1] + 1 ELSE Band[x - 1]
  BY <1>6, Zenon
<1> HIDE DEF Is, g
<1> DEFINE Wrong == {n \in Nat : \E x \in D : x - lo = n /\ Band[x] # Bands(x - lo, t)}
<1>8. Wrong = {}
  <2> SUFFICES ASSUME Wrong # {} PROVE FALSE
    OBVIOUS
  <2>1. PICK n \in Wrong : \A m \in Wrong : n <= m
    BY Least
  <2>2. PICK x \in D : x - lo = n /\ Band[x] # Bands(x - lo, t)
    OBVIOUS
  <2>3. CASE x = lo
    BY <1>4, <1>7, <2>2, <2>3
  <2>4. CASE x # lo
    <3>1. x - 1 \in D
      BY <1>3, <2>4
    <3>2. (x - 1) - lo < n /\ (x - 1) - lo \in Nat
      BY <1>2, <2>2, <3>1
    <3>3. (x - 1) - lo \notin Wrong
      BY <2>1, <3>2
    <3>4. Band[x - 1] = Bands((x - 1) - lo, t)
      BY <3>1, <3>2, <3>3
    <3> QED
      BY <1>3, <1>7, <2>2, <2>4, <3>4
  <2> QED
    BY <2>3, <2>4
<1>9. b - lo \in Nat
  BY <1>2
<1> QED
  BY <1>8, <1>9 DEF t

-----------------------------------------------------------------------------
(* The invariant.                                                          *)

\* The threshold window, and a program that has run past threshold_array.
TypesOK ==
  /\ lower_pos \in Int /\ upper_pos \in Int
  /\ threshold_lower_pos \in Int /\ threshold_upper_pos \in Int
  /\ pin \in {"LOW", "HIGH"}

NoSpikeBelow(n) == \A b \in lower_pos..(n - 1) : ~Spike(b)

\* How far a scan has come, and what the pin shows of it.
Scanning ==
  /\ pc = "scan" => /\ i \in Int /\ lower_pos <= i /\ NoSpikeBelow(i)
                    /\ lower_pos < i => pin = "LOW"
                    /\ upper_pos >= lower_pos => i <= upper_pos
                    /\ HasThreshold(threshold_array)
  /\ pc = "pulse" => /\ i \in lower_pos..(upper_pos - 1) /\ Spike(i)
                     /\ pin = "LOW" /\ HasThreshold(threshold_array)

DetectorInv == TypesOK /\ Scanning /\ PinTellsSpike

LEMMA CastType == ASSUME NEW h \in Int, NEW n \in Cast(h) PROVE n \in Int
<1> DEFINE x == IF h < 0 THEN 0 ELSE h \div 100
<1>1. x \in Int /\ Points - 1 \in Int
  OBVIOUS
<1> HIDE DEF x
<1>2. Min({x, Points - 1}) \in {x, Points - 1}
  <2>1. \E m \in {x, Points - 1} : \A y \in {x, Points - 1} : m <= y
    <3>1. CASE x <= Points - 1
      BY <1>1, <3>1
    <3>2. CASE Points - 1 <= x
      BY <1>1, <3>2
    <3> QED
      BY <1>1, <3>1, <3>2
  <2> QED
    BY <2>1 DEF Min
<1>3. n \in {0, Points - 1, Min({x, Points - 1})}
  BY DEF Cast, x
<1> QED
  BY <1>1, <1>2, <1>3

\* The detection window and the threshold stay while a spectrum is looked at.
LEMMA BandsStay ==
  ASSUME UNCHANGED positions PROVE curr_max_threshold' = curr_max_threshold
BY DEF positions, curr_max_threshold, Scanned, Band, Transition

LEMMA SpectrumStays ==
  ASSUME UNCHANGED <<positions, data>>
  PROVE  /\ \A b : Spike(b)' <=> Spike(b)
         /\ HasThreshold(threshold_array)' <=> HasThreshold(threshold_array)
<1>1. /\ curr_max_threshold' = curr_max_threshold /\ curr_output' = curr_output
      /\ threshold_array' = threshold_array
  BY BandsStay DEF data
<1> QED
  BY <1>1 DEF Spike, HasThreshold

LEMMA InitInv == ASSUME Init PROVE DetectorInv
<1>1. /\ window.dLow \in Int /\ window.dHigh \in Int
      /\ window.tLow \in Int /\ window.tHigh \in Int
  <2>1. window \in [dLow : None..Points, dHigh : None..Points,
                    tLow : None..Points, tHigh : None..Points]
    BY DEF Init
  <2>2. None..Points \subseteq Int
    BY DEF None
  <2> QED
    BY <2>1, <2>2
<1>2. ASSUME NEW f \in Int
      PROVE  LowPos(f) \subseteq Int /\ HighPos(f) \subseteq Int
  <2>1. 100 * f - Margin * Points \in Int /\ 100 * f + Margin * Points \in Int
        /\ Points - 1 \in Int
    OBVIOUS
  <2> QED
    BY <2>1, CastType DEF LowPos, HighPos
<1>3. TypesOK
  BY <1>1, <1>2 DEF Init, TypesOK
<1> QED
  BY <1>3 DEF Init, DetectorInv, Scanning, PinTellsSpike

LEMMA StepInv == ASSUME DetectorInv, [Next]_vars PROVE DetectorInv'
<1> USE DEF DetectorInv, TypesOK
<1>1. CASE UNCHANGED vars
  <2>1. UNCHANGED <<positions, data>> /\ UNCHANGED <<pc, i, pin>>
        /\ UNCHANGED <<lower_pos, upper_pos, threshold_lower_pos, threshold_upper_pos>>
    BY <1>1 DEF vars, positions
  <2> QED
    BY <2>1, SpectrumStays DEF Scanning, PinTellsSpike, NoSpikeBelow
<1>2. CASE \E out \in Spectra : Crunch(out)
  <2>1. pc' = "threshold" /\ UNCHANGED <<positions, pin>>
    BY <1>2 DEF Crunch
  <2> QED
    BY <2>1 DEF positions, Scanning, PinTellsSpike
<1>3. CASE FindThreshold
  <2>1. /\ pc' = IF HasThreshold(threshold_array') THEN "scan" ELSE "idle"
        /\ i' = lower_pos /\ UNCHANGED <<positions, pin>>
        /\ UNCHANGED <<lower_pos, upper_pos, threshold_lower_pos, threshold_upper_pos>>
    BY <1>3 DEF FindThreshold, positions
  <2>2. HasThreshold(threshold_array)' <=> HasThreshold(threshold_array')
    BY <2>1, BandsStay DEF HasThreshold
  <2>3. NoSpikeBelow(i)'
    BY <2>1 DEF NoSpikeBelow
  <2> QED
    BY <2>1, <2>2, <2>3 DEF Scanning, PinTellsSpike
<1>4. CASE Overrun
  <2>1. pc' = "undefined" /\ UNCHANGED <<positions, pin>>
    BY <1>4 DEF Overrun
  <2> QED
    BY <2>1 DEF positions, Scanning, PinTellsSpike
<1>5. CASE Quiet
  <2>1. /\ pc = "scan" /\ i < upper_pos /\ ~Spike(i) /\ pin' = "LOW" /\ i' = i + 1
        /\ UNCHANGED <<positions, data>> /\ pc' = pc
        /\ UNCHANGED <<lower_pos, upper_pos, threshold_lower_pos, threshold_upper_pos>>
    BY <1>5 DEF Quiet, positions
  <2>2. i \in Int /\ lower_pos <= i /\ NoSpikeBelow(i) /\ HasThreshold(threshold_array)
    BY <2>1 DEF Scanning
  <2>3. ASSUME NEW b \in lower_pos..i PROVE ~Spike(b)
    <3>1. b = i \/ b \in lower_pos..(i - 1)
      BY <2>2
    <3> QED
      BY <2>1, <2>2, <3>1 DEF NoSpikeBelow
  <2>4. \A b : Spike(b)' <=> Spike(b)
    BY <2>1, SpectrumStays
  <2>5. i' - 1 = i /\ lower_pos' = lower_pos
    BY <2>1, <2>2
  <2>6. NoSpikeBelow(i)'
    BY <2>3, <2>4, <2>5 DEF NoSpikeBelow
  <2>7. HasThreshold(threshold_array)'
    BY <2>1, <2>2, SpectrumStays
  <2> QED
    BY <2>1, <2>2, <2>6, <2>7 DEF Scanning, PinTellsSpike
<1>6. CASE Detect
  <2>1. /\ pc = "scan" /\ i < upper_pos /\ Spike(i) /\ pin' = "LOW" /\ i' = i /\ pc' = "pulse"
        /\ UNCHANGED <<positions, data>>
        /\ UNCHANGED <<lower_pos, upper_pos, threshold_lower_pos, threshold_upper_pos>>
    BY <1>6 DEF Detect, positions
  <2>2. i \in lower_pos..(upper_pos - 1) /\ HasThreshold(threshold_array)
    BY <2>1 DEF Scanning
  <2>3. Spike(i)' /\ HasThreshold(threshold_array)'
    <3>1. Spike(i)' <=> Spike(i)
      BY <2>1, BandsStay DEF Spike, data
    <3> QED
      BY <2>1, <2>2, <3>1, SpectrumStays
  <2> QED
    BY <2>1, <2>2, <2>3 DEF Scanning, PinTellsSpike
<1>7. CASE Pulse
  <2>1. /\ pc = "pulse" /\ pin' = "HIGH" /\ pc' = "idle"
        /\ UNCHANGED <<positions, data>>
        /\ UNCHANGED <<lower_pos, upper_pos, threshold_lower_pos, threshold_upper_pos>>
    BY <1>7 DEF Pulse, positions
  <2>2. \E b \in lower_pos..(upper_pos - 1) : Spike(b)
    BY <2>1 DEF Scanning
  <2> QED
    BY <2>1, <2>2, SpectrumStays DEF Scanning, PinTellsSpike
<1>8. CASE ScanEnds
  <2>1. /\ pc = "scan" /\ i >= upper_pos /\ pc' = "idle" /\ pin' = pin
        /\ UNCHANGED <<positions, data>>
        /\ UNCHANGED <<lower_pos, upper_pos, threshold_lower_pos, threshold_upper_pos>>
    BY <1>8 DEF ScanEnds, positions
  <2>2. i \in Int /\ NoSpikeBelow(i) /\ (lower_pos < i => pin = "LOW")
    BY <2>1 DEF Scanning
  <2>3. lower_pos < upper_pos =>
          pin = "LOW" /\ \A b \in lower_pos..(upper_pos - 1) : ~Spike(b)
    BY <2>1, <2>2 DEF NoSpikeBelow
  <2> QED
    BY <2>1, <2>3, SpectrumStays DEF Scanning, PinTellsSpike
<1> QED
  BY <1>1, <1>2, <1>3, <1>4, <1>5, <1>6, <1>7, <1>8 DEF Next

LEMMA InvInductive == Spec => []DetectorInv
BY InitInv, StepInv, PTL DEF Spec

-----------------------------------------------------------------------------
(***************************************************************************)
(* Between two FFTs the pin is HIGH exactly if a bin of the detection      *)
(* window passed the threshold of the last one.                            *)
(***************************************************************************)
THEOREM PinIsTrue == Spec => []PinTellsSpike
<1>1. DetectorInv => PinTellsSpike
  BY DEF DetectorInv
<1> QED
  BY <1>1, InvInductive, PTL

(***************************************************************************)
(* Every detection gives the microcontroller one rising edge, and nothing  *)
(* else does.                                                              *)
(***************************************************************************)
THEOREM OneEdgePerDetection == Spec => RisesOncePerDetection
<1>1. DetectorInv /\ [Next]_vars =>
        [(pin = "LOW" /\ pin' = "HIGH") <=> pc = "pulse"]_vars
  <2> SUFFICES ASSUME DetectorInv, Next
               PROVE  (pin = "LOW" /\ pin' = "HIGH") <=> pc = "pulse"
    OBVIOUS
  <2>1. pc = "pulse" => pin = "LOW"
    BY DEF DetectorInv, Scanning
  <2>2. CASE Pulse
    BY <2>1, <2>2 DEF Pulse
  <2>3. CASE ~Pulse
    BY <2>3 DEF Next, Crunch, FindThreshold, Overrun, Quiet, Detect, ScanEnds
  <2> QED
    BY <2>2, <2>3
<1> QED
  BY <1>1, InvInductive, PTL DEF Spec, RisesOncePerDetection

(***************************************************************************)
(* The shift puts the bins of any even number of points in the order of    *)
(* their frequencies.                                                      *)
(***************************************************************************)
THEOREM BinsInOrder == ASSUME Points % 2 = 0 PROVE Spec => OrderedByFrequency
<1>1. ASSUME NEW j \in Bin PROVE FftBin(j) = (j - Points \div 2) % Points
  <2> DEFINE half == Points \div 2
  <2>1. half \in Nat /\ Points = 2 * half /\ j \in 0..(Points - 1)
    BY DEF Bin
  <2> HIDE DEF half
  <2>2. CASE j < half
    <3>1. FftBin(j) = j + half
      BY <2>1, <2>2 DEF FftBin, half
    <3>2. (j - half) % Points = j + half
      BY <2>1, <2>2
    <3> QED
      BY <3>1, <3>2 DEF half
  <2>3. CASE j >= half
    <3>1. FftBin(j) = j - half
      BY <2>1, <2>3 DEF FftBin, half
    <3>2. (j - half) % Points = j - half
      BY <2>1, <2>3
    <3> QED
      BY <3>1, <3>2 DEF half
  <2> QED
    BY <2>1, <2>2, <2>3
<1> DEFINE A == pc' = "threshold" =>
       \A j \in Bin :
         LET b == (j - Points \div 2) % Points
         IN  curr_output'[j] =
               (old_fft'[b] + (IF Averaging THEN old_fft[b] ELSE 0)) ^ 2
<1>2. [Next]_vars => [A]_vars
  <2> SUFFICES ASSUME Next, pc' = "threshold", NEW j \in Bin
               PROVE  LET b == (j - Points \div 2) % Points
                      IN  curr_output'[j] =
                            (old_fft'[b] + (IF Averaging THEN old_fft[b] ELSE 0)) ^ 2
    OBVIOUS
  <2>1. PICK out \in Spectra : Crunch(out)
    BY DEF Next, FindThreshold, Overrun, Quiet, Detect, Pulse, ScanEnds
  <2>2. curr_output'[j] = Power(out, FftBin(j)) /\ old_fft' = out
    BY <2>1 DEF Crunch
  <2> QED
    BY <1>1, <2>2 DEF Power
<1> QED
  BY <1>2, PTL DEF Spec, OrderedByFrequency

(***************************************************************************)
(* The threshold window has more bands than threshold_array elements only  *)
(* if its width is at least two more than a multiple of their number that  *)
(* is too small for the rest; a window of fewer bins never has.            *)
(***************************************************************************)
THEOREM OverrunsOnlyIfUneven == Spec => []OverrunOnlyIfUneven
<1> DEFINE Uneven == LET width == Cardinality(Scanned)
                     IN  width > Bins /\ width - 1 > Bins * (width \div Bins)
<1>1. ASSUME TypesOK, curr_max_threshold > Bins PROVE Uneven
  <2> DEFINE lo == threshold_lower_pos
             hi == threshold_upper_pos
             w == hi - lo
             t == w \div Bins
  <2>1. Scanned # {} /\ curr_max_threshold = Band[hi - 1] /\ Scanned = lo..(hi - 1)
    BY <1>1 DEF curr_max_threshold, Scanned
  <2>2. lo \in Int /\ hi \in Int /\ lo <= hi - 1 /\ w \in Nat /\ w >= 1
    BY <1>1, <2>1 DEF TypesOK
  <2>3. Cardinality(Scanned) = w
    BY <2>1, <2>2, FS_Interval
  <2>4. t \in Int /\ Bins * t <= w /\ w < Bins * t + Bins /\ t >= 0
    <3>1. t \in Int /\ Bins * t <= w /\ w < Bins * t + Bins
      BY <2>2, Divides
    <3>2. Bins * (t + 1) > 0
      BY <2>2, <3>1
    <3> QED
      BY <3>1, <3>2
  <2>5. Band[hi - 1] = Bands(w - 1, t)
    <3>1. Transition = t /\ hi - 1 \in lo..(hi - 1) /\ (hi - 1) - lo = w - 1
      BY <2>2 DEF Transition
    <3>2. Band[hi - 1] = Bands((hi - 1) - lo, Transition)
      BY <2>2, <2>4, <3>1, BandIs
    <3> QED
      BY <3>1, <3>2
  <2> HIDE DEF t, w
  <2>6. CASE t = 0
    <3>1. Bands(w - 1, t) = w - 1 /\ w < Bins
      BY <2>4, <2>6 DEF Bands
    <3> QED
      BY <1>1, <2>1, <2>2, <2>5, <3>1
  <2>7. CASE t # 0
    <3> DEFINE m == Bands(w - 1, t)
    <3>1. m \in Int /\ t * m <= (w - 1) + t - 1
      BY <2>2, <2>4, <2>7, Divides DEF Bands
    <3>2. m >= Bins + 1
      BY <1>1, <2>1, <2>5, <3>1
    <3> HIDE DEF m
    <3>3. t * (Bins + 1) <= t * m
      BY <2>4, <2>7, <3>1, <3>2
    <3>4. t * Bins + t <= (w - 1) + t - 1
      BY <2>2, <2>4, <3>1, <3>3
    <3>5. w - 1 > Bins * t /\ Bins * t >= Bins
      BY <2>2, <2>4, <2>7, <3>4
    <3> QED
      BY <2>2, <2>3, <2>4, <3>5 DEF t
  <2> QED
    BY <2>6, <2>7
<1>2. Init => OverrunOnlyIfUneven
  BY DEF Init, OverrunOnlyIfUneven
<1>3. DetectorInv /\ OverrunOnlyIfUneven /\ [Next]_vars => OverrunOnlyIfUneven'
  <2> SUFFICES ASSUME DetectorInv, OverrunOnlyIfUneven, [Next]_vars, pc' = "undefined"
               PROVE  Uneven'
    BY DEF OverrunOnlyIfUneven
  <2>1. Overrun \/ UNCHANGED vars
    BY DEF Next, Crunch, FindThreshold, Quiet, Detect, Pulse, ScanEnds
  <2>2. UNCHANGED positions
    BY <2>1 DEF Overrun, vars
  <2>3. Scanned' = Scanned
    BY <2>2 DEF positions, Scanned
  <2>4. Uneven
    <3>1. CASE Overrun
      BY <1>1, <3>1 DEF Overrun, DetectorInv
    <3>2. CASE UNCHANGED vars
      BY <3>2 DEF vars, OverrunOnlyIfUneven
    <3> QED
      BY <2>1, <3>1, <3>2
  <2> QED
    BY <2>3, <2>4
<1> QED
  BY <1>2, <1>3, InvInductive, PTL DEF Spec
=============================================================================
