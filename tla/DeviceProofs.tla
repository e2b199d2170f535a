---------------------------- MODULE DeviceProofs ----------------------------
(***************************************************************************)
(* Theorems about DeviceLife, for every choice of frequencies, rates,      *)
(* corrections, gains, crystals and tuners.  A call is a composition of    *)
(* writes each of which may fail; the lemmas say of every function of the  *)
(* library what its outcomes are when no transfer has failed, and the      *)
(* inductive invariant says of the two registers that tune the device how  *)
(* they relate to the fields of the handle.                                *)
(***************************************************************************)
EXTENDS DeviceLife, TLAPS

Place == [freq : Int, xtal : Nat, corr : Int]
Silent == [kind : {"torn", "unlocked", "off"}]
Tuning == Silent \cup [kind : {"is"}, val : Place]
Number == Silent \cup [kind : {"is"}, val : Int]

Handle ==
  [tuner_type : Tuners, freq : Freqs \cup {0}, offs_freq : Nat, corr : Corrs \cup {0},
   rate : Nat, direct_sampling : {0, 1}, gain : Gains \cup {0}, rtl_xtal : Nat,
   tun_xtal : Nat, fosc : [xtal : Nat, corr : Int], driver_active : {"yes", "no"},
   lo : Tuning, if_reg : Tuning, samp : Number, ppm : Number,
   r : {0, -1}, failed : {"yes", "no"}]

\* What no call changes.
Keeps(t, u) == u.tuner_type = t.tuner_type /\ u.driver_active = t.driver_active

\* The part of a handle that tunes the device is as it was.
TunesAs(t, u) ==
  /\ u.direct_sampling = t.direct_sampling /\ u.offs_freq = t.offs_freq
  /\ u.freq = t.freq /\ u.lo = t.lo /\ u.if_reg = t.if_reg

\* A call whose transfers all went through began with a handle of that kind.
Quiet(t, u) == u.failed = "no" => t.failed = "no"

Step(t, u) == u \in Handle /\ Keeps(t, u) /\ Quiet(t, u)

USE DeviceAssumption DEF DeviceAssumption

-----------------------------------------------------------------------------
(* Arithmetic.                                                             *)

LEMMA DividesBy ==
  ASSUME NEW x \in Int, NEW b \in Nat \ {0}
  PROVE  /\ x \div b \in Int /\ x % b \in 0..(b - 1)
         /\ b * (x \div b) + (x % b) = x
OBVIOUS

LEMMA QuotientIs ==
  ASSUME NEW x \in Int, NEW b \in Nat \ {0}, NEW q \in Int, b * q <= x, x < b * q + b
  PROVE  x \div b = q
<1> DEFINE p == x \div b
<1>1. p \in Int /\ b * p <= x /\ x < b * p + b
  OBVIOUS
<1> HIDE DEF p
<1>2. b * p < b * (q + 1) /\ b * q < b * (p + 1)
  BY <1>1
<1>3. p < q + 1 /\ q < p + 1
  BY <1>1, <1>2
<1> QED
  BY <1>1, <1>3 DEF p

\* A quotient and a rest of n by b.
Divided(qr, n, b) ==
  qr \in Nat \X Nat /\ qr[2] < b /\ b * qr[1] + qr[2] = n

LEMMA FourBitsDivide ==
  ASSUME NEW b \in Nat \ {0}, NEW n \in Nat, NEW qr, Divided(qr, n, b)
  PROVE  Divided(FourBits(qr, b), 16 * n, b)
<1> DEFINE q == qr[1]
           r == qr[2]
           x == 16 * r
           p == x \div b
           u == x % b
<1>1. q \in Nat /\ r \in Nat /\ b * q + r = n
  BY DEF Divided
<1>2. x \in Nat /\ x = 16 * r
  BY <1>1
<1>3. FourBits(qr, b) = <<16 * q + p, u>>
  BY DEF FourBits
<1> HIDE DEF q, r, x
<1>4. p \in Nat /\ u \in Nat /\ u < b /\ b * p + u = x
  <2>1. p \in Int /\ u \in 0..(b - 1) /\ b * p + u = x
    <3>1. x \in Int
      BY <1>2
    <3> QED
      BY <3>1, DividesBy, Zenon
  <2>2. p >= 0
    BY <1>2
  <2> QED
    BY <2>1, <2>2
<1> HIDE DEF p, u
<1>5. b * (16 * q + p) + u = 16 * (b * q) + (b * p + u)
  BY <1>1, <1>4
<1>6. b * (16 * q + p) + u = 16 * n
  BY <1>1, <1>2, <1>4, <1>5
<1> QED
  BY <1>1, <1>3, <1>4, <1>6 DEF Divided

LEMMA LongDivision ==
  ASSUME NEW a \in Nat, NEW b \in Nat \ {0}
  PROVE  \E r \in Nat : r < b /\ DivShifted(a, b) \in Nat /\ b * DivShifted(a, b) + r = 2^20 * a
<1> DEFINE qr0 == <<a \div b, a % b>>
           qr1 == FourBits(qr0, b)
           qr2 == FourBits(qr1, b)
           qr3 == FourBits(qr2, b)
           qr4 == FourBits(qr3, b)
           qr5 == FourBits(qr4, b)
<1>1. Divided(qr0, a, b)
  <2>1. a \div b \in Nat /\ a % b \in Nat /\ a % b < b
    OBVIOUS
  <2>2. b * (a \div b) + (a % b) = a
    OBVIOUS
  <2> QED
    BY <2>1, <2>2 DEF Divided
<1> HIDE DEF qr0
<1>2. Divided(qr1, 2^4 * a, b)
  <2>1. 2^4 * a = 16 * a
    BY SMT
  <2>2. Divided(qr1, 16 * a, b)
    BY <1>1, FourBitsDivide
  <2> QED
    BY <2>1, <2>2
<1> HIDE DEF qr1
<1>3. Divided(qr2, 2^8 * a, b)
  <2>1. 2^4 * a \in Nat /\ 16 * (2^4 * a) = 2^8 * a
    BY SMT
  <2>2. Divided(qr2, 16 * (2^4 * a), b)
    BY <1>2, <2>1, FourBitsDivide
  <2> QED
    BY <2>1, <2>2
<1> HIDE DEF qr2
<1>4. Divided(qr3, 2^12 * a, b)
  <2>1. 2^8 * a \in Nat /\ 16 * (2^8 * a) = 2^12 * a
    BY SMT
  <2>2. Divided(qr3, 16 * (2^8 * a), b)
    BY <1>3, <2>1, FourBitsDivide
  <2> QED
    BY <2>1, <2>2
<1> HIDE DEF qr3
<1>5. Divided(qr4, 2^16 * a, b)
  <2>1. 2^12 * a \in Nat /\ 16 * (2^12 * a) = 2^16 * a
    BY SMT
  <2>2. Divided(qr4, 16 * (2^12 * a), b)
    BY <1>4, <2>1, FourBitsDivide
  <2> QED
    BY <2>1, <2>2
<1> HIDE DEF qr4
<1>6. Divided(qr5, 2^20 * a, b)
  <2>1. 2^16 * a \in Nat /\ 16 * (2^16 * a) = 2^20 * a
    BY SMT
  <2>2. Divided(qr5, 16 * (2^16 * a), b)
    BY <1>5, <2>1, FourBitsDivide
  <2> QED
    BY <2>1, <2>2
<1>7. DivShifted(a, b) = qr5[1]
  BY DEF DivShifted, qr0, qr1, qr2, qr3, qr4
<1> HIDE DEF qr5
<1> QED
  BY <1>6, <1>7 DEF Divided

LEMMA DivShiftedType ==
  ASSUME NEW a \in Nat, NEW b \in Nat \ {0} PROVE DivShifted(a, b) \in Nat
BY LongDivision

LEMMA RatioType ==
  ASSUME NEW xtal \in Nat, NEW rate \in Nat, ValidRate(rate)
  PROVE  RsampRatio(xtal, rate) \in Nat /\ RsampRatio(xtal, rate) % 4 = 0
<1>1. DivShifted(4 * xtal, rate) \in Nat
  BY DivShiftedType DEF ValidRate
<1> DEFINE ratio == DivShifted(4 * xtal, rate) % (2^28)
<1>2. ratio \in Nat
  BY <1>1
<1> HIDE DEF ratio
<1>3. ratio - (ratio % 4) \in Nat /\ (ratio - (ratio % 4)) % 4 = 0
  BY <1>2
<1> QED
  BY <1>3 DEF RsampRatio, ratio

LEMMA RateType ==
  ASSUME NEW xtal \in Nat, NEW ratio \in Nat, ratio % 4 = 0
  PROVE  RealRate(xtal, ratio) \in Nat
<1> DEFINE real == IF ratio >= 2^27 THEN ratio + 2^28 ELSE ratio
<1>1. CASE ratio = 0
  BY <1>1 DEF RealRate
<1>2. CASE ratio # 0
  <2>1. real \in Nat /\ real >= 4
    BY <1>2
  <2> HIDE DEF real
  <2>2. real \div 4 \in Nat \ {0}
    BY <2>1
  <2>3. DivShifted(xtal, real \div 4) \in Nat
    BY <2>2, DivShiftedType
  <2> QED
    BY <1>2, <2>3 DEF RealRate, real
<1> QED
  BY <1>1, <1>2

LEMMA OffsetType == ASSUME NEW rate \in Nat PROVE IfOffset(rate) \in Nat
BY DEF IfOffset

-----------------------------------------------------------------------------
(* Writes.                                                                 *)

LEMMA Clocks ==
  ASSUME NEW t \in Handle
  PROVE  t.corr \in Int /\ t.rtl_xtal \in Nat /\ t.tun_xtal \in Nat
<1>1. t.corr \in Corrs \/ t.corr = 0
  BY DEF Handle
<1>2. t.corr \in Int
  <2>1. CASE t.corr \in Corrs
    BY <2>1
  <2>2. CASE t.corr = 0
    BY <2>2
  <2> QED
    BY <1>1, <2>1, <2>2
<1>3. t.rtl_xtal \in Nat /\ t.tun_xtal \in Nat
  BY DEF Handle
<1> QED
  BY <1>2, <1>3

LEMMA FailStep ==
  ASSUME NEW t \in Handle
  PROVE  Step(t, Fail(t)) /\ TunesAs(t, Fail(t)) /\ Fail(t).failed = "yes"
BY DEF Handle, Fail, Step, Keeps, Quiet, TunesAs

LEMMA WriteAnyStep ==
  ASSUME NEW t \in Handle, NEW u \in WriteAny(t)
  PROVE  Step(t, u) /\ TunesAs(t, u)
<1>1. CASE u = t
  BY <1>1 DEF Step, Keeps, Quiet, TunesAs
<1>2. CASE u = Fail(t)
  BY <1>2, FailStep
<1> QED
  BY <1>1, <1>2 DEF WriteAny

LEMMA StoreClockStep ==
  ASSUME NEW t \in Handle
  PROVE  Step(t, StoreClock(t)) /\ TunesAs(t, StoreClock(t))
BY DEF Handle, StoreClock, TunerXtal, Step, Keeps, Quiet, TunesAs

LEMMA SetIfFreqStep ==
  ASSUME NEW t \in Handle, NEW f \in Int, NEW u \in SetIfFreq(t, f)
  PROVE  /\ Step(t, u)
         /\ u.failed = "no" =>
              /\ u.if_reg.kind = "is" /\ u.if_reg.val.freq = f /\ u.r = t.r
              /\ u.direct_sampling = t.direct_sampling /\ u.offs_freq = t.offs_freq
              /\ u.freq = t.freq /\ u.lo = t.lo
<1>1. At(f, t.rtl_xtal, t.corr) \in Place
  BY Clocks DEF At, Place
<1>2. Is(At(f, t.rtl_xtal, t.corr)) \in Tuning /\ Torn \in Tuning
  BY <1>1 DEF Is, Torn, Tuning, Silent
<1>3. CASE u = [t EXCEPT !.if_reg = Is(At(f, t.rtl_xtal, t.corr))]
  BY <1>2, <1>3 DEF Handle, Step, Keeps, Quiet, Is, At
<1>4. CASE u = [Fail(t) EXCEPT !.if_reg = Torn]
  BY <1>2, <1>4 DEF Handle, Step, Keeps, Quiet, Fail
<1> QED
  BY <1>3, <1>4 DEF SetIfFreq, Write

LEMMA PpmStep ==
  ASSUME NEW t \in Handle, NEW ppm \in Int, NEW u \in SetSampleFreqCorrection(t, ppm)
  PROVE  Step(t, u) /\ TunesAs(t, u)
<1>1. Is(ppm) \in Number /\ Torn \in Number
  BY DEF Is, Torn, Number, Silent
<1>2. CASE u = [t EXCEPT !.ppm = Is(ppm)]
  BY <1>1, <1>2 DEF Handle, Step, Keeps, Quiet, TunesAs
<1>3. CASE u = [Fail(t) EXCEPT !.ppm = Torn]
  <2> DEFINE v == Fail(t)
  <2>1. Step(t, v) /\ TunesAs(t, v) /\ v.failed = "yes"
    BY FailStep
  <2> HIDE DEF v
  <2>2. v \in Handle /\ u = [v EXCEPT !.ppm = Torn]
    BY <1>3, <2>1 DEF Step, v
  <2> QED
    BY <1>1, <2>1, <2>2 DEF Handle, Step, Keeps, Quiet, TunesAs
<1> QED
  BY <1>2, <1>3 DEF SetSampleFreqCorrection, Write

LEMMA TunerInitStep ==
  ASSUME NEW t \in Handle, NEW u \in TunerInit(t)
  PROVE  /\ Step(t, u)
         /\ u.if_reg = t.if_reg /\ u.offs_freq = t.offs_freq /\ u.freq = t.freq
         /\ u.direct_sampling = t.direct_sampling
<1> DEFINE c == IF KeepsClock(t) THEN StoreClock(t) ELSE t
<1>1. c \in Handle /\ Step(t, c) /\ TunesAs(t, c)
  BY StoreClockStep DEF Step, Keeps, Quiet, TunesAs
<1>2. Off \in Tuning /\ Torn \in Tuning
  BY DEF Off, Torn, Tuning, Silent
<1>3. u \in {t, [c EXCEPT !.lo = Off], [Fail(c) EXCEPT !.lo = Torn]}
  BY DEF TunerInit
<1> HIDE DEF c
<1>4. CASE u = t
  BY <1>4 DEF Step, Keeps, Quiet
<1>5. CASE u = [c EXCEPT !.lo = Off]
  BY <1>1, <1>2, <1>5 DEF Handle, Step, Keeps, Quiet, TunesAs
<1>6. CASE u = [Fail(c) EXCEPT !.lo = Torn]
  BY <1>1, <1>2, <1>6 DEF Handle, Fail, Step, Keeps, Quiet, TunesAs
<1> QED
  BY <1>3, <1>4, <1>5, <1>6

LEMMA TunerExitStep ==
  ASSUME NEW t \in Handle, NEW u \in TunerExit(t)
  PROVE  /\ Step(t, u)
         /\ u.if_reg = t.if_reg /\ u.offs_freq = t.offs_freq /\ u.freq = t.freq
         /\ u.direct_sampling = t.direct_sampling
<1>1. Off \in Tuning /\ Torn \in Tuning
  BY DEF Off, Torn, Tuning, Silent
<1>2. u \in {t, [t EXCEPT !.lo = Off], [Fail(t) EXCEPT !.lo = Torn]}
  BY DEF TunerExit
<1>3. CASE u = t
  BY <1>3 DEF Step, Keeps, Quiet
<1>4. CASE u = [t EXCEPT !.lo = Off]
  BY <1>1, <1>4 DEF Handle, Step, Keeps, Quiet
<1>5. CASE u = [Fail(t) EXCEPT !.lo = Torn]
  BY <1>1, <1>5 DEF Handle, Fail, Step, Keeps, Quiet
<1> QED
  BY <1>2, <1>3, <1>4, <1>5

LEMMA TunerSetFreqStep ==
  ASSUME NEW t \in Handle, NEW f \in Int, NEW u \in TunerSetFreq(t, f)
  PROVE  /\ Step(t, u)
         /\ u.direct_sampling = t.direct_sampling /\ u.offs_freq = t.offs_freq
         /\ u.freq = t.freq /\ u.if_reg = t.if_reg
         /\ u.failed = "no" =>
              IF HasTuner(t) THEN u.r = t.r /\ u.lo.kind = "is" /\ u.lo.val.freq = f
              ELSE u.r = -1 /\ u.lo = t.lo
<1> DEFINE c == ClockUsed(t)
<1>1. At(f, c.xtal, c.corr) \in Place
  <2>1. t.fosc.xtal \in Nat /\ t.fosc.corr \in Int
    BY DEF Handle
  <2>2. c.xtal \in Nat /\ c.corr \in Int
    BY <2>1, Clocks DEF ClockUsed, TunerXtal
  <2> QED
    BY <2>2 DEF At, Place
<1>2. Is(At(f, c.xtal, c.corr)) \in Tuning /\ Torn \in Tuning /\ Unlocked \in Tuning
  BY <1>1 DEF Is, Torn, Unlocked, Tuning, Silent
<1>3. CASE ~HasTuner(t)
  <2>1. u = [t EXCEPT !.r = -1]
    BY <1>3 DEF TunerSetFreq
  <2> QED
    BY <1>3, <2>1 DEF Handle, Step, Keeps, Quiet
<1>4. CASE HasTuner(t)
  <2>1. u \in {[t EXCEPT !.lo = Is(At(f, c.xtal, c.corr))], [Fail(t) EXCEPT !.lo = Torn],
               [t EXCEPT !.lo = Unlocked, !.failed = "yes"]}
    BY <1>4 DEF TunerSetFreq, Write
  <2>2. CASE u = [t EXCEPT !.lo = Is(At(f, c.xtal, c.corr))]
    BY <1>2, <1>4, <2>2 DEF Handle, Step, Keeps, Quiet, Is, At
  <2>3. CASE u = [Fail(t) EXCEPT !.lo = Torn]
    BY <1>2, <1>4, <2>3 DEF Handle, Step, Keeps, Quiet, Fail
  <2>4. CASE u = [t EXCEPT !.lo = Unlocked, !.failed = "yes"]
    BY <1>2, <1>4, <2>4 DEF Handle, Step, Keeps, Quiet
  <2> QED
    BY <2>1, <2>2, <2>3, <2>4
<1> QED
  BY <1>3, <1>4

-----------------------------------------------------------------------------
(* Calls.                                                                  *)

LEMMA BeganStep ==
  ASSUME NEW t \in Handle
  PROVE  Step(t, Began(t)) /\ TunesAs(t, Began(t)) /\ Began(t).r = 0
BY DEF Handle, Began, Step, Keeps, Quiet, TunesAs

\* Dropping a result changes nothing else.
LEMMA IgnoredStep ==
  ASSUME NEW t \in Handle, NEW u \in Handle
  PROVE  /\ [u EXCEPT !.r = t.r] \in Handle
         /\ [u EXCEPT !.r = t.r].failed = u.failed
         /\ Keeps(u, [u EXCEPT !.r = t.r]) /\ TunesAs(u, [u EXCEPT !.r = t.r])
BY DEF Handle, Keeps, TunesAs

LEMMA FreqsAreInt == ASSUME NEW f \in Freqs \cup {0} PROVE f \in Nat
<1>1. CASE f \in Freqs
  BY <1>1
<1>2. CASE f = 0
  BY <1>2
<1> QED
  BY <1>1, <1>2

\* What setting the center frequency does when no transfer fails.
Tunes(t, u, f) ==
  /\ u.direct_sampling = t.direct_sampling /\ u.offs_freq = t.offs_freq
  /\ IF t.direct_sampling # 0
     THEN u.freq = f /\ u.if_reg.kind = "is" /\ u.if_reg.val.freq = f
     ELSE /\ u.if_reg = t.if_reg
          /\ IF HasTuner(t)
             THEN u.freq = f /\ u.lo.kind = "is" /\ u.lo.val.freq = f - t.offs_freq
             ELSE u.freq = 0

LEMMA SetCenterFreqStep ==
  ASSUME NEW t \in Handle, NEW f \in Freqs \cup {0}, NEW u \in SetCenterFreq(t, f)
  PROVE  Step(t, u) /\ (u.failed = "no" => Tunes(t, u, f))
<1> DEFINE b == Began(t)
           tuned == IF t.direct_sampling # 0 THEN SetIfFreq(b, f)
                    ELSE TunerSetFreq(b, f - t.offs_freq)
           End(v) == [v EXCEPT !.freq = IF v.r = 0 THEN f ELSE 0,
                               !.r    = IF t.r = 0 THEN v.r ELSE t.r]
<1>1. b \in Handle /\ Step(t, b) /\ TunesAs(t, b) /\ b.r = 0
  BY BeganStep DEF Step
<1>2. f \in Int /\ f - t.offs_freq \in Int
  <2>1. t.offs_freq \in Nat
    BY DEF Handle
  <2> QED
    BY <2>1, FreqsAreInt
<1>3. PICK v \in tuned : u = End(v)
  BY DEF SetCenterFreq
<1> HIDE DEF b
<1>4. /\ Step(b, v)
      /\ v.failed = "no" =>
           /\ v.direct_sampling = t.direct_sampling /\ v.offs_freq = t.offs_freq
           /\ IF t.direct_sampling # 0
              THEN v.r = 0 /\ v.if_reg.kind = "is" /\ v.if_reg.val.freq = f
              ELSE /\ v.if_reg = t.if_reg
                   /\ IF HasTuner(t)
                      THEN v.r = 0 /\ v.lo.kind = "is" /\ v.lo.val.freq = f - t.offs_freq
                      ELSE v.r = -1
  <2>1. CASE t.direct_sampling # 0
    <3>1. v \in SetIfFreq(b, f)
      BY <2>1
    <3> QED
      BY <1>1, <1>2, <2>1, <3>1, SetIfFreqStep DEF TunesAs
  <2>2. CASE t.direct_sampling = 0
    <3>1. v \in TunerSetFreq(b, f - t.offs_freq)
      BY <2>2
    <3>2. HasTuner(b) = HasTuner(t)
      BY <1>1 DEF Step, Keeps, HasTuner
    <3> QED
      BY <1>1, <1>2, <2>2, <3>1, <3>2, TunerSetFreqStep DEF TunesAs
  <2> QED
    BY <2>1, <2>2
<1>5. v \in Handle /\ Keeps(t, v) /\ Quiet(t, v)
  BY <1>1, <1>4 DEF Step, Keeps, Quiet
<1>6. u \in Handle
  <2> DEFINE freq == IF v.r = 0 THEN f ELSE 0
             r == IF t.r = 0 THEN v.r ELSE t.r
  <2>1. freq \in Freqs \cup {0}
    BY Zenon
  <2>2. r \in {0, -1}
    BY <1>5 DEF Handle
  <2>3. u = [v EXCEPT !.freq = freq, !.r = r]
    BY <1>3
  <2> HIDE DEF freq, r
  <2> QED
    BY <1>5, <2>1, <2>2, <2>3 DEF Handle
<1>7. /\ u.failed = v.failed /\ u.lo = v.lo /\ u.if_reg = v.if_reg
      /\ u.direct_sampling = v.direct_sampling /\ u.offs_freq = v.offs_freq
      /\ u.freq = IF v.r = 0 THEN f ELSE 0
  BY <1>3, <1>5 DEF Handle
<1>8. Keeps(t, u)
  BY <1>3, <1>5 DEF Handle, Keeps
<1>9. Step(t, u)
  BY <1>5, <1>6, <1>7, <1>8 DEF Step, Quiet
<1>10. ASSUME u.failed = "no" PROVE Tunes(t, u, f)
  BY <1>4, <1>7, <1>10 DEF Tunes
<1> QED
  BY <1>9, <1>10

-----------------------------------------------------------------------------
(* The inductive invariant of a handle on which no transfer has failed: the  *)
(* down-converter holds what the tuner needs, or the center frequency; the   *)
(* oscillator holds the center frequency less the offset, unless the offset  *)
(* was turned on with a frequency below it.                                  *)

IfGood(t) ==
  /\ t.if_reg.kind = "is"
  /\ t.tuner_type \in R82XX => t.offs_freq = 0
  /\ t.direct_sampling = 0 =>
       IF t.tuner_type \in R82XX THEN t.if_reg.val.freq = R82XX_IF_FREQ
       ELSE t.if_reg.val.freq = 0 \/ t.if_reg.val.freq = t.offs_freq

LoGood(t) ==
  t.freq # 0 => IF t.direct_sampling # 0 THEN t.if_reg.val.freq = t.freq
                ELSE /\ t.lo.kind = "is"
                     /\ \/ t.lo.val.freq = t.freq - t.offs_freq
                        \/ t.offs_freq # 0 /\ t.freq <= t.offs_freq

Good(t) == t.failed = "no" => IfGood(t) /\ LoGood(t)

\* A call keeps that; what it does inside of itself need not.
Call1(t, u) == Step(t, u) /\ (Good(t) => Good(u))

LEMMA SameGood ==
  ASSUME NEW t, NEW u, Step(t, u), TunesAs(t, u) PROVE Call1(t, u)
BY DEF Step, Keeps, Quiet, TunesAs, Call1, Good, IfGood, LoGood

LEMMA Composed ==
  ASSUME NEW t, NEW u, NEW v, Call1(t, u), Call1(u, v) PROVE Call1(t, v)
BY DEF Call1, Step, Keeps, Quiet

LEMMA TunedGood ==
  ASSUME NEW t \in Handle, NEW f \in Freqs \cup {0}, NEW u \in SetCenterFreq(t, f),
         t.failed = "no" => IfGood(t)
  PROVE  Good(u)
<1>1. SUFFICES ASSUME u.failed = "no" PROVE IfGood(u) /\ LoGood(u)
  BY DEF Good
<1>2. Keeps(t, u) /\ Tunes(t, u, f) /\ IfGood(t)
  BY <1>1, SetCenterFreqStep DEF Step, Quiet
<1>3. IfGood(u)
  BY <1>2 DEF Keeps, Tunes, IfGood
<1>4. LoGood(u)
  BY <1>2 DEF Keeps, Tunes, LoGood
<1> QED
  BY <1>3, <1>4

LEMMA CenterFreqCall ==
  ASSUME NEW t \in Handle, NEW f \in Freqs \cup {0}, NEW u \in SetCenterFreq(t, f)
  PROVE  Call1(t, u)
<1>1. Step(t, u)
  BY SetCenterFreqStep
<1>2. Good(t) => Good(u)
  BY TunedGood DEF Good
<1> QED
  BY <1>1, <1>2 DEF Call1

LEMMA FreqType == ASSUME NEW t \in Handle PROVE t.freq \in Freqs \cup {0}
BY DEF Handle

LEMMA RetuneCall == ASSUME NEW t \in Handle, NEW u \in Retune(t) PROVE Call1(t, u)
<1>1. CASE u = t
  BY <1>1 DEF Call1, Step, Keeps, Quiet
<1>2. CASE u \in SetCenterFreq(t, t.freq)
  BY <1>2, FreqType, CenterFreqCall
<1> QED
  BY <1>1, <1>2 DEF Retune

\* A result that is set by hand.
LEMMA RefusedCall == ASSUME NEW t \in Handle PROVE Call1(t, [t EXCEPT !.r = -1])
<1>1. Step(t, [t EXCEPT !.r = -1]) /\ TunesAs(t, [t EXCEPT !.r = -1])
  BY DEF Handle, Step, Keeps, Quiet, TunesAs
<1> QED
  BY <1>1, SameGood

LEMMA FreqCorrectionCall ==
  ASSUME NEW t \in Handle, NEW ppm \in Corrs, NEW u \in SetFreqCorrection(t, ppm)
  PROVE  Call1(t, u)
<1>1. CASE t.corr = ppm
  BY <1>1, RefusedCall DEF SetFreqCorrection
<1>2. CASE t.corr # ppm
  <2> DEFINE a == [t EXCEPT !.corr = ppm]
  <2>1. PICK v \in SetSampleFreqCorrection(a, ppm) : u \in Retune(StoreClock(v))
    BY <1>2 DEF SetFreqCorrection
  <2>2. a \in Handle /\ Step(t, a) /\ TunesAs(t, a)
    BY DEF Handle, Step, Keeps, Quiet, TunesAs
  <2> HIDE DEF a
  <2>3. Call1(t, a)
    BY <2>2, SameGood
  <2>4. Call1(a, v) /\ v \in Handle
    BY <2>2, PpmStep, SameGood DEF Step
  <2>5. Call1(v, StoreClock(v)) /\ StoreClock(v) \in Handle
    BY <2>4, StoreClockStep, SameGood DEF Step
  <2>6. Call1(StoreClock(v), u)
    BY <2>1, <2>5, RetuneCall
  <2> QED
    BY <2>3, <2>4, <2>5, <2>6, Composed
<1> QED
  BY <1>1, <1>2

LEMMA OffsetTuningCall ==
  ASSUME NEW t \in Handle, NEW on \in BOOLEAN, NEW u \in SetOffsetTuning(t, on)
  PROVE  Call1(t, u)
<1>1. CASE t.tuner_type \in R82XX \/ t.direct_sampling # 0
  <2>1. u = [t EXCEPT !.r = -1]
    BY <1>1 DEF SetOffsetTuning
  <2> QED
    BY <2>1, RefusedCall
<1>2. CASE ~(t.tuner_type \in R82XX \/ t.direct_sampling # 0)
  <2> DEFINE offs == IF on THEN IfOffset(t.rate) ELSE 0
             a == [t EXCEPT !.offs_freq = offs]
  <2>1. PICK v \in SetIfFreq(a, a.offs_freq) :
          u \in IF v.freq > v.offs_freq THEN SetCenterFreq(v, v.freq) ELSE {v}
    BY <1>2 DEF SetOffsetTuning
  <2>2. offs \in Nat
    <3>1. t.rate \in Nat
      BY DEF Handle
    <3> QED
      BY <3>1, OffsetType
  <2> HIDE DEF offs
  <2>3. /\ a \in Handle /\ Step(t, a) /\ a.offs_freq = offs /\ a.freq = t.freq
        /\ a.lo = t.lo /\ a.direct_sampling = t.direct_sampling
    BY <2>2 DEF Handle, Step, Keeps, Quiet
  <2> HIDE DEF a
  <2>4. /\ Step(a, v)
        /\ v.failed = "no" =>
             /\ v.if_reg.kind = "is" /\ v.if_reg.val.freq = offs
             /\ v.direct_sampling = t.direct_sampling /\ v.offs_freq = offs
             /\ v.freq = t.freq /\ v.lo = t.lo
    BY <2>2, <2>3, SetIfFreqStep
  <2>5. Step(t, v) /\ v \in Handle
    BY <2>3, <2>4 DEF Step, Keeps, Quiet
  <2>6. v.failed = "no" => IfGood(v)
    BY <1>2, <2>4, <2>5 DEF IfGood, Step, Keeps
  <2>7. CASE v.freq > v.offs_freq
    <3>1. u \in SetCenterFreq(v, v.freq)
      BY <2>1, <2>7
    <3>2. Step(v, u) /\ Good(u)
      BY <2>5, <2>6, <3>1, FreqType, SetCenterFreqStep, TunedGood
    <3> QED
      BY <2>5, <3>2 DEF Call1, Step, Keeps, Quiet
  <2>8. CASE ~(v.freq > v.offs_freq)
    <3>1. u = v
      BY <2>1, <2>8
    <3>2. v.freq \in Nat /\ v.offs_freq \in Nat
      BY <2>5, FreqType, FreqsAreInt DEF Handle
    <3>3. v.freq <= v.offs_freq /\ (v.freq # 0 => v.offs_freq # 0)
      BY <2>8, <3>2
    <3>4. ASSUME Good(t), v.failed = "no" PROVE LoGood(v)
      <4>1. t.failed = "no" /\ LoGood(t)
        BY <2>5, <3>4 DEF Step, Quiet, Good
      <4> QED
        BY <1>2, <2>4, <3>3, <3>4, <4>1 DEF LoGood
    <3> QED
      BY <2>5, <2>6, <3>1, <3>4 DEF Call1, Good
  <2> QED
    BY <2>7, <2>8
<1> QED
  BY <1>1, <1>2

\* The resampler's registers: no tuning.
LEMMA SampStep ==
  ASSUME NEW t \in Handle, NEW ratio \in Int, NEW u \in Write(t, "samp", ratio)
  PROVE  Step(t, u) /\ TunesAs(t, u)
<1>1. Is(ratio) \in Number /\ Torn \in Number
  BY DEF Is, Torn, Number, Silent
<1>2. CASE u = [t EXCEPT !.samp = Is(ratio)]
  BY <1>1, <1>2 DEF Handle, Step, Keeps, Quiet, TunesAs
<1>3. CASE u = [Fail(t) EXCEPT !.samp = Torn]
  <2> DEFINE v == Fail(t)
  <2>1. Step(t, v) /\ TunesAs(t, v) /\ v.failed = "yes"
    BY FailStep
  <2> HIDE DEF v
  <2>2. v \in Handle /\ u = [v EXCEPT !.samp = Torn]
    BY <1>3, <2>1 DEF Step, v
  <2> QED
    BY <1>1, <2>1, <2>2 DEF Handle, Step, Keeps, Quiet, TunesAs
<1> QED
  BY <1>2, <1>3 DEF Write

LEMMA IgnoredCall ==
  ASSUME NEW t \in Handle, NEW v \in Handle, Call1(t, v)
  PROVE  Call1(t, [v EXCEPT !.r = t.r])
<1> DEFINE u == [v EXCEPT !.r = t.r]
<1>1. u \in Handle /\ u.failed = v.failed /\ Keeps(v, u) /\ TunesAs(v, u)
  BY IgnoredStep
<1> HIDE DEF u
<1>2. Step(v, u)
  BY <1>1 DEF Step, Quiet
<1>3. Call1(v, u)
  BY <1>1, <1>2, SameGood
<1>4. Call1(t, u)
  BY <1>3, Composed
<1> QED
  BY <1>4 DEF u

LEMMA SampleRateCall ==
  ASSUME NEW t \in Handle, NEW rate \in Nat, NEW u \in SetSampleRate(t, rate)
  PROVE  Call1(t, u)
<1>1. CASE ~ValidRate(rate)
  BY <1>1, RefusedCall DEF SetSampleRate
<1>2. CASE ValidRate(rate)
  <2> DEFINE ratio == RsampRatio(t.rtl_xtal, rate)
             real == RealRate(t.rtl_xtal, ratio)
             a == [t EXCEPT !.rate = real]
             done == UNION {UNION {WriteAny(x) : x \in SetSampleFreqCorrection(w, w.corr)} :
                            w \in Write(a, "samp", ratio)}
  <2>1. u \in IF t.offs_freq = 0 THEN done
              ELSE UNION {Ignored(w, SetOffsetTuning(w, TRUE)) : w \in done}
    BY <1>2 DEF SetSampleRate
  <2>2. ratio \in Nat /\ real \in Nat
    BY <1>2, Clocks, RatioType, RateType
  <2> HIDE DEF ratio, real
  <2>3. a \in Handle /\ Step(t, a) /\ TunesAs(t, a)
    BY <2>2 DEF Handle, Step, Keeps, Quiet, TunesAs
  <2> HIDE DEF a
  <2>4. Call1(t, a)
    BY <2>3, SameGood
  <2>5. ASSUME NEW w \in done PROVE Call1(t, w) /\ w \in Handle
    <3>1. PICK v \in Write(a, "samp", ratio) :
            w \in UNION {WriteAny(x) : x \in SetSampleFreqCorrection(v, v.corr)}
      BY <2>5
    <3>2. PICK x \in SetSampleFreqCorrection(v, v.corr) : w \in WriteAny(x)
      BY <3>1
    <3>3. Call1(a, v) /\ v \in Handle
      BY <2>2, <2>3, SampStep, SameGood DEF Step
    <3>4. Call1(v, x) /\ x \in Handle
      BY <3>2, <3>3, Clocks, PpmStep, SameGood DEF Step
    <3>5. Call1(x, w) /\ w \in Handle
      BY <3>2, <3>4, WriteAnyStep, SameGood DEF Step
    <3> QED
      BY <2>4, <3>3, <3>4, <3>5, Composed
  <2> HIDE DEF done
  <2>6. CASE t.offs_freq = 0
    BY <2>1, <2>5, <2>6
  <2>7. CASE t.offs_freq # 0
    <3>1. PICK w \in done : u \in Ignored(w, SetOffsetTuning(w, TRUE))
      BY <2>1, <2>7
    <3>2. PICK v \in SetOffsetTuning(w, TRUE) : u = [v EXCEPT !.r = w.r]
      BY <3>1 DEF Ignored
    <3>3. Call1(t, w) /\ w \in Handle
      BY <2>5
    <3>4. Call1(w, v) /\ v \in Handle
      BY <3>3, OffsetTuningCall DEF Call1, Step
    <3>5. Call1(w, u)
      BY <3>2, <3>3, <3>4, IgnoredCall
    <3> QED
      BY <3>3, <3>5, Composed
  <2> QED
    BY <2>6, <2>7
<1> QED
  BY <1>1, <1>2

\* Going to direct sampling and back: the down-converter is set for the way the
\* samples take before the frequency is.
LEMMA DirectSamplingCall ==
  ASSUME NEW t \in Handle, NEW on \in {0, 1}, NEW u \in SetDirectSampling(t, on)
  PROVE  /\ Step(t, u)
         /\ Good(t) \/ (t.failed = "no" => t.if_reg.kind = "is" /\ t.offs_freq = 0) => Good(u)
<1> DEFINE enabled == UNION {WriteAny(x) : x \in TunerExit(t)}
           if_freq == IF t.tuner_type \in R82XX THEN R82XX_IF_FREQ ELSE 0
           disabled == UNION {UNION {WriteAny(y) : y \in SetIfFreq(x, if_freq)} :
                              x \in TunerInit(t)}
<1>1. PICK w \in IF on # 0 THEN enabled ELSE disabled :
        u \in SetCenterFreq([w EXCEPT !.direct_sampling = on], w.freq)
  BY DEF SetDirectSampling
<1> DEFINE v == [w EXCEPT !.direct_sampling = on]
           Before == t.failed = "no" => t.if_reg.kind = "is" /\
                                        (t.tuner_type \in R82XX => t.offs_freq = 0)
<1>2. /\ Step(t, w)
      /\ w.failed = "no" => /\ w.offs_freq = t.offs_freq
                            /\ IF on # 0 THEN w.if_reg = t.if_reg
                               ELSE w.if_reg.kind = "is" /\ w.if_reg.val.freq = if_freq
  <2>1. CASE on # 0
    <3>1. PICK x \in TunerExit(t) : w \in WriteAny(x)
      BY <1>1, <2>1
    <3>2. Step(t, x) /\ x.if_reg = t.if_reg /\ x.offs_freq = t.offs_freq
      BY TunerExitStep
    <3>3. Step(x, w) /\ TunesAs(x, w)
      BY <3>1, <3>2, WriteAnyStep DEF Step
    <3> QED
      BY <2>1, <3>2, <3>3 DEF Step, Keeps, Quiet, TunesAs
  <2>2. CASE on = 0
    <3>1. PICK x \in TunerInit(t) : w \in UNION {WriteAny(y) : y \in SetIfFreq(x, if_freq)}
      BY <1>1, <2>2
    <3>2. PICK y \in SetIfFreq(x, if_freq) : w \in WriteAny(y)
      BY <3>1
    <3>3. Step(t, x) /\ x.offs_freq = t.offs_freq
      BY TunerInitStep
    <3>4. if_freq \in Int
      BY DEF R82XX_IF_FREQ
    <3> HIDE DEF if_freq
    <3>5. /\ Step(x, y)
          /\ y.failed = "no" => /\ y.if_reg.kind = "is" /\ y.if_reg.val.freq = if_freq
                                /\ y.offs_freq = x.offs_freq
      BY <3>3, <3>4, SetIfFreqStep DEF Step
    <3>6. Step(y, w) /\ TunesAs(y, w)
      BY <3>2, <3>5, WriteAnyStep DEF Step
    <3> QED
      BY <2>2, <3>3, <3>5, <3>6 DEF Step, Keeps, Quiet, TunesAs
  <2> QED
    BY <2>1, <2>2
<1> HIDE DEF enabled, disabled
<1>3. /\ v \in Handle /\ Keeps(w, v) /\ v.failed = w.failed /\ v.direct_sampling = on
      /\ v.if_reg = w.if_reg /\ v.offs_freq = w.offs_freq /\ v.freq = w.freq
  BY <1>2 DEF Step, Handle, Keeps
<1>4. v.freq \in Freqs \cup {0} /\ u \in SetCenterFreq(v, v.freq)
  BY <1>1, <1>3, FreqType
<1> HIDE DEF v
<1>5. Step(t, u)
  <2>1. Step(v, u)
    BY <1>3, <1>4, SetCenterFreqStep
  <2> QED
    BY <1>2, <1>3, <2>1 DEF Step, Keeps, Quiet
<1>6. ASSUME Before PROVE Good(u)
  <2>1. v.failed = "no" => IfGood(v)
    BY <1>2, <1>3, <1>6 DEF IfGood, Step, Keeps, Quiet
  <2> QED
    BY <1>3, <1>4, <2>1, TunedGood
<1>7. Good(t) => Before
  BY DEF Good, IfGood
<1> QED
  BY <1>5, <1>6, <1>7

LEMMA XtalFreqCall ==
  ASSUME NEW t \in Handle, NEW rtl_freq \in Xtals, NEW tuner_freq \in Xtals,
         NEW u \in SetXtalFreq(t, rtl_freq, tuner_freq)
  PROVE  Call1(t, u)
<1> DEFINE rtl == [t EXCEPT !.rtl_xtal = rtl_freq]
           first == IF rtl_freq = 0 \/ t.rtl_xtal = rtl_freq THEN {t}
                    ELSE IF t.rate = 0 THEN {rtl} ELSE SetSampleRate(rtl, t.rate)
           tuner(w) == StoreClock([w EXCEPT !.tun_xtal =
                                     IF tuner_freq = 0 THEN w.rtl_xtal ELSE tuner_freq])
           second(w) == IF w.freq = 0 THEN {tuner(w)}
                        ELSE SetCenterFreq(Began(tuner(w)), w.freq)
<1>1. \/ u = [t EXCEPT !.r = -1]
      \/ \E w \in first : u \in IF w.tun_xtal = tuner_freq THEN {w} ELSE second(w)
  BY SMTT(40) DEF SetXtalFreq
<1>2. Call1(t, t)
  BY DEF Call1, Step, Keeps, Quiet
<1>3. rtl_freq \in Nat /\ tuner_freq \in Nat
  OBVIOUS
<1>4. ASSUME NEW w \in first PROVE Call1(t, w) /\ w \in Handle
  <2>1. rtl \in Handle /\ Step(t, rtl) /\ TunesAs(t, rtl)
    BY <1>3 DEF Handle, Step, Keeps, Quiet, TunesAs
  <2>2. Call1(t, rtl)
    BY <2>1, SameGood
  <2>3. t.rate \in Nat
    BY DEF Handle
  <2>4. w \in {t, rtl} \cup SetSampleRate(rtl, t.rate)
    OBVIOUS
  <2> HIDE DEF rtl
  <2>5. CASE w \in SetSampleRate(rtl, t.rate)
    <3>1. Call1(rtl, w)
      BY <2>1, <2>3, <2>5, SampleRateCall
    <3> QED
      BY <2>2, <3>1, Composed DEF Call1, Step
  <2> QED
    BY <1>2, <2>1, <2>2, <2>4, <2>5
<1> HIDE DEF first
<1>5. ASSUME NEW w \in Handle PROVE tuner(w) \in Handle /\ Call1(w, tuner(w)) /\ tuner(w).freq = w.freq
  <2> DEFINE xtal == IF tuner_freq = 0 THEN w.rtl_xtal ELSE tuner_freq
             x == [w EXCEPT !.tun_xtal = xtal]
  <2>1. xtal \in Nat
    BY <1>3, Clocks
  <2> HIDE DEF xtal
  <2>2. x \in Handle /\ Step(w, x) /\ TunesAs(w, x)
    BY <2>1 DEF Handle, Step, Keeps, Quiet, TunesAs
  <2> HIDE DEF x
  <2>3. Step(x, StoreClock(x)) /\ TunesAs(x, StoreClock(x))
    BY <2>2, StoreClockStep
  <2>4. Call1(w, x) /\ Call1(x, StoreClock(x))
    BY <2>2, <2>3, SameGood
  <2>5. Call1(w, StoreClock(x))
    BY <2>4, Composed
  <2>6. StoreClock(x) = tuner(w)
    BY DEF x, xtal
  <2> QED
    BY <2>2, <2>3, <2>5, <2>6 DEF Step, TunesAs
<1> HIDE DEF tuner
<1>6. ASSUME NEW w \in Handle, NEW v \in second(w) PROVE Call1(w, v)
  <2> DEFINE x == tuner(w)
             b == Began(x)
  <2>1. x \in Handle /\ Call1(w, x) /\ x.freq = w.freq
    BY <1>5
  <2>2. v = x \/ v \in SetCenterFreq(b, w.freq)
    OBVIOUS
  <2> HIDE DEF x
  <2>3. b \in Handle /\ Call1(x, b) /\ b.freq = x.freq
    BY <2>1, BeganStep, SameGood DEF Step, TunesAs
  <2> HIDE DEF b
  <2>4. CASE v \in SetCenterFreq(b, w.freq)
    <3>1. w.freq \in Freqs \cup {0}
      BY FreqType
    <3>2. Call1(b, v)
      BY <2>3, <2>4, <3>1, CenterFreqCall
    <3> QED
      BY <2>1, <2>3, <3>2, Composed
  <2> QED
    BY <2>1, <2>2, <2>4
<1> HIDE DEF second
<1>7. CASE u = [t EXCEPT !.r = -1]
  BY <1>7, RefusedCall
<1>8. ASSUME NEW w \in first, u \in IF w.tun_xtal = tuner_freq THEN {w} ELSE second(w)
      PROVE  Call1(t, u)
  <2>1. Call1(t, w) /\ w \in Handle
    BY <1>4
  <2>2. u = w \/ u \in second(w)
    BY <1>8
  <2> QED
    BY <1>6, <2>1, <2>2, Composed
<1> QED
  BY <1>1, <1>7, <1>8

LEMMA GainCall ==
  ASSUME NEW t \in Handle, NEW g \in Gains, NEW u \in SetTunerGain(t, g)
  PROVE  Call1(t, u)
<1>1. PICK v \in IF t.tuner_type \in {"UNKNOWN", "FC2580"} THEN {t} ELSE WriteAny(t) :
        u = [v EXCEPT !.gain = IF v.r = 0 THEN g ELSE 0]
  BY DEF SetTunerGain
<1>2. Call1(t, v) /\ v \in Handle
  <2>1. CASE v = t
    BY <2>1 DEF Call1, Step, Keeps, Quiet
  <2>2. CASE v \in WriteAny(t)
    BY <2>2, WriteAnyStep, SameGood DEF Step
  <2> QED
    BY <1>1, <2>1, <2>2
<1> DEFINE gain == IF v.r = 0 THEN g ELSE 0
<1>3. gain \in Gains \cup {0}
  BY Zenon
<1>4. u = [v EXCEPT !.gain = gain]
  BY <1>1
<1> HIDE DEF gain
<1>5. u \in Handle /\ Step(v, u) /\ TunesAs(v, u)
  BY <1>2, <1>3, <1>4 DEF Handle, Step, Keeps, Quiet, TunesAs
<1>6. Call1(v, u)
  BY <1>5, SameGood
<1> QED
  BY <1>2, <1>6, Composed

-----------------------------------------------------------------------------
(* Opening.                                                                *)

LEMMA ZeroedType == Zeroed \in Handle
<1>1. Off \in Tuning /\ Off \in Number /\ Is(0) \in Number
  BY DEF Off, Is, Tuning, Number, Silent
<1>2. "UNKNOWN" \in Tuners
  BY DEF Tuners
<1>3. DEF_RTL_XTAL_FREQ \in Nat
  BY DEF DEF_RTL_XTAL_FREQ
<1>4. [xtal |-> 0, corr |-> 0] \in [xtal : Nat, corr : Int]
  OBVIOUS
<1> QED
  BY <1>1, <1>2, <1>3, <1>4 DEF Zeroed, Handle

\* The down-converter is set, and the device not tuned yet.
Untuned(t) ==
  t.failed = "no" =>
    /\ t.if_reg.kind = "is" /\ t.if_reg.val.freq = 0
    /\ t.direct_sampling = 0 /\ t.offs_freq = 0 /\ t.freq = 0

LEMMA ProbeStep ==
  ASSUME NEW t \in Handle, NEW u \in Probe(t)
  PROVE  /\ u \in Handle /\ u.driver_active = t.driver_active
         /\ Quiet(t, u) /\ TunesAs(t, u)
<1> DEFINE Found(chip, k) ==
      [t EXCEPT !.tuner_type = k,
                !.tun_xtal = IF k = "R828D" THEN R828D_XTAL_FREQ ELSE t.rtl_xtal,
                !.failed = IF k = chip THEN t.failed ELSE "yes"]
           kinds(chip) == IF chip = "UNKNOWN" THEN {"UNKNOWN"} ELSE {chip, "UNKNOWN"}
<1>1. u \in UNION {{Found(chip, k) : k \in kinds(chip)} : chip \in Chips}
  BY DEF Probe
<1> HIDE DEF Found
<1>2. PICK chip \in Chips : \E k \in {chip, "UNKNOWN"} : u = Found(chip, k)
  BY <1>1
<1>3. PICK k \in {chip, "UNKNOWN"} : u = Found(chip, k)
  BY <1>2
<1> DEFINE xtal == IF k = "R828D" THEN R828D_XTAL_FREQ ELSE t.rtl_xtal
           failed == IF k = chip THEN t.failed ELSE "yes"
<1>4. k \in Tuners
  BY DEF Tuners
<1>5. xtal \in Nat
  BY Clocks DEF R828D_XTAL_FREQ
<1>6. failed \in {"yes", "no"} /\ (failed = "no" => t.failed = "no")
  BY DEF Handle
<1>7. u = [t EXCEPT !.tuner_type = k, !.tun_xtal = xtal, !.failed = failed]
  BY <1>3 DEF Found
<1> HIDE DEF xtal, failed
<1> QED
  BY <1>4, <1>5, <1>6, <1>7 DEF Handle, Quiet, TunesAs

LEMMA SetUpGood ==
  ASSUME NEW t \in Handle, Untuned(t), NEW u \in SetUp(t)
  PROVE  /\ Step(t, u) /\ Good(u)
         /\ HasTuner(t) /\ u.failed = "no" => u.freq = 0
<1>1. CASE t.tuner_type \in R82XX
  <2>1. PICK v \in SetIfFreq(t, R82XX_IF_FREQ) : u \in WriteAny(v)
    <3>1. SetUp(t) = UNION {WriteAny(v) : v \in SetIfFreq(t, R82XX_IF_FREQ)}
      BY <1>1 DEF SetUp, R82XX
    <3> QED
      BY <3>1
  <2>2. R82XX_IF_FREQ \in Int
    BY DEF R82XX_IF_FREQ
  <2>3. /\ Step(t, v)
        /\ v.failed = "no" =>
             /\ v.if_reg.kind = "is" /\ v.if_reg.val.freq = R82XX_IF_FREQ
             /\ v.direct_sampling = t.direct_sampling /\ v.offs_freq = t.offs_freq
             /\ v.freq = t.freq
    BY <2>2, SetIfFreqStep
  <2>4. Good(v)
    BY <1>1, <2>3 DEF Good, IfGood, LoGood, Untuned, Step, Keeps, Quiet
  <2>5. Call1(v, u)
    BY <2>1, <2>3, WriteAnyStep, SameGood DEF Step
  <2> QED
    BY <2>1, <2>3, <2>4, <2>5, WriteAnyStep
       DEF Call1, Step, Keeps, Quiet, TunesAs, Untuned
<1>2. CASE t.tuner_type = "UNKNOWN"
  <2>1. u \in SetDirectSampling(t, 1)
    BY <1>2 DEF SetUp, R82XX
  <2>2. t.failed = "no" => t.if_reg.kind = "is" /\ t.offs_freq = 0
    BY DEF Untuned
  <2> QED
    BY <1>2, <2>1, <2>2, DirectSamplingCall DEF HasTuner
<1>3. CASE t.tuner_type \notin R82XX /\ t.tuner_type # "UNKNOWN"
  <2>1. u = t
    BY <1>3 DEF SetUp
  <2> QED
    BY <1>3, <2>1 DEF Untuned, Good, IfGood, LoGood, Step, Keeps, Quiet
<1> QED
  BY <1>1, <1>2, <1>3

\* Initialising the tuner loses its frequency, and none is reported.
LEMMA Opened ==
  ASSUME NEW active \in {"yes", "no"}, NEW u \in Fresh(active)
  PROVE  u \in Handle /\ u.driver_active = active /\ Good(u)
<1> DEFINE z == [Zeroed EXCEPT !.driver_active = active]
<1>1. /\ z \in Handle /\ z.driver_active = active
      /\ z.direct_sampling = 0 /\ z.offs_freq = 0 /\ z.freq = 0
  BY ZeroedType DEF Handle, Zeroed
<1>2. PICK b \in InitBaseband(z) : u \in
        UNION {{Began(i) : i \in TunerInit(t)} : t \in UNION {SetUp(p) : p \in Probe(b)}}
  BY DEF Fresh
<1>3. PICK p \in Probe(b) : u \in UNION {{Began(i) : i \in TunerInit(t)} : t \in SetUp(p)}
  BY <1>2
<1>4. PICK t \in SetUp(p) : u \in {Began(i) : i \in TunerInit(t)}
  BY <1>3
<1>5. PICK i \in TunerInit(t) : u = Began(i)
  BY <1>4
<1> HIDE DEF z
<1>6. /\ b \in Handle /\ b.driver_active = active /\ Untuned(b)
  <2>1. b \in SetIfFreq(z, 0)
    BY DEF InitBaseband, SetIfFreq
  <2> QED
    BY <1>1, <2>1, SetIfFreqStep DEF Step, Keeps, Untuned
<1>7. p \in Handle /\ p.driver_active = active /\ Untuned(p)
  BY <1>6, ProbeStep DEF Untuned, Quiet, TunesAs
<1>8. Step(p, t) /\ Good(t) /\ (HasTuner(p) /\ t.failed = "no" => t.freq = 0)
  BY <1>7, SetUpGood
<1>9. Step(t, i) /\ Good(i)
  <2>1. /\ Step(t, i)
        /\ i.if_reg = t.if_reg /\ i.offs_freq = t.offs_freq /\ i.freq = t.freq
        /\ i.direct_sampling = t.direct_sampling
    BY <1>8, TunerInitStep DEF Step
  <2>2. CASE HasTuner(t)
    <3>1. HasTuner(p)
      BY <1>8, <2>2 DEF HasTuner, Step, Keeps
    <3> QED
      BY <1>8, <2>1, <3>1 DEF Step, Keeps, Quiet, Good, IfGood, LoGood
  <2>3. CASE ~HasTuner(t)
    <3>1. i = t
      BY <2>3 DEF TunerInit
    <3> QED
      BY <1>8, <2>1, <3>1
  <2> QED
    BY <2>2, <2>3
<1>10. Call1(i, u) /\ u \in Handle
  BY <1>5, <1>9, BeganStep, SameGood DEF Step
<1> QED
  BY <1>7, <1>8, <1>9, <1>10 DEF Step, Keeps, Call1

-----------------------------------------------------------------------------
(* The clocks, and what a call that reports success leaves.                *)

\* The clocks and the rates of a handle are as they were.
SameClocks(t, u) ==
  /\ u.corr = t.corr /\ u.ppm = t.ppm /\ u.tun_xtal = t.tun_xtal /\ u.fosc = t.fosc
  /\ u.rtl_xtal = t.rtl_xtal /\ u.rate = t.rate /\ u.samp = t.samp

\* The resampler has the correction, and a tuner that keeps its clock the
\* one it would be given.
FoscGood(t) == KeepsClock(t) => t.fosc = TunerXtal(t)
ClockKnown(t) == t.failed = "no" => t.ppm = Is(t.corr) /\ FoscGood(t)

\* What tunes the device was computed with the clocks set last.
TunedByClock(t) ==
  t.failed = "no" /\ t.freq # 0 =>
    IF t.direct_sampling # 0 THEN t.if_reg.val.corr = t.corr
    ELSE t.lo.val.corr = t.corr /\ t.lo.val.xtal = t.tun_xtal

Clocked(t) == ClockKnown(t) /\ TunedByClock(t)

\* The crystals that rtlsdr_set_xtal_freq lets through.
RtlClocks ==
  {DEF_RTL_XTAL_FREQ} \cup
  (Xtals \cap (DEF_RTL_XTAL_FREQ - 1000 .. DEF_RTL_XTAL_FREQ + 1000))

\* Of the rates asked for those that can be had can be had exactly.
ExactRates ==
  \A xtal \in RtlClocks, rate \in Rates :
    ValidRate(rate) => RealRate(xtal, RsampRatio(xtal, rate)) = rate

\* The ratio fits the register, and bit 27 tells what bit 28 was.
InReach(xtal, rate) ==
  IF rate <= 300000 THEN 96 * rate <= xtal /\ xtal < 128 * rate ELSE xtal < 32 * rate

RatesInReach ==
  \A xtal \in RtlClocks, rate \in Rates : ValidRate(rate) => InReach(xtal, rate)

\* rtlsdr_set_xtal_freq is asked for no other crystal of the resampler.
DefaultCrystal ==
  Xtals \cap (DEF_RTL_XTAL_FREQ - 1000 .. DEF_RTL_XTAL_FREQ + 1000)
    \subseteq {DEF_RTL_XTAL_FREQ}

LEMMA Monotone ==
  ASSUME NEW r \in Nat, NEW m \in Int, NEW n \in Int, m <= n PROVE r * m <= r * n
BY SMT

LEMMA RateIsExact ==
  ASSUME NEW xtal \in DEF_RTL_XTAL_FREQ - 1000 .. DEF_RTL_XTAL_FREQ + 1000, NEW rate \in Nat,
         ValidRate(rate), InReach(xtal, rate)
  PROVE  RealRate(xtal, RsampRatio(xtal, rate)) = rate
<1> DEFINE a == 4 * xtal
           full == DivShifted(a, rate)
           ratio == full % 268435456
           sent == ratio - (ratio % 4)
           real == IF sent >= 134217728 THEN sent + 268435456 ELSE sent
           k == real \div 4
<1>1. xtal \in Nat /\ xtal >= 28799000
  BY SMT DEF DEF_RTL_XTAL_FREQ
<1>2. rate \in Nat /\ rate > 225000 /\ rate <= 3200000
  BY SMT DEF ValidRate
<1>3. PICK rest \in Nat : rest < rate /\ full \in Nat /\ rate * full + rest = 4194304 * xtal
  <2>1. a \in Nat
    BY <1>1, SMT
  <2>4. 2^20 * a = 4194304 * xtal
    BY <1>1, SMT
  <2>2. rate \in Nat \ {0}
    BY <1>2, SMT
  <2> HIDE DEF a
  <2>3. \E r \in Nat : r < rate /\ full \in Nat /\ rate * full + r = 2^20 * a
    BY <2>1, <2>2, LongDivision, ZenonT(40)
  <2> QED
    BY <2>3, <2>4, SMT
<1> HIDE DEF full
<1>0. full \in Nat
  BY <1>3
<1>4. rate * (full + 1) = rate * full + rate
  BY <1>2, <1>3, SMT
<1>5. real = full - (full % 4) /\ sent # 0
  <2>1. CASE rate <= 300000
    <3>1. 96 * rate <= xtal /\ xtal < 128 * rate
      BY <2>1, SMT DEF InReach
    <3>2. full < 536870912
      <4> SUFFICES ASSUME 536870912 <= full PROVE FALSE
        BY <1>3, SMT
      <4>1. rate * 536870912 <= rate * full
        BY <1>2, <1>3, Monotone, SMT
      <4> QED
        BY <1>1, <1>2, <1>3, <3>1, <4>1, SMT
    <3>3. full >= 402653184
      <4> SUFFICES ASSUME full + 1 <= 402653184 PROVE FALSE
        BY <1>3, SMT
      <4>1. rate * (full + 1) <= rate * 402653184
        BY <1>2, <1>3, Monotone, SMT
      <4> QED
        BY <1>1, <1>2, <1>3, <1>4, <3>1, <4>1, SMT
    <3>4. ratio = full - 268435456 /\ ratio >= 134217728
      BY <1>0, <3>2, <3>3, SMT
    <3> HIDE DEF ratio
    <3>5. sent >= 134217728 /\ sent = full - 268435456 - (full % 4)
      BY <1>0, <3>4, SMT
    <3> HIDE DEF sent
    <3> QED
      BY <1>0, <3>5, SMT
  <2>2. CASE rate > 300000
    <3>1. xtal < 32 * rate
      BY <1>2, <2>2, SMT DEF InReach
    <3>2. full < 134217728
      <4> SUFFICES ASSUME 134217728 <= full PROVE FALSE
        BY <1>3, SMT
      <4>1. rate * 134217728 <= rate * full
        BY <1>2, <1>3, Monotone, SMT
      <4> QED
        BY <1>1, <1>2, <1>3, <3>1, <4>1, SMT
    <3>3. full >= 4
      <4> SUFFICES ASSUME full + 1 <= 4 PROVE FALSE
        BY <1>3, SMT
      <4>1. rate * (full + 1) <= rate * 4
        BY <1>2, <1>3, Monotone, SMT
      <4> QED
        BY <1>1, <1>2, <1>3, <1>4, <4>1, SMT
    <3>4. ratio = full
      BY <1>0, <3>2, SMT
    <3> HIDE DEF ratio
    <3>5. sent < 134217728 /\ sent = full - (full % 4) /\ sent # 0
      BY <1>0, <3>2, <3>3, <3>4, SMT
    <3> HIDE DEF sent
    <3> QED
      BY <3>5, SMT
  <2> QED
    BY <1>2, <2>1, <2>2, SMT
<1>6. RsampRatio(xtal, rate) = sent
  <2>1. 2^28 = 268435456
    BY SMT
  <2> QED
    BY <1>0, <2>1, SMT DEF RsampRatio, full
<1>7. RealRate(xtal, sent) = DivShifted(xtal, k)
  BY <1>5, SMT DEF RealRate
<1> HIDE DEF ratio, sent, real
<1>8. k \in Nat /\ 4 * k <= full /\ full + 1 <= 4 * k + 4
  BY <1>0, <1>5, SMT
<1> HIDE DEF k
<1>9. k >= 3200000
  <2> SUFFICES ASSUME full + 1 <= 12800000 PROVE FALSE
    BY <1>3, <1>8, SMT
  <2>1. rate * (full + 1) <= rate * 12800000
    BY <1>2, <1>3, Monotone, SMT
  <2> QED
    BY <1>1, <1>2, <1>3, <1>4, <2>1, SMT
<1>10. k * rate <= 1048576 * xtal /\ 1048576 * xtal < k * rate + k
  <2>1. rate * (4 * k) <= rate * full /\ rate * (full + 1) <= rate * (4 * k + 4)
    BY <1>2, <1>3, <1>8, Monotone, SMT
  <2>2. rate * (4 * k) = 4 * (k * rate) /\ rate * (4 * k + 4) = 4 * (k * rate) + 4 * rate
    BY <1>2, <1>8, SMT
  <2>3. k * rate \in Nat /\ rate * full \in Nat
    BY <1>2, <1>3, <1>8, SMT
  <2> QED
    BY <1>1, <1>2, <1>3, <1>4, <1>8, <1>9, <2>1, <2>2, <2>3, SMT
<1>11. DivShifted(xtal, k) = rate
  <2>1. k \in Nat \ {0} /\ xtal \in Nat
    BY <1>1, <1>8, <1>9, SMT
  <2>4. 2^20 * xtal = 1048576 * xtal /\ 1048576 * xtal \in Nat
    BY <1>1, SMT
  <2> DEFINE q == DivShifted(xtal, k)
  <2>2. PICK r \in Nat : r < k /\ q \in Nat /\ k * q + r = 2^20 * xtal
    BY <2>1, LongDivision, ZenonT(40)
  <2> HIDE DEF q
  <2>3. (1048576 * xtal) \div k = q /\ (1048576 * xtal) \div k = rate
    BY <1>2, <1>10, <2>1, <2>2, <2>4, QuotientIs, SMT
  <2> QED
    BY <2>3, SMT DEF q
<1> QED
  BY <1>6, <1>7, <1>11

LEMMA ReachIsExact == ASSUME RatesInReach PROVE ExactRates
<1> SUFFICES ASSUME NEW xtal \in RtlClocks, NEW rate \in Rates, ValidRate(rate)
             PROVE  RealRate(xtal, RsampRatio(xtal, rate)) = rate
  BY DEF ExactRates
<1>1. xtal \in DEF_RTL_XTAL_FREQ - 1000 .. DEF_RTL_XTAL_FREQ + 1000
  BY DEF RtlClocks, DEF_RTL_XTAL_FREQ
<1>2. rate \in Nat /\ InReach(xtal, rate)
  BY DEF RatesInReach
<1> QED
  BY <1>1, <1>2, RateIsExact

LEMMA DefaultInReach == ASSUME DefaultCrystal PROVE RatesInReach
<1> SUFFICES ASSUME NEW xtal \in RtlClocks, NEW rate \in Rates, ValidRate(rate)
             PROVE  InReach(xtal, rate)
  BY DEF RatesInReach
<1>1. xtal = DEF_RTL_XTAL_FREQ
  BY DEF RtlClocks, DefaultCrystal
<1>2. rate \in Nat /\ rate > 225000 /\ (rate <= 300000 \/ rate > 900000)
  BY SMT DEF ValidRate
<1> QED
  BY <1>1, <1>2, SMT DEF InReach, DEF_RTL_XTAL_FREQ

RateKnown(t) ==
  t.rtl_xtal \in RtlClocks /\ (t.rate # 0 => t.rate \in Rates /\ ValidRate(t.rate))
RateGood(t) ==
  t.failed = "no" /\ t.rate # 0 => t.samp = Is(RsampRatio(t.rtl_xtal, t.rate))
Rated(t) == RateKnown(t) /\ RateGood(t)

\* What the tuner relies on when it is tuned again, and what it may hide.
IfSound(t) ==
  t.direct_sampling = 0 => t.if_reg.kind = "is" /\ t.if_reg.val.freq = IfWanted(t)
SoundOrKnown(t) == Sound(t) \/ t.offs_freq # 0 \/ t.lo = Unlocked

LEMMA SameClocksKeeps ==
  ASSUME NEW t, NEW u, Keeps(t, u), Quiet(t, u), SameClocks(t, u)
  PROVE  /\ ClockKnown(t) => ClockKnown(u)
         /\ Rated(t) => Rated(u)
         /\ TunesAs(t, u) /\ TunedByClock(t) => TunedByClock(u)
<1> USE DEF Keeps, Quiet, SameClocks
<1>1. ClockKnown(t) => ClockKnown(u)
  BY DEF ClockKnown, FoscGood, KeepsClock, TunerXtal
<1>2. Rated(t) => Rated(u)
  BY DEF Rated, RateKnown, RateGood
<1>3. TunesAs(t, u) /\ TunedByClock(t) => TunedByClock(u)
  BY DEF TunesAs, TunedByClock
<1> QED
  BY <1>1, <1>2, <1>3

LEMMA SameClocksTrans ==
  ASSUME NEW t, NEW u, NEW v, SameClocks(t, u), SameClocks(u, v)
  PROVE  SameClocks(t, v)
BY DEF SameClocks

LEMMA SoundAsWas ==
  ASSUME NEW t, NEW u, Keeps(t, u), TunesAs(t, u), Sound(t)
  PROVE  Sound(u)
BY DEF Keeps, TunesAs, Sound, Tuned, Known, Received, IfWanted

\* Registers that no property tells apart, and results.
LEMMA ResultClocks ==
  ASSUME NEW t \in Handle
  PROVE  /\ SameClocks(t, Fail(t)) /\ Fail(t).r = -1
         /\ SameClocks(t, Began(t)) /\ SameClocks(t, [t EXCEPT !.r = -1])
         /\ [t EXCEPT !.r = -1].r = -1
         /\ \A u \in WriteAny(t) : SameClocks(t, u) /\ (u.r = 0 => t.r = 0)
<1>1. SameClocks(t, Fail(t)) /\ Fail(t).r = -1
  BY DEF Handle, Fail, SameClocks
<1>2. SameClocks(t, Began(t)) /\ SameClocks(t, [t EXCEPT !.r = -1]) /\ [t EXCEPT !.r = -1].r = -1
  BY DEF Handle, Began, SameClocks
<1>3. SameClocks(t, t)
  BY DEF SameClocks
<1> QED
  BY <1>1, <1>2, <1>3 DEF WriteAny

LEMMA SetIfFreqClocks ==
  ASSUME NEW t \in Handle, NEW f \in Int, NEW u \in SetIfFreq(t, f)
  PROVE  /\ SameClocks(t, u)
         /\ u.direct_sampling = t.direct_sampling /\ u.offs_freq = t.offs_freq
         /\ u.freq = t.freq /\ u.lo = t.lo
         /\ u.failed = "no" => u.if_reg.val.corr = t.corr
         /\ u.r = 0 => t.r = 0 /\ u.if_reg.kind = "is" /\ u.if_reg.val.freq = f
<1>1. CASE u = [t EXCEPT !.if_reg = Is(At(f, t.rtl_xtal, t.corr))]
  BY <1>1 DEF Handle, SameClocks, Is, At
<1>2. CASE u = [Fail(t) EXCEPT !.if_reg = Torn]
  BY <1>2 DEF Handle, SameClocks, Fail
<1> QED
  BY <1>1, <1>2 DEF SetIfFreq, Write

LEMMA TunerSetFreqClocks ==
  ASSUME NEW t \in Handle, NEW f \in Int, NEW u \in TunerSetFreq(t, f)
  PROVE  /\ SameClocks(t, u)
         /\ HasTuner(t) /\ u.failed = "no" /\ FoscGood(t) =>
              u.lo.val.corr = t.corr /\ u.lo.val.xtal = t.tun_xtal
         /\ u.r = 0 => /\ t.r = 0
                       /\ u.lo = Unlocked \/ (u.lo.kind = "is" /\ u.lo.val.freq = f)
<1> DEFINE c == ClockUsed(t)
<1>1. CASE ~HasTuner(t)
  <2>1. u = [t EXCEPT !.r = -1]
    BY <1>1 DEF TunerSetFreq
  <2> QED
    BY <1>1, <2>1 DEF Handle, SameClocks
<1>2. CASE HasTuner(t)
  <2>1. u \in {[t EXCEPT !.lo = Is(At(f, c.xtal, c.corr))], [Fail(t) EXCEPT !.lo = Torn],
               [t EXCEPT !.lo = Unlocked, !.failed = "yes"]}
    BY <1>2 DEF TunerSetFreq, Write
  <2>2. FoscGood(t) => c.corr = t.corr /\ c.xtal = t.tun_xtal
    BY DEF FoscGood, ClockUsed, TunerXtal
  <2> HIDE DEF c
  <2>3. CASE u = [t EXCEPT !.lo = Is(At(f, c.xtal, c.corr))]
    BY <2>2, <2>3 DEF Handle, SameClocks, Is, At
  <2>4. CASE u = [Fail(t) EXCEPT !.lo = Torn]
    BY <2>4 DEF Handle, SameClocks, Fail
  <2>5. CASE u = [t EXCEPT !.lo = Unlocked, !.failed = "yes"]
    BY <2>5 DEF Handle, SameClocks
  <2> QED
    BY <2>1, <2>3, <2>4, <2>5
<1> QED
  BY <1>1, <1>2

\* Setting the center frequency.
LEMMA CenterFreqClocks ==
  ASSUME NEW t \in Handle, NEW f \in Freqs \cup {0}, NEW u \in SetCenterFreq(t, f)
  PROVE  /\ SameClocks(t, u)
         /\ u.direct_sampling = t.direct_sampling /\ u.offs_freq = t.offs_freq
         /\ ClockKnown(t) => TunedByClock(u)
         /\ u.r = 0 => /\ t.r = 0 /\ u.freq = f
                       /\ IF t.direct_sampling # 0
                          THEN u.if_reg.kind = "is" /\ u.if_reg.val.freq = f
                          ELSE /\ u.if_reg = t.if_reg
                               /\ \/ u.lo = Unlocked
                                  \/ u.lo.kind = "is" /\ u.lo.val.freq = f - t.offs_freq
<1> DEFINE b == Began(t)
           tuned == IF t.direct_sampling # 0 THEN SetIfFreq(b, f)
                    ELSE TunerSetFreq(b, f - t.offs_freq)
           End(v) == [v EXCEPT !.freq = IF v.r = 0 THEN f ELSE 0,
                               !.r    = IF t.r = 0 THEN v.r ELSE t.r]
<1>1. b \in Handle /\ Step(t, b) /\ TunesAs(t, b) /\ SameClocks(t, b)
  BY BeganStep, ResultClocks DEF Step
<1>2. f \in Int /\ f - t.offs_freq \in Int /\ t.r \in {0, -1}
  <2>1. t.offs_freq \in Nat /\ t.r \in {0, -1}
    BY DEF Handle
  <2> QED
    BY <2>1, FreqsAreInt
<1>3. PICK v \in tuned : u = End(v)
  BY DEF SetCenterFreq
<1> HIDE DEF b
<1>4. /\ Step(b, v) /\ SameClocks(b, v)
      /\ v.direct_sampling = t.direct_sampling /\ v.offs_freq = t.offs_freq
      /\ t.direct_sampling # 0 /\ v.failed = "no" => v.if_reg.val.corr = t.corr
      /\ t.direct_sampling = 0 => v.if_reg = t.if_reg
      /\ t.direct_sampling = 0 /\ v.failed = "no" =>
           IF HasTuner(t) THEN FoscGood(t) => v.lo.val.corr = t.corr /\ v.lo.val.xtal = t.tun_xtal
           ELSE v.r = -1
      /\ v.r = 0 => IF t.direct_sampling # 0
                    THEN v.if_reg.kind = "is" /\ v.if_reg.val.freq = f
                    ELSE v.lo = Unlocked \/ (v.lo.kind = "is" /\ v.lo.val.freq = f - t.offs_freq)
  <2>1. CASE t.direct_sampling # 0
    <3>1. v \in SetIfFreq(b, f)
      BY <2>1
    <3> QED
      BY <1>1, <1>2, <2>1, <3>1, SetIfFreqStep, SetIfFreqClocks DEF TunesAs, SameClocks
  <2>2. CASE t.direct_sampling = 0
    <3>1. v \in TunerSetFreq(b, f - t.offs_freq)
      BY <2>2
    <3>2. HasTuner(b) = HasTuner(t) /\ (FoscGood(t) => FoscGood(b))
      BY <1>1 DEF Step, Keeps, HasTuner, SameClocks, FoscGood, KeepsClock, TunerXtal
    <3>3. /\ Step(b, v) /\ v.direct_sampling = b.direct_sampling /\ v.offs_freq = b.offs_freq
          /\ v.if_reg = b.if_reg
          /\ v.failed = "no" /\ ~HasTuner(b) => v.r = -1
      BY <1>1, <1>2, <3>1, TunerSetFreqStep
    <3> QED
      BY <1>1, <1>2, <2>2, <3>1, <3>2, <3>3, TunerSetFreqClocks DEF TunesAs, SameClocks
  <2> QED
    BY <1>2, <2>1, <2>2
<1>5. /\ u.failed = v.failed /\ u.lo = v.lo /\ u.if_reg = v.if_reg
      /\ u.direct_sampling = v.direct_sampling /\ u.offs_freq = v.offs_freq
      /\ u.freq = IF v.r = 0 THEN f ELSE 0
      /\ u.r = IF t.r = 0 THEN v.r ELSE t.r
      /\ SameClocks(v, u)
  BY <1>3, <1>4 DEF Handle, Step, SameClocks
<1>6. SameClocks(t, u)
  BY <1>1, <1>4, <1>5, SameClocksTrans
<1>7. u.failed = "no" => t.failed = "no"
  BY <1>1, <1>4, <1>5 DEF Step, Quiet
<1>8. ClockKnown(t) => TunedByClock(u)
  BY <1>4, <1>5, <1>6, <1>7 DEF ClockKnown, TunedByClock, SameClocks
<1> QED
  BY <1>2, <1>4, <1>5, <1>6, <1>8

LEMMA CenterFreqClocked ==
  ASSUME NEW t \in Handle, NEW f \in Freqs \cup {0}, NEW u \in SetCenterFreq(t, f)
  PROVE  /\ ClockKnown(t) => Clocked(u)
         /\ Rated(t) => Rated(u)
<1>1. Step(t, u) /\ SameClocks(t, u) /\ (ClockKnown(t) => TunedByClock(u))
  BY SetCenterFreqStep, CenterFreqClocks
<1> QED
  BY <1>1, SameClocksKeeps DEF Clocked, Step

\* A frequency that was set is received if the down-converter was right.
LEMMA CenterFreqSound ==
  ASSUME NEW t \in Handle, NEW f \in Freqs \cup {0}, NEW u \in SetCenterFreq(t, f),
         IfSound(t), u.r = 0
  PROVE  SoundOrKnown(u)
<1>1. /\ u.direct_sampling = t.direct_sampling /\ u.offs_freq = t.offs_freq /\ u.freq = f
      /\ IF t.direct_sampling # 0
         THEN u.if_reg.kind = "is" /\ u.if_reg.val.freq = f
         ELSE /\ u.if_reg = t.if_reg
              /\ \/ u.lo = Unlocked
                 \/ u.lo.kind = "is" /\ u.lo.val.freq = f - t.offs_freq
  BY CenterFreqClocks
<1>2. u.tuner_type = t.tuner_type
  BY SetCenterFreqStep DEF Step, Keeps
<1>3. SUFFICES ASSUME u.offs_freq = 0, u.lo # Unlocked PROVE Sound(u)
  BY DEF SoundOrKnown
<1>4. f \in Nat
  BY FreqsAreInt
<1>5. CASE t.direct_sampling # 0
  BY <1>1, <1>5 DEF Sound, Tuned, Known, Received
<1>6. CASE t.direct_sampling = 0
  <2>1. /\ u.if_reg.kind = "is" /\ u.if_reg.val.freq = IfWanted(u)
        /\ u.lo.kind = "is" /\ u.lo.val.freq = f
    BY <1>1, <1>2, <1>3, <1>4, <1>6 DEF IfSound, IfWanted
  <2>2. Received(u) = f
    BY <1>1, <1>3, <1>4, <1>6, <2>1 DEF Received, IfWanted, R82XX_IF_FREQ
  <2> QED
    BY <1>1, <2>1, <2>2 DEF Sound, Tuned, Known
<1> QED
  BY <1>5, <1>6

\* What a call keeps: the clocks, the rates, and that the device is sound.
Kept(t, u) ==
  /\ Clocked(t) => Clocked(u)
  /\ ExactRates /\ Rated(t) => Rated(u)
  /\ ExactRates /\ Rated(t) /\ Sound(t) /\ u.r = 0 => SoundOrKnown(u)

\* A call that touches neither.
LEMMA SameKept ==
  ASSUME NEW t, NEW u, Step(t, u), SameClocks(t, u), TunesAs(t, u)
  PROVE  Kept(t, u)
<1>1. (Clocked(t) => Clocked(u)) /\ (Rated(t) => Rated(u))
  BY SameClocksKeeps DEF Step, Clocked
<1>2. Sound(t) => Sound(u)
  BY SoundAsWas DEF Step
<1> QED
  BY <1>1, <1>2 DEF Kept, SoundOrKnown

LEMMA RefusedKept == ASSUME NEW t \in Handle PROVE Kept(t, [t EXCEPT !.r = -1])
<1>1. Step(t, [t EXCEPT !.r = -1]) /\ TunesAs(t, [t EXCEPT !.r = -1])
  BY DEF Handle, Step, Keeps, Quiet, TunesAs
<1> QED
  BY <1>1, ResultClocks, SameKept

LEMMA CenterFreqKept ==
  ASSUME NEW t \in Handle, NEW f \in Freqs \cup {0}, NEW u \in SetCenterFreq(t, f)
  PROVE  Kept(t, u)
<1>1. Sound(t) => IfSound(t)
  BY DEF Sound, IfSound
<1> QED
  BY <1>1, CenterFreqClocked, CenterFreqSound DEF Kept, Clocked

LEMMA FreqCorrectionKept ==
  ASSUME NEW t \in Handle, NEW ppm \in Corrs, NEW u \in SetFreqCorrection(t, ppm)
  PROVE  Kept(t, u)
<1>1. CASE t.corr = ppm
  BY <1>1, RefusedKept DEF SetFreqCorrection
<1>2. CASE t.corr # ppm
  <2> DEFINE a == [t EXCEPT !.corr = ppm]
  <2>1. PICK v \in SetSampleFreqCorrection(a, ppm) : u \in Retune(StoreClock(v))
    BY <1>2 DEF SetFreqCorrection
  <2>2. /\ a \in Handle /\ Step(t, a) /\ TunesAs(t, a) /\ a.corr = ppm
        /\ a.rtl_xtal = t.rtl_xtal /\ a.rate = t.rate /\ a.samp = t.samp
    BY DEF Handle, Step, Keeps, Quiet, TunesAs
  <2> HIDE DEF a
  <2>3. v \in Handle /\ Step(a, v) /\ TunesAs(a, v)
    BY <2>2, PpmStep DEF Step
  <2>4. /\ v.failed = "no" => v.ppm = Is(ppm)
        /\ v.corr = ppm /\ v.rtl_xtal = a.rtl_xtal /\ v.rate = a.rate /\ v.samp = a.samp
    <3>1. CASE v = [a EXCEPT !.ppm = Is(ppm)]
      BY <2>2, <3>1 DEF Handle
    <3>2. CASE v = [Fail(a) EXCEPT !.ppm = Torn]
      BY <2>2, <3>2 DEF Handle, Fail
    <3> QED
      BY <3>1, <3>2 DEF SetSampleFreqCorrection, Write
  <2> DEFINE w == StoreClock(v)
  <2>5. w \in Handle /\ Step(v, w) /\ TunesAs(v, w)
    BY <2>3, StoreClockStep DEF Step
  <2>6. /\ w.ppm = v.ppm /\ w.corr = v.corr /\ w.fosc = TunerXtal(v) /\ w.tun_xtal = v.tun_xtal
        /\ w.rtl_xtal = v.rtl_xtal /\ w.rate = v.rate /\ w.samp = v.samp
    BY <2>3 DEF StoreClock, Handle
  <2>7. u \in Retune(w)
    BY <2>1
  <2> HIDE DEF w
  <2>8. Step(t, w) /\ TunesAs(t, w)
    BY <2>2, <2>3, <2>5 DEF Step, Keeps, Quiet, TunesAs
  <2>9. ClockKnown(w)
    BY <2>2, <2>4, <2>5, <2>6 DEF ClockKnown, FoscGood, TunerXtal, Step, Quiet
  <2>10. Rated(t) => Rated(w)
    BY <2>2, <2>4, <2>6, <2>8 DEF Rated, RateKnown, RateGood, Step, Quiet
  <2>11. Sound(t) => Sound(w)
    BY <2>8, SoundAsWas DEF Step
  <2>12. CASE w.freq = 0
    <3>1. u = w
      BY <2>7, <2>12 DEF Retune
    <3>2. TunedByClock(w)
      BY <2>12 DEF TunedByClock
    <3> QED
      BY <2>9, <2>10, <2>11, <3>1, <3>2 DEF Kept, Clocked, SoundOrKnown
  <2>13. CASE w.freq # 0
    <3>1. u \in SetCenterFreq(w, w.freq) /\ w.freq \in Freqs \cup {0}
      BY <2>5, <2>7, <2>13, FreqType DEF Retune
    <3>2. Kept(w, u) /\ (ClockKnown(w) => Clocked(u))
      BY <2>5, <3>1, CenterFreqKept, CenterFreqClocked
    <3> QED
      BY <2>9, <2>10, <2>11, <3>2 DEF Kept
  <2> QED
    BY <2>12, <2>13
<1> QED
  BY <1>1, <1>2

\* Offset tuning: the offset is in the down-converter when it reports success.
LEMMA OffsetTuningClocks ==
  ASSUME NEW t \in Handle, NEW on \in BOOLEAN, NEW u \in SetOffsetTuning(t, on)
  PROVE  /\ SameClocks(t, u) /\ (Clocked(t) => Clocked(u)) /\ (u.r = 0 => SoundOrKnown(u))
         /\ \/ TunesAs(t, u) /\ u.r = -1
            \/ u.offs_freq = IF on THEN IfOffset(t.rate) ELSE 0
<1>1. CASE t.tuner_type \in R82XX \/ t.direct_sampling # 0
  <2>1. u = [t EXCEPT !.r = -1]
    BY <1>1 DEF SetOffsetTuning
  <2>2. TunesAs(t, u) /\ u.r = -1 /\ SameClocks(t, u) /\ Step(t, u)
    BY <2>1, ResultClocks DEF Handle, TunesAs, Step, Keeps, Quiet
  <2> QED
    BY <2>2, SameClocksKeeps DEF Step, Clocked
<1>2. CASE ~(t.tuner_type \in R82XX \/ t.direct_sampling # 0)
  <2> DEFINE offs == IF on THEN IfOffset(t.rate) ELSE 0
             a == [t EXCEPT !.offs_freq = offs]
  <2>1. PICK v \in SetIfFreq(a, a.offs_freq) :
          u \in IF v.freq > v.offs_freq THEN SetCenterFreq(v, v.freq) ELSE {v}
    BY <1>2 DEF SetOffsetTuning
  <2>2. offs \in Nat
    <3>1. t.rate \in Nat
      BY DEF Handle
    <3> QED
      BY <3>1, OffsetType
  <2>3. /\ a \in Handle /\ Step(t, a) /\ a.offs_freq = offs /\ a.freq = t.freq
        /\ a.lo = t.lo /\ a.direct_sampling = t.direct_sampling /\ SameClocks(t, a)
        /\ a.tuner_type = t.tuner_type
    BY <2>2 DEF Handle, Step, Keeps, Quiet, SameClocks
  <2> HIDE DEF a
  <2>4. /\ Step(a, v) /\ SameClocks(a, v)
        /\ v.direct_sampling = t.direct_sampling /\ v.offs_freq = offs
        /\ v.freq = t.freq /\ v.lo = t.lo
        /\ v.r = 0 => v.if_reg.kind = "is" /\ v.if_reg.val.freq = offs
    BY <2>1, <2>2, <2>3, SetIfFreqStep, SetIfFreqClocks
  <2>5. Step(t, v) /\ v \in Handle /\ SameClocks(t, v) /\ v.tuner_type \notin R82XX
    BY <1>2, <2>3, <2>4, SameClocksTrans DEF Step, Keeps, Quiet
  <2>6. Clocked(t) => Clocked(v)
    <3>1. ClockKnown(t) => ClockKnown(v)
      BY <2>5, SameClocksKeeps DEF Step
    <3>2. TunedByClock(t) => TunedByClock(v)
      BY <1>2, <2>4, <2>5 DEF TunedByClock, Step, Quiet, SameClocks
    <3> QED
      BY <3>1, <3>2 DEF Clocked
  <2>7. v.r = 0 => IfSound(v)
    BY <2>4, <2>5 DEF IfSound, IfWanted
  <2>8. CASE v.freq > v.offs_freq
    <3>1. u \in SetCenterFreq(v, v.freq) /\ v.freq \in Freqs \cup {0}
      BY <2>1, <2>5, <2>8, FreqType
    <3> DEFINE f == v.freq
    <3>2. v \in Handle /\ f \in Freqs \cup {0} /\ u \in SetCenterFreq(v, f)
      BY <2>5, <3>1
    <3> HIDE DEF f
    <3>4. SameClocks(v, u) /\ u.offs_freq = v.offs_freq /\ (u.r = 0 => v.r = 0)
      BY <3>2, CenterFreqClocks
    <3>5. ClockKnown(v) => Clocked(u)
      BY <3>2, CenterFreqClocked
    <3>3. u.r = 0 => SoundOrKnown(u)
      BY <2>7, <3>2, <3>4, CenterFreqSound
    <3> QED
      BY <2>4, <2>5, <2>6, <3>3, <3>4, <3>5, SameClocksTrans DEF Clocked
  <2>9. CASE ~(v.freq > v.offs_freq)
    <3>1. u = v
      BY <2>1, <2>9
    <3>2. v.freq \in Nat
      BY <2>5, FreqType, FreqsAreInt
    <3>3. v.offs_freq = 0 => v.freq = 0
      BY <2>2, <2>4, <2>9, <3>2
    <3>4. v.r = 0 => SoundOrKnown(v)
      BY <2>7, <3>3 DEF SoundOrKnown, Sound, Tuned, IfSound
    <3> QED
      BY <2>4, <2>5, <2>6, <3>1, <3>4
  <2> QED
    BY <2>8, <2>9
<1> QED
  BY <1>1, <1>2

LEMMA OffsetTuningKept ==
  ASSUME NEW t \in Handle, NEW on \in BOOLEAN, NEW u \in SetOffsetTuning(t, on)
  PROVE  Kept(t, u)
<1>1. Step(t, u)
  BY OffsetTuningCall DEF Call1
<1>2. SameClocks(t, u) /\ (Clocked(t) => Clocked(u)) /\ (u.r = 0 => SoundOrKnown(u))
  BY OffsetTuningClocks
<1> QED
  BY <1>1, <1>2, SameClocksKeeps DEF Kept, Step

LEMMA RateOffset == ASSUME NEW rate \in Nat, ValidRate(rate) PROVE IfOffset(rate) # 0
<1>1. rate > 225000
  BY DEF ValidRate
<1>2. rate \div 2 \in Nat /\ rate \div 2 > 100
  BY <1>1
<1> DEFINE half == rate \div 2
<1> HIDE DEF half
<1>3. (half * 170) \div 100 # 0
  BY <1>2 DEF half
<1> QED
  BY <1>3 DEF IfOffset, half

\* The resampler gets the ratio and the correction; what tunes the device stays,
\* unless offset tuning is on.
LEMMA SampleRateClocks ==
  ASSUME NEW t \in Handle, NEW rate \in Nat, ValidRate(rate), NEW u \in SetSampleRate(t, rate)
  PROVE  /\ Clocked(t) => Clocked(u)
         /\ u.rtl_xtal = t.rtl_xtal /\ u.tun_xtal = t.tun_xtal
         /\ ExactRates /\ RateKnown(t) /\ rate \in Rates =>
              Rated(u) /\ (TunesAs(t, u) \/ u.offs_freq # 0)
<1> DEFINE ratio == RsampRatio(t.rtl_xtal, rate)
           real == RealRate(t.rtl_xtal, ratio)
           a == [t EXCEPT !.rate = real]
           done == UNION {UNION {WriteAny(x) : x \in SetSampleFreqCorrection(w, w.corr)} :
                          w \in Write(a, "samp", ratio)}
           Clock(x, y) == /\ y.corr = x.corr /\ y.tun_xtal = x.tun_xtal /\ y.fosc = x.fosc
                          /\ y.rtl_xtal = x.rtl_xtal
<1>1. u \in IF t.offs_freq = 0 THEN done
            ELSE UNION {Ignored(w, SetOffsetTuning(w, TRUE)) : w \in done}
  BY DEF SetSampleRate
<1>2. ratio \in Nat /\ real \in Nat
  BY Clocks, RatioType, RateType
<1>3. ExactRates /\ RateKnown(t) /\ rate \in Rates => real = rate
  BY DEF ExactRates, RateKnown
<1> HIDE DEF ratio, real
<1>4. /\ a \in Handle /\ Step(t, a) /\ TunesAs(t, a) /\ a.rate = real /\ a.ppm = t.ppm
      /\ Clock(t, a)
  BY <1>2 DEF Handle, Step, Keeps, Quiet, TunesAs
<1> HIDE DEF a
<1>5. ASSUME NEW w \in done
      PROVE  /\ w \in Handle /\ Step(t, w) /\ TunesAs(t, w) /\ Clock(t, w) /\ w.rate = real
             /\ w.failed = "no" => w.samp = Is(ratio) /\ w.ppm = Is(t.corr)
  <2>1. PICK v \in Write(a, "samp", ratio) :
          w \in UNION {WriteAny(x) : x \in SetSampleFreqCorrection(v, v.corr)}
    BY <1>5
  <2>2. PICK x \in SetSampleFreqCorrection(v, v.corr) : w \in WriteAny(x)
    BY <2>1
  <2>3. v \in Handle /\ Step(a, v) /\ TunesAs(a, v)
    BY <1>2, <1>4, SampStep DEF Step
  <2>4. x \in Handle /\ Step(v, x) /\ TunesAs(v, x)
    BY <2>3, Clocks, PpmStep DEF Step
  <2>5. w \in Handle /\ Step(x, w) /\ TunesAs(x, w) /\ SameClocks(x, w)
    BY <2>2, <2>4, WriteAnyStep, ResultClocks DEF Step
  <2>6. Clock(a, v) /\ v.rate = a.rate /\ (v.failed = "no" => v.samp = Is(ratio))
    <3>1. CASE v = [a EXCEPT !.samp = Is(ratio)]
      BY <1>4, <3>1 DEF Handle
    <3>2. CASE v = [Fail(a) EXCEPT !.samp = Torn]
      BY <1>4, <3>2 DEF Handle, Fail
    <3> QED
      BY <3>1, <3>2 DEF Write
  <2>7. /\ Clock(v, x) /\ x.rate = v.rate /\ x.samp = v.samp
        /\ x.failed = "no" => x.ppm = Is(v.corr)
    <3>1. CASE x = [v EXCEPT !.ppm = Is(v.corr)]
      BY <2>3, <3>1 DEF Handle
    <3>2. CASE x = [Fail(v) EXCEPT !.ppm = Torn]
      BY <2>3, <3>2 DEF Handle, Fail
    <3> QED
      BY <3>1, <3>2 DEF SetSampleFreqCorrection, Write
  <2>8. Step(t, w) /\ TunesAs(t, w)
    BY <1>4, <2>3, <2>4, <2>5 DEF Step, Keeps, Quiet, TunesAs
  <2>9. Clock(t, w) /\ w.rate = real /\ w.ppm = x.ppm /\ w.samp = v.samp
    BY <1>4, <2>5, <2>6, <2>7 DEF SameClocks
  <2>10. ASSUME w.failed = "no" PROVE w.samp = Is(ratio) /\ w.ppm = Is(t.corr)
    <3>1. v.failed = "no" /\ x.failed = "no"
      BY <2>4, <2>5, <2>10 DEF Step, Quiet
    <3> QED
      BY <1>4, <2>6, <2>7, <2>9, <3>1
  <2> QED
    BY <2>5, <2>8, <2>9, <2>10
<1> HIDE DEF done
<1>6. ASSUME NEW w \in done PROVE Clocked(t) => Clocked(w)
  BY <1>5, <1>6
     DEF Clocked, ClockKnown, TunedByClock, FoscGood, KeepsClock, TunerXtal, Step, Keeps,
         Quiet, TunesAs
<1>7. ASSUME NEW w \in done, ExactRates, RateKnown(t), rate \in Rates PROVE Rated(w)
  BY <1>3, <1>5, <1>7 DEF Rated, RateKnown, RateGood, ratio
<1>8. CASE t.offs_freq = 0
  BY <1>1, <1>5, <1>6, <1>7, <1>8
<1>9. CASE t.offs_freq # 0
  <2>1. PICK w \in done : u \in Ignored(w, SetOffsetTuning(w, TRUE))
    BY <1>1, <1>9
  <2>2. PICK v \in SetOffsetTuning(w, TRUE) : u = [v EXCEPT !.r = w.r]
    BY <2>1 DEF Ignored
  <2>3. w \in Handle /\ TunesAs(t, w) /\ Clock(t, w) /\ w.rate = real
    BY <1>5
  <2>4. Step(w, v) /\ v \in Handle
    BY <2>3, OffsetTuningCall DEF Call1, Step
  <2>5. /\ SameClocks(w, v) /\ (Clocked(w) => Clocked(v))
        /\ TunesAs(w, v) \/ v.offs_freq = IfOffset(real)
    BY <2>3, OffsetTuningClocks
  <2>6. SameClocks(v, u) /\ TunesAs(v, u) /\ Keeps(v, u) /\ Quiet(v, u)
    BY <2>2, <2>4 DEF Handle, SameClocks, TunesAs, Keeps, Quiet
  <2>7. Clocked(v) => Clocked(u)
    BY <2>6, SameClocksKeeps DEF Clocked
  <2>8. Keeps(w, u) /\ Quiet(w, u) /\ SameClocks(w, u)
    BY <2>4, <2>5, <2>6, SameClocksTrans DEF Step, Keeps, Quiet
  <2>9. Rated(w) => Rated(u)
    BY <2>8, SameClocksKeeps
  <2>10. ExactRates /\ RateKnown(t) /\ rate \in Rates => TunesAs(t, u) \/ u.offs_freq # 0
    BY <1>3, <2>3, <2>5, <2>6, RateOffset DEF TunesAs
  <2> QED
    BY <1>6, <1>7, <2>3, <2>5, <2>7, <2>8, <2>9, <2>10 DEF SameClocks
<1> QED
  BY <1>8, <1>9

LEMMA SampleRateKept ==
  ASSUME NEW t \in Handle, NEW rate \in Rates, NEW u \in SetSampleRate(t, rate)
  PROVE  Kept(t, u)
<1>1. rate \in Nat
  OBVIOUS
<1>2. CASE ~ValidRate(rate)
  BY <1>2, RefusedKept DEF SetSampleRate
<1>3. CASE ValidRate(rate)
  <2>1. Keeps(t, u)
    BY <1>1, SampleRateCall DEF Call1, Step
  <2>2. TunesAs(t, u) /\ Sound(t) => Sound(u)
    BY <2>1, SoundAsWas
  <2> QED
    BY <1>1, <1>3, <2>2, SampleRateClocks DEF Kept, Rated, SoundOrKnown
<1> QED
  BY <1>2, <1>3

\* The same but for the clock a tuner keeps.
SameRates(t, u) ==
  /\ u.corr = t.corr /\ u.ppm = t.ppm /\ u.tun_xtal = t.tun_xtal
  /\ u.rtl_xtal = t.rtl_xtal /\ u.rate = t.rate /\ u.samp = t.samp

LEMMA SameRatesKeeps ==
  ASSUME NEW t, NEW u, Quiet(t, u), SameRates(t, u)
  PROVE  /\ ClockKnown(t) /\ FoscGood(u) => ClockKnown(u)
         /\ Rated(t) => Rated(u)
BY DEF Quiet, SameRates, ClockKnown, Rated, RateKnown, RateGood

LEMMA TunerInitClocks ==
  ASSUME NEW t \in Handle, NEW u \in TunerInit(t)
  PROVE  SameRates(t, u) /\ FoscGood(u) /\ (u.r = 0 => t.r = 0)
<1> DEFINE c == IF KeepsClock(t) THEN StoreClock(t) ELSE t
<1>1. /\ c \in Handle /\ SameRates(t, c) /\ FoscGood(c) /\ c.r = t.r
      /\ c.tuner_type = t.tuner_type
  <2>1. CASE KeepsClock(t)
    <3>1. c = StoreClock(t)
      BY <2>1
    <3> HIDE DEF c
    <3> QED
      BY <3>1, StoreClockStep
         DEF StoreClock, TunerXtal, Handle, SameRates, FoscGood, Step
  <2>2. CASE ~KeepsClock(t)
    BY <2>2 DEF SameRates, FoscGood
  <2> QED
    BY <2>1, <2>2
<1>2. \/ u = t /\ ~HasTuner(t)
      \/ u \in {[c EXCEPT !.lo = Off], [Fail(c) EXCEPT !.lo = Torn]}
  BY DEF TunerInit
<1> HIDE DEF c
<1>3. CASE u = t /\ ~HasTuner(t)
  BY <1>3 DEF SameRates, FoscGood, HasTuner, KeepsClock, R82XX
<1>4. CASE u = [c EXCEPT !.lo = Off]
  BY <1>1, <1>4 DEF Handle, SameRates, FoscGood, KeepsClock, TunerXtal
<1>5. CASE u = [Fail(c) EXCEPT !.lo = Torn]
  BY <1>1, <1>5 DEF Handle, Fail, SameRates, FoscGood, KeepsClock, TunerXtal
<1> QED
  BY <1>2, <1>3, <1>4, <1>5

LEMMA TunerExitClocks ==
  ASSUME NEW t \in Handle, NEW u \in TunerExit(t)
  PROVE  SameClocks(t, u) /\ (u.r = 0 => t.r = 0)
<1>1. u \in {t, [t EXCEPT !.lo = Off], [Fail(t) EXCEPT !.lo = Torn]}
  BY DEF TunerExit
<1>2. CASE u = t
  BY <1>2 DEF SameClocks
<1>3. CASE u = [t EXCEPT !.lo = Off]
  BY <1>3 DEF Handle, SameClocks
<1>4. CASE u = [Fail(t) EXCEPT !.lo = Torn]
  BY <1>4 DEF Handle, Fail, SameClocks
<1> QED
  BY <1>1, <1>2, <1>3, <1>4

\* Going to direct sampling and back sets everything that tunes the device.
LEMMA DirectSamplingClocks ==
  ASSUME NEW t \in Handle, NEW on \in {0, 1}, NEW u \in SetDirectSampling(t, on)
  PROVE  /\ SameRates(t, u) /\ (ClockKnown(t) => Clocked(u)) /\ (Rated(t) => Rated(u))
         /\ u.r = 0 => SoundOrKnown(u)
<1> DEFINE enabled == UNION {WriteAny(x) : x \in TunerExit(t)}
           if_freq == IF t.tuner_type \in R82XX THEN R82XX_IF_FREQ ELSE 0
           disabled == UNION {UNION {WriteAny(y) : y \in SetIfFreq(x, if_freq)} :
                              x \in TunerInit(t)}
           OnChip(x) == x.if_reg.kind = "is" /\ x.if_reg.val.freq = if_freq
<1>1. PICK w \in IF on # 0 THEN enabled ELSE disabled :
        u \in SetCenterFreq([w EXCEPT !.direct_sampling = on], w.freq)
  BY DEF SetDirectSampling
<1> DEFINE v == [w EXCEPT !.direct_sampling = on]
<1>2. /\ Step(t, w) /\ SameRates(t, w) /\ (FoscGood(t) => FoscGood(w))
      /\ on = 0 /\ w.r = 0 => OnChip(w)
  <2>1. CASE on # 0
    <3>1. PICK x \in TunerExit(t) : w \in WriteAny(x)
      BY <1>1, <2>1
    <3>2. Step(t, x) /\ SameClocks(t, x)
      BY TunerExitStep, TunerExitClocks
    <3>3. Step(x, w) /\ SameClocks(x, w)
      BY <3>1, <3>2, WriteAnyStep, ResultClocks DEF Step
    <3> QED
      BY <2>1, <3>2, <3>3
         DEF Step, Keeps, Quiet, SameClocks, SameRates, FoscGood, KeepsClock, TunerXtal
  <2>2. CASE on = 0
    <3>1. PICK x \in TunerInit(t) : w \in UNION {WriteAny(y) : y \in SetIfFreq(x, if_freq)}
      BY <1>1, <2>2
    <3>2. PICK y \in SetIfFreq(x, if_freq) : w \in WriteAny(y)
      BY <3>1
    <3>3. Step(t, x) /\ SameRates(t, x) /\ FoscGood(x)
      BY TunerInitStep, TunerInitClocks
    <3>4. if_freq \in Int
      BY DEF R82XX_IF_FREQ
    <3> HIDE DEF if_freq
    <3>5. Step(x, y) /\ SameClocks(x, y) /\ (y.r = 0 => OnChip(y))
      BY <3>3, <3>4, SetIfFreqStep, SetIfFreqClocks DEF Step
    <3>6. Step(y, w) /\ TunesAs(y, w) /\ SameClocks(y, w) /\ (w.r = 0 => y.r = 0)
      BY <3>2, <3>5, WriteAnyStep, ResultClocks DEF Step
    <3>7. SameRates(t, w) /\ FoscGood(w)
      BY <3>3, <3>5, <3>6
         DEF Step, Keeps, SameClocks, SameRates, FoscGood, KeepsClock, TunerXtal
    <3>8. Step(t, w) /\ (w.r = 0 => OnChip(w))
      BY <3>3, <3>5, <3>6 DEF Step, Keeps, Quiet, TunesAs
    <3> QED
      BY <3>7, <3>8
  <2> QED
    BY <2>1, <2>2
<1> HIDE DEF enabled, disabled
<1>3. /\ v \in Handle /\ Keeps(w, v) /\ v.failed = w.failed /\ v.direct_sampling = on
      /\ v.if_reg = w.if_reg /\ v.freq = w.freq /\ v.r = w.r /\ SameClocks(w, v)
  BY <1>2 DEF Step, Handle, Keeps, SameClocks
<1>4. v.freq \in Freqs \cup {0} /\ u \in SetCenterFreq(v, v.freq)
  BY <1>1, <1>3, FreqType
<1> HIDE DEF v
<1>5. Keeps(t, v) /\ Quiet(t, v) /\ SameRates(t, v) /\ (FoscGood(t) => FoscGood(v))
  BY <1>2, <1>3
     DEF Step, Keeps, Quiet, SameClocks, SameRates, FoscGood, KeepsClock, TunerXtal
<1> DEFINE f == v.freq
<1>6. f \in Freqs \cup {0} /\ u \in SetCenterFreq(v, f)
  BY <1>4
<1> HIDE DEF f
<1>7. /\ SameClocks(v, u) /\ u.offs_freq = v.offs_freq /\ (u.r = 0 => v.r = 0)
      /\ ClockKnown(v) => Clocked(u)
      /\ Rated(v) => Rated(u)
  BY <1>3, <1>6, CenterFreqClocks, CenterFreqClocked
<1>8. SameRates(t, u)
  BY <1>5, <1>7 DEF SameClocks, SameRates
<1>9. ClockKnown(t) => Clocked(u)
  BY <1>5, <1>7 DEF ClockKnown, SameRates, Quiet
<1>10. Rated(t) => Rated(u)
  BY <1>5, <1>7, SameRatesKeeps
<1>11. u.r = 0 => SoundOrKnown(u)
  <2>1. CASE IfSound(v)
    BY <1>3, <1>6, <2>1, CenterFreqSound
  <2>2. CASE v.offs_freq # 0
    BY <1>7, <2>2 DEF SoundOrKnown
  <2>3. CASE ~IfSound(v) /\ v.offs_freq = 0
    BY <1>2, <1>3, <1>5, <1>7, <2>3 DEF IfSound, IfWanted, Keeps
  <2> QED
    BY <2>1, <2>2, <2>3
<1> QED
  BY <1>8, <1>9, <1>10, <1>11

LEMMA DirectSamplingKept ==
  ASSUME NEW t \in Handle, NEW on \in {0, 1}, NEW u \in SetDirectSampling(t, on)
  PROVE  Kept(t, u)
BY DirectSamplingClocks DEF Kept, Clocked

\* New crystals reach the resampler and the tuner.
LEMMA XtalFreqKept ==
  ASSUME NEW t \in Handle, NEW rtl_freq \in Xtals, NEW tuner_freq \in Xtals,
         NEW u \in SetXtalFreq(t, rtl_freq, tuner_freq)
  PROVE  Kept(t, u)
<1> DEFINE rtl == [t EXCEPT !.rtl_xtal = rtl_freq]
           first == IF rtl_freq = 0 \/ t.rtl_xtal = rtl_freq THEN {t}
                    ELSE IF t.rate = 0 THEN {rtl} ELSE SetSampleRate(rtl, t.rate)
           tuner(w) == StoreClock([w EXCEPT !.tun_xtal =
                                     IF tuner_freq = 0 THEN w.rtl_xtal ELSE tuner_freq])
           second(w) == IF w.freq = 0 THEN {tuner(w)}
                        ELSE SetCenterFreq(Began(tuner(w)), w.freq)
           Between(w) == /\ w \in Handle /\ Step(t, w)
                         /\ Clocked(t) => Clocked(w)
                         /\ ExactRates /\ Rated(t) =>
                              Rated(w) /\ (TunesAs(t, w) \/ w.offs_freq # 0)
<1>1. CASE u = [t EXCEPT !.r = -1]
  BY <1>1, RefusedKept
<1>2. CASE u # [t EXCEPT !.r = -1]
  <2>0. /\ ~ (rtl_freq > 0 /\ rtl_freq \notin DEF_RTL_XTAL_FREQ - 1000 .. DEF_RTL_XTAL_FREQ + 1000)
        /\ \E w \in first : u \in IF w.tun_xtal = tuner_freq THEN {w} ELSE second(w)
    BY <1>2, SMTT(40) DEF SetXtalFreq
  <2>1. PICK w \in first : u = w \/ u \in second(w)
    BY <2>0
  <2>2. rtl_freq \in Nat /\ tuner_freq \in Nat
    OBVIOUS
  <2>3. rtl_freq = 0 \/ rtl_freq \in RtlClocks
    BY <2>0, <2>2 DEF RtlClocks
  <2>4. Step(t, t) /\ TunesAs(t, t)
    BY DEF Step, Keeps, Quiet, TunesAs
  <2>5. Between(w)
    <3>1. CASE w = t
      BY <2>4, <3>1
    <3>2. CASE w # t
      <4>1. /\ rtl \in Handle /\ Step(t, rtl) /\ TunesAs(t, rtl)
            /\ rtl.rtl_xtal = rtl_freq /\ rtl.rate = t.rate /\ rtl.corr = t.corr
            /\ rtl.ppm = t.ppm /\ rtl.tun_xtal = t.tun_xtal /\ rtl.fosc = t.fosc
        BY <2>2 DEF Handle, Step, Keeps, Quiet, TunesAs
      <4>2. rtl_freq \in RtlClocks /\ w \in IF t.rate = 0 THEN {rtl} ELSE SetSampleRate(rtl, t.rate)
        BY <2>3, <3>2
      <4> HIDE DEF rtl
      <4>3. Clocked(t) => Clocked(rtl)
        BY <4>1 DEF Clocked, ClockKnown, TunedByClock, FoscGood, KeepsClock, TunerXtal, Step,
                    Keeps, Quiet, TunesAs
      <4>4. RateKnown(t) => RateKnown(rtl)
        BY <4>1, <4>2 DEF RateKnown
      <4>5. CASE t.rate = 0
        <5>1. w = rtl
          BY <4>2, <4>5
        <5>2. Rated(t) => Rated(rtl)
          BY <4>1, <4>4, <4>5 DEF Rated, RateGood
        <5> QED
          BY <4>1, <4>3, <5>1, <5>2
      <4>6. CASE t.rate # 0
        <5>1. t.rate \in Nat /\ w \in SetSampleRate(rtl, t.rate)
          BY <4>2, <4>6 DEF Handle
        <5>2. w \in Handle /\ Step(t, w) /\ Step(rtl, w)
          <6>1. Step(rtl, w)
            BY <4>1, <5>1, SampleRateCall DEF Call1
          <6> QED
            BY <4>1, <6>1 DEF Step, Keeps, Quiet
        <5>3. CASE ValidRate(t.rate)
          <6>1. /\ Clocked(rtl) => Clocked(w)
                /\ ExactRates /\ RateKnown(rtl) /\ t.rate \in Rates =>
                     Rated(w) /\ (TunesAs(rtl, w) \/ w.offs_freq # 0)
            BY <4>1, <5>1, <5>3, SampleRateClocks
          <6>2. TunesAs(rtl, w) => TunesAs(t, w)
            BY <4>1 DEF TunesAs
          <6>3. Rated(t) => t.rate \in Rates /\ RateKnown(rtl)
            BY <4>4, <4>6 DEF Rated, RateKnown
          <6> QED
            BY <4>3, <5>2, <6>1, <6>2, <6>3
        <5>4. CASE ~ValidRate(t.rate)
          <6>1. w = [rtl EXCEPT !.r = -1]
            BY <5>1, <5>4 DEF SetSampleRate
          <6>2. Kept(rtl, w)
            BY <4>1, <6>1, RefusedKept
          <6>3. ~Rated(t)
            BY <4>6, <5>4 DEF Rated, RateKnown
          <6> QED
            BY <4>3, <5>2, <6>2, <6>3 DEF Kept
        <5> QED
          BY <5>3, <5>4
      <4> QED
        BY <4>5, <4>6
    <3> QED
      BY <3>1, <3>2
  <2>6. Sound(t) /\ TunesAs(t, w) => Sound(w)
    BY <2>5, SoundAsWas DEF Step
  <2>7. CASE u = w
    BY <2>5, <2>6, <2>7 DEF Kept, SoundOrKnown
  <2>8. CASE u \in second(w)
    <3> DEFINE xtal == IF tuner_freq = 0 THEN w.rtl_xtal ELSE tuner_freq
               x == [w EXCEPT !.tun_xtal = xtal]
               y == StoreClock(x)
               b == Began(y)
    <3>1. u \in IF w.freq = 0 THEN {y} ELSE SetCenterFreq(b, w.freq)
      BY <2>8
    <3>2. w \in Handle
      BY <2>5
    <3>3. xtal \in Nat
      BY <2>2, <3>2, Clocks
    <3> HIDE DEF xtal, first
    <3>4. /\ x \in Handle /\ Step(w, x) /\ TunesAs(w, x) /\ x.corr = w.corr /\ x.ppm = w.ppm
          /\ x.rtl_xtal = w.rtl_xtal /\ x.rate = w.rate /\ x.samp = w.samp
      BY <3>2, <3>3 DEF Handle, Step, Keeps, Quiet, TunesAs
    <3> HIDE DEF x
    <3>5. /\ y \in Handle /\ Step(x, y) /\ TunesAs(x, y) /\ y.fosc = TunerXtal(y)
          /\ y.corr = x.corr /\ y.ppm = x.ppm
          /\ y.rtl_xtal = x.rtl_xtal /\ y.rate = x.rate /\ y.samp = x.samp
      BY <3>4, StoreClockStep DEF StoreClock, TunerXtal, Handle, Step
    <3> HIDE DEF y
    <3>6. b \in Handle /\ Step(y, b) /\ TunesAs(y, b) /\ SameClocks(y, b)
      BY <3>5, BeganStep, ResultClocks DEF Step
    <3> HIDE DEF b
    <3>7. Step(w, y) /\ TunesAs(w, y) /\ Step(w, b) /\ TunesAs(w, b)
      BY <3>4, <3>5, <3>6 DEF Step, Keeps, Quiet, TunesAs
    <3>8. (ClockKnown(w) => ClockKnown(y)) /\ (Rated(w) => Rated(y))
      BY <3>4, <3>5, <3>7
         DEF ClockKnown, FoscGood, Rated, RateKnown, RateGood, Step, Quiet
    <3>9. (ClockKnown(w) => ClockKnown(b)) /\ (Rated(w) => Rated(b))
      BY <3>6, <3>8, SameClocksKeeps DEF Step
    <3>10. (Sound(w) => Sound(y)) /\ (Sound(w) => Sound(b))
      BY <3>7, SoundAsWas DEF Step
    <3>11. CASE w.freq = 0
      <4>1. u = y /\ y.freq = 0 /\ y.offs_freq = w.offs_freq
        BY <3>1, <3>7, <3>11 DEF TunesAs
      <4>2. TunedByClock(y)
        BY <4>1 DEF TunedByClock
      <4> QED
        BY <2>5, <2>6, <3>8, <3>10, <4>1, <4>2 DEF Kept, Clocked, SoundOrKnown
    <3>12. CASE w.freq # 0
      <4>1. u \in SetCenterFreq(b, w.freq) /\ w.freq \in Freqs \cup {0}
        BY <3>1, <3>2, <3>12, FreqType
      <4>2. /\ Kept(b, u) /\ (ClockKnown(b) => Clocked(u)) /\ u.offs_freq = b.offs_freq
        <5>1. Kept(b, u)
          BY <3>6, <4>1, CenterFreqKept
        <5>2. ClockKnown(b) => Clocked(u)
          BY <3>6, <4>1, CenterFreqClocked
        <5>3. u.offs_freq = b.offs_freq
          BY <3>6, <4>1, CenterFreqClocks
        <5> QED
          BY <5>1, <5>2, <5>3
      <4>3. b.offs_freq = w.offs_freq
        BY <3>7 DEF TunesAs
      <4> QED
        BY <2>5, <2>6, <3>9, <3>10, <4>2, <4>3 DEF Kept, Clocked, SoundOrKnown
    <3> QED
      BY <3>11, <3>12
  <2> QED
    BY <2>1, <2>7, <2>8
<1> QED
  BY <1>1, <1>2

LEMMA GainKept ==
  ASSUME NEW t \in Handle, NEW g \in Gains, NEW u \in SetTunerGain(t, g)
  PROVE  Kept(t, u)
<1>1. PICK v \in IF t.tuner_type \in {"UNKNOWN", "FC2580"} THEN {t} ELSE WriteAny(t) :
        u = [v EXCEPT !.gain = IF v.r = 0 THEN g ELSE 0]
  BY DEF SetTunerGain
<1>2. v \in Handle /\ Step(t, v) /\ TunesAs(t, v) /\ SameClocks(t, v)
  <2>1. CASE v = t
    BY <2>1 DEF Step, Keeps, Quiet, TunesAs, SameClocks
  <2>2. CASE v \in WriteAny(t)
    BY <2>2, WriteAnyStep, ResultClocks DEF Step
  <2> QED
    BY <1>1, <2>1, <2>2
<1> DEFINE gain == IF v.r = 0 THEN g ELSE 0
<1>3. u = [v EXCEPT !.gain = gain]
  BY <1>1
<1> HIDE DEF gain
<1>4. TunesAs(v, u) /\ SameClocks(v, u)
  BY <1>2, <1>3 DEF Handle, TunesAs, SameClocks
<1>5. TunesAs(t, u) /\ SameClocks(t, u)
  BY <1>2, <1>4, SameClocksTrans DEF TunesAs
<1> QED
  BY <1>5, GainCall, SameKept DEF Call1

LEMMA ProbeClocks ==
  ASSUME NEW t \in Handle, NEW u \in Probe(t)
  PROVE  /\ u.corr = t.corr /\ u.ppm = t.ppm /\ u.rtl_xtal = t.rtl_xtal /\ u.rate = t.rate
<1> DEFINE Found(chip, k) ==
      [t EXCEPT !.tuner_type = k,
                !.tun_xtal = IF k = "R828D" THEN R828D_XTAL_FREQ ELSE t.rtl_xtal,
                !.failed = IF k = chip THEN t.failed ELSE "yes"]
           kinds(chip) == IF chip = "UNKNOWN" THEN {"UNKNOWN"} ELSE {chip, "UNKNOWN"}
<1>1. u \in UNION {{Found(chip, k) : k \in kinds(chip)} : chip \in Chips}
  BY DEF Probe
<1>2. PICK chip \in Chips : \E k \in kinds(chip) : u = Found(chip, k)
  <2> HIDE DEF Found, kinds
  <2> QED
    BY <1>1
<1> QED
  BY <1>2 DEF Handle

\* The handle of a device that was opened.
LEMMA OpenedClocked ==
  ASSUME NEW active \in {"yes", "no"}, NEW u \in Fresh(active)
  PROVE  Clocked(u) /\ Rated(u)
<1> DEFINE z == [Zeroed EXCEPT !.driver_active = active]
           Blank(t) == /\ t.failed = "no" => t.ppm = Is(t.corr)
                       /\ t.rtl_xtal = DEF_RTL_XTAL_FREQ /\ t.rate = 0
           Alike(t, v) == /\ v.corr = t.corr /\ v.ppm = t.ppm
                          /\ v.rtl_xtal = t.rtl_xtal /\ v.rate = t.rate
<1>0. ASSUME NEW t, NEW v, Quiet(t, v), Alike(t, v), Blank(t) PROVE Blank(v)
  BY <1>0 DEF Quiet
<1>1. z \in Handle /\ Blank(z) /\ z.direct_sampling = 0 /\ z.offs_freq = 0 /\ z.freq = 0
  BY ZeroedType DEF Handle, Zeroed
<1> HIDE DEF Blank
<1>2. PICK b \in InitBaseband(z) : u \in
        UNION {{Began(i) : i \in TunerInit(t)} : t \in UNION {SetUp(p) : p \in Probe(b)}}
  BY DEF Fresh
<1>3. PICK p \in Probe(b) : u \in UNION {{Began(i) : i \in TunerInit(t)} : t \in SetUp(p)}
  BY <1>2
<1>4. PICK t \in SetUp(p) : u \in {Began(i) : i \in TunerInit(t)}
  BY <1>3
<1>5. PICK i \in TunerInit(t) : u = Began(i)
  BY <1>4
<1> HIDE DEF z
<1>6. b \in Handle /\ Untuned(b) /\ Quiet(z, b) /\ Alike(z, b)
  <2>1. b \in SetIfFreq(z, 0)
    BY DEF InitBaseband, SetIfFreq
  <2> QED
    BY <1>1, <2>1, SetIfFreqStep, SetIfFreqClocks DEF Step, Untuned, SameClocks
<1>7. p \in Handle /\ Untuned(p) /\ Quiet(b, p) /\ Alike(b, p)
  BY <1>6, ProbeStep, ProbeClocks DEF Untuned, Quiet, TunesAs
<1>8. Blank(p)
  BY <1>0, <1>1, <1>6, <1>7
<1>9. Step(p, t) /\ (HasTuner(p) /\ t.failed = "no" => t.freq = 0)
  BY <1>7, SetUpGood
<1>10. Alike(p, t) /\ (~HasTuner(p) => Clocked(t))
  <2>1. CASE p.tuner_type \in R82XX
    <3>1. PICK v \in SetIfFreq(p, R82XX_IF_FREQ) : t \in WriteAny(v)
      <4>1. SetUp(p) = UNION {WriteAny(v) : v \in SetIfFreq(p, R82XX_IF_FREQ)}
        BY <2>1 DEF SetUp, R82XX
      <4> QED
        BY <4>1
    <3>2. R82XX_IF_FREQ \in Int
      BY DEF R82XX_IF_FREQ
    <3>3. SameClocks(p, v) /\ v \in Handle
      BY <1>7, <3>1, <3>2, SetIfFreqStep, SetIfFreqClocks DEF Step
    <3>4. SameClocks(v, t)
      BY <3>1, <3>3, ResultClocks
    <3> QED
      BY <2>1, <3>3, <3>4 DEF SameClocks, HasTuner, R82XX
  <2>2. CASE p.tuner_type = "UNKNOWN"
    <3>1. t \in SetDirectSampling(p, 1)
      BY <2>2 DEF SetUp, R82XX
    <3>2. ClockKnown(p)
      BY <1>8, <2>2 DEF ClockKnown, FoscGood, KeepsClock, R82XX, Blank
    <3> QED
      BY <1>7, <3>1, <3>2, DirectSamplingClocks DEF SameRates
  <2>3. CASE p.tuner_type \notin R82XX /\ p.tuner_type # "UNKNOWN"
    <3>1. t = p
      BY <2>3 DEF SetUp
    <3> QED
      BY <2>3, <3>1 DEF HasTuner
  <2> QED
    BY <2>1, <2>2, <2>3
<1>11. /\ Step(t, i) /\ i.freq = t.freq /\ Alike(t, i) /\ FoscGood(i)
       /\ ~HasTuner(t) => i = t
  BY <1>9, TunerInitStep, TunerInitClocks DEF Step, SameRates, TunerInit
<1>12. Blank(i)
  BY <1>0, <1>8, <1>9, <1>10, <1>11 DEF Step
<1>13. Clocked(i) /\ Rated(i)
  <2>1. HasTuner(t) = HasTuner(p)
    BY <1>9 DEF Step, Keeps, HasTuner
  <2>2. ClockKnown(i)
    BY <1>11, <1>12 DEF ClockKnown, Blank
  <2>3. TunedByClock(i)
    BY <1>9, <1>10, <1>11, <2>1 DEF TunedByClock, Clocked, Step, Quiet
  <2>4. Rated(i)
    BY <1>12 DEF Blank, Rated, RateKnown, RateGood, RtlClocks
  <2> QED
    BY <2>2, <2>3, <2>4 DEF Clocked
<1>14. Step(i, u) /\ TunesAs(i, u) /\ SameClocks(i, u)
  BY <1>5, <1>11, BeganStep, ResultClocks DEF Step
<1> QED
  BY <1>13, <1>14, SameClocksKeeps DEF Clocked, Step

-----------------------------------------------------------------------------
(* The specification.                                                      *)

HandleInv == s \in Handle /\ (opened = "yes" => Good(s))

\* A driver that was detached is known to the handle, or to a failure.
LifeInv ==
  /\ opened \in {"yes", "no"} /\ driver \in {"bound", "free", "none"}
  /\ handles \in Nat /\ leaked \in Nat /\ attach \in {"fine", "failed"}
  /\ handles = leaked + (IF opened = "yes" THEN 1 ELSE 0)
  /\ driver = "free" /\ leaked = 0 /\ attach = "fine"
       => opened = "yes" /\ s.driver_active = "yes"

IInv == HandleInv /\ LifeInv

\* A handle that does not exist.
LEMMA NoHandle ==
  ASSUME NEW r \in {0, -1} PROVE [Zeroed EXCEPT !.r = r] \in Handle
BY ZeroedType DEF Handle

LEMMA ConfigureStep ==
  ASSUME IInv, Configure
  PROVE  opened = "yes" /\ UNCHANGED life /\ Call1(Began(s), s')
<1> DEFINE b == Began(s)
<1>1. b \in Handle
  BY BeganStep DEF IInv, HandleInv, Step
<1> HIDE DEF b
<1>2. ASSUME NEW f \in Freqs, CenterFreq(f) PROVE opened = "yes" /\ UNCHANGED life /\ Call1(b, s')
  BY <1>1, <1>2, CenterFreqCall DEF CenterFreq, Call, b
<1>3. ASSUME NEW ppm \in Corrs, FreqCorrection(ppm)
      PROVE  opened = "yes" /\ UNCHANGED life /\ Call1(b, s')
  BY <1>1, <1>3, FreqCorrectionCall DEF FreqCorrection, Call, b
<1>4. ASSUME NEW rate \in Rates, SampleRate(rate)
      PROVE  opened = "yes" /\ UNCHANGED life /\ Call1(b, s')
  <2>1. rate \in Nat
    OBVIOUS
  <2> QED
    BY <1>1, <1>4, <2>1, SampleRateCall DEF SampleRate, Call, b
<1>5. ASSUME NEW on \in {0, 1}, DirectSampling(on)
      PROVE  opened = "yes" /\ UNCHANGED life /\ Call1(b, s')
  BY <1>1, <1>5, DirectSamplingCall DEF DirectSampling, Call, Call1, b
<1>6. ASSUME NEW on \in BOOLEAN, OffsetTuning(on)
      PROVE  opened = "yes" /\ UNCHANGED life /\ Call1(b, s')
  BY <1>1, <1>6, OffsetTuningCall DEF OffsetTuning, Call, b
<1>7. ASSUME NEW rtl \in Xtals, NEW tuner \in Xtals, XtalFreq(rtl, tuner)
      PROVE  opened = "yes" /\ UNCHANGED life /\ Call1(b, s')
  BY <1>1, <1>7, XtalFreqCall DEF XtalFreq, Call, b
<1>8. ASSUME NEW g \in Gains, TunerGain(g) PROVE opened = "yes" /\ UNCHANGED life /\ Call1(b, s')
  BY <1>1, <1>8, GainCall DEF TunerGain, Call, b
<1>9. ASSUME Other PROVE opened = "yes" /\ UNCHANGED life /\ Call1(b, s')
  BY <1>1, <1>9, WriteAnyStep, SameGood DEF Other, Call, SetOther, b
<1> QED
  BY <1>2, <1>3, <1>4, <1>5, <1>6, <1>7, <1>8, <1>9 DEF Configure, b

LEMMA HandleStep == ASSUME IInv, [Next]_vars PROVE HandleInv'
<1> USE DEF HandleInv, IInv, life
<1>1. CASE Open
  <2>1. opened' = "yes" /\ s' \in Fresh(IF driver = "bound" THEN "yes" ELSE "no")
    BY <1>1 DEF Open
  <2> QED
    BY <2>1, Opened
<1>2. CASE OpenFails(-1)
  BY <1>2, NoHandle DEF OpenFails
<1>3. CASE DetachFails \/ ClaimFails
  BY <1>3, NoHandle DEF DetachFails, ClaimFails, OpenLeaks
<1>4. CASE Close
  BY <1>4, ZeroedType DEF Close
<1>5. CASE Configure
  <2>1. opened = "yes" /\ Call1(Began(s), s') /\ Call1(s, Began(s))
    BY <1>5, ConfigureStep, BeganStep, SameGood
  <2> QED
    BY <2>1 DEF Call1, Step
<1>6. CASE UNCHANGED vars
  BY <1>6 DEF vars
<1> QED
  BY <1>1, <1>2, <1>3, <1>4, <1>5, <1>6 DEF Next

LEMMA LifeStep == ASSUME IInv, [Next]_vars PROVE LifeInv'
<1> USE DEF LifeInv, IInv, life
<1>1. CASE Open
  <2>1. s'.driver_active = IF driver = "bound" THEN "yes" ELSE "no"
    BY <1>1, Opened DEF Open
  <2> QED
    BY <1>1, <2>1 DEF Open, Detached
<1>2. CASE OpenFails(-1)
  BY <1>2 DEF OpenFails
<1>3. CASE DetachFails \/ ClaimFails
  BY <1>3 DEF DetachFails, ClaimFails, OpenLeaks, Detached
<1>4. CASE Close
  BY <1>4 DEF Close
<1>5. CASE Configure
  <2>1. opened = "yes" /\ UNCHANGED life /\ Call1(Began(s), s') /\ Call1(s, Began(s))
    BY <1>5, ConfigureStep, BeganStep, SameGood DEF HandleInv
  <2>2. s'.driver_active = s.driver_active
    BY <2>1 DEF Call1, Step, Keeps
  <2> QED
    BY <2>1, <2>2
<1>6. CASE UNCHANGED vars
  BY <1>6 DEF vars
<1> QED
  BY <1>1, <1>2, <1>3, <1>4, <1>5, <1>6 DEF Next

LEMMA InvInductive == Spec => []IInv
<1>1. Init => IInv
  BY ZeroedType DEF Init, IInv, HandleInv, LifeInv
<1>2. IInv /\ [Next]_vars => IInv'
  BY HandleStep, LifeStep DEF IInv
<1> QED
  BY <1>1, <1>2, PTL DEF Spec

(***************************************************************************)
(* The fields of a handle keep their types: freq and corr only ever hold   *)
(* what was asked for, or 0, and the offset is not negative.               *)
(***************************************************************************)
THEOREM TypeCorrect == Spec => []TypeOK
<1>1. IInv => TypeOK
  BY DEF IInv, HandleInv, LifeInv, Handle, TypeOK
<1> QED
  BY <1>1, InvInductive, PTL

(***************************************************************************)
(* As long as no transfer has failed, the samples are around the center    *)
(* frequency that is reported, for all frequencies, rates, corrections,    *)
(* crystals and tuners, but for offset tuning below the offset or after    *)
(* direct sampling.                                                        *)
(***************************************************************************)
THEOREM TunedWhereReported == Spec => []TunedUnlessDisplaced
<1>1. ASSUME IInv, opened = "yes", s.failed = "no", s.freq # 0
      PROVE  (Known(s) /\ Received(s) = s.freq) \/ Displaced(s)
  <2>1. IfGood(s) /\ LoGood(s) /\ s \in Handle
    BY <1>1 DEF IInv, HandleInv, Good
  <2>2. s.freq \in Nat /\ s.offs_freq \in Nat /\ s.direct_sampling \in {0, 1}
    BY <2>1, FreqType, FreqsAreInt DEF Handle
  <2>3. CASE s.direct_sampling # 0
    BY <1>1, <2>1, <2>3 DEF IfGood, LoGood, Known, Received
  <2>4. CASE s.direct_sampling = 0 /\ s.tuner_type \in R82XX
    <3>1. /\ s.if_reg.kind = "is" /\ s.lo.kind = "is" /\ s.offs_freq = 0
          /\ s.if_reg.val.freq = R82XX_IF_FREQ /\ s.lo.val.freq = s.freq - s.offs_freq
      BY <1>1, <2>1, <2>4 DEF IfGood, LoGood
    <3> QED
      BY <2>2, <2>4, <3>1 DEF Known, Received, R82XX_IF_FREQ
  <2>5. CASE s.direct_sampling = 0 /\ s.tuner_type \notin R82XX
    <3>1. /\ s.if_reg.kind = "is" /\ s.lo.kind = "is"
          /\ s.if_reg.val.freq = 0 \/ s.if_reg.val.freq = s.offs_freq
          /\ \/ s.lo.val.freq = s.freq - s.offs_freq
             \/ s.offs_freq # 0 /\ s.freq <= s.offs_freq
      BY <1>1, <2>1, <2>5 DEF IfGood, LoGood
    <3>2. CASE s.offs_freq # 0 /\ (s.freq <= s.offs_freq \/ s.if_reg.val.freq = 0)
      BY <2>5, <3>2 DEF Displaced
    <3>3. CASE s.lo.val.freq = s.freq - s.offs_freq /\ s.if_reg.val.freq = s.offs_freq
      BY <2>2, <2>5, <3>1, <3>3 DEF Known, Received
    <3> QED
      BY <3>1, <3>2, <3>3
  <2> QED
    BY <2>2, <2>3, <2>4, <2>5
<1>2. IInv => TunedUnlessDisplaced
  BY <1>1 DEF TunedUnlessDisplaced, Tuned
<1> QED
  BY <1>2, InvInductive, PTL

(***************************************************************************)
(* Closing gives back the USB handle, and the kernel driver it displaced,  *)
(* whatever the calls before it did.                                       *)
(***************************************************************************)
THEOREM ClosingGivesBack == Spec => []ClosedGivesBack
<1>1. IInv => ClosedGivesBack
  BY DEF IInv, LifeInv, ClosedGivesBack
<1> QED
  BY <1>1, InvInductive, PTL

-----------------------------------------------------------------------------
(* The clocks, and calls that report success.                              *)

ClockInv == IInv /\ (opened = "yes" => Clocked(s))
RateInv == IInv /\ (opened = "yes" => Rated(s))

LEMMA ConfigureKept ==
  ASSUME IInv, Configure
  PROVE  Kept(Began(s), s')
<1> DEFINE b == Began(s)
<1>1. b \in Handle
  BY BeganStep DEF IInv, HandleInv, Step
<1> HIDE DEF b
<1>2. ASSUME NEW f \in Freqs, CenterFreq(f) PROVE Kept(b, s')
  BY <1>1, <1>2, CenterFreqKept DEF CenterFreq, Call, b
<1>3. ASSUME NEW ppm \in Corrs, FreqCorrection(ppm) PROVE Kept(b, s')
  BY <1>1, <1>3, FreqCorrectionKept DEF FreqCorrection, Call, b
<1>4. ASSUME NEW rate \in Rates, SampleRate(rate) PROVE Kept(b, s')
  BY <1>1, <1>4, SampleRateKept DEF SampleRate, Call, b
<1>5. ASSUME NEW on \in {0, 1}, DirectSampling(on) PROVE Kept(b, s')
  BY <1>1, <1>5, DirectSamplingKept DEF DirectSampling, Call, b
<1>6. ASSUME NEW on \in BOOLEAN, OffsetTuning(on) PROVE Kept(b, s')
  BY <1>1, <1>6, OffsetTuningKept DEF OffsetTuning, Call, b
<1>7. ASSUME NEW rtl \in Xtals, NEW tuner \in Xtals, XtalFreq(rtl, tuner) PROVE Kept(b, s')
  BY <1>1, <1>7, XtalFreqKept DEF XtalFreq, Call, b
<1>8. ASSUME NEW g \in Gains, TunerGain(g) PROVE Kept(b, s')
  BY <1>1, <1>8, GainKept DEF TunerGain, Call, b
<1>9. ASSUME Other PROVE Kept(b, s')
  <2>1. s' \in WriteAny(b)
    BY <1>9 DEF Other, Call, SetOther, b
  <2> QED
    BY <1>1, <2>1, WriteAnyStep, ResultClocks, SameKept
<1> QED
  BY <1>2, <1>3, <1>4, <1>5, <1>6, <1>7, <1>8, <1>9 DEF Configure, b

\* What a call begins with.
LEMMA CallBegins ==
  ASSUME IInv
  PROVE  /\ Clocked(s) => Clocked(Began(s))
         /\ Rated(s) => Rated(Began(s))
         /\ Sound(s) => Sound(Began(s))
<1>1. Step(s, Began(s)) /\ TunesAs(s, Began(s)) /\ SameClocks(s, Began(s))
  BY BeganStep, ResultClocks DEF IInv, HandleInv
<1> QED
  BY <1>1, SameClocksKeeps, SoundAsWas DEF Step, Clocked

LEMMA ClocksKept ==
  ASSUME IInv, [Next]_vars
  PROVE  /\ (opened = "yes" => Clocked(s)) => (opened = "yes" => Clocked(s))'
         /\ ExactRates /\ (opened = "yes" => Rated(s)) => (opened = "yes" => Rated(s))'
<1>1. CASE Open
  <2>1. opened' = "yes" /\ s' \in Fresh(IF driver = "bound" THEN "yes" ELSE "no")
    BY <1>1 DEF Open
  <2>2. Clocked(s') /\ Rated(s')
    BY <2>1, OpenedClocked
  <2>3. (Clocked(s))' /\ (Rated(s))'
    BY <2>2
       DEF Clocked, ClockKnown, FoscGood, TunedByClock, KeepsClock, TunerXtal,
           Rated, RateKnown, RateGood
  <2> QED
    BY <2>3
<1>2. CASE OpenFails(-1) \/ DetachFails \/ ClaimFails \/ Close
  <2>1. opened' = "no"
    BY <1>2 DEF OpenFails, DetachFails, ClaimFails, OpenLeaks, Close, life
  <2> QED
    BY <2>1
<1>3. CASE Configure
  <2>1. opened = "yes" /\ opened' = "yes"
    BY <1>3, ConfigureStep DEF life
  <2>2. Kept(Began(s), s')
    BY <1>3, ConfigureKept
  <2>3. (Clocked(s) => Clocked(s')) /\ (ExactRates /\ Rated(s) => Rated(s'))
    BY <2>2, CallBegins DEF Kept
  <2> QED
    BY <2>1, <2>3
       DEF Clocked, ClockKnown, FoscGood, TunedByClock, KeepsClock, TunerXtal,
           Rated, RateKnown, RateGood
<1>4. CASE UNCHANGED vars
  BY <1>4
     DEF vars, life, Clocked, ClockKnown, FoscGood, TunedByClock, KeepsClock, TunerXtal,
         Rated, RateKnown, RateGood
<1> QED
  BY <1>1, <1>2, <1>3, <1>4 DEF Next

LEMMA ClockInductive == Spec => []ClockInv
<1>1. Init => ClockInv
  BY ZeroedType DEF Init, IInv, HandleInv, LifeInv, ClockInv
<1>2. ClockInv /\ [Next]_vars => ClockInv'
  BY HandleStep, LifeStep, ClocksKept DEF IInv, ClockInv
<1> QED
  BY <1>1, <1>2, PTL DEF Spec

(***************************************************************************)
(* The correction and the tuner's crystal that were set last are those the *)
(* chips work with, whatever they are and in whatever order and between    *)
(* whatever other calls they were set.                                     *)
(***************************************************************************)
THEOREM CorrectionReachesChips == Spec => []CorrectionApplied
<1>1. ClockInv => CorrectionApplied
  BY DEF ClockInv, Clocked, ClockKnown, TunedByClock, CorrectionApplied
<1> QED
  BY <1>1, ClockInductive, PTL

(***************************************************************************)
(* So does the rate, if the ratios fit the register.  They need not: a     *)
(* crystal of 28800128 Hz and a rate of 225001 Hz make a ratio of 0, and   *)
(* the rate that is stored is computed back from the ratio.                *)
(***************************************************************************)
THEOREM ClocksReachChips == ASSUME RatesInReach PROVE Spec => []ClocksApplied
<1>1. Init => RateInv
  BY ZeroedType DEF Init, IInv, HandleInv, LifeInv, RateInv
<1>2. RateInv /\ [Next]_vars => RateInv'
  BY ReachIsExact, HandleStep, LifeStep, ClocksKept DEF IInv, RateInv
<1>3. RateInv => RateApplied
  BY DEF RateInv, Rated, RateKnown, RateGood, RateApplied
<1> QED
  BY <1>1, <1>2, <1>3, CorrectionReachesChips, PTL DEF Spec, ClocksApplied

(***************************************************************************)
(* A call that reports success leaves a device that was sound so, even if  *)
(* transfers failed before it, but for offset tuning and for a tuner that  *)
(* hides that it did not lock.                                             *)
(***************************************************************************)
THEOREM SuccessIsSound == ASSUME RatesInReach PROVE Spec => SuccessKeepsSound
<1>1. Init => RateInv
  BY ZeroedType DEF Init, IInv, HandleInv, LifeInv, RateInv
<1>2. RateInv /\ [Next]_vars => RateInv'
  BY ReachIsExact, HandleStep, LifeStep, ClocksKept DEF IInv, RateInv
<1> DEFINE A == opened = "yes" /\ opened' = "yes" /\ Sound(s) /\ s'.r = 0
                  => Sound(s') \/ s'.offs_freq # 0 \/ s'.lo = Unlocked
<1>3. RateInv /\ [Next]_vars => [A]_vars
  <2> SUFFICES ASSUME RateInv, Next, opened = "yes", opened' = "yes", Sound(s), s'.r = 0
               PROVE  Sound(s') \/ s'.offs_freq # 0 \/ s'.lo = Unlocked
    OBVIOUS
  <2>1. Configure
    BY DEF Next, Open, OpenFails, DetachFails, ClaimFails, OpenLeaks, Close
  <2>2. Kept(Began(s), s') /\ Rated(Began(s)) /\ Sound(Began(s))
    BY <2>1, ConfigureKept, CallBegins DEF RateInv
  <2> QED
    BY <2>2, ReachIsExact DEF Kept, SoundOrKnown
<1> QED
  BY <1>1, <1>2, <1>3, PTL DEF Spec, SuccessKeepsSound

(***************************************************************************)
(* With the crystal that the sticks have, both are true of all rates.      *)
(***************************************************************************)
THEOREM DefaultCrystalIsSound ==
  ASSUME DefaultCrystal PROVE Spec => []ClocksApplied /\ SuccessKeepsSound
BY DefaultInReach, ClocksReachChips, SuccessIsSound
=============================================================================
