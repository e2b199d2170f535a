------------------------------- MODULE Device -------------------------------
(***************************************************************************)
(* The device handle of librtlsdr.c: opening, configuring and closing it.  *)
(*                                                                         *)
(* s holds the fields of rtlsdr_dev_t and what the chips were last told:   *)
(* lo, the tuner's oscillator; if_reg, the digital down-converter; samp    *)
(* and ppm, the resampler.  Every transfer may fail, which leaves what it  *)
(* writes Torn.  A function of the library is an operator from a state to  *)
(* the set of its outcomes; the field r is its result, 0 or -1 for any error.*)
(***************************************************************************)
EXTENDS Integers

CONSTANTS
  Freqs,       \* center frequencies asked for, in Hz
  Rates,       \* sample rates asked for, in Hz
  Corrs,       \* corrections asked for, in ppm
  Gains,       \* gains asked for, in tenths of a dB
  Xtals,       \* crystal frequencies asked for, in Hz; 0 keeps the one in use
  Chips,       \* the tuners that may be on the board
  MaxHandles   \* bound on the USB handles open at a time

ZeroIF == {"E4000", "FC0012", "FC0013", "FC2580"}
R82XX  == {"R820T", "R828D"}
Tuners == ZeroIF \cup R82XX \cup {"UNKNOWN"}

ASSUME DeviceAssumption ==
  /\ Freqs \subseteq Nat \ {0} /\ Rates \subseteq Nat
  /\ Corrs \subseteq Int /\ Gains \subseteq Int
  /\ Xtals \subseteq Nat /\ Chips \subseteq Tuners /\ MaxHandles \in Nat

DEF_RTL_XTAL_FREQ == 28800000
R828D_XTAL_FREQ   == 16000000
R82XX_IF_FREQ     == 3570000

(* What a chip holds: a value, or one of three reasons for having none.    *)
Is(v)    == [kind |-> "is", val |-> v]
Torn     == [kind |-> "torn"]        \* a transfer failed and was reported
Unlocked == [kind |-> "unlocked"]    \* the tuner failed and said nothing
Off      == [kind |-> "off"]         \* the tuner is not tuned
At(freq, xtal, corr) == [freq |-> freq, xtal |-> xtal, corr |-> corr]

Fail(s) == [s EXCEPT !.r = -1, !.failed = "yes"]
Began(s) == [s EXCEPT !.r = 0]
\* A call whose result the caller throws away.
Ignored(s, outcomes) == {[t EXCEPT !.r = s.r] : t \in outcomes}

\* A write to registers of the chips: done, or failed half way.
Write(s, reg, v) == {[s EXCEPT ![reg] = Is(v)], [Fail(s) EXCEPT ![reg] = Torn]}
\* A write to registers that no property tells apart.
WriteAny(s) == {s, Fail(s)}

-----------------------------------------------------------------------------
(* The table of the tuners: what their functions do to the state.          *)

HasTuner(s) == s.tuner_type # "UNKNOWN"
\* These two read the corrected clock at times and keep it; the others ask
\* rtlsdr_get_tuner_clock whenever they tune.
KeepsClock(s) == s.tuner_type \in {"E4000"} \cup R82XX

\* rtlsdr_get_xtal_freq for the tuner.
TunerXtal(s) == [xtal |-> s.tun_xtal, corr |-> s.corr]
StoreClock(s) == [s EXCEPT !.fosc = TunerXtal(s)]
ClockUsed(s) == IF KeepsClock(s) THEN s.fosc ELSE TunerXtal(s)

TunerInit(s) ==
  IF ~HasTuner(s) THEN {s}
  ELSE LET c == IF KeepsClock(s) THEN StoreClock(s) ELSE s
       IN {[c EXCEPT !.lo = Off], [Fail(c) EXCEPT !.lo = Torn]}

TunerExit(s) ==
  IF KeepsClock(s) THEN {[s EXCEPT !.lo = Off], [Fail(s) EXCEPT !.lo = Torn]}
  ELSE {s}

\* A PLL that does not lock and writes whose result is dropped make a
\* frequency that was not set look like success.
TunerSetFreq(s, freq) ==
  LET c == ClockUsed(s) IN
  IF ~HasTuner(s) THEN {[s EXCEPT !.r = -1]}
  ELSE Write(s, "lo", At(freq, c.xtal, c.corr))
       \cup {[s EXCEPT !.lo = Unlocked, !.failed = "yes"]}

-----------------------------------------------------------------------------
(* Configuration.                                                          *)

SetIfFreq(s, freq) == Write(s, "if_reg", At(freq, s.rtl_xtal, s.corr))

SetSampleFreqCorrection(s, ppm) == Write(s, "ppm", ppm)

\* The result of tuning decides on freq, and joins those of the caller.
SetCenterFreq(s, freq) ==
  LET tuned == IF s.direct_sampling # 0 THEN SetIfFreq(Began(s), freq)
               ELSE TunerSetFreq(Began(s), freq - s.offs_freq)
  IN {[t EXCEPT !.freq = IF t.r = 0 THEN freq ELSE 0,
                !.r    = IF s.r = 0 THEN t.r ELSE s.r] : t \in tuned}

Retune(s) == IF s.freq = 0 THEN {s} ELSE SetCenterFreq(s, s.freq)

\* Mutant of SetFreqCorrection: retunes before the tuner has the new clock.
SetFreqCorrectionLate(s, ppm) ==
  IF s.corr = ppm THEN {[s EXCEPT !.r = -1]}
  ELSE UNION {{StoreClock(u) : u \in Retune(t)} :
              t \in SetSampleFreqCorrection([s EXCEPT !.corr = ppm], ppm)}

SetFreqCorrection(s, ppm) ==
  IF s.corr = ppm THEN {[s EXCEPT !.r = -1]}
  ELSE UNION {Retune(StoreClock(t)) :
              t \in SetSampleFreqCorrection([s EXCEPT !.corr = ppm], ppm)}

IfOffset(rate) == ((rate \div 2) * 170) \div 100

\* Mutant of SetOffsetTuning: the result for the down-converter is dropped.
SetOffsetTuningDrops(s, on) ==
  IF s.tuner_type \in R82XX THEN {[s EXCEPT !.r = -1]}
  ELSE IF s.direct_sampling # 0 THEN {[s EXCEPT !.r = -1]}
  ELSE LET a == [s EXCEPT !.offs_freq = IF on THEN IfOffset(s.rate) ELSE 0]
       IN UNION {IF t.freq > t.offs_freq THEN SetCenterFreq(t, t.freq) ELSE {t} :
                 t \in Ignored(a, SetIfFreq(a, a.offs_freq))}

SetOffsetTuning(s, on) ==
  IF s.tuner_type \in R82XX THEN {[s EXCEPT !.r = -1]}
  ELSE IF s.direct_sampling # 0 THEN {[s EXCEPT !.r = -1]}
  ELSE LET a == [s EXCEPT !.offs_freq = IF on THEN IfOffset(s.rate) ELSE 0]
       IN UNION {IF t.freq > t.offs_freq THEN SetCenterFreq(t, t.freq) ELSE {t} :
                 t \in SetIfFreq(a, a.offs_freq)}

\* a * 2^20 / b by long division, four bits at a time: nothing passes 2^31.
FourBits(q, b) == <<16 * q[1] + (16 * q[2]) \div b, (16 * q[2]) % b>>
DivShifted(a, b) ==
  FourBits(FourBits(FourBits(FourBits(FourBits(<<a \div b, a % b>>, b), b), b), b), b)[1]

ValidRate(rate) ==
  /\ ~(rate <= 225000 \/ rate > 3200000)
  /\ ~(rate > 300000 /\ rate <= 900000)

\* xtal * 2^22 / rate.  The ratio loses bit 28 and its two lowest bits in the
\* register; the real ratio takes bit 28 from bit 27.  A quotient by 0, which
\* is infinite, is converted to 0.
RsampRatio(xtal, rate) ==
  LET ratio == DivShifted(4 * xtal, rate) % (2^28) IN ratio - (ratio % 4)
RealRate(xtal, ratio) ==
  LET real == IF ratio >= 2^27 THEN ratio + 2^28 ELSE ratio
  IN IF ratio = 0 THEN 0 ELSE DivShifted(xtal, real \div 4)

\* The result of setting the offset again is dropped.
SetSampleRate(s, rate) ==
  LET ratio == RsampRatio(s.rtl_xtal, rate)
      a == [s EXCEPT !.rate = RealRate(s.rtl_xtal, ratio)]
      done == UNION {UNION {WriteAny(u) : u \in SetSampleFreqCorrection(t, t.corr)} :
                     t \in Write(a, "samp", ratio)}
  IN IF ~ValidRate(rate) THEN {[s EXCEPT !.r = -1]}
     ELSE IF s.offs_freq = 0 THEN done
     ELSE UNION {Ignored(t, SetOffsetTuning(t, TRUE)) : t \in done}

\* Mutant of SetDirectSampling: the frequency is not set again.
SetDirectSamplingStays(s, on) ==
  LET enabled == UNION {WriteAny(t) : t \in TunerExit(s)}
      if_freq == IF s.tuner_type \in R82XX THEN R82XX_IF_FREQ ELSE 0
      disabled == UNION {UNION {WriteAny(u) : u \in SetIfFreq(t, if_freq)} :
                         t \in TunerInit(s)}
  IN {[t EXCEPT !.direct_sampling = on] : t \in IF on # 0 THEN enabled ELSE disabled}

SetDirectSampling(s, on) ==
  LET enabled == UNION {WriteAny(t) : t \in TunerExit(s)}
      if_freq == IF s.tuner_type \in R82XX THEN R82XX_IF_FREQ ELSE 0
      disabled == UNION {UNION {WriteAny(u) : u \in SetIfFreq(t, if_freq)} :
                         t \in TunerInit(s)}
  IN UNION {SetCenterFreq([t EXCEPT !.direct_sampling = on], t.freq) :
            t \in IF on # 0 THEN enabled ELSE disabled}

\* The second part replaces the result of the first.
SetXtalFreq(s, rtl_freq, tuner_freq) ==
  LET rtl == [s EXCEPT !.rtl_xtal = rtl_freq]
      first == IF rtl_freq = 0 \/ s.rtl_xtal = rtl_freq THEN {s}
               ELSE IF s.rate = 0 THEN {rtl} ELSE SetSampleRate(rtl, s.rate)
      tuner(t) == StoreClock([t EXCEPT !.tun_xtal =
                                IF tuner_freq = 0 THEN t.rtl_xtal ELSE tuner_freq])
      second(t) == IF t.freq = 0 THEN {tuner(t)}
                   ELSE SetCenterFreq(Began(tuner(t)), t.freq)
  IN IF rtl_freq > 0 /\ rtl_freq \notin DEF_RTL_XTAL_FREQ - 1000 .. DEF_RTL_XTAL_FREQ + 1000
     THEN {[s EXCEPT !.r = -1]}
     ELSE UNION {IF t.tun_xtal = tuner_freq THEN {t} ELSE second(t) : t \in first}

\* The FC2580 has no gain to set; any other tuner may refuse.
SetTunerGain(s, gain) ==
  {[t EXCEPT !.gain = IF t.r = 0 THEN gain ELSE 0] :
   t \in IF s.tuner_type \in {"UNKNOWN", "FC2580"} THEN {s} ELSE WriteAny(s)}

\* Gain mode, the gain of one of the E4000's stages, the counter instead of
\* samples, the digital AGC: registers only.
SetOther(s) == WriteAny(s)
=============================================================================
