----------------------------- MODULE DeviceLife -----------------------------
(***************************************************************************)
(* The life of one device of librtlsdr.c, in sessions: rtlsdr_open, calls  *)
(* that configure it (Device), rtlsdr_close.  Around the handle are what   *)
(* the system keeps of the dongle, its kernel driver and the USB handles   *)
(* that are open.  Streaming is AsyncRead's.                               *)
(***************************************************************************)
EXTENDS Device

VARIABLES
  s,          \* the handle (Device), Zeroed when there is none
  opened,     \* "yes" when the program has a handle
  driver,     \* the kernel driver: "bound", "free", or "none" was ever there
  handles,    \* USB handles open
  leaked,     \* those of them that a failed rtlsdr_open left behind
  attach      \* "failed" when a kernel driver could not be given back

life == <<opened, driver, handles, leaked, attach>>
vars == <<s, life>>

\* malloc and memset, and the crystal.
Zeroed ==
  [tuner_type |-> "UNKNOWN", freq |-> 0, offs_freq |-> 0, corr |-> 0, rate |-> 0,
   direct_sampling |-> 0, gain |-> 0, rtl_xtal |-> DEF_RTL_XTAL_FREQ,
   tun_xtal |-> 0, fosc |-> [xtal |-> 0, corr |-> 0], driver_active |-> "no",
   lo |-> Off, if_reg |-> Off, samp |-> Off, ppm |-> Is(0),
   r |-> 0, failed |-> "no"]

Init ==
  /\ s = Zeroed /\ opened = "no"
  /\ driver \in {"bound", "none"}
  /\ handles = 0 /\ leaked = 0 /\ attach = "fine"

-----------------------------------------------------------------------------
(* rtlsdr_open.  Its results: no device or none that opens, a device that  *)
(* is opened but not claimed, a handle.                                    *)

InitBaseband(t) == Write(t, "if_reg", At(0, t.rtl_xtal, t.corr))

\* A tuner that does not answer a probe is not found.  The R828D is found
\* without ending the search, but no other tuner is on its board.
Probe(t) ==
  UNION {LET kind == IF chip = "UNKNOWN" THEN {"UNKNOWN"} ELSE {chip, "UNKNOWN"}
         IN {[t EXCEPT !.tuner_type = k,
                       !.tun_xtal = IF k = "R828D" THEN R828D_XTAL_FREQ ELSE t.rtl_xtal,
                       !.failed = IF k = chip THEN t.failed ELSE "yes"] : k \in kind} :
         chip \in Chips}

SetUp(t) ==
  CASE t.tuner_type \in R82XX -> UNION {WriteAny(u) : u \in SetIfFreq(t, R82XX_IF_FREQ)}
    [] t.tuner_type = "UNKNOWN" -> SetDirectSampling(t, 1)
    [] OTHER -> {t}

\* None of the results of setting up the chips counts.
Fresh(active) ==
  LET probed == UNION {Probe(t) : t \in InitBaseband([Zeroed EXCEPT !.driver_active = active])}
      ready == UNION {SetUp(t) : t \in probed}
  IN UNION {{Began(u) : u \in TunerInit(t)} : t \in ready}

\* A driver that is active is detached before the interface is claimed; a
\* query that fails takes it for inactive, and claiming fails.
Detached == IF driver = "bound" THEN "free" ELSE driver

OpenFails(r) ==
  /\ opened = "no"
  /\ s' = [Zeroed EXCEPT !.r = r] /\ UNCHANGED life

\* The handle of libusb stays open when the rest fails.
OpenLeaks(r) ==
  /\ opened = "no" /\ handles < MaxHandles
  /\ handles' = handles + 1 /\ leaked' = leaked + 1
  /\ s' = [Zeroed EXCEPT !.r = r] /\ UNCHANGED <<opened, attach>>

DetachFails == driver = "bound" /\ OpenLeaks(0) /\ UNCHANGED driver
ClaimFails == OpenLeaks(-1) /\ driver' \in {driver, Detached}

Open ==
  /\ opened = "no" /\ handles < MaxHandles
  /\ opened' = "yes" /\ handles' = handles + 1 /\ driver' = Detached
  /\ s' \in Fresh(IF driver = "bound" THEN "yes" ELSE "no")
  /\ UNCHANGED <<leaked, attach>>

\* Mutant of Close: the kernel driver is not attached again.
CloseKeepsDetached ==
  /\ opened = "yes"
  /\ opened' = "no" /\ handles' = handles - 1 /\ UNCHANGED leaked
  /\ s' = Zeroed
  /\ UNCHANGED <<driver, attach>>

Close ==
  /\ opened = "yes"
  /\ opened' = "no" /\ handles' = handles - 1 /\ UNCHANGED leaked
  /\ s' = Zeroed
  /\ IF s.driver_active = "yes"
     THEN \/ driver' = "bound" /\ UNCHANGED attach
          \/ attach' = "failed" /\ UNCHANGED driver
     ELSE UNCHANGED <<driver, attach>>

-----------------------------------------------------------------------------
Call(outcomes) == opened = "yes" /\ s' \in outcomes /\ UNCHANGED life

CenterFreq(f) == Call(SetCenterFreq(Began(s), f))
FreqCorrection(ppm) == Call(SetFreqCorrection(Began(s), ppm))
SampleRate(rate) == Call(SetSampleRate(Began(s), rate))
DirectSampling(on) == Call(SetDirectSampling(Began(s), on))
OffsetTuning(on) == Call(SetOffsetTuning(Began(s), on))
XtalFreq(rtl, tuner) == Call(SetXtalFreq(Began(s), rtl, tuner))
TunerGain(g) == Call(SetTunerGain(Began(s), g))
Other == Call(SetOther(Began(s)))

Configure ==
  \/ \E f \in Freqs : CenterFreq(f)
  \/ \E ppm \in Corrs : FreqCorrection(ppm)
  \/ \E rate \in Rates : SampleRate(rate)
  \/ \E on \in {0, 1} : DirectSampling(on)
  \/ \E on \in BOOLEAN : OffsetTuning(on)
  \/ \E rtl, tuner \in Xtals : XtalFreq(rtl, tuner)
  \/ \E g \in Gains : TunerGain(g)
  \/ Other

Next == Open \/ OpenFails(-1) \/ DetachFails \/ ClaimFails \/ Close \/ Configure
Spec == Init /\ [][Next]_vars

-----------------------------------------------------------------------------
\* The fields' types: freq, corr and direct_sampling only ever hold what was
\* asked for (lines 866-925, 1129-1195), and a result is 0 or an error.
TypeOK ==
  /\ opened \in {"yes", "no"} /\ driver \in {"bound", "free", "none"}
  /\ handles \in Nat /\ leaked \in Nat /\ attach \in {"fine", "failed"}
  /\ s.tuner_type \in Tuners /\ s.freq \in Freqs \cup {0} /\ s.corr \in Corrs \cup {0}
  /\ s.offs_freq \in Int /\ s.direct_sampling \in {0, 1}
  /\ s.r \in {0, -1} /\ s.failed \in {"yes", "no"}

\* The frequency the samples are around.
Known(t) == t.if_reg.kind = "is" /\ (t.direct_sampling = 0 => t.lo.kind = "is")
IfWanted(t) == IF t.tuner_type \in R82XX THEN R82XX_IF_FREQ ELSE t.offs_freq
Received(t) ==
  IF t.direct_sampling # 0 THEN t.if_reg.val.freq
  ELSE IF t.tuner_type \in R82XX THEN t.lo.val.freq + t.if_reg.val.freq - R82XX_IF_FREQ
  ELSE t.lo.val.freq + t.if_reg.val.freq
Tuned(t) == t.freq # 0 => Known(t) /\ Received(t) = t.freq
\* ... and so they will be when it is tuned again.
Sound(t) ==
  /\ Tuned(t)
  /\ t.direct_sampling = 0 => t.if_reg.kind = "is" /\ t.if_reg.val.freq = IfWanted(t)

\* Offset tuning whose offset is not in the down-converter, or is too large
\* for the frequency.
Displaced(t) ==
  /\ t.direct_sampling = 0 /\ t.offs_freq # 0
  /\ t.freq <= t.offs_freq \/ t.if_reg.val.freq = 0

\* As long as no transfer has failed, the samples are around freq, whatever
\* order the calls came in, but for offset tuning: with a frequency below
\* the offset (line 1219), or once direct sampling has put 0 in its place
\* (line 1168).
TunedUnlessDisplaced ==
  opened = "yes" /\ s.failed = "no" => Tuned(s) \/ Displaced(s)

\* A call that reports success leaves a device that was sound so, whatever
\* failed before it: without offset tuning, whose failure in line 1099 is
\* dropped, and unless the tuner hides that it did not lock.
SuccessKeepsSound ==
  [][opened = "yes" /\ opened' = "yes" /\ Sound(s) /\ s'.r = 0
     => Sound(s') \/ s'.offs_freq # 0 \/ s'.lo = Unlocked]_vars

\* The crystals and the correction set last are those that the tuner or the
\* down-converter and the resampler work with (lines 693-742, 907-914).
CorrectionApplied ==
  opened = "yes" /\ s.failed = "no" =>
    /\ s.ppm = Is(s.corr)
    /\ s.freq # 0 => IF s.direct_sampling # 0 THEN s.if_reg.val.corr = s.corr
                     ELSE s.lo.val.corr = s.corr /\ s.lo.val.xtal = s.tun_xtal

\* The rate that is reported is one that was asked for and can be had (line
\* 1060), and the resampler divides the crystal in use to it.
RateApplied ==
  opened = "yes" /\ s.failed = "no" /\ s.rate # 0 =>
    /\ s.rate \in Rates /\ ValidRate(s.rate)
    /\ s.samp = Is(RsampRatio(s.rtl_xtal, s.rate))

\* What was set last is what the chips work with, whatever order it was set in.
ClocksApplied == CorrectionApplied /\ RateApplied

\* Without a handle no USB handle is open but those that failed opens leak,
\* and the kernel driver is back, unless an open failed after detaching it
\* or it could not be attached again.
ClosedGivesBack ==
  /\ handles = leaked + (IF opened = "yes" THEN 1 ELSE 0)
  /\ opened = "no" /\ leaked = 0 /\ attach = "fine" => driver # "free"
=============================================================================
