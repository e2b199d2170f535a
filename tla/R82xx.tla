------------------------------- MODULE R82xx --------------------------------
(***************************************************************************)
(* The R820T and R828D tuners of tuner_r82xx.c, as librtlsdr.c uses them.  *)
(* The driver does not read the registers it writes: it changes some bits  *)
(* of one on the strength of a shadow, which is stored before the write.   *)
(*                                                                         *)
(* An operation is a sequence of steps: the write of the bits of a mask, a *)
(* read of the status, or a note in the driver's own struct.  A write or a *)
(* read may fail, and the operation returns there.  Frequencies are in kHz.*)
(***************************************************************************)
EXTENDS Integers, Sequences

CONSTANTS
  Sticks,      \* the chips: records with rafael_chip and pll_ref, the clock
  Freqs,       \* frequencies asked for
  Gains,       \* gains asked for, in tenths of a dB
  Fines,       \* what the chip may report of its VCO
  MaxFailures  \* bound on the transfers that fail

ASSUME R82xxAssumption ==
  /\ \A k \in Sticks : k.rafael_chip \in {"R820T", "R828D"} /\ k.pll_ref \in Nat \ {0}
  /\ Freqs \subseteq Nat /\ Gains \subseteq Int
  /\ Fines \subseteq 0 .. 3 /\ MaxFailures \in Nat

Regs == 5 .. 34
\* A register is the set of its bits that are 1.
ByteBits == [n \in 0 .. 255 |-> {i \in 0 .. 7 : (n \div 2^i) % 2 = 1}]
Bits(n) == ByteBits[n]
Number(bits, mask) ==
  LET f[i \in 0 .. 8] ==
        IF i = 0 THEN 0
        ELSE f[i-1] + (IF i - 1 \in bits \cap Bits(mask) THEN 2^(i-1) ELSE 0)
  IN f[8]

r82xx_init_array == <<
  Bits(\h83), Bits(\h32), Bits(\h75), Bits(\hc0), Bits(\h40), Bits(\hd6), Bits(\h6c),
  Bits(\hf5), Bits(\h63), Bits(\h75), Bits(\h68), Bits(\h6c), Bits(\h83), Bits(\h80),
  Bits(0), Bits(\h0f), Bits(0), Bits(\hc0), Bits(\h30), Bits(\h48), Bits(\hcc), Bits(\h60),
  Bits(0), Bits(\h54), Bits(\hae), Bits(\h4a), Bits(\hc0), Bits(0), Bits(0), Bits(0) >>

VARIABLES
  cfg,         \* the stick
  priv,        \* the driver's struct: regs, the shadow from register 5 on, int_freq,
               \* has_lock, input, init_done
  stale,       \* registers whose last write did not reach the chip
  rc,          \* the result of the last operation
  ready,       \* "yes" when the last r82xx_init returned 0 and no standby followed,
               \* "never" before the first
  tuned,       \* the frequency set last with success and a lock, or None
  manual,      \* the gain set last with success, or None
  failures     \* transfers that have failed

vars == <<cfg, priv, stale, rc, ready, tuned, manual, failures>>
None == -1000

-----------------------------------------------------------------------------
(* Registers.                                                              *)

W(reg, val, mask) == [kind |-> "write", reg |-> reg, val |-> val, mask |-> mask]
Note(field, val)  == [kind |-> "note", field |-> field, val |-> val]
Read == [kind |-> "read"]
All == \hff

Store(p, step) ==
  CASE step.kind = "write" -> [p EXCEPT !.regs[step.reg - 4] =
                     (@ \ Bits(step.mask)) \cup (Bits(step.val) \cap Bits(step.mask))]
    [] step.kind = "note"  -> [p EXCEPT ![step.field] = step.val]
    [] step.kind = "read"  -> p
Touched(step) == IF step.kind = "write" THEN {step.reg} ELSE {}

\* The tuner after a step that is done, and after one that fails.
Done(t, step) == [priv |-> Store(t.priv, step), stale |-> t.stale \ Touched(step)]
Lost(t, step) == [priv |-> Store(t.priv, step), stale |-> t.stale \cup Touched(step)]

\* The tuner before each of the steps and after the last.
Trace(t, steps) ==
  LET f[k \in 0 .. Len(steps)] ==
        IF k = 0 THEN <<t>>
        ELSE LET before == f[k-1] IN Append(before, Done(before[k], steps[k]))
  IN f[Len(steps)]

\* All the steps are done, or those before one that fails.
Outcomes(t, steps, result) ==
  LET trace == Trace(t, steps)
      failing == {i \in DOMAIN steps : steps[i].kind # "note" /\ failures < MaxFailures}
  IN {[after |-> trace[Len(trace)], rc |-> result, lost |-> 0]}
     \cup {[after |-> Lost(trace[k], steps[k]), rc |-> -1, lost |-> 1] : k \in failing}

Now == [priv |-> priv, stale |-> stale]
Ends(o, missed) ==
  /\ failures' = failures + o.lost + missed /\ failures' <= MaxFailures
  /\ priv' = o.after.priv /\ stale' = o.after.stale /\ rc' = o.rc
Takes(steps, result) ==
  \E o \in Outcomes(Now, steps, result) : Ends(o, 0)

-----------------------------------------------------------------------------
(* r82xx_set_mux: the tracking filter of each range, from the range's      *)
(* lower end in MHz.  The crystal capacitor is XTAL_HIGH_CAP_0P.           *)

freq_ranges == <<
  <<0, 8, 2, \hdf>>, <<50, 8, 2, \hbe>>, <<55, 8, 2, \h8b>>, <<60, 8, 2, \h7b>>,
  <<65, 8, 2, \h69>>, <<70, 8, 2, \h58>>, <<75, 0, 2, \h44>>, <<80, 0, 2, \h44>>,
  <<90, 0, 2, \h34>>, <<100, 0, 2, \h34>>, <<110, 0, 2, \h24>>, <<120, 0, 2, \h24>>,
  <<140, 0, 2, \h14>>, <<180, 0, 2, \h13>>, <<220, 0, 2, \h13>>, <<250, 0, 2, \h11>>,
  <<280, 0, 2, 0>>, <<310, 0, \h41, 0>>, <<450, 0, \h41, 0>>, <<588, 0, \h40, 0>>,
  <<650, 0, \h40, 0>> >>

Range(freq) ==
  LET last == CHOOSE i \in DOMAIN freq_ranges :
        /\ freq_ranges[i][1] <= freq \div 1000
        /\ i = Len(freq_ranges) \/ freq \div 1000 < freq_ranges[i + 1][1]
  IN freq_ranges[last]

SetMux(freq) ==
  << W(\h17, Range(freq)[2], \h08), W(\h1a, Range(freq)[3], \hc3),
     W(\h1b, Range(freq)[4], All), W(\h10, 0, \h0b), W(\h08, 0, \h3f), W(\h09, 0, \h3f) >>

-----------------------------------------------------------------------------
(* r82xx_set_pll.                                                          *)

vco_min == 1770000
Dividers == {2, 4, 8, 16, 32, 64}
Fits(freq, m) == freq * m >= vco_min /\ freq * m < 2 * vco_min
MixDiv(freq) == IF \E m \in Dividers : Fits(freq, m)
                THEN CHOOSE m \in Dividers : Fits(freq, m) ELSE 128
DivNum(m) == IF m = 128 THEN 0 ELSE CHOOSE n \in 0 .. 5 : 2^(n + 1) = m

VcoPowerRef == IF cfg.rafael_chip = "R828D" THEN 1 ELSE 2
\* The number the chip reports moves the divider by one.
FineTuned(div_num, fine) ==
  (IF fine > VcoPowerRef THEN div_num - 1
   ELSE IF fine < VcoPowerRef THEN div_num + 1 ELSE div_num) % 8

\* C's division, and the bytes that hold ni and si.
TruncDiv(a, b) == IF a >= 0 THEN a \div b ELSE -((-a) \div b)
Ni(nint) == TruncDiv(nint - 13, 4) % 256
\* Mutant of Si: forgets the 13 that Ni has taken off.
SiFromZero(nint) == (nint - 4 * Ni(nint)) % 256
Si(nint) == (nint - 4 * Ni(nint) - 13) % 256

\* Successive halves of the comparison frequency make up the fraction.
Sdm(vco_fra) ==
  LET half(k) == (2 * cfg.pll_ref) \div 2^k
      f[k \in 0 .. 15] ==
        IF k = 0 THEN [fra |-> vco_fra, sdm |-> 0]
        ELSE LET p == f[k-1] IN
             IF p.fra > 1 /\ p.fra > half(k)
             THEN [fra |-> p.fra - half(k), sdm |-> p.sdm + 2^(16 - k)] ELSE p
  IN f[15].sdm

\* The steps, whether they end well and locked: fine is what the chip reports
\* of its VCO, lock when it locks.
SetPll(freq, fine, lock) ==
  LET vco == freq * MixDiv(freq)
      nint == (vco \div (2 * cfg.pll_ref)) % 256
      vco_fra == vco - 2 * cfg.pll_ref * nint
      sdm == Sdm(vco_fra)
      begin == << W(\h10, 0, \h10), W(\h1a, 0, \h0c), W(\h12, \h80, \he0), Read,
                  W(\h10, 32 * FineTuned(DivNum(MixDiv(freq)), fine), \he0) >>
      set == << W(\h14, (Ni(nint) + 64 * Si(nint)) % 256, All),
                W(\h12, IF vco_fra = 0 THEN 8 ELSE 0, 8),
                W(\h16, sdm \div 256, All), W(\h15, sdm % 256, All), Read >>
      again == IF lock = "first" THEN <<>> ELSE << W(\h12, \h60, \he0), Read >>
      end == IF lock = "no" THEN << Note("has_lock", 0) >>
             ELSE << Note("has_lock", 1), W(\h1a, 8, 8) >>
      valid == nint <= (128 \div VcoPowerRef) - 1
  IN [steps |-> begin \o (IF valid THEN set \o again \o end ELSE <<>>),
      rc |-> IF valid THEN 0 ELSE -1,
      locked |-> valid /\ lock # "no"]

-----------------------------------------------------------------------------
(* r82xx_set_freq.  The driver notes the R828D's new input before it writes *)
(* it.                                                                     *)

air_cable1_in(freq) == IF freq > 345000 THEN 0 ELSE \h60
Locks == {"first", "second", "no"}

SetFreq(freq) ==
  \E fine \in Fines, lock \in Locks :
    LET lo_freq == freq + priv.int_freq
        pll == SetPll(lo_freq, fine, lock)
        moves == /\ pll.locked /\ cfg.rafael_chip = "R828D"
                 /\ air_cable1_in(freq) # priv.input
        input == IF ~moves THEN <<>>
                 ELSE << Note("input", air_cable1_in(freq)), W(5, air_cable1_in(freq), \h60) >>
        steps == SetMux(lo_freq) \o pll.steps \o input
    IN /\ Takes(steps, pll.rc)
       /\ tuned' = IF rc' = 0 /\ pll.locked THEN freq ELSE None
       /\ UNCHANGED <<cfg, ready, manual>>

-----------------------------------------------------------------------------
(* r82xx_init.  A standard of 3 MHz, which is neither ISDB-T nor 7 MHz.    *)

filt_cal_lo == 56000
hp_cor == \h6b

\* A pass of the calibration.  When it gives 0 or 15 there is a second; the first
\* gives 3 otherwise, and the second, 0.
CalPass(fine, lock) ==
  LET pll == SetPll(filt_cal_lo, fine, lock)
      trigger == << W(\h0b, \h10, \h10), W(\h0b, 0, \h10), W(\h0f, 0, 4), Read >>
  IN << W(\h0b, hp_cor, \h60), W(\h0f, 4, 4), W(\h10, 0, 3) >> \o pll.steps
     \o (IF pll.locked THEN trigger ELSE <<>>)

\* lock is that of the last pass; one before it that did not calibrate locked.
SetTvStandard(passes, fine, lock) ==
  LET begin == << W(\h0c, 0, \h0f), W(\h13, 49, \h3f), W(\h1d, 0, \h38), Note("int_freq", 3570) >>
      calibrate == IF passes = 1 THEN CalPass(fine, lock)
                   ELSE CalPass(fine, "first") \o CalPass(fine, lock)
      fil_cal_code == IF passes = 1 THEN 3 ELSE 0
      rest == << W(\h0a, \h10 + fil_cal_code, \h1f), W(\h0b, hp_cor, \hef), W(7, 0, \h80),
                 W(6, \h10, \h30), W(\h1e, \h60, \h60), W(5, 0, \h80), W(\h1f, 0, \h80),
                 W(\h0f, 0, \h80), W(\h19, \h60, \h60) >>
  IN begin \o calibrate \o (IF lock = "no" THEN <<>> ELSE rest)

\* Mutant of SysfreqSel: does not note that the input is back where it was.
SysfreqSelKeepsInput ==
  << W(\h1d, \he5, \hc7), W(\h1c, \h24, \hf8), W(\h0d, \h53, All), W(\h0e, \h75, All),
     W(5, 0, \h60), W(6, 0, 8), W(\h11, \h38, \h38), W(\h17, \h30, \h30),
     W(\h0a, \h40, \h60), W(\h1d, 0, \h38), W(\h1c, 0, 4), W(6, 0, \h40),
     W(\h1a, \h30, \h30), W(\h1d, \h18, \h38), W(\h1c, \h24, 4), W(\h1e, 14, \h1f),
     W(\h1a, \h20, \h30) >>

\* DVB-T at frequency 0; predetection is off.
SysfreqSel ==
  << W(\h1d, \he5, \hc7), W(\h1c, \h24, \hf8), W(\h0d, \h53, All), W(\h0e, \h75, All),
     Note("input", 0), W(5, 0, \h60), W(6, 0, 8), W(\h11, \h38, \h38), W(\h17, \h30, \h30),
     W(\h0a, \h40, \h60), W(\h1d, 0, \h38), W(\h1c, 0, 4), W(6, 0, \h40),
     W(\h1a, \h30, \h30), W(\h1d, \h18, \h38), W(\h1c, \h24, 4), W(\h1e, 14, \h1f),
     W(\h1a, \h20, \h30) >>

\* All registers are written first, seven at a time, and nobody looks whether
\* that fails; the registers from there on are what the chip had.
Initialised(chunk) ==
  [priv  |-> [priv EXCEPT !.regs = r82xx_init_array],
   stale |-> {r \in Regs : r >= 5 + 7 * chunk}]

\* init_done is noted even when the second part fails.
r82xx_init ==
  \E passes \in {1, 2}, fine \in Fines, lock \in Locks, chunk \in 0 .. 5 :
    LET t == Initialised(chunk)
        standard == SetTvStandard(passes, fine, lock)
        both(first) == IF first.lost = 1 THEN {first}
                       ELSE {[o EXCEPT !.after.priv.init_done = 1] :
                               o \in Outcomes(first.after, SysfreqSel, 0)}
    IN /\ chunk = 5 \/ failures < MaxFailures
       /\ \E o \in UNION {both(first) : first \in Outcomes(t, standard, 0)} :
            Ends(o, IF chunk < 5 THEN 1 ELSE 0)
       /\ ready' = (IF rc' = 0 THEN "yes" ELSE "no")
       /\ tuned' = None /\ manual' = None /\ UNCHANGED cfg

-----------------------------------------------------------------------------
(* r82xx_set_gain: one more step of the LNA, one of the mixer, until that  *)
(* is enough.  After fifteen rounds, both are at their last.               *)

r82xx_lna_gain_steps == <<0, 9, 13, 40, 38, 13, 31, 22, 26, 31, 26, 14, 19, 5, 35, 13>>
r82xx_mixer_gain_steps == <<0, 5, 10, 10, 19, 9, 10, 25, 17, 10, 8, 16, 13, 6, 3, -8>>

\* The gain of the first n of the steps of a table, the 0 not counted.
Sum(steps, n) ==
  LET f[i \in 0 .. n] == IF i = 0 THEN 0 ELSE f[i-1] + steps[i + 1] IN f[n]
\* After n turns, the first of them the LNA's.
LnaIndex(n) == (n + 1) \div 2
\* Mutant of MixIndex: both go up in the same turn.
MixIndexAtOnce(n) == (n + 1) \div 2
MixIndex(n) == n \div 2
TotalGain(n) == Sum(r82xx_lna_gain_steps, LnaIndex(n)) + Sum(r82xx_mixer_gain_steps, MixIndex(n))
Turns(gain) ==
  IF \E n \in 0 .. 29 : TotalGain(n) >= gain
  THEN CHOOSE n \in 0 .. 29 : TotalGain(n) >= gain /\ \A i \in 0 .. n - 1 : TotalGain(i) < gain
  ELSE 30

\* What rtlsdr_get_tuner_gains lists.
r82xx_gains == {0, 9, 14, 27, 37, 77, 87, 125, 144, 157, 166, 197, 207, 229, 254, 280,
                297, 328, 338, 364, 372, 386, 402, 421, 434, 439, 445, 480, 496}

SetManualGain(gain) ==
  /\ Takes(<< W(5, \h10, \h10), W(7, 0, \h10), Read, W(\h0c, 8, \h9f),
              W(5, LnaIndex(Turns(gain)), \h0f), W(7, MixIndex(Turns(gain)), \h0f) >>, 0)
  /\ manual' = IF rc' = 0 THEN gain ELSE None
  /\ UNCHANGED <<cfg, ready, tuned>>

SetAutoGain ==
  /\ Takes(<< W(5, 0, \h10), W(7, \h10, \h10), W(\h0c, \h0b, \h9f) >>, 0)
  /\ manual' = None /\ UNCHANGED <<cfg, ready, tuned>>

\* r82xx_standby.
Standby ==
  /\ IF priv.init_done = 0 THEN rc' = 0 /\ UNCHANGED <<priv, stale, failures>>
     ELSE Takes(<< W(6, \hb1, All), W(5, 3, All), W(7, \h3a, All), W(8, \h40, All),
                   W(9, \hc0, All), W(\h0a, \h36, All), W(\h0c, \h35, All),
                   W(\h0f, \h68, All), W(\h11, 3, All), W(\h17, \hf4, All),
                   W(\h19, \h0c, All) >>, 0)
  /\ ready' = "no" /\ tuned' = None /\ manual' = None /\ UNCHANGED cfg

-----------------------------------------------------------------------------
\* rtlsdr_open makes the struct, and the chip holds anything.
Init ==
  /\ cfg \in Sticks
  /\ priv = [regs |-> [i \in 1 .. 30 |-> {}],
             int_freq |-> 0, has_lock |-> 0, input |-> 0, init_done |-> 0]
  /\ stale = Regs /\ rc = 0 /\ ready = "never"
  /\ tuned = None /\ manual = None /\ failures = 0

\* librtlsdr.c calls for an init first, and goes on when it fails.
Use ==
  \/ \E freq \in Freqs : SetFreq(freq)
  \/ \E gain \in Gains : SetManualGain(gain)
  \/ SetAutoGain
  \/ Standby
Next == r82xx_init \/ (ready # "never" /\ Use)
Spec == Init /\ [][Next]_vars

-----------------------------------------------------------------------------
\* A register as the driver has it.
Shadow(reg) == priv.regs[reg - 4]

\* The oscillator, times its divider m, that the registers ask for.
N == 4 * Number(Shadow(\h14), \h3f) + (Number(Shadow(\h14), \hc0) \div 64) + 13
SdmIs == 256 * Number(Shadow(\h16), All) + Number(Shadow(\h15), All)
VcoIs == 2 * cfg.pll_ref * N
         + (IF 3 \in Shadow(\h12) THEN 0 ELSE (cfg.pll_ref * SdmIs) \div 32768)
Near(a, b) == a - b \in -16 .. 16

\* A frequency that was set and is in the range of the chip is the one the
\* registers ask for, through the divider and the filters of its band, and
\* the chip has these registers: after any calls that followed, and any
\* that failed before.
TunedAsAsked ==
  LET lo == tuned + 3570
      m == MixDiv(lo)
  IN ready = "yes" /\ tuned # None /\ m # 128 =>
       /\ priv.has_lock = 1
       /\ Near(VcoIs, lo * m)
       /\ (Number(Shadow(\h10), \he0) \div 32) - DivNum(m) \in {-1, 0, 1, 7}
       /\ Number(Shadow(\h1b), All) = Range(lo)[4] /\ Number(Shadow(\h1a), \hc3) = Range(lo)[3]
       /\ stale \cap {\h10, \h12, \h14, \h15, \h16, \h1a, \h1b} = {}

\* A gain that rtlsdr_get_tuner_gains lists is exactly that of the two stages, both of which
\* are under manual control, and the chip has their registers unless the
\* write of the antenna input to one of them failed.
GainAsAsked ==
  manual \in r82xx_gains =>
    /\ Sum(r82xx_lna_gain_steps, Number(Shadow(5), \h0f))
         + Sum(r82xx_mixer_gain_steps, Number(Shadow(7), \h0f)) = manual
    /\ 4 \in Shadow(5) /\ 4 \notin Shadow(7) /\ 7 \notin stale

\* The R828D listens where the frequency wants it, as far as the driver can
\* tell, and so it does unless that register was lost.
InputFollows ==
  ready = "yes" /\ tuned # None /\ cfg.rafael_chip = "R828D" =>
    /\ priv.input = air_cable1_in(tuned)
    /\ Number(Shadow(5), \h60) = priv.input
=============================================================================
