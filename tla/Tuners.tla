------------------------------- MODULE Tuners -------------------------------
(***************************************************************************)
(* The FC0012, FC0013, FC2580 and E4000 as librtlsdr.c's table of tuners   *)
(* offers them: any sequence of calls from rtlsdr_open to rtlsdr_close, of *)
(* whose transfers some fail, to a chip whose registers stay.  The writes  *)
(* to the demodulator are in module Device.                                *)
(***************************************************************************)
EXTENDS Integers, Sequences

CONSTANTS
  Kinds,       \* of tuner
  Clock,       \* of the tuner, in kHz
  Freqs,       \* frequencies asked for, in kHz, of each kind
  Gains,       \* gains asked for, in tenths of a dB, of each kind
  IfGains,     \* stages and gains asked for, in dB
  Rates,       \* bandwidths asked for, in kHz
  PowerOn,     \* what a register may hold when the power comes
  Volts,       \* what the FC0012 and FC0013 may report of their VCO
  Unready,     \* how often the FC2580's calibration may not be ready
  RF_OUTDIV_B, \* the FC0012's and FC0013's bit for a factor of 3: see Fc001x
  MaxFailures  \* bound on the transfers that fail

F == INSTANCE Fc001x
L == INSTANCE Fc2580
E == INSTANCE E4k

ASSUME TunersAssumption ==
  /\ Kinds \subseteq {"FC0012", "FC0013", "FC2580", "E4000"}
  /\ Clock \in Nat \ {0} /\ Rates \subseteq Nat
  /\ \A k \in Kinds : Freqs[k] \subseteq Nat \ {0} /\ Gains[k] \subseteq Int
  /\ PowerOn \subseteq 0 .. 255 /\ Volts \subseteq 0 .. 63 /\ Unready \subseteq 0 .. 5
  /\ RF_OUTDIV_B \in {0, 1}
  /\ MaxFailures \in Nat

VARIABLES
  kind,        \* the tuner
  regs,        \* the registers of the chip, and the stick's pin
  noted,       \* the band the E4000's driver has noted
  on,          \* whether the device is open
  direct,      \* whether its input is sampled past the tuner
  dev_freq,    \* dev->freq: the frequency of the last call that set it, or 0
  tuned, gain, \* what was asked for and done, or None
  failures     \* transfers that have failed

vars == <<kind, regs, noted, on, direct, dev_freq, tuned, gain, failures>>
None == -1000
Half == (Clock * F!Khz) \div 2
NoFault == [at |-> 0, part |-> "none"]

-----------------------------------------------------------------------------
(* The table of tuners.                                                    *)

Registers == CASE kind \in {"FC0012", "FC0013"} -> F!Registers [] kind = "FC2580" -> L!Registers
               [] kind = "E4000" -> E!Registers
Answers == CASE kind \in {"FC0012", "FC0013"} -> Volts [] kind = "FC2580" -> Unready
             [] kind = "E4000" -> BOOLEAN
init(a) == CASE kind = "FC0012" -> F!fc0012_init [] kind = "FC0013" -> F!fc0013_init
             [] kind = "FC2580" -> L!fc2580_init(a) [] kind = "E4000" -> E!e4k_init
set_freq(freq, a, fault) ==
  CASE kind = "FC0012" -> F!fc0012_set_freq(freq, Half, a)
    [] kind = "FC0013" -> F!fc0013_set_freq(freq, Half, a)
    [] kind = "FC2580" -> L!fc2580_set_freq(freq, a)
    [] kind = "E4000"  -> E!e4k_tune_freq(Clock, freq, noted, a, fault)
set_bw(bw, a) == CASE kind = "FC2580" -> L!fc2580_set_bw(a) [] kind = "E4000" -> E!e4000_set_bw(bw)
                   [] OTHER -> F!Silent(<<>>)
set_gain(g) == CASE kind = "FC0012" -> F!fc0012_set_gain(g) [] kind = "FC0013" -> F!fc0013_set_lna_gain(g)
                 [] kind = "FC2580" -> F!Silent(<<>>) [] kind = "E4000" -> E!e4000_set_gain(g)
\* rtlsdr_get_tuner_gains.
tuner_gains ==
  CASE kind = "E4000" -> {-10, 15, 40, 65, 90, 115, 140, 165, 190, 215, 240, 290, 340, 420}
    [] kind = "FC0012" -> {-99, -40, 71, 179, 192}
    [] kind = "FC0013" -> {-99, -73, -65, -63, -60, -58, -54, 58, 61, 63, 65, 67, 68, 70, 71,
                           179, 181, 182, 184, 186, 188, 191, 197}
    [] kind = "FC2580" -> {0}
set_gain_mode(manual) ==
  CASE kind = "FC0013" -> F!fc0013_set_gain_mode(manual) [] kind = "E4000" -> E!e4000_set_gain_mode(manual)
    [] OTHER -> F!Silent(<<>>)
exit == IF kind = "E4000" THEN E!e4k_standby ELSE F!Silent(<<>>)

-----------------------------------------------------------------------------
Init ==
  /\ kind \in Kinds
  /\ \E v \in PowerOn : regs = [r \in Registers |-> IF r = F!GPO THEN 0 ELSE v]
  /\ noted = "VHF2" /\ on = FALSE /\ direct = FALSE /\ dev_freq = 0
  /\ tuned = None /\ gain = None
  /\ failures = 0

Count(fault) == IF fault = NoFault THEN 0 ELSE 1
Fails(n) == failures' = failures + n /\ failures' <= MaxFailures
FaultsIn(op) == {NoFault} \cup (IF failures < MaxFailures THEN F!Faults(op.steps) ELSE {})

\* What an operation comes to, and what tuning the registers from does.
Results(op) == {F!Result(regs, op, fault) : fault \in FaultsIn(op)}
Tunings(from, freq) ==
  LET ops == UNION {{<<set_freq(freq, a, fault), fault>> :
                       fault \in FaultsIn(set_freq(freq, a, NoFault))} : a \in Answers}
  IN {F!Result(from, op[1], op[2]) : op \in ops}

Done(r) == Fails(Count(r.fault)) /\ regs' = r.regs /\ kind' = kind
\* A result that can be relied on; the E4000 does not tell of failures.
Sure(r) == r.rc = 0 /\ (kind = "E4000" => r.fault = NoFault)
Keeps(now, r) == IF Sure(r) \/ r.fault = NoFault THEN now ELSE None

\* The struct of the device is clear when rtlsdr_open has made it.
Cleared ==
  /\ noted' = "VHF2" /\ direct' = FALSE /\ dev_freq' = 0
  /\ tuned' = None /\ gain' = None

\* rtlsdr_open calls init and does not look at its result.
Start ==
  /\ ~on /\ on' = TRUE
  /\ \E op \in {init(a) : a \in Answers} : \E r \in Results(op) : Done(r)
  /\ Cleared

\* rtlsdr_close frees the struct and leaves the tuner as it is.
Close ==
  /\ on /\ on' = FALSE
  /\ Cleared
  /\ UNCHANGED <<kind, regs, failures>>

\* The band that is noted when the E4000 is tuned to freq.
Notes(freq, fault) ==
  IF kind = "E4000" /\ E!is_fosc_valid(Clock)
  THEN E!NotedBand(noted, E!e4k_compute_pll_params(Clock, freq).flo, fault)
  ELSE noted

SetFreq ==
  /\ on /\ ~direct
  /\ \E freq \in Freqs[kind] : \E r \in Tunings(regs, freq) :
       /\ Done(r)
       /\ dev_freq' = (IF r.rc = 0 THEN freq ELSE 0)
       /\ tuned' = (IF Sure(r) THEN freq ELSE None)
       /\ gain' = Keeps(gain, r)
       /\ noted' = Notes(freq, r.fault)
  /\ UNCHANGED <<on, direct>>

\* While the input is sampled directly, the demodulator is tuned.
TunesDemod(freq, done) == dev_freq' = IF done THEN freq ELSE 0
SetFreqDirect ==
  /\ on /\ direct
  /\ \E freq \in Freqs[kind], done \in BOOLEAN :
       TunesDemod(freq, done) /\ Fails(IF done THEN 0 ELSE 1)
  /\ UNCHANGED <<kind, regs, noted, on, direct, tuned, gain>>

\* rtlsdr_set_direct_sampling leaves the tuner alone from here on.
DirectOn ==
  /\ on /\ direct' = TRUE
  /\ \E r \in Results(exit), done \in BOOLEAN :
       /\ Fails(Count(r.fault) + IF done THEN 0 ELSE 1)
       /\ regs' = r.regs
       /\ TunesDemod(dev_freq, done)
  /\ tuned' = None
  /\ UNCHANGED <<kind, noted, on, gain>>

\* It starts the tuner again and tunes it to the frequency set last, which
\* after a failure is 0 Hz: nobody has asked for that.
DirectOff ==
  /\ on /\ direct' = FALSE
  /\ \E op \in {init(a) : a \in Answers} : \E up \in Results(op) :
     \E r \in Tunings(up.regs, dev_freq) :
       /\ Fails(Count(up.fault) + Count(r.fault))
       /\ regs' = r.regs
       /\ dev_freq' = (IF r.rc = 0 THEN dev_freq ELSE 0)
       /\ tuned' = (IF Sure(up) /\ Sure(r) /\ dev_freq # 0 THEN dev_freq ELSE None)
       /\ noted' = Notes(dev_freq, r.fault)
  /\ gain' = None
  /\ UNCHANGED <<kind, on>>

SetBw ==
  /\ on
  /\ \E op \in {set_bw(bw, a) : bw \in Rates, a \in Answers} : \E r \in Results(op) :
       Done(r) /\ tuned' = Keeps(tuned, r)
  /\ UNCHANGED <<on, direct, dev_freq, noted, gain>>

SetGain ==
  /\ on
  /\ \E g \in Gains[kind] : \E op \in {set_gain(g)} : \E r \in Results(op) :
       /\ Done(r)
       /\ gain' = (IF Sure(r) THEN g ELSE Keeps(gain, r))
       /\ tuned' = Keeps(tuned, r)
  /\ UNCHANGED <<on, direct, dev_freq, noted>>

SetGainMode ==
  /\ on
  /\ \E op \in {set_gain_mode(m) : m \in BOOLEAN} : \E r \in Results(op) : Done(r)
  /\ UNCHANGED <<on, direct, dev_freq, noted, gain, tuned>>

\* Only the E4000 has IF stages.
SetIfGain ==
  /\ on /\ kind = "E4000"
  /\ \E op \in {E!e4000_set_if_gain(s[1], s[2]) : s \in IfGains} : \E r \in Results(op) : Done(r)
  /\ UNCHANGED <<on, direct, dev_freq, noted, gain, tuned>>

Next == \/ Start \/ Close \/ SetFreq \/ SetFreqDirect \/ DirectOn \/ DirectOff
        \/ SetBw \/ SetGain \/ SetGainMode \/ SetIfGain
Spec == Init /\ [][Next]_vars

-----------------------------------------------------------------------------
\* From the call that tunes with success until the next that does not, the
\* chip's dividers make the frequency asked for, and its inputs, filters and
\* mixing are those of that frequency, whatever is called in between: gains
\* and bands share registers.  Direct sampling turned off is such a call too.
\* The FC0012's factor of 4 leaves 32 bits above 1073741 kHz, where a tuning may
\* succeed that makes another frequency (tuner_fc0012.c:202).  Which factor the
\* FC0012's and FC0013's dividers have is RF_OUTDIV_B's to say: it holds with the
\* tables' reading of that bit, and fails with the comment's for every frequency.
Wraps(freq) == kind = "FC0012" /\ freq > 1073741
TunedAsAsked ==
  tuned # None /\ ~Wraps(tuned) =>
    CASE kind \in {"FC0012", "FC0013"} ->
           F!FcTuned(kind, regs, Clock \div 2, tuned) /\ F!FcInput(kind, regs, tuned)
      [] kind = "FC2580" -> L!Fc2580Tuned(regs, tuned)
      [] kind = "E4000"  -> E!E4kTuned(regs, Clock, tuned) /\ E!E4kInput(regs, tuned)

\* The gain last set with success, of those that rtlsdr_get_tuner_gains lists,
\* is what the chip's registers mean, whatever is tuned afterwards.
GainAsAsked ==
  gain \in tuner_gains =>
    CASE kind = "FC0012" -> \E row \in 1 .. 5 : F!fc0012_gain_regs[row] = <<gain, F!LowBits(regs[19])>>
      [] kind = "FC0013" -> \E row \in DOMAIN F!fc0013_lna_gains :
                              F!fc0013_lna_gains[row] = <<gain, F!LowBits(regs[20])>>
      [] kind = "E4000"  -> E!E4kGain(regs) = gain
      [] kind = "FC2580" -> TRUE
=============================================================================
