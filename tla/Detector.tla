------------------------------ MODULE Detector ------------------------------
(***************************************************************************)
(* The spike detector of ducky_fft (rtl_tcp.c): the bins of the two        *)
(* frequency windows, the FFT shift with averaging, the threshold taken    *)
(* over bands of the threshold window, and DETECTION_PIN, which a          *)
(* microcontroller watches.                                                *)
(*                                                                         *)
(* The unit of frequency is a bin, counted from lowerBound.  A bin's value *)
(* is a small integer, the imaginary part is left out.                     *)
(***************************************************************************)
EXTENDS Integers, FiniteSets, FiniteSetsExt

CONSTANTS
  Points,       \* desiredFFTPoints (= span, in bins)
  Bins,         \* MAX_BINS_FOR_MEDIAN, 100
  Margin,       \* percent of the span added to a window's sides, 1
  Buffer,       \* 10 ^ threshold_buffer
  Averaging,    \* enable_averaging
  Windows,      \* the windows asked for: desired and threshold, low and high
  Spectra,      \* the outputs of the FFT
  Garbage       \* what uninitialised memory may hold

None == -1                                       \* a frequency of 0: not given
Bin == 0..(Points - 1)

ASSUME DetectorAssumption ==
  /\ Points \in Nat \ {0} /\ Bins \in Nat \ {0} /\ Margin \in 0..100
  /\ Buffer \in Nat \ {0} /\ Averaging \in BOOLEAN
  /\ Windows \subseteq [dLow : None..Points, dHigh : None..Points,
                        tLow : None..Points, tHigh : None..Points]
  /\ Spectra \subseteq [Bin -> Int] /\ Garbage \subseteq Nat

VARIABLES
  window,                       \* the windows of this run of the program
  lower_pos, upper_pos, threshold_lower_pos, threshold_upper_pos,
  old_fft, curr_output, threshold_array,
  pc, i,                        \* ducky_fft: control, and bin of the scan
  pin                           \* the level of DETECTION_PIN

positions == <<window, lower_pos, upper_pos, threshold_lower_pos, threshold_upper_pos>>
data == <<old_fft, curr_output, threshold_array>>
vars == <<positions, data, pc, i, pin>>

(* The cast of a negative number to unsigned is undefined: it saturates, or
   wraps and is clamped. *)
Cast(hundredths) ==
  IF hundredths <= -100 THEN {0, Points - 1}
  ELSE {Min({IF hundredths < 0 THEN 0 ELSE hundredths \div 100, Points - 1})}
LowPos(f) == IF f = None THEN {0} ELSE Cast(100 * f - Margin * Points)
HighPos(f) == IF f = None THEN {Points - 1} ELSE Cast(100 * f + Margin * Points)

Init ==
  /\ window \in Windows
  /\ lower_pos \in LowPos(window.dLow) /\ upper_pos \in HighPos(window.dHigh)
  /\ threshold_lower_pos \in LowPos(window.tLow)
  /\ threshold_upper_pos \in HighPos(window.tHigh)
  /\ old_fft \in Spectra /\ curr_output = [b \in Bin |-> 0]
  /\ \E g \in Garbage : threshold_array = [k \in 0..Bins |-> g]
  /\ pc = "new" /\ i = 0 /\ pin = "LOW"

\* Mutant of FftBin: no shift.
FftBinUnshifted(j) == j

\* The shift: the upper half of the FFT's bins comes before the lower one.
FftBin(j) ==
  LET half == Points \div 2
  IN  IF j < Points - half THEN j + half ELSE j - (Points - half)

Power(out, b) == (out[b] + (IF Averaging THEN old_fft[b] ELSE 0)) ^ 2

\* fftw_execute and the loops that shift, average and square.
Crunch(out) ==
  /\ pc \in {"new", "idle"}
  /\ curr_output' = [j \in Bin |-> Power(out, FftBin(j))]
  /\ old_fft' = out /\ pc' = "threshold"
  /\ UNCHANGED <<positions, threshold_array, i, pin>>

\* threshold_array_transition, from an unsigned difference.
Transition == (threshold_upper_pos - threshold_lower_pos) \div Bins
Scanned ==
  IF window.tLow = None /\ window.tHigh = None THEN {}
  ELSE threshold_lower_pos..(threshold_upper_pos - 1)

\* curr_max_threshold once bin b has been looked at.
Band[b \in threshold_lower_pos..(threshold_upper_pos - 1)] ==
  IF b = threshold_lower_pos THEN 0
  ELSE IF b > Transition * Band[b - 1] + threshold_lower_pos
       THEN Band[b - 1] + 1 ELSE Band[b - 1]
curr_max_threshold == IF Scanned = {} THEN 0 ELSE Band[threshold_upper_pos - 1]

\* sum_threshold_maxes and max_value_threshold (0/0 without bands); the last
\* band is left out of both.
Sum(array, bands) == MapThenSumSet(LAMBDA k : array[k], 0..(bands - 1))
HasThreshold(array) == curr_max_threshold > 0 /\ Sum(array, curr_max_threshold) > 0
Spike(b) ==
  curr_output[b] * curr_max_threshold > Buffer * Sum(threshold_array, curr_max_threshold)

\* Element k of threshold_array after the threshold window has been looked at.
Raised(k) ==
  Max({threshold_array[k]} \cup
      {curr_output[b] : b \in {x \in Scanned : Band[x] = k}})

FindThreshold ==
  /\ pc = "threshold" /\ curr_max_threshold <= Bins
  /\ threshold_array' = [k \in 0..Bins |-> Raised(k)]
  /\ pc' = IF HasThreshold(threshold_array') THEN "scan" ELSE "idle"
  /\ i' = lower_pos
  /\ UNCHANGED <<positions, old_fft, curr_output, pin>>

\* Mutant of Overrun: threshold_array has Bins elements.
OverrunShort ==
  /\ pc = "threshold" /\ curr_max_threshold >= Bins
  /\ pc' = "undefined"
  /\ UNCHANGED <<positions, data, i, pin>>

\* More bands than threshold_array has elements: the program writes past it.
Overrun ==
  /\ pc = "threshold" /\ curr_max_threshold > Bins
  /\ pc' = "undefined"
  /\ UNCHANGED <<positions, data, i, pin>>

\* Mutant of Quiet: the pin is never lowered.
QuietKeepsPin ==
  /\ pc = "scan" /\ i < upper_pos /\ ~Spike(i)
  /\ i' = i + 1
  /\ UNCHANGED <<positions, data, pc, pin>>

\* for (i = lower_pos; i < upper_pos; i++)
Quiet ==
  /\ pc = "scan" /\ i < upper_pos /\ ~Spike(i)
  /\ pin' = "LOW" /\ i' = i + 1
  /\ UNCHANGED <<positions, data, pc>>

\* Mutant of Detect: a pin that is HIGH is written HIGH again.
DetectNoPulse ==
  /\ pc = "scan" /\ i < upper_pos /\ Spike(i)
  /\ pc' = "pulse"
  /\ UNCHANGED <<positions, data, i, pin>>

Detect ==                                  \* a pin that is HIGH goes LOW first
  /\ pc = "scan" /\ i < upper_pos /\ Spike(i)
  /\ pin' = "LOW" /\ pc' = "pulse"
  /\ UNCHANGED <<positions, data, i>>

Pulse ==
  /\ pc = "pulse"
  /\ pin' = "HIGH" /\ pc' = "idle"
  /\ UNCHANGED <<positions, data, i>>

ScanEnds ==
  /\ pc = "scan" /\ i >= upper_pos
  /\ pc' = "idle"
  /\ UNCHANGED <<positions, data, i, pin>>

Next ==
  \/ \E out \in Spectra : Crunch(out)
  \/ FindThreshold \/ Overrun \/ Quiet \/ Detect \/ Pulse \/ ScanEnds

Spec == Init /\ [][Next]_vars

-----------------------------------------------------------------------------
(***************************************************************************)
(* Between two FFTs the pin says what the last one held: it is HIGH exactly *)
(* if a bin of the window passed the threshold, provided there was a       *)
(* threshold and a window to scan.                                         *)
(***************************************************************************)
PinTellsSpike ==
  pc = "idle" /\ HasThreshold(threshold_array) /\ lower_pos < upper_pos =>
    (pin = "HIGH" <=> \E b \in lower_pos..(upper_pos - 1) : Spike(b))

(***************************************************************************)
(* "Ensures uController sees the pulse" (553): every detection, also one   *)
(* that follows another, gives the microcontroller a rising edge, and a    *)
(* pin never rises otherwise.                                              *)
(***************************************************************************)
RisesOncePerDetection ==
  [][(pin = "LOW" /\ pin' = "HIGH") <=> pc = "pulse"]_vars

(***************************************************************************)
(* curr_output is in the order of frequency: the bin at distance d from    *)
(* the middle holds the FFT's bin d, negative ones counted from the end    *)
(* (for an even number of points).                                         *)
(***************************************************************************)
OrderedByFrequency ==
  [][pc' = "threshold" =>
       \A j \in Bin :
         LET b == (j - Points \div 2) % Points
         IN  curr_output'[j] =
               (old_fft'[b] + (IF Averaging THEN old_fft[b] ELSE 0)) ^ 2]_vars

(***************************************************************************)
(* The bands run out of threshold_array only for windows whose width is at *)
(* least two more than a multiple of Bins that is too small for the rest,  *)
(* and never for a window narrower than Bins.                              *)
(***************************************************************************)
OverrunOnlyIfUneven ==
  LET width == Cardinality(Scanned)
  IN  pc = "undefined" => width > Bins /\ width - 1 > Bins * (width \div Bins)
=============================================================================
