----------------------------- MODULE MCDetector -----------------------------
(***************************************************************************)
(* Detector on six points and three bands, with a margin of one bin.       *)
(***************************************************************************)
EXTENDS Detector

\* Silence, noise everywhere, and a spike of either sign in one bin.
MCSpectra ==
  {[b \in Bin |-> 0], [b \in Bin |-> 1]} \cup
  {[b \in Bin |-> IF b = x THEN v ELSE 0] : x \in Bin, v \in {2, -2}}

\* Nothing asked for, no detection window, an overlap, an edge of the band, a
\* threshold window of five bins (more bands than fit), one of a single bin.
MCWindows ==
  {[dLow |-> None, dHigh |-> None, tLow |-> None, tHigh |-> None],
   [dLow |-> None, dHigh |-> None, tLow |-> 2, tHigh |-> 3],
   [dLow |-> 4, dHigh |-> 5, tLow |-> 1, tHigh |-> 2],
   [dLow |-> 0, dHigh |-> 2, tLow |-> 3, tHigh |-> 5],
   [dLow |-> 4, dHigh |-> 5, tLow |-> None, tHigh |-> 4],
   [dLow |-> 2, dHigh |-> None, tLow |-> 1, tHigh |-> 0]}
=============================================================================
