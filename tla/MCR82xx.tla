------------------------------- MODULE MCR82xx ------------------------------
EXTENDS R82xx
\* The usual clocks of the two chips.
McSticks == {[rafael_chip |-> "R820T", pll_ref |-> 28800],
             [rafael_chip |-> "R828D", pll_ref |-> 16000]}
=============================================================================
