------------------------------- MODULE Fc001x -------------------------------
(***************************************************************************)
(* The FC0012 and FC0013 tuners (tuner_fc0012.c, tuner_fc0013.c) and their *)
(* glue in librtlsdr.c.  The frequency asked for is in kHz, those of the   *)
(* VCO in units of 8 Hz, in which 32 bits are 29.                          *)
(***************************************************************************)
EXTENDS TunerBus

\* The value of bit 1 of register 6 with which the chip divides by a multiple
\* of 3: 0, if the tables of factors are right (tuner_fc0012.c:161-200,
\* tuner_fc0013.c:261-305), and 1, if the comments are ("Set to select 3 instead
\* of 2 for the RF output divider", tuner_fc0012.c:69, and "divider 2" of a clear
\* bit, tuner_fc0012.c:102).  Nothing else in the code tells which.
CONSTANT RF_OUTDIV_B

Khz == 125
GPO == 256    \* pin 6 of the stick, which switches the FC0012's input
Registers == (1 .. 21) \cup {29, GPO}

fc0012_init ==
  Stops(Stores(<<
    <<1, \h05>>, <<2, \h10>>, <<3, 0>>, <<4, 0>>, <<5, \h0f>>, <<6, 0>>, <<7, \h20>>,
    <<8, \hff>>, <<9, \h6e>>, <<10, \hb8>>, <<11, \h82>>, <<12, \hfe>>, <<13, \h02>>,
    <<14, 0>>, <<15, 0>>, <<16, 0>>, <<17, 0>>, <<18, \h1f>>, <<19, \h08>>, <<20, 0>>,
    <<21, \h04>> >>))

fc0013_init ==
  Stops(Stores(<<
    <<1, \h09>>, <<2, \h16>>, <<3, 0>>, <<4, 0>>, <<5, \h17>>, <<6, \h02>>, <<7, \h2a>>,
    <<8, \hff>>, <<9, \h6e>>, <<10, \hb8>>, <<11, \h82>>, <<12, \hfe>>, <<13, \h01>>,
    <<14, 0>>, <<15, 0>>, <<16, 0>>, <<17, 0>>, <<18, 0>>, <<19, 0>>, <<20, \h50>>,
    <<21, \h01>> >>))

-----------------------------------------------------------------------------
(* The divider between the VCO and the mixer: from the upper end of each   *)
(* range, the factor and the bits of registers 5 and 6 that select it.     *)

Endless == 2000000000
fc0012_dividers == <<
  <<37084, 96, \h82, 0>>, <<55625, 64, \h82, 2>>, <<74167, 48, \h42, 0>>,
  <<111250, 32, \h42, 2>>, <<148334, 24, \h22, 0>>, <<222500, 16, \h22, 2>>,
  <<296667, 12, \h12, 0>>, <<445000, 8, \h12, 2>>, <<593334, 6, \h0a, 0>>,
  <<Endless, 4, \h0a, 2>> >>
fc0013_dividers == <<
  <<37084, 96, \h82, 0>>, <<55625, 64, \h02, 2>>, <<74167, 48, \h42, 0>>,
  <<111250, 32, \h82, 2>>, <<148334, 24, \h22, 0>>, <<222500, 16, \h42, 2>>,
  <<296667, 12, \h12, 0>>, <<445000, 8, \h22, 2>>, <<593334, 6, \h0a, 0>>,
  <<950000, 4, \h12, 2>>, <<Endless, 2, \h0a, 2>> >>

\* The first row whose upper end is above freq.
Row(rows, freq) ==
  rows[CHOOSE i \in DOMAIN rows :
         freq < rows[i][1] /\ \A j \in 1 .. i - 1 : freq >= rows[j][1]]
Dividers(kind) == IF kind = "FC0012" THEN fc0012_dividers ELSE fc0013_dividers
Multi(kind, freq) == Row(Dividers(kind), freq)[2]

\* freq * multi is computed in 32 bits.
FVco(kind, freq) == (freq * Khz * Multi(kind, freq)) % 2^29
Upper(f_vco) == f_vco >= 3060000 * Khz

\* The integer part of the ratio, to the nearest, as two registers.
XDiv(f_vco, half) ==
  (f_vco \div half) + (IF f_vco % half >= half \div 2 THEN 1 ELSE 0)
AmPm(xdiv) ==
  LET borrows == xdiv % 8 < 2
      am == (xdiv % 8) + (IF borrows THEN 8 ELSE 0)
      pm == IF borrows THEN ((xdiv \div 8) - 1) % 256 ELSE xdiv \div 8
  IN IF pm > 31 THEN <<(am + 8 * (pm - 31)) % 256, 31>> ELSE <<am, pm>>
ValidPll(ampm) == ampm[1] <= 15 /\ ampm[2] >= 11

\* The fraction, in 15 bits and a sign; half is a number of kHz here.
XIn(f_vco, half) ==
  LET xin == (((f_vco % half) \div Khz) * 2^15) \div (half \div Khz)
  IN (IF xin >= 2^14 THEN xin + 2^15 ELSE xin) % 2^16

Bandwidth6MHz == \h80
Reg6(kind, freq) ==
  Row(Dividers(kind), freq)[4] + \h20 + Bandwidth6MHz
    + (IF Upper(FVco(kind, freq)) THEN 8 ELSE 0)

PllRegs(kind, freq, half) ==
  LET f_vco == FVco(kind, freq)
      ampm == AmPm(XDiv(f_vco, half))
  IN Stores(<< <<1, ampm[1]>>, <<2, ampm[2]>>,
               <<3, XIn(f_vco, half) \div 256>>, <<4, XIn(f_vco, half) % 256>>,
               <<5, Row(Dividers(kind), freq)[3] | 7>>, <<6, Reg6(kind, freq)>> >>)

\* The VCO is calibrated; volts is what it reports.  At the end of its range
\* the other one is chosen.
Calibrate == Stores(<< <<14, \h80>>, <<14, 0>> >>)
Vco(kind, freq, volts) ==
  LET upper == Upper(FVco(kind, freq))
      other == Reg6(kind, freq) + (IF upper THEN -8 ELSE 8)
      wrong == IF upper THEN volts > \h3c ELSE volts < 2
  IN Calibrate \o <<W(14, 0), Read(14)>>
       \o (IF wrong THEN <<W(6, other)>> \o Calibrate ELSE <<>>)

fc0012_set_freq(freq, half, volts) ==
  LET pin == <<Pin(GPO, IF freq > 300000 THEN 1 ELSE 0)>> IN
  IF ~ValidPll(AmPm(XDiv(FVco("FC0012", freq), half)))
  THEN Refuses(pin)
  ELSE Stops(pin \o PllRegs("FC0012", freq, half) \o Vco("FC0012", freq, volts))

\* The FC0013's input: the tracking filter of VHF, and the switches.
vhf_track == <<
  <<177501, \h1c>>, <<184501, \h18>>, <<191501, \h14>>, <<198501, \h10>>, <<205501, \h0c>>,
  <<219501, \h08>>, <<300000, \h04>>, <<Endless, \h1c>> >>
\* Mutant of Switches: the gain, in the same register, is not kept.
SwitchesClear(freq) ==
  IF freq < 300000 THEN <<Change(7, \hef, \h10), Change(20, 0, 0)>>
  ELSE <<Change(7, \hef, 0), Change(20, 0, IF freq <= 862000 THEN \h40 ELSE \h20)>>
Switches(freq) ==
  IF freq < 300000 THEN <<Change(7, \hef, \h10), Change(20, \h1f, 0)>>
  ELSE <<Change(7, \hef, 0), Change(20, \h1f, IF freq <= 862000 THEN \h40 ELSE \h20)>>

fc0013_set_freq(freq, half, volts) ==
  LET input == <<Change(29, \he3, Row(vhf_track, freq)[2])>> \o Switches(freq)
      by64 == IF Multi("FC0013", freq) = 64 THEN Change(17, \hfb, 4) ELSE Change(17, \hfb, 0)
  IN IF ~ValidPll(AmPm(XDiv(FVco("FC0013", freq), half)))
     THEN Refuses(input)
     ELSE Stops(input \o PllRegs("FC0013", freq, half) \o <<by64>>
                  \o Vco("FC0013", freq, volts))

-----------------------------------------------------------------------------
(* Gains, in tenths of a dB.  A read that fails leaves 0, which is written *)
(* back with the gain; the FC0012 does not even tell.                      *)

fc0012_gain_regs == << <<-99, \h02>>, <<-40, 0>>, <<71, \h08>>, <<179, \h17>>, <<192, \h10>> >>
fc0012_set_gain(gain) ==
  LET rows == {i \in 1 .. 4 : fc0012_gain_regs[i][1] = gain}
      bits == IF rows = {} THEN \h10 ELSE fc0012_gain_regs[CHOOSE i \in rows : TRUE][2]
  IN Forgets(<<BlindChange(19, \he0, bits, 0)>>)

fc0013_lna_gains == <<
  <<-99, \h02>>, <<-73, \h03>>, <<-65, \h05>>, <<-63, \h04>>, <<-63, 0>>, <<-60, \h07>>,
  <<-58, \h01>>, <<-54, \h06>>, <<58, \h0f>>, <<61, \h0e>>, <<63, \h0d>>, <<65, \h0c>>,
  <<67, \h0b>>, <<68, \h0a>>, <<70, \h09>>, <<71, \h08>>, <<179, \h17>>, <<181, \h16>>,
  <<182, \h15>>, <<184, \h14>>, <<186, \h13>>, <<188, \h12>>, <<191, \h11>>, <<197, \h10>> >>
\* The first gain that is not less, or the last.
LnaBits(gain) ==
  LET last == Len(fc0013_lna_gains)
      row == CHOOSE i \in 1 .. last :
               /\ fc0013_lna_gains[i][1] >= gain \/ i = last
               /\ \A j \in 1 .. i - 1 : fc0013_lna_gains[j][1] < gain
  IN fc0013_lna_gains[row][2]

\* Mutant of fc0013_set_lna_gain: the band, in the same register, is not kept.
fc0013_set_lna_gain_whole(gain) == GoesOn(<<BlindChange(20, 0, LnaBits(gain), 0)>>)

fc0013_set_lna_gain(gain) == GoesOn(<<BlindChange(20, \he0, LnaBits(gain), 0)>>)
fc0013_set_gain_mode(manual) ==
  GoesOn(<<BlindChange(13, \hf7, IF manual THEN 8 ELSE 0, 0), W(19, \h0a)>>)

-----------------------------------------------------------------------------
(* The reference: what the chip makes of its registers.                    *)

\* Of bits 3 to 7 of register 5 one selects a factor of 2, 4 to 32; bit 1 of
\* register 6 tells what it is multiplied with.
Stage(reg5) == LET set == {k \in 1 .. 5 : reg5 & 2^(k+2) # 0}
               IN IF set = {} THEN 0 ELSE 2^(CHOOSE k \in set : TRUE)
Divides(kind, regs) ==
  LET thirds == (regs[6] & 2) \div 2 = RF_OUTDIV_B IN
  IF kind = "FC0012" THEN Stage(regs[5]) * (IF thirds THEN 3 ELSE 2)
  ELSE IF regs[17] & 4 # 0 THEN (IF Stage(regs[5]) = 0 THEN 64 ELSE 0)
  ELSE Stage(regs[5]) * (IF thirds THEN 3 ELSE 1)

LowBits(reg) == reg & \h1f

\* The frequency of the VCO in kHz.
Fraction(regs) == LET xin == 256 * regs[3] + regs[4] IN IF xin >= 2^15 THEN xin - 2^16 ELSE xin
VcoKhz(regs, half_khz) ==
  (8 * regs[2] + regs[1]) * half_khz + (Fraction(regs) * half_khz) \div 2^15

Within(a, b, tolerance) == a - b <= tolerance /\ b - a <= tolerance
FcTuned(kind, regs, half_khz, freq) ==
  Within(VcoKhz(regs, half_khz), freq * Divides(kind, regs), 2)
FcInput(kind, regs, freq) ==
  IF kind = "FC0012" THEN regs[GPO] = (IF freq > 300000 THEN 1 ELSE 0)
  ELSE /\ regs[20] & \he0 = (IF freq < 300000 THEN 0 ELSE IF freq <= 862000 THEN \h40 ELSE \h20)
       /\ (regs[7] & \h10 # 0) = (freq < 300000)
=============================================================================
