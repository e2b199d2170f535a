------------------------------- MODULE Fc2580 -------------------------------
(***************************************************************************)
(* The FC2580 tuner (tuner_fc2580.c) and its glue in librtlsdr.c.  Every   *)
(* operation goes on after a failure and tells of it at the end.           *)
(* Frequencies are in kHz.                                                 *)
(***************************************************************************)
EXTENDS TunerBus

freq_xtal == 16384
BORDER_FREQ == 2600000
Registers ==
  {0, 2, 9, 11, 12, 14, \h12, \h14, \h16, \h18, \h1a, \h1b, \h1c, \h1f, \h21, \h22, \h25, \h30, \h36, \h37,
   \h39, \h3f, \h44, \h45, \h4c, \h50, \h53, \h58, \h5f} \cup (\h27 .. \h2f) \cup (\h61 .. \h6f)

\* fc2580_set_filter, when the calibration is not ready at so many of the
\* five times it is asked for.
FilterRegs(filter_bw) ==
  CASE filter_bw = 1 -> << <<\h36, \h1c>>, <<\h37, (4151 * freq_xtal) \div 1000000>>, <<\h39, 0>> >>
    [] filter_bw = 7 -> << <<\h36, \h18>>, <<\h37, (3910 * freq_xtal) \div 1000000>>, <<\h39, \h80>> >>
    [] filter_bw = 8 -> << <<\h36, \h18>>, <<\h37, (3300 * freq_xtal) \div 1000000>>, <<\h39, \h80>> >>
Asks(unready) ==
  LET again == <<Read(\h2f), W(\h2e, \h01), W(\h2e, \h09)>>
      f[k \in 0 .. unready] == IF k = 0 THEN <<>> ELSE f[k-1] \o again
  IN f[unready] \o (IF unready < 5 THEN <<Read(\h2f)>> ELSE <<>>)
fc2580_set_filter(filter_bw, unready) ==
  Stores(FilterRegs(filter_bw)) \o <<W(\h2e, \h09)>> \o Asks(unready) \o <<W(\h2e, \h01)>>

fc2580_init(unready) ==
  GoesOn(Stores(<<
    <<0, 0>>, <<\h12, \h86>>, <<\h14, \h5c>>, <<\h16, \h3c>>, <<\h1f, \hd2>>, <<\h09, \hd7>>,
    <<\h0b, \hd5>>, <<\h0c, \h32>>, <<\h0e, \h43>>, <<\h21, \h0a>>, <<\h22, \h82>>,
    <<\h45, \h20>>, <<\h4c, \h02>>, <<\h3f, \h88>>, <<\h02, \h0e>>, <<\h58, \h14>> >>)
    \o fc2580_set_filter(8, unready))
fc2580_set_bw(unready) == GoesOn(fc2580_set_filter(1, unready))

-----------------------------------------------------------------------------
(* fc2580_set_freq.                                                        *)

Band(f_lo) == IF f_lo > 1000000 THEN "L" ELSE IF f_lo > 400000 THEN "UHF" ELSE "VHF"
Factor(band) == CASE band = "UHF" -> 4 [] band = "L" -> 2 [] band = "VHF" -> 12
BandBits(band) == CASE band = "UHF" -> 0 [] band = "L" -> \h40 [] band = "VHF" -> \h80
BandFilter(band) == CASE band = "UHF" -> 8 [] band = "L" -> 1 [] band = "VHF" -> 7

\* Registers 61, 62, 67, 68, 69 and 6A.
UhfLna(f_lo) ==
  CASE f_lo < 538000 -> <<\h07, \h06, \h06, \h08, \h10, \h12>>
    [] f_lo >= 538000 /\ f_lo < 794000 -> <<\h03, \h03, \h03, \h05, \h0c, \h0e>>
    [] f_lo >= 794000 -> <<\h07, \h06, \h07, \h09, \h10, \h12>>
BandRegs(f_lo) ==
  CASE Band(f_lo) = "UHF" ->
    LET lna == UhfLna(f_lo) IN
    << <<\h25, \hf0>>, <<\h27, \h77>>, <<\h28, \h53>>, <<\h29, \h60>>, <<\h30, \h09>>,
       <<\h50, \h8c>>, <<\h53, \h50>>, <<\h5f, IF f_lo < 538000 THEN \h13 ELSE \h15>>,
       <<\h61, lna[1]>>, <<\h62, lna[2]>>, <<\h67, lna[3]>>, <<\h68, lna[4]>>,
       <<\h69, lna[5]>>, <<\h6a, lna[6]>>, <<\h63, \h15>>, <<\h6b, \h0b>>,
       <<\h6c, \h0c>>, <<\h6d, \h78>>, <<\h6e, \h32>>, <<\h6f, \h14>> >>
  [] Band(f_lo) = "VHF" ->
    << <<\h27, \h77>>, <<\h28, \h33>>, <<\h29, \h40>>, <<\h30, \h09>>, <<\h50, \h8c>>,
       <<\h53, \h50>>, <<\h5f, \h0f>>, <<\h61, \h07>>, <<\h62, 0>>, <<\h63, \h15>>,
       <<\h67, \h03>>, <<\h68, \h05>>, <<\h69, \h10>>, <<\h6a, \h12>>, <<\h6b, \h08>>,
       <<\h6c, \h0a>>, <<\h6d, \h78>>, <<\h6e, \h32>>, <<\h6f, \h54>> >>
  [] Band(f_lo) = "L" ->
    << <<\h2b, \h70>>, <<\h2c, \h37>>, <<\h2d, \he7>>, <<\h30, \h09>>, <<\h44, \h20>>,
       <<\h50, \h8c>>, <<\h53, \h50>>, <<\h5f, \h0f>>, <<\h61, \h0f>>, <<\h62, 0>>,
       <<\h63, \h13>>, <<\h67, 0>>, <<\h68, \h02>>, <<\h69, \h0c>>, <<\h6a, \h0e>>,
       <<\h6b, \h08>>, <<\h6c, \h0a>>, <<\h6d, \ha0>>, <<\h6e, \h50>>, <<\h6f, \h14>> >>

RVal(f_vco) == IF f_vco >= 2 * 76 * freq_xtal THEN 1 ELSE IF f_vco >= 76 * freq_xtal THEN 2 ELSE 4
RBits(r_val) == CASE r_val = 1 -> 0 [] r_val = 2 -> \h10 [] r_val = 4 -> \h20

\* The fraction of 20 bits, to the nearest; four of them are shifted out of
\* the divisor, not into the dividend, which has 32 bits.
KVal(f_vco, f_comp) ==
  LET f_diff == f_vco % (2 * f_comp)
      divisor == (2 * f_comp) \div 16
      k_val == (f_diff * 2^16) \div divisor
  IN k_val + (IF (f_diff * 2^16) % divisor >= f_comp \div 16 THEN 1 ELSE 0)

PllValues(f_lo) ==
  LET f_vco == f_lo * Factor(Band(f_lo))
      f_comp == freq_xtal \div RVal(f_vco)
      k_val == KVal(f_vco, f_comp)
  IN Stores(<<
       <<\h02, BandBits(Band(f_lo)) + \h06 + (IF f_vco >= BORDER_FREQ THEN 8 ELSE 0)>>,
       <<\h18, (RBits(RVal(f_vco)) + k_val \div 2^16) % 256>>,
       <<\h1a, (k_val \div 2^8) % 256>>, <<\h1b, k_val % 256>>,
       <<\h1c, ((f_vco \div 2) \div f_comp) % 256>> >>)

fc2580_set_freq(f_lo, unready) ==
  GoesOn(Stores(BandRegs(f_lo)) \o fc2580_set_filter(BandFilter(Band(f_lo)), unready)
           \o PllValues(f_lo)
           \o (IF Band(f_lo) = "UHF"
               THEN <<W(\h2d, IF f_lo <= 794000 THEN \h9f ELSE \h8f)>> ELSE <<>>))

-----------------------------------------------------------------------------
(* The reference: what the chip makes of its registers.                    *)

\* Its divider, from the bits of the band.
Fc2580Divides(regs) ==
  CASE regs[\h02] & \hc0 = \h80 -> 12 [] regs[\h02] & \hc0 = \h40 -> 2
    [] regs[\h02] & \hc0 = 0 -> 4     [] OTHER -> 0
\* The frequency of the VCO, from twice that of the comparison.
Fc2580VcoKhz(regs) ==
  LET f2 == (2 * freq_xtal) \div 2^((regs[\h18] \div 16) % 4)
      k_val == 2^16 * (regs[\h18] % 16) + 2^8 * regs[\h1a] + regs[\h1b]
  IN f2 * regs[\h1c] + ((f2 \div 2^12) * k_val) \div 2^8
Fc2580Tuned(regs, f_lo) ==
  LET f_vco == f_lo * Fc2580Divides(regs)
  IN f_vco - Fc2580VcoKhz(regs) \in -1 .. 1 /\ (regs[\h02] & 8 # 0) = (f_vco >= BORDER_FREQ)
=============================================================================
