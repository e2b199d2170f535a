-------------------------------- MODULE E4k ---------------------------------
(***************************************************************************)
(* The E4000 tuner (tuner_e4k.c) and its glue in librtlsdr.c.  Almost no   *)
(* result of a transfer is looked at: an operation goes on after a failure *)
(* and does not tell.  Frequencies are in kHz.                             *)
(***************************************************************************)
EXTENDS TunerBus, FiniteSetsExt

E4K_REG_MASTER1 == \h00
E4K_REG_SYNTH1 == \h07
E4K_REG_SYNTH3 == \h09
E4K_REG_SYNTH4 == \h0a
E4K_REG_SYNTH5 == \h0b
E4K_REG_SYNTH7 == \h0d
E4K_REG_FILT1 == \h10
E4K_REG_FILT2 == \h11
E4K_REG_FILT3 == \h12
E4K_REG_GAIN1 == \h14
E4K_REG_GAIN2 == \h15
E4K_REG_GAIN3 == \h16
E4K_REG_GAIN4 == \h17
E4K_REG_AGC1 == \h1a
E4K_REG_AGC7 == \h20
E4K_REG_AGC11 == \h24
E4K_REG_BIAS == \h78
Registers ==
  (0 .. \h25) \cup {\h2d, \h70, \h71, \h78, \h7a, \h7e, \h7f, \h82, \h86, \h87, \h88, \h9f, \ha0}

\* A read that fails gives -1, a byte of ones; a register that has the bits
\* already is not written.
e4k_reg_set_mask(reg, mask, val) ==
  IF val = mask THEN Change(reg, 255 - mask, val)
  ELSE BlindChange(reg, 255 - mask, val, 255)

\* The entry of a table closest to freq, the first of two.
Distance(a, b) == IF a > b THEN a - b ELSE b - a
closest_arr_idx(arr, freq) ==
  LET best == Min({Distance(arr[i], freq) : i \in DOMAIN arr})
  IN Min({i \in DOMAIN arr : Distance(arr[i], freq) = best}) - 1

-----------------------------------------------------------------------------
(* Filters.                                                                *)

rf_filt_center_uhf == <<
  360000, 380000, 405000, 425000, 450000, 475000, 505000, 540000,
  575000, 615000, 670000, 720000, 760000, 840000, 890000, 970000 >>
rf_filt_center_l == <<
  1300000, 1320000, 1360000, 1410000, 1445000, 1460000, 1490000, 1530000,
  1560000, 1590000, 1640000, 1660000, 1680000, 1700000, 1720000, 1750000 >>
choose_rf_filter(band, flo) ==
  CASE band \in {"VHF2", "VHF3"} -> 0
    [] band = "UHF" -> closest_arr_idx(rf_filt_center_uhf, flo)
    [] band = "L"   -> closest_arr_idx(rf_filt_center_l, flo)

mix_filter_bw == <<
  27000, 27000, 27000, 27000, 27000, 27000, 27000, 27000,
  4600, 4200, 3800, 3400, 3300, 2700, 2300, 1900 >>
ifrc_filter_bw == <<
  21400, 21000, 17600, 14700, 12400, 10600, 9000, 7700,
  6400, 5300, 4400, 3400, 2600, 1800, 1200, 1000 >>
ifch_filter_bw == <<
  5500, 5300, 5000, 4800, 4600, 4400, 4300, 4100, 3900, 3800, 3700, 3600, 3400, 3300, 3200, 3100,
  3000, 2950, 2900, 2800, 2750, 2700, 2600, 2550, 2500, 2450, 2400, 2300, 2280, 2240, 2200, 2150 >>

\* e4k_field_write.
e4k_if_filter_bw_set(filter, bw) ==
  Checked(
    CASE filter = "mix"  -> e4k_reg_set_mask(E4K_REG_FILT2, \hf0, 16 * closest_arr_idx(mix_filter_bw, bw))
      [] filter = "rc"   -> e4k_reg_set_mask(E4K_REG_FILT2, \h0f, closest_arr_idx(ifrc_filter_bw, bw))
      [] filter = "chan" -> e4k_reg_set_mask(E4K_REG_FILT3, \h1f, closest_arr_idx(ifch_filter_bw, bw)))
e4000_set_bw(bw) ==
  Forgets(<<e4k_if_filter_bw_set("mix", bw), e4k_if_filter_bw_set("rc", bw),
            e4k_if_filter_bw_set("chan", bw)>>)

-----------------------------------------------------------------------------
(* The PLL.  fosc is the clock.                                            *)

pll_vars == <<
  <<72400, 15, 48>>, <<81200, 14, 40>>, <<108300, 13, 32>>, <<162500, 12, 24>>,
  <<216600, 11, 16>>, <<325000, 10, 12>>, <<350000, 9, 8>>, <<432000, 3, 8>>,
  <<667000, 2, 6>>, <<1200000, 1, 4>> >>
is_fosc_valid(fosc) == fosc >= 16000 /\ fosc <= 30000

\* For no frequency at all the error's number is taken for one.
NoFlo == 4294967
e4k_compute_pll_params(fosc, intended_flo) ==
  LET rows == {i \in DOMAIN pll_vars : intended_flo < pll_vars[i][1]}
      row == IF rows = {} THEN <<0, 0, 2>>
             ELSE pll_vars[CHOOSE i \in rows : \A j \in rows : i <= j]
      r == row[3]
      fvco == intended_flo * r
      z == fvco \div fosc
      x == ((fvco % fosc) * 2^16) \div fosc
      got == fosc * (z % 256) + (fosc * x) \div 2^16
  IN [r_idx |-> row[2], z |-> z % 256, x |-> x, flo |-> IF got = 0 THEN NoFlo ELSE got \div r]

BandOf(flo) == IF flo < 140000 THEN "VHF2" ELSE IF flo < 350000 THEN "VHF3"
               ELSE IF flo < 1135000 THEN "UHF" ELSE "L"
BandBits(band) == CASE band = "VHF2" -> 0 [] band = "VHF3" -> 2 [] band = "UHF" -> 4 [] band = "L" -> 6
e4k_band_set(band) ==
  << W(E4K_REG_BIAS, IF band = "L" THEN 0 ELSE 3),
     e4k_reg_set_mask(E4K_REG_SYNTH1, \h06, 0),
     e4k_reg_set_mask(E4K_REG_SYNTH1, \h06, BandBits(band)) >>

\* The driver notes the band only when the last write of the seven succeeds;
\* the filter that follows goes by what is noted.
BandStep == 7
NotedBand(noted, flo, fault) ==
  IF fault = [at |-> BandStep, part |-> "write"] THEN noted ELSE BandOf(flo)
e4k_tune_params(p, noted, fault) ==
  Stores(<< <<E4K_REG_SYNTH7, p.r_idx>>, <<E4K_REG_SYNTH3, p.z>>,
            <<E4K_REG_SYNTH4, p.x % 256>>, <<E4K_REG_SYNTH5, p.x \div 256>> >>)
    \o e4k_band_set(BandOf(p.flo))
    \o <<e4k_reg_set_mask(E4K_REG_FILT1, \h0f,
                          choose_rf_filter(NotedBand(noted, p.flo, fault), p.flo))>>

\* Only the lock is told; a read of it that fails is taken for a lock.
LockStep == 9
e4k_tune_freq(fosc, freq, noted, locked, fault) ==
  IF ~is_fosc_valid(fosc) THEN Refuses(<<>>)
  ELSE Op(e4k_tune_params(e4k_compute_pll_params(fosc, freq), noted, fault)
            \o <<Read(E4K_REG_SYNTH1)>>,
          FALSE, IF locked \/ fault.at = LockStep THEN 0 ELSE -1, {})

-----------------------------------------------------------------------------
(* Gains, in tenths of a dB; those of the IF stages are in dB.             *)

lnagain == <<
  <<-50, 0>>, <<-25, 1>>, <<0, 4>>, <<25, 5>>, <<50, 6>>, <<75, 7>>, <<100, 8>>, <<125, 9>>,
  <<150, 10>>, <<175, 11>>, <<200, 12>>, <<250, 13>>, <<300, 14>> >>
LnaGain(gain, mixgain) == IF gain - mixgain * 10 < 300 THEN gain - mixgain * 10 ELSE 300
e4000_set_gain(gain) ==
  LET mixgain == IF gain > 340 THEN 12 ELSE 4
      rows == {i \in DOMAIN lnagain : lnagain[i][1] = LnaGain(gain, mixgain)}
  IN IF rows = {} THEN Refuses(<<>>)
     ELSE Silent(<<e4k_reg_set_mask(E4K_REG_GAIN1, \h0f, lnagain[CHOOSE i \in rows : TRUE][2]),
                   e4k_reg_set_mask(E4K_REG_GAIN2, 1, IF mixgain = 12 THEN 1 ELSE 0)>>)

AgcSerial == 0
AgcLnaAuto == 9
e4k_enable_manual_gain(manual) ==
  IF manual THEN << e4k_reg_set_mask(E4K_REG_AGC1, \h0f, AgcSerial), e4k_reg_set_mask(E4K_REG_AGC7, 1, 0) >>
  ELSE << e4k_reg_set_mask(E4K_REG_AGC1, \h0f, AgcLnaAuto), e4k_reg_set_mask(E4K_REG_AGC7, 1, 1),
          e4k_reg_set_mask(E4K_REG_AGC11, 7, 0) >>
e4000_set_gain_mode(manual) == Silent(e4k_enable_manual_gain(manual))

if_stage_gain == <<
  <<-3, 6>>, <<0, 3, 6, 9>>, <<0, 3, 6, 9>>, <<0, 1, 2, 2>>,
  <<3, 6, 9, 12, 15, 15, 15, 15>>, <<3, 6, 9, 12, 15, 15, 15, 15>> >>
\* The register of each stage, the shift and the mask of its field.
if_stage_gain_regs == <<
  <<E4K_REG_GAIN3, 0, 1>>, <<E4K_REG_GAIN3, 1, 3>>, <<E4K_REG_GAIN3, 3, 3>>,
  <<E4K_REG_GAIN3, 5, 3>>, <<E4K_REG_GAIN4, 0, 7>>, <<E4K_REG_GAIN4, 3, 7>> >>
StageGains(stage, gain) == {i \in DOMAIN if_stage_gain[stage] : if_stage_gain[stage][i] = gain}
e4k_if_gain_set(stage, gain) ==
  LET field == if_stage_gain_regs[stage]
      found == StageGains(stage, gain)
      first == CHOOSE i \in found : \A j \in found : i <= j
  IN e4k_reg_set_mask(field[1], field[3] * 2^field[2], (first - 1) * 2^field[2])
e4000_set_if_gain(stage, gain) ==
  IF stage \notin DOMAIN if_stage_gain THEN Refuses(<<>>)
  ELSE IF StageGains(stage, gain) = {} THEN Refuses(<<>>)
  ELSE Forgets(<<e4k_if_gain_set(stage, gain)>>)

-----------------------------------------------------------------------------
(* e4k_init and e4k_standby.                                               *)

e4k_init ==
  Silent(
    <<Read(0)>>
    \o Stores(<< <<E4K_REG_MASTER1, 7>>, <<\h05, 0>>, <<\h06, 0>>, <<\h7a, \h96>>,
                 <<\h7e, \h01>>, <<\h7f, \hfe>>, <<\h82, 0>>, <<\h86, \h50>>, <<\h87, \h20>>,
                 <<\h88, \h01>>, <<\h9f, \h7f>>, <<\ha0, \h07>>,
                 <<\h1d, \h10>>, <<\h1e, \h04>>, <<\h1f, \h1a>> >>)
    \o e4k_enable_manual_gain(TRUE) \o e4k_enable_manual_gain(FALSE)
    \o [stage \in 1 .. 6 |-> e4k_if_gain_set(stage, <<6, 0, 0, 0, 9, 9>>[stage])]
    \o << e4k_if_filter_bw_set("mix", 1900), e4k_if_filter_bw_set("rc", 1000),
          e4k_if_filter_bw_set("chan", 2150), e4k_reg_set_mask(E4K_REG_FILT3, \h20, 0),
          e4k_reg_set_mask(\h2d, 3, 0), e4k_reg_set_mask(\h70, 3, 0),
          e4k_reg_set_mask(\h71, 3, 0) >>)
e4k_standby == Silent(<<e4k_reg_set_mask(E4K_REG_MASTER1, 2, 0)>>)

-----------------------------------------------------------------------------
(* The reference: what the chip makes of its registers.                    *)

E4kDivides(regs) == CASE regs[E4K_REG_SYNTH7] = 0  -> 2  [] regs[E4K_REG_SYNTH7] = 1  -> 4
                      [] regs[E4K_REG_SYNTH7] = 2  -> 6  [] regs[E4K_REG_SYNTH7] = 3  -> 8
                      [] regs[E4K_REG_SYNTH7] = 9  -> 8  [] regs[E4K_REG_SYNTH7] = 10 -> 12
                      [] regs[E4K_REG_SYNTH7] = 11 -> 16 [] regs[E4K_REG_SYNTH7] = 12 -> 24
                      [] regs[E4K_REG_SYNTH7] = 13 -> 32 [] regs[E4K_REG_SYNTH7] = 14 -> 40
                      [] regs[E4K_REG_SYNTH7] = 15 -> 48 [] OTHER -> 0
E4kVcoKhz(regs, fosc) ==
  fosc * regs[E4K_REG_SYNTH3]
    + (fosc * (256 * regs[E4K_REG_SYNTH5] + regs[E4K_REG_SYNTH4])) \div 2^16
E4kTuned(regs, fosc, freq) ==
  freq * E4kDivides(regs) - E4kVcoKhz(regs, fosc) \in 0 .. 2
\* The input of the range, the mixing of VHF or UHF and, in UHF and L, the
\* nearest filter.  At an edge the PLL, which rounds down, is just below it.
Ranges(freq) == (IF freq < 140000 THEN 0 ELSE IF freq < 350000 THEN 1 ELSE IF freq < 1135000 THEN 2 ELSE 3)
E4kInput(regs, freq) ==
  LET band == (regs[E4K_REG_SYNTH1] & 6) \div 2
      centers == IF band = 2 THEN rf_filt_center_uhf ELSE rf_filt_center_l
      filter == regs[E4K_REG_FILT1] & 15
  IN /\ band \in {Ranges(freq - 1), Ranges(freq)}
     /\ (regs[E4K_REG_BIAS] = 0) = (band = 3)
     /\ (regs[E4K_REG_SYNTH7] & 8 # 0) = (freq < 350000)
     /\ IF band < 2 THEN filter = 0
        ELSE \A k \in DOMAIN centers :
               Distance(centers[filter + 1], freq) <= Distance(centers[k], freq) + 2
E4kGain(regs) ==
  LET rows == {i \in DOMAIN lnagain : lnagain[i][2] = regs[E4K_REG_GAIN1] & 15}
  IN (IF rows = {} THEN -1000 ELSE lnagain[CHOOSE i \in rows : TRUE][1])
       + (IF regs[E4K_REG_GAIN2] & 1 = 1 THEN 120 ELSE 40)
=============================================================================
