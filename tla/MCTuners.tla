------------------------------ MODULE MCTuners ------------------------------
(***************************************************************************)
(* The values for TLC: frequencies at the ends of bands, of dividers and of*)
(* what the FC0012 takes, and gains in and out of the driver's tables.     *)
(***************************************************************************)
EXTENDS Tuners

MCFreqs == [FC0012 |-> {45000, 300000, 940000, 1000000, 1076000},
            FC0013 |-> {45000, 300000, 862000, 950000},
            FC2580 |-> {400000, 538000, 1700000},
            E4000  |-> {140000, 862000, 1300000}]
MCGains == [FC0012 |-> {-99, 192}, FC0013 |-> {-63, 197}, FC2580 |-> {0}, E4000 |-> {-10, 420}]
MCIfGains == {<<1, 6>>, <<7, 3>>}
=============================================================================
