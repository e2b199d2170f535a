----------------------------- MODULE PowerPlan -----------------------------
(***************************************************************************)
(* rtl_power's planner, frequency_range, and the two places that live by   *)
(* its numbers: the windows that scanner cuts from a buffer and the rows   *)
(* that csv_dbm prints.  One behaviour plans one range and then scans and  *)
(* prints its hops in order.  The crop is a number of quarters, so that    *)
(* the code's doubles are exact here; the powers themselves are left out.  *)
(***************************************************************************)
EXTENDS Integers, Sequences, FiniteSetsExt

CONSTANTS Widths,    \* upper - lower of -f, in Hz
          Sizes,     \* max_size, the bin size asked for
          Crops,     \* -c, in quarters of the bandwidth
          Lower      \* lower of -f

\* The bandwidth without its crop is a number of 31 bits, as the code's int.
FitsInt(width, crop) == width \div (4 - crop) < 536870912

ASSUME PlanAssumption ==
    /\ Widths \subseteq Nat \ {0} /\ Sizes \subseteq Nat \ {0}
    /\ Crops \subseteq 0..3 /\ Lower \in Nat
    /\ \A w \in Widths, c \in Crops : FitsInt(w, c)

VARIABLES asked,     \* what the command line asks for
          plan,      \* what frequency_range makes of it
          hop,       \* the next hop to scan; tune_count when the sweep is over
          rows       \* the rows printed so far

planVars == <<asked, plan, hop, rows>>

MAXIMUM_RATE       == 2800000
MINIMUM_RATE       == 1000000
HIGHEST_RATE       == 3200000  \* of rtlsdr_set_sample_rate
DEFAULT_BUF_LENGTH == 16384
INT_MAX            == 2147483647
LongestSplit       == 1499     \* the planner tries no more hops than this

(***************************************************************************)
(* frequency_range.                                                        *)
(***************************************************************************)
Uncropped(bw, crop) == (bw * 4) \div (4 - crop)

\* As few evenly sized ranges as the highest rate allows.
Split(width, crop) ==
    LET n == Min({i \in 1..LongestSplit :
                    Uncropped(width \div i, crop) <= MAXIMUM_RATE})
    IN  [tune_count |-> n, bw_seen |-> width \div n, downsample |-> 1,
         bw_used |-> Uncropped(width \div n, crop)]

\* A range narrower than the lowest rate is sampled faster and decimated.
Raise(p) ==
    IF p.bw_used >= MINIMUM_RATE THEN p
    ELSE LET ds == MAXIMUM_RATE \div p.bw_used
         IN  [tune_count |-> 1, bw_seen |-> p.bw_seen, downsample |-> ds,
              bw_used |-> p.bw_used * ds]

\* Mutant of Halvings: the rate stays that of the other filter.
HalvingsKeepRate(p, crop, boxcar) ==
    IF boxcar \/ p.downsample = 1 THEN p
    ELSE [p EXCEPT !.downsample = Max({k \in {2^i : i \in 0..21} : k <= p.downsample})]

\* The recursive filter halves: it decimates by powers of two only.
Halvings(p, crop, boxcar) ==
    IF boxcar \/ p.downsample = 1 THEN p
    ELSE LET ds == Max({k \in {2^i : i \in 0..21} : k <= p.downsample})
         IN  [tune_count |-> p.tune_count, bw_seen |-> p.bw_seen, downsample |-> ds,
              bw_used |-> Uncropped(p.bw_seen * ds, crop)]

\* The bins are narrow enough, rounded up.
Fine(p, i, size) ==
    p.bw_used \div (2^i * p.downsample)
        + (IF p.bw_used % (2^i * p.downsample) = 0 THEN 0 ELSE 1) <= size

BinExponent(p, size) ==
    CHOOSE i \in 1..21 : /\ Fine(p, i, size) \/ i = 21
                         /\ \A j \in 1..(i - 1) : ~Fine(p, j, size)

Sized(p, a) ==
    LET giant == a.size >= MINIMUM_RATE
    IN  [tune_count |-> IF giant THEN a.width \div a.size ELSE p.tune_count,
         bw_seen    |-> IF giant THEN a.size ELSE p.bw_seen,
         bw_used    |-> IF giant THEN a.size ELSE p.bw_used,
         bin_e      |-> IF giant THEN 0 ELSE BinExponent(p, a.size),
         crop       |-> IF giant THEN 0 ELSE a.crop,
         downsample |-> p.downsample,
         buf_len    |-> DEFAULT_BUF_LENGTH]

\* Mutant of Buffered: the decimation is forgotten.
BufferedUndecimated(p) == [p EXCEPT !.buf_len = Max({@, 2 * 2^p.bin_e})]

Buffered(p) == [p EXCEPT !.buf_len = Max({@, 2 * 2^p.bin_e * p.downsample})]

frequency_range(a) ==
    Buffered(Sized(Halvings(Raise(Split(a.width, a.crop)), a.crop, a.boxcar), a))

Frequency(p, i) == Lower + i * p.bw_seen + p.bw_seen \div 2

(***************************************************************************)
(* scanner: the windows of a decimated buffer, by their first element; a   *)
(* single bin is the power of the whole buffer and has no windows.         *)
(***************************************************************************)
BinLen(p) == 2^p.bin_e

ScanWindows(p) ==
    IF p.bin_e = 0 THEN {}
    ELSE {w \in 0..(p.buf_len \div p.downsample - 1) : w % (2 * BinLen(p)) = 0}

\* What the loop leaves of the decimated samples: the boxcar's sums fill the
\* first part of the buffer, and a window reads whatever lies in its range.
Decimated(p) == 2 * (p.buf_len \div (2 * p.downsample))

(***************************************************************************)
(* csv_dbm: the row of a hop.  bin_count over len is a whole number of     *)
(* quarters as soon as there are four bins.                                *)
(***************************************************************************)
BinCount(p) == (BinLen(p) * (4 - p.crop)) \div 4

HalfWidth(p) ==
    IF BinLen(p) >= 4
    THEN (p.bw_used * (BinCount(p) \div (BinLen(p) \div 4))) \div (8 * p.downsample)
    ELSE (p.bw_used * BinCount(p)) \div (BinLen(p) * 2 * p.downsample)

FirstBin(p) == (BinLen(p) * p.crop) \div 8
LastBin(p)  == BinLen(p) - 1 - (BinLen(p) * p.crop) \div 8

\* After the loop over the bins the last one is printed again, or the only one.
csv_dbm(p, i) ==
    [low   |-> Frequency(p, i) - HalfWidth(p),
     high  |-> Frequency(p, i) + HalfWidth(p),
     bins  |-> FirstBin(p)..LastBin(p),
     again |-> IF p.bin_e = 0 THEN 0 ELSE LastBin(p)]

\* The columns of a row: its bins, and the one that is printed again.
Columns(row) == Cardinality(row.bins) + 1

(***************************************************************************)
(* The program: a plan, one sweep, one row for each hop.                   *)
(***************************************************************************)
Unplanned == [tune_count |-> 0]   \* as it is statically

PlanInit ==
    /\ asked \in [width : Widths, size : Sizes, crop : Crops, boxcar : BOOLEAN]
    /\ plan = Unplanned
    /\ hop = 0
    /\ rows = <<>>

Plan ==
    /\ plan = Unplanned
    /\ plan' = frequency_range(asked)
    /\ UNCHANGED <<asked, hop, rows>>

PrintRow ==
    /\ hop < plan.tune_count
    /\ rows' = rows \o <<csv_dbm(plan, hop)>>
    /\ hop' = hop + 1
    /\ UNCHANGED <<asked, plan>>

PlanNext == Plan \/ PrintRow

PlanSpec == PlanInit /\ [][PlanNext]_planVars

-----------------------------------------------------------------------------
Planned == plan # Unplanned
Giant   == asked.size >= MINIMUM_RATE

\* The width of a printed bin, rounded up.
BinWidth(p) == p.bw_used \div (BinLen(p) * p.downsample) + 1

\* The printed rows tile the range that was asked for: the first starts
\* within one bin of its lower end, two rows never overlap and leave less than
\* a bin between them, the last one ends at most one bin (and the hops'
\* truncated hertz) below the upper end.  A row has one to three columns more
\* than its width holds bins: it never drops a bin, the crop keeps up to two too
\* many, and the last column always repeats a bin of the row (frequency_range
\* with csv_dbm; with every crop, decimation by either filter, and giant bins).
RowsTile ==
    Planned =>
        LET bin == BinWidth(plan)
            n   == Len(rows)
            Near(gap) == gap \in 0..(bin + 1)
        IN  /\ n > 0 => Near(rows[1].low - Lower)
            /\ \A i \in 1..(n - 1) : Near(rows[i + 1].low - rows[i].high)
            /\ hop = plan.tune_count /\ n > 0 =>
                   Lower + asked.width - rows[n].high \in 0..(bin + 1 + plan.tune_count)
            /\ \A i \in 1..n : /\ Columns(rows[i]) - BinCount(plan) \in 1..3
                             /\ rows[i].again \in rows[i].bins

\* Every hop is sampled as the device and the transform need it: at a rate that
\* the device has, and the planner means to use unless the recursive filter
\* rounds it up; with bins no wider than asked, and with a buffer whose first
\* window holds decimated samples only, whose last one ends inside it and whose
\* length is an int
\* (frequency_range with scanner; a range below the lowest rate is decimated,
\* and the buffer has to grow by the same factor).
HopsSampled ==
    Planned /\ ~Giant =>
        /\ plan.tune_count \in 1..LongestSplit
        /\ MINIMUM_RATE <= plan.bw_used /\ plan.bw_used <= HIGHEST_RATE
        /\ plan.downsample = 1 \/ asked.boxcar => plan.bw_used <= MAXIMUM_RATE
        /\ plan.bin_e < 21 => (plan.bw_used - 1) \div asked.size < BinLen(plan) * plan.downsample
        /\ plan.buf_len <= INT_MAX
        /\ 2 * BinLen(plan) <= Decimated(plan)
        /\ ScanWindows(plan) # {}
        /\ \A w \in ScanWindows(plan) : w + 2 * BinLen(plan) <= plan.buf_len
=============================================================================
