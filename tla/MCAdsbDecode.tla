---------------------------- MODULE MCAdsbDecode ----------------------------
(***************************************************************************)
(* The values for TLC: a long and two short frames in several orders, the  *)
(* gaps that the allowed errors just fill, strong and weak signals.       *)
(***************************************************************************)
EXTENDS AdsbDecode

Content(df, n, turn) ==
  [k \in 1 .. n |-> IF k <= 5 THEN df[k] ELSE IF (k + turn) % 3 = 0 THEN 1 ELSE 0]
Long  == Content(<<1, 0, 0, 0, 1>>, 112, 0)
Short == Content(<<0, 1, 0, 1, 1>>, 56, 1)
Other == Content(<<0, 0, 1, 0, 0>>, 56, 2)

Total(f) == IF Len(f) = 1 THEN Len(f[1]) ELSE Len(f[1]) + Len(f[2])

MCSettings ==
  {[quality |-> q, allowed_errors |-> e, short_output |-> s] :
     q \in {5, 10, 20}, e \in {0, 5}, s \in BOOLEAN}
  \cup {[quality |-> 0, allowed_errors |-> 5, short_output |-> TRUE]}
\* Each frame begins a gap after the one before, and some samples more for the last.
MCTraffic ==
  {[frames |-> f, gap |-> g, low |-> l, high |-> 20,
    at |-> [k \in DOMAIN f |-> IF k = 1 THEN g + 1 ELSE 2 * g + 17 + 2 * Len(f[1]) + x],
    size |-> (Len(f) + 1) * g + 16 * Len(f) + 2 * Total(f) + x] :
     f \in {<<Short, Other>>, <<Long, Short>>, <<Other>>}, g \in {2, 16, 22}, l \in {2, 10},
     x \in {0, 3}}
=============================================================================
