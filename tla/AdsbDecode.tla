----------------------------- MODULE AdsbDecode -----------------------------
(***************************************************************************)
(* What a round of rtl_adsb.c's demodulator does with a buffer: magnitute, *)
(* manchester, which overwrites magnitudes with bits, one turn of a loop at*)
(* a time, and messages, which picks the frames out of what that left.     *)
(* Samples are numbers of 16 bits; an index is the code's plus 1.          *)
(***************************************************************************)
EXTENDS Integers, Sequences

CONSTANTS
  Settings,    \* records with quality, allowed_errors and short_output
  Traffic      \* what may be in the air: records as IsTraffic says

MESSAGEGO == 253
OVERWRITE == 254
BADSAMPLE == 255
preamble_len == 16
long_frame == 112
short_frame == 56

\* A frame's length is that of its kind, and its first byte is not 0.
IsFrame(frame) ==
  /\ \/ frame \in [1 .. long_frame -> {0, 1}] /\ frame[1] = 1
     \/ frame \in [1 .. short_frame -> {0, 1}] /\ frame[1] = 0
  /\ \E k \in 1 .. 8 : frame[k] = 1

\* Where the bits of t's kth frame begin, and the first sample after it.
Start(t, k) == t.at[k] + preamble_len
End(t, k) == Start(t, k) + 2 * Len(t.frames[k])

\* The frames sent, the sample each begins at, the silence there is at least after
\* each, the number of samples, and the strengths of a low and a high one; a low
\* one's magnitude is above that of a bit.
IsTraffic(t) ==
  /\ t.frames \in Seq([1 .. long_frame -> {0, 1}] \cup [1 .. short_frame -> {0, 1}])
  /\ t.frames # <<>> /\ \A k \in DOMAIN t.frames : IsFrame(t.frames[k])
  /\ t.at \in [DOMAIN t.frames -> Nat \ {0}] /\ t.gap \in Nat /\ t.size \in Nat
  /\ \A k \in DOMAIN t.frames : End(t, k) + t.gap <= t.size + 1
  /\ \A j, k \in DOMAIN t.frames : j < k => End(t, j) + t.gap <= t.at[k]
  /\ t.low \in Nat /\ t.high \in Nat /\ 1 < t.low /\ t.low < t.high /\ t.high < 128

ASSUME DecodeAssumption ==
  /\ Settings \subseteq [quality : Int, allowed_errors : Nat, short_output : BOOLEAN]
  /\ \A t \in Traffic : IsTraffic(t)

VARIABLES
  settings, traffic,
  m,           \* the loops of manchester and messages: at, where, buf, i, i2,
               \* the samples a and b before and the errors of this message
  shown        \* the frames displayed

decodeVars == <<settings, traffic, m, shown>>

-----------------------------------------------------------------------------
(* What a receiver gets of a transmitter: samples that are high or low.    *)

Pulses == {0, 2, 7, 9}
\* The level of the sample n of a frame, from 0 on.
Level(frame, n) ==
  IF n < preamble_len THEN (IF n \in Pulses THEN 1 ELSE 0)
  ELSE LET bit == frame[(n - preamble_len) \div 2 + 1]
       IN IF (n - preamble_len) % 2 = 0 THEN bit ELSE 1 - bit
Sending(t, x) == {k \in DOMAIN t.frames : t.at[k] <= x /\ x < End(t, k)}
Air(t) ==
  [x \in 1 .. t.size |->
     IF Sending(t, x) = {} THEN 0
     ELSE LET k == CHOOSE k \in Sending(t, x) : TRUE IN Level(t.frames[k], x - t.at[k])]
\* i and q, where the middle is 128.
Heard(air, low, high) == [k \in DOMAIN air |-> <<128, 128 + (IF air[k] = 1 THEN high ELSE low)>>]
Received(t) == Heard(Air(t), t.low, t.high)

\* squares and magnitute.
abs8(x) == IF x >= 128 THEN x - 128 ELSE 128 - x
magnitute(iq) ==
  [k \in DOMAIN iq |-> (abs8(iq[k][1]) * abs8(iq[k][1]) + abs8(iq[k][2]) * abs8(iq[k][2])) % 65536]

-----------------------------------------------------------------------------
(* manchester.                                                             *)

\* The bit of the samples c and d after a and b.
single_manchester(quality, a, b, c, d) ==
  LET bit == c > d
      bit_p == a > b
      valid ==
        CASE quality = 0 -> TRUE
          [] quality = 5 -> ~(bit /\ bit_p /\ b > c) /\ ~(~bit /\ ~bit_p /\ b < c)
          [] quality = 10 -> \/ bit /\ (IF bit_p THEN c > b ELSE d < b)
                             \/ ~bit /\ (IF bit_p THEN d > b ELSE c < b)
          [] OTHER -> \/ bit /\ (IF bit_p THEN c > b /\ d < a ELSE c > a /\ d < b)
                      \/ ~bit /\ (IF bit_p THEN c < a /\ d > b ELSE c < b /\ d > a)
  IN IF ~valid THEN BADSAMPLE ELSE IF bit THEN 1 ELSE 0

\* Each sample of a preamble is compared with the last of the other kind, a
\* low one before the first counting as 0.
Last(T) == CHOOSE n \in T : \A k \in T : k <= n
preamble(buf, i) ==
  \A k \in 0 .. preamble_len - 1 :
    LET lows == (0 .. k) \ Pulses
    IN buf[i + Last((0 .. k) \cap Pulses)] > (IF lows = {} THEN 0 ELSE buf[i + Last(lows)])

len == traffic.size

\* Where the loops are after a turn.
Turn(at, buf, i, i2, a, b, errors) ==
  [at |-> at, buf |-> buf, i |-> i, i2 |-> i2, a |-> a, b |-> b, errors |-> errors]
Preambles == {k \in m.i .. len - preamble_len : preamble(m.buf, k)}
Marked(k) == [j \in 1 .. len |->
                IF k <= j /\ j < k + preamble_len THEN MESSAGEGO ELSE m.buf[j]]
Search ==
  /\ m.at = "search" /\ m.i < len
  /\ \E found \in {Preambles} :
     \/ \E k \in found :
          /\ \A j \in found : k <= j
          /\ m' = Turn("bits", Marked(k), k + preamble_len, k + preamble_len,
                       m.buf[k], m.buf[k + 1], 0)
     \/ /\ found = {}
        /\ LET next == IF m.i > len - preamble_len THEN m.i ELSE len - preamble_len + 1
           IN m' = Turn("bits", m.buf, next, next, m.a, m.b, 0)
  /\ UNCHANGED <<settings, traffic, shown>>

\* A bit, or a pair of samples that is none: so many of these are allowed.
Bit == single_manchester(settings.quality, m.a, m.b, m.buf[m.i], m.buf[m.i + 1])
\* Mutant of Puts: the bits are not moved together.
PutsInPlace(bit) == [m.buf EXCEPT ![m.i + 1] = OVERWRITE, ![m.i] = bit]
Puts(bit) == [m.buf EXCEPT ![m.i] = OVERWRITE, ![m.i + 1] = OVERWRITE, ![m.i2] = bit]
TakeBit ==
  /\ m.at = "bits" /\ m.i < len /\ Bit # BADSAMPLE
  /\ m' = Turn("bits", Puts(Bit), m.i + 2, m.i2 + 1, m.buf[m.i], m.buf[m.i + 1], m.errors)
  /\ UNCHANGED <<settings, traffic, shown>>

Guess ==
  /\ m.at = "bits" /\ m.i < len /\ Bit = BADSAMPLE /\ m.errors < settings.allowed_errors
  /\ LET bit == IF m.buf[m.i] > m.buf[m.i + 1] THEN 1 ELSE 0
     IN m' = Turn("bits", Puts(bit), m.i + 2, m.i2 + 1, 0, 65535, m.errors + 1)
  /\ UNCHANGED <<settings, traffic, shown>>

Broken == [m.buf EXCEPT ![m.i2] = BADSAMPLE]
\* Mutant of Break: goes on at the same pair.
BreakContinues ==
  /\ m.at = "bits" /\ m.i < len /\ Bit = BADSAMPLE /\ m.errors >= settings.allowed_errors
  /\ m' = Turn("bits", Broken, m.i, m.i2, m.buf[m.i], m.buf[m.i + 1], m.errors)
  /\ UNCHANGED <<settings, traffic, shown>>

Break ==
  /\ m.at = "bits" /\ m.i < len /\ Bit = BADSAMPLE /\ m.errors >= settings.allowed_errors
  /\ m' = Turn("search", Broken, m.i, m.i2, m.buf[m.i], m.buf[m.i + 1], m.errors + 1)
  /\ UNCHANGED <<settings, traffic, shown>>

\* The last sample but one ends the loops.
EndManchester ==
  /\ m.at \in {"search", "bits"} /\ m.i >= len
  /\ m' = Turn("messages", m.buf, 1, m.i2, m.a, m.b, m.errors)
  /\ UNCHANGED <<settings, traffic, shown>>

-----------------------------------------------------------------------------
(* messages and display.  A frame is a run of bits, its length that of its *)
(* kind; one bit may be missing, and is 0.                                 *)

\* The run of bits that begins at i ends before the first sample that is none.
EndsAt(i, k) == (k > len \/ m.buf[k] > 1) /\ \A j \in i .. k - 1 : m.buf[j] <= 1
BitsFrom(i) ==
  LET end == CHOOSE k \in i .. len + 1 : EndsAt(i, k)
  IN [j \in 1 .. end - i |-> m.buf[i + j - 1]]
FrameLen(run) == IF Len(run) < 8 \/ run[1] = 1 THEN long_frame ELSE short_frame
Empty(run) == Len(run) >= 8 /\ \A k \in 1 .. 8 : run[k] = 0
Taken(run) == IF Empty(run) THEN 7 ELSE IF Len(run) < FrameLen(run) THEN Len(run) ELSE FrameLen(run)
Frame(run) == [k \in 1 .. FrameLen(run) |-> IF k <= Len(run) THEN run[k] ELSE 0]

Df(frame) == 16 * frame[1] + 8 * frame[2] + 4 * frame[3] + 2 * frame[4] + frame[5]
Displayed(set, frame) ==
  /\ set.short_output \/ Len(frame) > short_frame
  /\ set.quality = 0 => Df(frame) \in {11, 17, 18, 19}

\* The run of bits that is next at or after i.
FirstBit(k) == m.buf[k] <= 1 /\ \A j \in m.i .. k - 1 : m.buf[j] > 1
Message ==
  /\ m.at = "messages"
  /\ \E k \in m.i .. len :
       /\ FirstBit(k)
       /\ \E run \in {BitsFrom(k)} :
            /\ m' = Turn("messages", m.buf, k + Taken(run) + 1, m.i2, m.a, m.b, m.errors)
            /\ shown' = (IF Taken(run) >= FrameLen(run) - 1 /\ Displayed(settings, Frame(run))
                         THEN Append(shown, Frame(run)) ELSE shown)
  /\ UNCHANGED <<settings, traffic>>

EndMessages ==
  /\ m.at = "messages" /\ \A k \in m.i .. len : m.buf[k] > 1
  /\ m' = Turn("done", m.buf, m.i, m.i2, m.a, m.b, m.errors)
  /\ UNCHANGED <<settings, traffic, shown>>

DecodeInit ==
  /\ settings \in Settings /\ traffic \in Traffic
  /\ m = Turn("search", magnitute(Received(traffic)), 1, 1, 0, 0, 0)
  /\ shown = <<>>
DecodeNext ==
  Search \/ TakeBit \/ Guess \/ Break \/ EndManchester \/ Message \/ EndMessages
DecodeSpec == DecodeInit /\ [][DecodeNext]_decodeVars /\ WF_decodeVars(DecodeNext)

-----------------------------------------------------------------------------
\* The thread that decodes comes to the end of every buffer: no turn leaves
\* the loops of manchester where they were for ever, though one that breaks
\* off does not go forward (rtl_adsb.c:285).
RoundEnds == <>(m.at = "done")

\* Every frame that was sent in the clear is displayed, and nothing else is,
\* in the order they were sent: the bits, which overwrite the samples they
\* were made of, run into no others.  The silence after a frame is taken for
\* bits until the allowed errors are used up, every second pair being one;
\* at the qualities 0 and 5, or in a shorter silence, it may never end a message,
\* and the first frame alone is sure (rtl_adsb.c:184-193, 283-295).
Strict == settings.quality \notin {0, 5} /\ traffic.gap >= 4 * settings.allowed_errors + 2
\* Those of the first k frames that are to be displayed.
Asked(set, frames) ==
  LET f[k \in 0 .. Len(frames)] ==
        IF k = 0 THEN <<>>
        ELSE IF Displayed(set, frames[k]) THEN Append(f[k - 1], frames[k]) ELSE f[k - 1]
  IN f
FramesReceived ==
  m.at = "done" =>
    /\ Displayed(settings, traffic.frames[1]) => shown # <<>> /\ shown[1] = traffic.frames[1]
    /\ Strict => shown = Asked(settings, traffic.frames)[Len(traffic.frames)]
=============================================================================
