----------------------------- MODULE AdsbProofs -----------------------------
(***************************************************************************)
(* Theorems about Adsb, for every number of signals and buffers, and about *)
(* AdsbDecode, for all settings and all traffic.                           *)
(*                                                                         *)
(* The inductive invariant of the threads says what a callback that has    *)
(* copied owes to the round it may have run into: its data is new, or the  *)
(* last round was raced, all the way from the copy to the unlock; and a    *)
(* mutex that is free again after a round says the same to the next one.   *)
(*                                                                         *)
(* That of the decoder says, of each place in its loops, where the bits of *)
(* the frames so far are and what every other sample may have become:      *)
(* Layout.  It is kept by a bit wherever that does not fall into a         *)
(* preamble, which the length of the silence sees to.                      *)
(***************************************************************************)
EXTENDS Adsb, AdsbDecode, WellFoundedInduction, TLAPS

Flags ==
  /\ reading \in BOOLEAN /\ in_cb \in BOOLEAN /\ dev_lost \in BOOLEAN
  /\ failed \in BOOLEAN /\ raced \in BOOLEAN
  /\ in_cb = (cb # "none")

Control ==
  /\ async_status \in S!Status /\ cancelers \subseteq {"main", "demod", "handler"}
  /\ main \in {"create", "read", "reading", "cancel", "store", "destroy", "close",
               "free", "exit", "exited"}
  /\ cb \in {"none", "enter", "copy", "trylock", "unlock", "leave"}
  /\ demod \in {"none", "loop", "lock", "decode", "cancel", "store", "ended"}
  /\ hdl \in {"idle", "set", "cancel", "store"} /\ on \in {"main", "demod"}
  /\ do_exit \in {0, 1} /\ data_ready \in {"free", "locked", "destroyed"}
  /\ copied \in {"never", "part", "new", "taken"} /\ rounds \in {"none", "first", "more"}

Counts == signals \in 0 .. MaxSignals /\ buffers \in 0 .. MaxBuffers

\* What a round may count on.
HandOver ==
  /\ cb = "copy" => copied = "part"
  /\ cb \in {"trylock", "unlock"} => copied = "new" \/ raced
  /\ data_ready = "free" /\ rounds # "none" => copied \in {"part", "new"} \/ raced

LEMMA ControlStep == ASSUME Control, [Next]_vars PROVE Control'
<1> USE DEF Control, handler, stream, work, S!Status
<1>1. CASE CreateDemod
  BY <1>1 DEF CreateDemod
<1>2. CASE StartReading \/ ReadReturns
  <2>1. async_status' \in S!Status
    BY <1>2, Zenon DEF StartReading, ReadReturns, S!Call, S!Return
  <2> QED
    BY <1>2, <2>1 DEF StartReading, ReadReturns
<1>3. CASE MainCancels
  <2>1. main' \in {"store", "destroy"}
    BY <1>3, Zenon DEF MainCancels, CancelTest
  <2>2. async_status' \in {async_status, "CANCELING"}
    BY <1>3, Zenon DEF MainCancels, CancelTest, CancelStore
  <2>3. cancelers' \in {cancelers, cancelers \cup {"main"}, cancelers \ {"main"}}
    BY <1>3, Zenon DEF MainCancels, CancelTest, CancelStore
  <2> QED
    BY <1>3, <2>1, <2>2, <2>3 DEF MainCancels
<1>4. CASE DemodCancels
  <2>1. demod' \in {"store", "ended"}
    BY <1>4, Zenon DEF DemodCancels, CancelTest
  <2>2. async_status' \in {async_status, "CANCELING"}
    BY <1>4, Zenon DEF DemodCancels, CancelTest, CancelStore
  <2>3. cancelers' \in {cancelers, cancelers \cup {"demod"}, cancelers \ {"demod"}}
    BY <1>4, Zenon DEF DemodCancels, CancelTest, CancelStore
  <2> QED
    BY <1>4, <2>1, <2>2, <2>3 DEF DemodCancels
<1>5. CASE HandlerCancels
  <2>1. hdl' \in {"store", "idle"}
    BY <1>5, Zenon DEF HandlerCancels, CancelTest
  <2>2. async_status' \in {async_status, "CANCELING"}
    BY <1>5, Zenon DEF HandlerCancels, CancelTest, CancelStore
  <2>3. cancelers' \in {cancelers, cancelers \cup {"handler"}, cancelers \ {"handler"}}
    BY <1>5, Zenon DEF HandlerCancels, CancelTest, CancelStore
  <2> QED
    BY <1>5, <2>1, <2>2, <2>3 DEF HandlerCancels
<1>6. CASE DestroyMutex \/ CloseDevice \/ FreeBuffer \/ ReturnFromMain
  BY <1>6 DEF DestroyMutex, CloseDevice, FreeBuffer, ReturnFromMain
<1>7. CASE StreamFails
  <2>1. async_status' \in {async_status, "CANCELING"}
    BY <1>7, Zenon DEF StreamFails, S!CancelInside, S!Fail
  <2> QED
    BY <1>7, <2>1 DEF StreamFails
<1>8. CASE EnterCallback \/ LeaveCallback
  <2>1. UNCHANGED async_status
    BY <1>8, Zenon DEF EnterCallback, LeaveCallback, S!EnterCallback, S!LeaveCallback
  <2> QED
    BY <1>8, <2>1 DEF EnterCallback, LeaveCallback
<1>9. CASE Copies \/ TryLock \/ Unlock
  BY <1>9 DEF Copies, TryLock, Unlock
<1>10. CASE DemodLoop \/ BeginRound \/ EndRound
  BY <1>10 DEF DemodLoop, BeginRound, EndRound
<1>11. CASE SetExit \/ \E t \in {"main", "demod"} : Signal(t)
  BY <1>11 DEF SetExit, Signal
<1>12. CASE UNCHANGED vars
  BY <1>12 DEF vars
<1> QED
  BY <1>1, <1>2, <1>3, <1>4, <1>5, <1>6, <1>7, <1>8, <1>9, <1>10, <1>11, <1>12
     DEF Next, Main, MainEnds, Callback, Demod, Handler

\* Only an action that asks for room counts.
LEMMA CountsStep == ASSUME AdsbAssumption, Counts, [Next]_vars PROVE Counts'
<1> USE DEF AdsbAssumption, Counts, handler
<1>1. CASE EnterCallback
  BY <1>1 DEF EnterCallback
<1>2. ASSUME NEW t \in {"main", "demod"}, Signal(t) PROVE Counts'
  BY <1>2 DEF Signal
<1>3. CASE Main
  BY <1>3 DEF Main, MainEnds, CreateDemod, StartReading, ReadReturns, MainCancels,
     DestroyMutex, CloseDevice, FreeBuffer, ReturnFromMain
<1>4. CASE StreamFails
  BY <1>4 DEF StreamFails
<1>5. CASE Callback
  BY <1>5 DEF Callback, Copies, TryLock, Unlock, LeaveCallback
<1>6. CASE Demod
  BY <1>6 DEF Demod, DemodLoop, BeginRound, EndRound, DemodCancels
<1>7. CASE Handler
  BY <1>7 DEF Handler, SetExit, HandlerCancels
<1>8. CASE UNCHANGED vars
  BY <1>8 DEF vars
<1> QED
  BY <1>1, <1>2, <1>3, <1>4, <1>5, <1>6, <1>7, <1>8 DEF Next

\* Only three actions of the callback move it between "none" and the rest.
LEMMA FlagsStep == ASSUME Flags, [Next]_vars PROVE Flags'
<1> USE Zenon DEF Flags, handler, stream, work
<1>1. CASE CreateDemod \/ StartReading \/ ReadReturns
  BY <1>1 DEF CreateDemod, StartReading, ReadReturns, S!Call, S!Return
<1>2. CASE MainCancels \/ DemodCancels \/ HandlerCancels
  BY <1>2 DEF MainCancels, DemodCancels, HandlerCancels, CancelTest, CancelStore
<1>3. CASE DestroyMutex \/ CloseDevice \/ FreeBuffer \/ ReturnFromMain
  BY <1>3 DEF DestroyMutex, CloseDevice, FreeBuffer, ReturnFromMain
<1>4. CASE StreamFails
  BY <1>4 DEF StreamFails, S!CancelInside, S!Fail
<1>5. CASE EnterCallback \/ LeaveCallback
  BY <1>5 DEF EnterCallback, LeaveCallback, S!EnterCallback, S!LeaveCallback
<1>6. CASE Copies \/ TryLock \/ Unlock
  BY <1>6 DEF Copies, TryLock, Unlock
<1>7. CASE DemodLoop \/ EndRound
  BY <1>7 DEF DemodLoop, EndRound
<1>8. CASE BeginRound
  <2>1. raced' \in BOOLEAN
    BY <1>8, SMT DEF BeginRound
  <2> QED
    BY <1>8, <2>1 DEF BeginRound
<1>9. CASE SetExit \/ \E t \in {"main", "demod"} : Signal(t)
  BY <1>9 DEF SetExit, Signal
<1>10. CASE UNCHANGED vars
  BY <1>10 DEF vars
<1> QED
  BY <1>1, <1>2, <1>3, <1>4, <1>5, <1>6, <1>7, <1>8, <1>9, <1>10
     DEF Next, Main, MainEnds, Callback, Demod, Handler

\* The copy, the mutex and the rounds: the actions that touch them, one by one.
LEMMA HandOverStep == ASSUME HandOver, [Next]_vars PROVE HandOver'
<1> USE DEF HandOver, handler, stream, work
<1>1. CASE CreateDemod \/ StartReading \/ ReadReturns \/ StreamFails
  BY <1>1 DEF CreateDemod, StartReading, ReadReturns, StreamFails
<1>2. CASE MainCancels \/ DemodCancels \/ HandlerCancels
  BY <1>2 DEF MainCancels, DemodCancels, HandlerCancels
<1>3. CASE CloseDevice \/ FreeBuffer \/ ReturnFromMain
  BY <1>3 DEF CloseDevice, FreeBuffer, ReturnFromMain
<1>4. CASE DestroyMutex
  BY <1>4 DEF DestroyMutex
<1>5. CASE EnterCallback \/ LeaveCallback
  BY <1>5 DEF EnterCallback, LeaveCallback
<1>6. CASE Copies
  BY <1>6 DEF Copies
<1>7. CASE TryLock
  BY <1>7 DEF TryLock
<1>8. CASE Unlock
  BY <1>8 DEF Unlock
<1>9. CASE BeginRound
  BY <1>9 DEF BeginRound
<1>10. CASE DemodLoop \/ EndRound
  BY <1>10 DEF DemodLoop, EndRound
<1>11. CASE SetExit \/ \E t \in {"main", "demod"} : Signal(t)
  BY <1>11 DEF SetExit, Signal
<1>12. CASE UNCHANGED vars
  BY <1>12 DEF vars
<1> QED
  BY <1>1, <1>2, <1>3, <1>4, <1>5, <1>6, <1>7, <1>8, <1>9, <1>10, <1>11, <1>12
     DEF Next, Main, MainEnds, Callback, Demod, Handler

LEMMA InvInductive == Spec => [](Flags /\ Control /\ Counts /\ HandOver)
<1>1. ASSUME Init PROVE Flags /\ Control /\ Counts /\ HandOver
  <2>1. Flags
    BY <1>1, Zenon DEF Init, S!StreamInit, Flags
  <2>2. Control
    BY <1>1, Zenon DEF Init, S!StreamInit, S!Status, Control
  <2>3. Counts /\ HandOver
    BY <1>1, AdsbAssumption DEF Init, Counts, HandOver, AdsbAssumption
  <2> QED
    BY <2>1, <2>2, <2>3
<1>2. ASSUME Flags /\ Control /\ Counts /\ HandOver, [Next]_vars
      PROVE  (Flags /\ Control /\ Counts /\ HandOver)'
  BY <1>2, AdsbAssumption, ControlStep, CountsStep, FlagsStep, HandOverStep
<1> QED
  BY <1>1, <1>2, PTL DEF Spec

(***************************************************************************)
(* Every variable keeps its type, and the callback runs exactly while the  *)
(* stream is in one (lines 335-342).                                       *)
(***************************************************************************)
THEOREM TypeCorrect == Spec => []TypeOK
<1>1. ASSUME Flags, Control, Counts PROVE TypeOK
  <2>1. {reading, in_cb, dev_lost, failed, raced} \subseteq BOOLEAN
    BY <1>1, Zenon DEF Flags
  <2>2. in_cb = (cb # "none")
    BY <1>1, Zenon DEF Flags
  <2> QED
    BY <1>1, <2>1, <2>2, Zenon DEF Control, Counts, TypeOK
<1> QED
  BY <1>1, InvInductive, PTL

(***************************************************************************)
(* A round of the demodulator has data no round had before, but for the    *)
(* first, the one after a round that ran into the callback, and those      *)
(* after main has destroyed the mutex (lines 335-352).                     *)
(***************************************************************************)
THEOREM NewRounds == Spec => RoundsAreNew
<1>1. ASSUME Control, HandOver, [Next]_vars, BeginRound
      PROVE  \/ copied \in {"part", "new"} \/ rounds = "none" \/ raced
             \/ data_ready = "destroyed"
  BY <1>1 DEF Control, HandOver, BeginRound
<1> QED
  BY <1>1, InvInductive, PTL DEF Spec, RoundsAreNew

-----------------------------------------------------------------------------
(* The decoder.                                                            *)

-----------------------------------------------------------------------------
(* What is received.                                                       *)

\* The square of the greatest distance from the middle.
Peak == 127 * 127
LowOf(t) == t.low * t.low
HighOf(t) == t.high * t.high
Original(t) == magnitute(Received(t))
FrameCount(t) == Len(t.frames)

\* What IsTraffic says of the frames and their places.
LEMMA TrafficIs ==
  ASSUME NEW t, IsTraffic(t)
  PROVE  /\ FrameCount(t) \in Nat \ {0} /\ DOMAIN t.frames = 1 .. FrameCount(t)
         /\ t.size \in Nat /\ t.gap \in Nat
<1>1. /\ t.frames # <<>>
      /\ t.frames \in Seq([1 .. long_frame -> {0, 1}] \cup [1 .. short_frame -> {0, 1}])
  BY DEF IsTraffic
<1>2. FrameCount(t) \in Nat \ {0} /\ DOMAIN t.frames = 1 .. FrameCount(t)
  BY <1>1 DEF FrameCount
<1> QED
  BY <1>2 DEF IsTraffic

\* The bits of a frame.
LEMMA FrameIs ==
  ASSUME NEW frame, IsFrame(frame)
  PROVE  /\ Len(frame) \in {short_frame, long_frame} /\ frame \in [1 .. Len(frame) -> {0, 1}]
         /\ frame[1] = (IF Len(frame) = long_frame THEN 1 ELSE 0)
         /\ \E k \in 1 .. 8 : frame[k] = 1
<1>1. CASE frame \in [1 .. 112 -> {0, 1}] /\ frame[1] = 1
  <2>1. Len(frame) = 112
    BY <1>1
  <2> QED
    BY <1>1, <2>1 DEF IsFrame, short_frame, long_frame
<1>2. CASE frame \in [1 .. 56 -> {0, 1}] /\ frame[1] = 0
  <2>1. Len(frame) = 56
    BY <1>2
  <2> QED
    BY <1>2, <2>1 DEF IsFrame, short_frame, long_frame
<1> QED
  BY <1>1, <1>2 DEF IsFrame, short_frame, long_frame

LEMMA PlaceIs ==
  ASSUME NEW t, IsTraffic(t), NEW k \in 1 .. FrameCount(t)
  PROVE  /\ IsFrame(t.frames[k]) /\ t.at[k] \in Nat /\ 0 < t.at[k]
         /\ Len(t.frames[k]) \in {56, 112}
         /\ Start(t, k) = t.at[k] + 16
         /\ End(t, k) = t.at[k] + 16 + 2 * Len(t.frames[k])
         /\ Start(t, k) \in Nat /\ End(t, k) \in Nat
         /\ End(t, k) + t.gap <= t.size + 1 /\ End(t, k) <= t.size + 1
<1>1. k \in DOMAIN t.frames
  BY TrafficIs
<1>2. IsFrame(t.frames[k]) /\ t.at[k] \in Nat \ {0} /\ End(t, k) + t.gap <= t.size + 1
  BY <1>1 DEF IsTraffic
<1>3. Len(t.frames[k]) \in {56, 112}
  BY <1>2, FrameIs DEF short_frame, long_frame
<1> DEFINE n == Len(t.frames[k])
           a == t.at[k]
<1>4. Start(t, k) = a + 16 /\ End(t, k) = a + 16 + 2 * n
  BY DEF Start, End, preamble_len
<1>5. n \in {56, 112} /\ a \in Nat /\ 0 < a
  BY <1>2, <1>3
<1>6. t.gap \in Nat /\ t.size \in Nat
  BY TrafficIs
<1> HIDE DEF n, a
<1>7. /\ Start(t, k) \in Nat /\ End(t, k) \in Nat /\ End(t, k) <= t.size + 1
  BY <1>2, <1>4, <1>5, <1>6
<1> QED
  BY <1>2, <1>4, <1>5, <1>7 DEF n, a

LEMMA Apart ==
  ASSUME NEW t, IsTraffic(t), NEW j \in 1 .. FrameCount(t), NEW k \in 1 .. FrameCount(t), j < k
  PROVE  End(t, j) + t.gap <= t.at[k] /\ End(t, j) <= t.at[k]
<1>1. j \in DOMAIN t.frames /\ k \in DOMAIN t.frames
  BY TrafficIs
<1>2. End(t, j) + t.gap <= t.at[k]
  BY <1>1 DEF IsTraffic
<1>3. End(t, j) \in Nat /\ t.gap \in Nat /\ t.at[k] \in Nat
  BY TrafficIs, PlaceIs
<1> QED
  BY <1>2, <1>3

LEMMA Squares ==
  ASSUME NEW l \in Nat, NEW h \in Nat, 1 < l, l < h, h < 128
  PROVE  /\ l * l \in 2 .. Peak /\ h * h \in 2 .. Peak /\ l * l < h * h
<1>1. ASSUME NEW x \in Nat, 1 < x, x < 128 PROVE x * x \in 2 .. Peak
  <2>1. x * x <= 127 * x /\ 127 * x <= 127 * 127
    <3>1. (127 - x) * x >= 0
      BY <1>1
    <3>2. (127 - x) * x = 127 * x - x * x
      BY <1>1
    <3> QED
      BY <1>1, <3>1, <3>2
  <2>2. x * x >= x
    <3>1. (x - 1) * x >= 0
      BY <1>1
    <3>2. (x - 1) * x = x * x - x
      BY <1>1
    <3> QED
      BY <3>1, <3>2
  <2>3. x * x \in Int
    BY <1>1
  <2> QED
    BY <1>1, <2>1, <2>2, <2>3 DEF Peak
<1>2. l * l < h * h
  <2>1. (h - l) * h > 0 /\ (h - l) * l > 0
    OBVIOUS
  <2>2. (h - l) * h = h * h - l * h /\ (h - l) * l = h * l - l * l /\ h * l = l * h
    OBVIOUS
  <2> QED
    BY <2>1, <2>2
<1> QED
  BY <1>1, <1>2

LEMMA LevelsAre ==
  ASSUME NEW t, IsTraffic(t)
  PROVE  /\ LowOf(t) \in 2 .. Peak /\ HighOf(t) \in 2 .. Peak /\ LowOf(t) < HighOf(t)
         /\ LowOf(t) \in Int /\ HighOf(t) \in Int /\ 1 < LowOf(t)
<1>1. t.low \in Nat /\ t.high \in Nat /\ 1 < t.low /\ t.low < t.high /\ t.high < 128
  BY DEF IsTraffic
<1>2. LowOf(t) \in 2 .. Peak /\ HighOf(t) \in 2 .. Peak /\ LowOf(t) < HighOf(t)
  BY ONLY <1>1, Squares, Zenon DEF LowOf, HighOf
<1>3. Peak \in Int
  BY DEF Peak
<1> QED
  BY <1>2, <1>3

\* A sample is as strong as what the air has.
LEMMA OriginalIs ==
  ASSUME NEW t, IsTraffic(t)
  PROVE  /\ Original(t) \in [1 .. t.size -> Int]
         /\ \A x \in 1 .. t.size :
              Original(t)[x] = IF Air(t)[x] = 1 THEN HighOf(t) ELSE LowOf(t)
<1>1. DOMAIN Air(t) = 1 .. t.size
  BY DEF Air
<1> DEFINE air == Air(t)
           iq == [k \in DOMAIN air |-> <<128, 128 + (IF air[k] = 1 THEN t.high ELSE t.low)>>]
<1>2. iq = Received(t)
  BY DEF Received, Heard
<1>3. t.low \in Nat /\ t.high \in Nat /\ 1 < t.low /\ t.low < t.high /\ t.high < 128
  BY DEF IsTraffic
<1> HIDE DEF air
<1>4. ASSUME NEW x \in 1 .. t.size
      PROVE  /\ x \in DOMAIN iq
             /\ (abs8(iq[x][1]) * abs8(iq[x][1]) + abs8(iq[x][2]) * abs8(iq[x][2])) % 65536
                = IF air[x] = 1 THEN HighOf(t) ELSE LowOf(t)
  <2>1. x \in DOMAIN iq
    BY <1>1 DEF air
  <2> DEFINE v == IF air[x] = 1 THEN t.high ELSE t.low
  <2>2. iq[x][1] = 128 /\ iq[x][2] = 128 + v
    BY <2>1
  <2>3. v \in Nat /\ v < 128
    BY <1>3
  <2>4. v * v = IF air[x] = 1 THEN HighOf(t) ELSE LowOf(t)
    BY Zenon DEF HighOf, LowOf
  <2>5. v * v \in 2 .. Peak
    BY <2>4, LevelsAre, Zenon
  <2> HIDE DEF v, iq
  <2>6. abs8(iq[x][1]) = 0 /\ abs8(iq[x][2]) = v
    BY <2>2, <2>3 DEF abs8
  <2>7. (0 * 0 + v * v) % 65536 = v * v
    <3> DEFINE vv == v * v
    <3>1. vv \in 2 .. 16129
      BY <2>5 DEF Peak
    <3> HIDE DEF vv
    <3>2. vv \in Int /\ 0 <= vv /\ vv < 65536
      BY <3>1
    <3>3. vv % 65536 = vv
      BY <3>2, SMTT(60)
    <3>4. 0 * 0 + vv = vv
      BY <3>2
    <3> QED
      BY <3>3, <3>4 DEF vv
  <2> QED
    BY <2>1, <2>4, <2>6, <2>7
<1> HIDE DEF iq
<1> DEFINE val(k) == (abs8(iq[k][1]) * abs8(iq[k][1]) + abs8(iq[k][2]) * abs8(iq[k][2])) % 65536
<1>5. Original(t) = [k \in DOMAIN iq |-> val(k)]
  <2>1. Original(t) = magnitute(iq)
    BY <1>2, Zenon DEF Original
  <2> QED
    BY <2>1 DEF magnitute
<1>6. DOMAIN iq = 1 .. t.size
  BY <1>1 DEF iq, air
<1>7. \A x \in 1 .. t.size : Original(t)[x] = IF air[x] = 1 THEN HighOf(t) ELSE LowOf(t)
  <2>1. \A x \in 1 .. t.size :
          x \in DOMAIN iq /\ val(x) = IF air[x] = 1 THEN HighOf(t) ELSE LowOf(t)
    BY <1>4
  <2> HIDE DEF val
  <2> QED
    BY <1>5, <2>1, Zenon
<1>8. \A x \in 1 .. t.size : Original(t)[x] \in Int
  <2>1. LowOf(t) \in Int /\ HighOf(t) \in Int
    BY LevelsAre, Zenon
  <2> QED
    BY <1>7, <2>1
<1>9. Original(t) = [k \in 1 .. t.size |-> Original(t)[k]]
  BY <1>5, <1>6
<1>10. Original(t) \in [1 .. t.size -> Int]
  BY <1>8, <1>9, Zenon
<1> QED
  BY <1>7, <1>10 DEF air

\* Inside a frame, and outside all.
LEMMA AirIs ==
  ASSUME NEW t, IsTraffic(t), NEW x \in 1 .. t.size
  PROVE  /\ \A k \in 1 .. FrameCount(t) : t.at[k] <= x /\ x < End(t, k) =>
              Air(t)[x] = Level(t.frames[k], x - t.at[k])
         /\ (\A k \in 1 .. FrameCount(t) : x < t.at[k] \/ x >= End(t, k)) => Air(t)[x] = 0
<1>1. Air(t)[x] = IF Sending(t, x) = {} THEN 0
                  ELSE LET k == CHOOSE k \in Sending(t, x) : TRUE
                       IN Level(t.frames[k], x - t.at[k])
  BY Zenon DEF Air
<1>2. ASSUME NEW k \in 1 .. FrameCount(t), t.at[k] <= x, x < End(t, k)
      PROVE  Air(t)[x] = Level(t.frames[k], x - t.at[k])
  <2>1. k \in Sending(t, x)
    BY <1>2, TrafficIs, Zenon DEF Sending
  <2>2. ASSUME NEW j \in Sending(t, x) PROVE j = k
    <3>1. j \in 1 .. FrameCount(t) /\ t.at[j] <= x /\ x < End(t, j)
      BY TrafficIs, Zenon DEF Sending
    <3>2. /\ End(t, j) \in Int /\ End(t, k) \in Int /\ t.at[j] \in Int /\ t.at[k] \in Int
      BY <3>1, PlaceIs
    <3>3. (j < k => End(t, j) <= t.at[k]) /\ (k < j => End(t, k) <= t.at[j])
      BY <3>1, Apart, Zenon
    <3>4. ~ (j < k) /\ ~ (k < j)
      BY <1>2, <3>1, <3>2, <3>3
    <3> QED
      BY <3>1, <3>4, TrafficIs
  <2>3. (CHOOSE j \in Sending(t, x) : TRUE) = k
    BY <2>1, <2>2
  <2> QED
    BY <1>1, <2>1, <2>3
<1>3. ASSUME \A k \in 1 .. FrameCount(t) : x < t.at[k] \/ x >= End(t, k)
      PROVE  Air(t)[x] = 0
  <2>1. ASSUME NEW k \in 1 .. FrameCount(t) PROVE ~ (t.at[k] <= x /\ x < End(t, k))
    <3>1. End(t, k) \in Int /\ t.at[k] \in Int /\ (x < t.at[k] \/ x >= End(t, k))
      BY <1>3, PlaceIs
    <3> QED
      BY <3>1
  <2>2. Sending(t, x) = {}
    BY <2>1, TrafficIs, Zenon DEF Sending
  <2> QED
    BY <1>1, <2>2
<1> QED
  BY <1>2, <1>3

\* The strength of each sample.
LEMMA Strengths ==
  ASSUME NEW t, IsTraffic(t)
  PROVE  /\ Original(t) \in [1 .. t.size -> {LowOf(t), HighOf(t)}]
         /\ \A x \in 1 .. t.size :
              (\A k \in 1 .. FrameCount(t) : x < t.at[k] \/ x >= End(t, k))
                => Original(t)[x] = LowOf(t)
         /\ \A k \in 1 .. FrameCount(t) :
              /\ \A n \in 0 .. 15 :
                   Original(t)[t.at[k] + n] = IF n \in Pulses THEN HighOf(t) ELSE LowOf(t)
              /\ \A j \in 1 .. Len(t.frames[k]) :
                   LET first == Original(t)[Start(t, k) + 2 * j - 2]
                       second == Original(t)[Start(t, k) + 2 * j - 1]
                   IN IF t.frames[k][j] = 1 THEN first = HighOf(t) /\ second = LowOf(t)
                      ELSE first = LowOf(t) /\ second = HighOf(t)
<1> DEFINE air == Air(t)
           orig == Original(t)
<1>1. \A x \in 1 .. t.size : orig[x] = IF air[x] = 1 THEN HighOf(t) ELSE LowOf(t)
  BY OriginalIs
<1>2. orig \in [1 .. t.size -> {LowOf(t), HighOf(t)}]
  <2>1. orig \in [1 .. t.size -> Int]
    BY OriginalIs
  <2> HIDE DEF orig, air
  <2> QED
    BY <1>1, <2>1
<1>3. ASSUME NEW x \in 1 .. t.size,
             \A k \in 1 .. FrameCount(t) : x < t.at[k] \/ x >= End(t, k)
      PROVE  orig[x] = LowOf(t)
  <2>1. air[x] = 0
    BY <1>3, AirIs, Zenon
  <2> QED
    BY <1>1, <2>1
<1>4. ASSUME NEW k \in 1 .. FrameCount(t)
      PROVE  \A n \in 0 .. 15 :
               orig[t.at[k] + n] = IF n \in Pulses THEN HighOf(t) ELSE LowOf(t)
  <2> SUFFICES ASSUME NEW n \in 0 .. 15
               PROVE  orig[t.at[k] + n] = IF n \in Pulses THEN HighOf(t) ELSE LowOf(t)
    OBVIOUS
  <2> DEFINE x == t.at[k] + n
  <2> DEFINE a == t.at[k]
             l == Len(t.frames[k])
  <2>1. a \in Nat /\ 0 < a /\ End(t, k) = a + 16 + 2 * l /\ l \in {56, 112}
    BY PlaceIs
  <2>0. End(t, k) <= t.size + 1 /\ t.size \in Nat
    BY PlaceIs, TrafficIs
  <2>2. x \in 1 .. t.size /\ t.at[k] <= x /\ x < End(t, k) /\ x - t.at[k] = n
    <3>1. x = a + n
      OBVIOUS
    <3> HIDE DEF x, l
    <3>2. x \in 1 .. t.size /\ a <= x /\ x < End(t, k) /\ x - a = n
      <4> HIDE DEF a
      <4> QED
        BY <2>0, <2>1, <3>1
    <3> QED
      BY <3>2
  <2> HIDE DEF x
  <2>3. air[x] = Level(t.frames[k], n)
    BY <2>2, AirIs
  <2>4. Level(t.frames[k], n) = IF n \in Pulses THEN 1 ELSE 0
    BY DEF Level, preamble_len
  <2> HIDE DEF air, orig
  <2>5. orig[x] = IF n \in Pulses THEN HighOf(t) ELSE LowOf(t)
    BY <1>1, <2>2, <2>3, <2>4
  <2> QED
    BY <2>5 DEF x
<1>5. ASSUME NEW k \in 1 .. FrameCount(t), NEW j \in 1 .. Len(t.frames[k])
      PROVE  IF t.frames[k][j] = 1
             THEN orig[Start(t, k) + 2 * j - 2] = HighOf(t)
                  /\ orig[Start(t, k) + 2 * j - 1] = LowOf(t)
             ELSE orig[Start(t, k) + 2 * j - 2] = LowOf(t)
                  /\ orig[Start(t, k) + 2 * j - 1] = HighOf(t)
  <2> DEFINE x == Start(t, k) + 2 * j - 2
             y == Start(t, k) + 2 * j - 1
             frame == t.frames[k]
  <2> DEFINE a == t.at[k]
             l == Len(t.frames[k])
  <2>1. /\ a \in Nat /\ 0 < a /\ End(t, k) = a + 16 + 2 * l /\ l \in {56, 112}
        /\ Start(t, k) = a + 16
    BY PlaceIs
  <2>0. End(t, k) <= t.size + 1 /\ t.size \in Nat
    BY PlaceIs, TrafficIs
  <2>2. frame[j] \in {0, 1}
    <3>1. IsFrame(frame)
      BY PlaceIs
    <3> HIDE DEF frame
    <3>2. frame \in [1 .. Len(frame) -> {0, 1}]
      BY <3>1, FrameIs
    <3> QED
      BY <3>2 DEF frame
  <2> HIDE DEF frame
  <2>3. /\ x \in 1 .. t.size /\ t.at[k] <= x /\ x < End(t, k) /\ x - t.at[k] = 2 * j + 14
        /\ y \in 1 .. t.size /\ t.at[k] <= y /\ y < End(t, k) /\ y - t.at[k] = 2 * j + 15
    <3>1. x = a + 16 + 2 * j - 2 /\ y = a + 16 + 2 * j - 1 /\ j \in 1 .. l
      BY <2>1
    <3> HIDE DEF x, y, l
    <3>2. /\ x \in 1 .. t.size /\ a <= x /\ x < End(t, k) /\ x - a = 2 * j + 14
          /\ y \in 1 .. t.size /\ a <= y /\ y < End(t, k) /\ y - a = 2 * j + 15
      <4> HIDE DEF a
      <4> QED
        BY <2>0, <2>1, <3>1
    <3> QED
      BY <3>2
  <2> HIDE DEF x, y
  <2>4. air[x] = Level(frame, 2 * j + 14) /\ air[y] = Level(frame, 2 * j + 15)
    BY <2>3, AirIs DEF frame
  <2>5. Level(frame, 2 * j + 14) = frame[j] /\ Level(frame, 2 * j + 15) = 1 - frame[j]
    <3>0. j \in Int /\ 1 <= j
      BY <2>1
    <3>1. /\ 2 * j + 14 >= 16 /\ 2 * j + 15 >= 16
          /\ 2 * j + 14 - 16 = 2 * (j - 1) /\ 2 * j + 15 - 16 = 2 * (j - 1) + 1
          /\ (2 * (j - 1)) \div 2 + 1 = j /\ (2 * (j - 1) + 1) \div 2 + 1 = j
          /\ (2 * (j - 1)) % 2 = 0 /\ (2 * (j - 1) + 1) % 2 = 1
      BY <3>0
    <3> QED
      BY <3>1 DEF Level, preamble_len
  <2> HIDE DEF air, orig
  <2>6. /\ orig[x] = (IF frame[j] = 1 THEN HighOf(t) ELSE LowOf(t))
        /\ orig[y] = (IF 1 - frame[j] = 1 THEN HighOf(t) ELSE LowOf(t))
    BY <1>1, <2>3, <2>4, <2>5
  <2>7. IF frame[j] = 1 THEN orig[x] = HighOf(t) /\ orig[y] = LowOf(t)
                        ELSE orig[x] = LowOf(t) /\ orig[y] = HighOf(t)
    BY <2>2, <2>6
  <2> QED
    BY <2>7 DEF x, y, frame
<1> QED
  BY <1>2, <1>3, <1>4, <1>5

-----------------------------------------------------------------------------
(* Preambles and pairs.                                                    *)

\* A set of numbers has a least one.
LEMMA Least ==
  ASSUME NEW T \in SUBSET Nat, T # {}
  PROVE  \E x \in T : \A y \in T : x <= y
<1> DEFINE R == {ss \in Nat \X Nat : ss[1] < ss[2]}
<1>1. IsWellFoundedOn(R, Nat)
  BY NatLessThanWellFounded DEF OpToRel
<1>2. PICK x \in T : \A y \in T : ~ (<<y, x>> \in R)
  BY <1>1, WFMin
<1>3. x \in Nat /\ \A y \in T : y \in Nat /\ ~ (y < x)
  BY <1>2
<1> QED
  BY <1>3

LEMMA LastIs ==
  ASSUME NEW T \in SUBSET (0 .. 15), T # {}
  PROVE  Last(T) \in T
<1> DEFINE D == {n \in 0 .. 15 : 15 - n \in T}
<1>1. D \in SUBSET Nat /\ D # {}
  <2>1. PICK n \in T : TRUE
    OBVIOUS
  <2>2. 15 - n \in 0 .. 15 /\ 15 - (15 - n) = n
    OBVIOUS
  <2>3. 15 - n \in D
    BY <2>2
  <2>4. D \in SUBSET Nat
    OBVIOUS
  <2> HIDE DEF D
  <2> QED
    BY <2>3, <2>4
<1>2. PICK x \in D : \A y \in D : x <= y
  BY <1>1, Least
<1>3. 15 - x \in T
  OBVIOUS
<1>4. ASSUME NEW k \in T PROVE k <= 15 - x
  <2>1. k \in 0 .. 15 /\ 15 - k \in 0 .. 15 /\ 15 - (15 - k) = k
    OBVIOUS
  <2>2. 15 - k \in D
    BY <2>1
  <2>3. x <= 15 - k /\ x \in 0 .. 15
    BY <1>2, <2>2
  <2> QED
    BY <2>1, <2>3
<1> QED
  BY <1>3, <1>4 DEF Last

\* A preamble is found where there is one, ...
LEMMA PreambleFound ==
  ASSUME NEW buf, NEW i \in Int, NEW lo \in Int, NEW hi \in Int, 0 < lo, lo < hi,
         \A n \in 0 .. 15 : buf[i + n] = IF n \in Pulses THEN hi ELSE lo
  PROVE  preamble(buf, i)
<1> SUFFICES ASSUME NEW k \in 0 .. 15
             PROVE  buf[i + Last((0 .. k) \cap Pulses)]
                    > (IF (0 .. k) \ Pulses = {} THEN 0 ELSE buf[i + Last((0 .. k) \ Pulses)])
  <2>1. preamble_len - 1 = 15
    BY DEF preamble_len
  <2> QED
    BY <2>1, Zenon DEF preamble
<1> DEFINE highs == (0 .. k) \cap Pulses
           lows == (0 .. k) \ Pulses
<1>1. highs \in SUBSET (0 .. 15) /\ highs # {} /\ lows \in SUBSET (0 .. 15)
  <2>1. 0 \in highs
    BY DEF Pulses
  <2> QED
    BY <2>1
<1>2. Last(highs) \in highs
  <2> HIDE DEF highs
  <2> QED
    BY <1>1, LastIs
<1>3. buf[i + Last(highs)] = hi
  <2> DEFINE n == Last(highs)
  <2>1. n \in 0 .. 15 /\ n \in Pulses
    BY <1>2
  <2> HIDE DEF n
  <2> QED
    BY <2>1 DEF n
<1>4. CASE lows = {}
  BY <1>3, <1>4
<1>5. CASE lows # {}
  <2>1. Last(lows) \in lows
    <3> HIDE DEF lows
    <3> QED
      BY <1>1, <1>5, LastIs
  <2> DEFINE n == Last(lows)
  <2>2. n \in 0 .. 15 /\ n \notin Pulses
    BY <2>1
  <2> HIDE DEF n
  <2>3. buf[i + n] = lo
    BY <2>2
  <2> QED
    BY <1>3, <2>3 DEF n
<1> QED
  BY <1>4, <1>5

\* ... and not where the first sample is not above the second.
LEMMA PreambleNot ==
  ASSUME NEW buf, NEW i \in Int, buf[i] \in Int, buf[i + 1] \in Int, buf[i] <= buf[i + 1]
  PROVE  ~ preamble(buf, i)
<1> SUFFICES ASSUME preamble(buf, i) PROVE FALSE
  OBVIOUS
<1> DEFINE highs == (0 .. 1) \cap Pulses
           lows == (0 .. 1) \ Pulses
<1>1. buf[i + Last(highs)] > (IF lows = {} THEN 0 ELSE buf[i + Last(lows)])
  BY DEF preamble, preamble_len
<1>2. highs = {0} /\ lows = {1}
  BY DEF Pulses
<1> HIDE DEF highs, lows
<1>3. Last(highs) = 0 /\ Last(lows) = 1
  <2>1. {0} \in SUBSET (0 .. 15) /\ {1} \in SUBSET (0 .. 15)
    OBVIOUS
  <2>2. Last({0}) \in {0} /\ Last({1}) \in {1}
    BY <2>1, LastIs
  <2> QED
    BY <1>2, <2>2
<1>4. buf[i] > buf[i + 1]
  BY <1>1, <1>2, <1>3
<1> QED
  BY <1>4

\* The pair of a bit is taken for it after any pair of a bit.
LEMMA PairIs ==
  ASSUME NEW q \in Int, NEW lo \in Int, NEW hi \in Int, lo < hi, NEW bit \in {0, 1},
         NEW a, NEW b, NEW c, NEW d,
         (a = hi /\ b = lo) \/ (a = lo /\ b = hi),
         IF bit = 1 THEN c = hi /\ d = lo ELSE c = lo /\ d = hi
  PROVE  single_manchester(q, a, b, c, d) = bit
BY DEF single_manchester, BADSAMPLE

\* Silence, after the pair of a bit, after silence, and after a pair that was guessed.
LEMMA QuietIs ==
  ASSUME NEW q \in Int, q \notin {0, 5}, NEW lo \in Int, NEW hi \in Int, lo < hi
  PROVE  /\ single_manchester(q, hi, lo, lo, lo) = BADSAMPLE
         /\ single_manchester(q, lo, hi, lo, lo) \in {0, BADSAMPLE}
BY DEF single_manchester, BADSAMPLE

LEMMA AfterQuietIs ==
  ASSUME NEW q \in Int, q \notin {0, 5}, NEW lo \in Int, NEW c \in Int, NEW d \in Int,
         lo <= c, lo <= d
  PROVE  single_manchester(q, lo, lo, c, d) = BADSAMPLE
BY DEF single_manchester, BADSAMPLE

LEMMA AfterGuessIs ==
  ASSUME NEW q \in Int, q \notin {0, 5}, NEW lo \in Int, 0 < lo, lo < 65535
  PROVE  single_manchester(q, 0, 65535, lo, lo) = 0
BY DEF single_manchester, BADSAMPLE

LEMMA BitIs == 
  ASSUME NEW q, NEW a, NEW b, NEW c, NEW d
  PROVE  single_manchester(q, a, b, c, d) \in {0, 1, BADSAMPLE}
BY Zenon DEF single_manchester

-----------------------------------------------------------------------------
(* A buffer in which the frames up to ka are decoded, of that one p bits.  *)

LenOf(t, k) == Len(t.frames[k])
Decoded(t, ka, p, k) == IF k = ka THEN p ELSE LenOf(t, k)
\* The last samples, in which no preamble is looked for.
InTail(t, x) == x >= t.size - 15 /\ x >= End(t, FrameCount(t))
\* A sample before a frame's bits is none, nor one before all.
PreamblesStay(t, buf) ==
  \A k \in 1 .. FrameCount(t) : \A x \in t.at[k] .. Start(t, k) - 1 : buf[x] > 1
HeadStays(t, buf) == \A x \in 1 .. t.size : x < Start(t, 1) => buf[x] > 1
\* The bits are where their frame began.
Holds(t, buf, ka, p) ==
  \A k \in 1 .. ka : \A j \in 1 .. Decoded(t, ka, p, k) :
    buf[Start(t, k) + j - 1] = t.frames[k][j]
\* Any others are 0, but for the last samples.
Others(t, buf, ka, p) ==
  \A x \in 1 .. t.size : buf[x] <= 1 =>
    \/ \E k \in 1 .. ka : Start(t, k) <= x /\ x < Start(t, k) + Decoded(t, ka, p, k)
    \/ buf[x] = 0
    \/ InTail(t, x)
Layout(t, buf, ka, p) ==
  /\ buf \in [1 .. t.size -> Int] /\ PreamblesStay(t, buf) /\ HeadStays(t, buf)
  /\ Holds(t, buf, ka, p) /\ Others(t, buf, ka, p)

\* All the bits of the frame ka.
Whole(t, ka) == IF ka = 0 THEN 0 ELSE LenOf(t, ka)

LEMMA LenIs ==
  ASSUME NEW t, IsTraffic(t), NEW k \in 1 .. FrameCount(t)
  PROVE  /\ LenOf(t, k) \in {56, 112} /\ LenOf(t, k) \in Nat
         /\ Start(t, k) = t.at[k] + 16 /\ End(t, k) = Start(t, k) + 2 * LenOf(t, k)
         /\ t.at[k] \in Int /\ Start(t, k) \in Int /\ End(t, k) \in Int /\ 0 < t.at[k]
         /\ End(t, k) <= t.size + 1 /\ t.size \in Int
<1>1. LenOf(t, k) \in {56, 112} /\ LenOf(t, k) \in Nat
  BY PlaceIs DEF LenOf
<1>2. t.at[k] \in Int /\ 0 < t.at[k] /\ Start(t, k) = t.at[k] + 16
  BY PlaceIs
<1>3. End(t, k) = t.at[k] + 16 + 2 * LenOf(t, k)
  BY PlaceIs DEF LenOf
<1>4. End(t, k) <= t.size + 1 /\ t.size \in Int
  BY PlaceIs, TrafficIs
<1> QED
  BY <1>1, <1>2, <1>3, <1>4

\* The samples of a frame, and of its first half the bits.
LEMMA SamplesIn ==
  ASSUME NEW t, IsTraffic(t), NEW k \in 1 .. FrameCount(t), NEW x \in Int,
         t.at[k] <= x, x < Start(t, k) + LenOf(t, k) \/ x < Start(t, k) \/ x < End(t, k)
  PROVE  x \in 1 .. t.size /\ x < End(t, k)
<1> DEFINE a == t.at[k]
           s == Start(t, k)
           e == End(t, k)
           l == LenOf(t, k)
           z == t.size
<1>1. /\ l \in Nat /\ s = a + 16 /\ e = s + 2 * l /\ a \in Int /\ 0 < a /\ e <= z + 1 /\ z \in Int
  BY LenIs
<1>2. a <= x /\ (x < s + l \/ x < s \/ x < e)
  OBVIOUS
<1> HIDE DEF a, s, e, l, z
<1>3. x \in 1 .. z /\ x < e
  BY <1>1, <1>2
<1> QED
  BY <1>3 DEF e, z

\* Later frames are behind earlier ones.
LEMMA Behind ==
  ASSUME NEW t, IsTraffic(t), NEW j \in 1 .. FrameCount(t), NEW k \in 1 .. FrameCount(t), j <= k
  PROVE  /\ t.at[j] <= t.at[k] /\ Start(t, j) <= Start(t, k) /\ End(t, j) <= End(t, k)
         /\ j # k => End(t, j) <= t.at[k]
<1>0. j \in Int /\ k \in Int
  OBVIOUS
<1>1. CASE j = k
  <2>1. t.at[j] \in Int /\ Start(t, j) \in Int /\ End(t, j) \in Int
    BY LenIs
  <2> QED
    BY <1>1, <2>1
<1>2. CASE j < k
  <2>1. End(t, j) <= t.at[k]
    BY <1>2, Apart
  <2>2. /\ LenOf(t, j) \in Nat
        /\ Start(t, j) = t.at[j] + 16 /\ End(t, j) = Start(t, j) + 2 * LenOf(t, j)
        /\ t.at[j] \in Int
    BY LenIs
  <2>3. /\ LenOf(t, k) \in Nat
        /\ Start(t, k) = t.at[k] + 16 /\ End(t, k) = Start(t, k) + 2 * LenOf(t, k)
        /\ t.at[k] \in Int
    BY LenIs
  <2> QED
    BY <2>1, <2>2, <2>3
<1> QED
  BY <1>0, <1>1, <1>2

\* The first cell that may still change.
From(t, ka, p) == IF ka = 0 THEN 1 ELSE Start(t, ka) + p
\* What a cell may become.
MayBe(t, x, v, ka, p, q) ==
  \/ v > 1
  \/ /\ ka > 0 /\ \A k \in 1 .. FrameCount(t) : ~ (t.at[k] <= x /\ x < Start(t, k))
     /\ (x < Start(t, ka) + q \/ v = 0 \/ InTail(t, x))

LEMMA LayoutChange ==
  ASSUME NEW t, IsTraffic(t), NEW buf, NEW ka \in 0 .. FrameCount(t), NEW p \in Nat, NEW q \in Nat,
         Layout(t, buf, ka, p), p <= q, NEW buf2 \in [1 .. t.size -> Int],
         \A x \in 1 .. t.size :
           buf2[x] = buf[x] \/ (x >= From(t, ka, p) /\ MayBe(t, x, buf2[x], ka, p, q)),
         ka > 0 => \A j \in p + 1 .. q : buf2[Start(t, ka) + j - 1] = t.frames[ka][j],
         ka > 0 => q <= LenOf(t, ka)
  PROVE  Layout(t, buf2, ka, q)
<1>0. ka \in Int /\ FrameCount(t) \in Nat \ {0} /\ t.size \in Nat
  BY TrafficIs
<1>1. PreamblesStay(t, buf2)
  <2> SUFFICES ASSUME NEW k \in 1 .. FrameCount(t), NEW x \in t.at[k] .. Start(t, k) - 1
               PROVE  buf2[x] > 1
    BY DEF PreamblesStay
  <2>1. x \in 1 .. t.size /\ t.at[k] <= x /\ x < Start(t, k)
    <3>1. t.at[k] \in Int /\ Start(t, k) \in Int
      BY LenIs
    <3>2. x \in Int /\ t.at[k] <= x /\ x < Start(t, k)
      BY <3>1
    <3> QED
      BY <3>2, SamplesIn
  <2>2. buf[x] > 1
    BY DEF Layout, PreamblesStay
  <2> QED
    BY <2>1, <2>2, Zenon DEF MayBe
<1>2. HeadStays(t, buf2)
  <2> SUFFICES ASSUME NEW x \in 1 .. t.size, x < Start(t, 1) PROVE buf2[x] > 1
    BY DEF HeadStays
  <2>1. buf[x] > 1
    BY DEF Layout, HeadStays
  <2>2. ASSUME x >= From(t, ka, p), ka > 0 PROVE FALSE
    <3>1. ka \in 1 .. FrameCount(t) /\ 1 \in 1 .. FrameCount(t) /\ 1 <= ka
      BY <1>0, <2>2
    <3>2. Start(t, 1) <= Start(t, ka)
      BY <3>1, Behind
    <3>3. Start(t, 1) \in Int /\ Start(t, ka) \in Int
      BY <3>1, LenIs
    <3>4. x >= Start(t, ka) + p
      BY <1>0, <2>2 DEF From
    <3> QED
      BY <3>2, <3>3, <3>4
  <2> QED
    BY <2>1, <2>2, Zenon DEF MayBe
<1>3. Holds(t, buf2, ka, q)
  <2> SUFFICES ASSUME NEW k \in 1 .. ka, NEW j \in 1 .. Decoded(t, ka, q, k)
               PROVE  buf2[Start(t, k) + j - 1] = t.frames[k][j]
    BY DEF Holds
  <2> DEFINE x == Start(t, k) + j - 1
  <2>1. k \in 1 .. FrameCount(t) /\ ka \in 1 .. FrameCount(t) /\ k <= ka /\ ka > 0
    BY <1>0
  <2>2. /\ LenOf(t, k) \in Nat /\ Start(t, k) \in Int /\ End(t, k) = Start(t, k) + 2 * LenOf(t, k)
        /\ End(t, k) <= t.size + 1 /\ Start(t, k) = t.at[k] + 16 /\ 0 < t.at[k] /\ t.at[k] \in Int
    BY <2>1, LenIs
  <2>3. /\ Start(t, ka) \in Int /\ Start(t, ka) = t.at[ka] + 16 /\ t.at[ka] \in Int
    BY <2>1, LenIs
  <2>4. CASE j \in 1 .. Decoded(t, ka, p, k)
    <3>1. buf[x] = t.frames[k][j]
      BY <2>4 DEF Layout, Holds
    <3>2. j \in Int /\ 1 <= j /\ j <= LenOf(t, k)
      <4>1. CASE k = ka
        BY <2>2, <2>1, <4>1 DEF Decoded
      <4>2. CASE k # ka
        BY <2>2, <4>2 DEF Decoded
      <4> QED
        BY <4>1, <4>2
    <3>3. x \in 1 .. t.size /\ x < End(t, k) /\ x \in Int
      <4>1. x \in Int /\ t.at[k] <= x /\ x < Start(t, k) + LenOf(t, k)
        <5> DEFINE a == t.at[k]
                   s == Start(t, k)
                   l == LenOf(t, k)
        <5>1. a \in Int /\ s = a + 16 /\ l \in Nat /\ j \in Int /\ 1 <= j /\ j <= l
          BY <2>2, <3>2
        <5>2. x = s + j - 1
          OBVIOUS
        <5> HIDE DEF a, s, l, x
        <5>3. x \in Int /\ a <= x /\ x < s + l
          BY <5>1, <5>2
        <5> QED
          BY <5>3 DEF a, s, l
      <4> HIDE DEF x
      <4> QED
        BY <2>1, <4>1, SamplesIn
    <3>4. x < From(t, ka, p)
      <4>1. CASE k = ka
        BY <2>1, <2>2, <2>4, <4>1 DEF From, Decoded
      <4>2. CASE k # ka
        <5>1. End(t, k) <= t.at[ka]
          BY <2>1, <4>2, Behind
        <5> QED
          <6>1. x < End(t, k) /\ x \in Int /\ End(t, k) \in Int
            BY <2>1, <3>3, LenIs
          <6>2. From(t, ka, p) = t.at[ka] + 16 + p
            BY <2>1, <2>3 DEF From
          <6> HIDE DEF x
          <6> QED
            BY <2>3, <5>1, <6>1, <6>2
      <4> QED
        BY <4>1, <4>2
    <3>5. ~ (x >= From(t, ka, p))
      <4>1. From(t, ka, p) \in Int
        BY <2>3 DEF From
      <4> QED
        BY <3>3, <3>4, <4>1
    <3> QED
      BY <3>1, <3>3, <3>5
  <2>5. CASE j \notin 1 .. Decoded(t, ka, p, k)
    <3>1. k = ka /\ j \in p + 1 .. q
      BY <2>5 DEF Decoded
    <3> QED
      BY <2>1, <3>1
  <2> QED
    BY <2>4, <2>5
<1>4. Others(t, buf2, ka, q)
  <2> SUFFICES ASSUME NEW x \in 1 .. t.size, buf2[x] <= 1,
                      buf2[x] # 0, ~ InTail(t, x)
               PROVE  \E k \in 1 .. ka : Start(t, k) <= x /\ x < Start(t, k) + Decoded(t, ka, q, k)
    BY DEF Others
  <2>0. buf2[x] \in Int /\ ~ (buf2[x] > 1)
    OBVIOUS
  <2>1. CASE buf2[x] = buf[x]
    <3>1. PICK k \in 1 .. ka : Start(t, k) <= x /\ x < Start(t, k) + Decoded(t, ka, p, k)
      BY <2>1 DEF Layout, Others
    <3>2. k \in 1 .. FrameCount(t)
      BY <1>0
    <3>3. Start(t, k) \in Int /\ LenOf(t, k) \in Int
      BY <3>2, LenIs
    <3>4. Decoded(t, ka, p, k) \in Int /\ Decoded(t, ka, p, k) <= Decoded(t, ka, q, k)
          /\ Decoded(t, ka, q, k) \in Int
      BY <3>3 DEF Decoded
    <3>5. x < Start(t, k) + Decoded(t, ka, q, k)
      BY <3>1, <3>3, <3>4
    <3> QED
      BY <3>1, <3>5
  <2>2. CASE x >= From(t, ka, p) /\ MayBe(t, x, buf2[x], ka, p, q)
    <3>1. ka > 0 /\ x < Start(t, ka) + q
      BY <2>0, <2>2, Zenon DEF MayBe
    <3>2. ka \in 1 .. FrameCount(t) /\ ka \in 1 .. ka /\ x >= Start(t, ka) + p
      BY <1>0, <2>2, <3>1 DEF From
    <3>3. Start(t, ka) \in Int
      BY <3>2, LenIs
    <3>4. Start(t, ka) <= x /\ x < Start(t, ka) + Decoded(t, ka, q, ka)
      BY <3>1, <3>2, <3>3 DEF Decoded
    <3> QED
      BY <3>2, <3>4
  <2> QED
    BY <2>1, <2>2
<1> QED
  BY <1>1, <1>2, <1>3, <1>4 DEF Layout

\* The next frame has no bit yet.
LEMMA LayoutNext ==
  ASSUME NEW t, IsTraffic(t), NEW buf, NEW ka \in Nat, ka + 1 \in 1 .. FrameCount(t),
         Layout(t, buf, ka, Whole(t, ka))
  PROVE  Layout(t, buf, ka + 1, 0)
<1>1. Holds(t, buf, ka + 1, 0)
  <2> SUFFICES ASSUME NEW k \in 1 .. ka + 1, NEW j \in 1 .. Decoded(t, ka + 1, 0, k)
               PROVE  buf[Start(t, k) + j - 1] = t.frames[k][j]
    BY DEF Holds
  <2>1. k # ka + 1
    BY DEF Decoded
  <2>2. k \in 1 .. ka /\ Decoded(t, ka, Whole(t, ka), k) = Decoded(t, ka + 1, 0, k)
    BY <2>1 DEF Decoded, Whole
  <2> QED
    BY <2>2 DEF Layout, Holds
<1>2. Others(t, buf, ka + 1, 0)
  <2> SUFFICES ASSUME NEW x \in 1 .. t.size, buf[x] <= 1, buf[x] # 0, ~ InTail(t, x)
               PROVE  \E k \in 1 .. ka + 1 :
                        Start(t, k) <= x /\ x < Start(t, k) + Decoded(t, ka + 1, 0, k)
    BY DEF Others
  <2>1. PICK k \in 1 .. ka : Start(t, k) <= x /\ x < Start(t, k) + Decoded(t, ka, Whole(t, ka), k)
    BY DEF Layout, Others
  <2>2. k \in 1 .. ka + 1 /\ Decoded(t, ka, Whole(t, ka), k) = Decoded(t, ka + 1, 0, k)
    BY DEF Decoded, Whole
  <2> QED
    BY <2>1, <2>2
<1> QED
  BY <1>1, <1>2 DEF Layout

-----------------------------------------------------------------------------
(* manchester.                                                             *)

AfterFrame(t, ka) == IF ka = 0 THEN 1 ELSE End(t, ka)
\* The samples that are still as they came.
Untouched(t, mm) == \A x \in 1 .. t.size : x >= mm.i => mm.buf[x] = Original(t)[x]
\* The samples a and b of a bit.
OfBit(t, a, b) == (a = HighOf(t) /\ b = LowOf(t)) \/ (a = LowOf(t) /\ b = HighOf(t))

\* Between two frames, ...
Searching(t, mm, ka) ==
  /\ mm.at = "search" /\ mm.i \in Int /\ AfterFrame(t, ka) <= mm.i
  /\ ka < FrameCount(t) => mm.i <= t.at[ka + 1]
  /\ Layout(t, mm.buf, ka, Whole(t, ka)) /\ Untouched(t, mm)
\* ... after p bits of a frame, ...
InFrame(t, mm, ka, p) ==
  /\ mm.at = "bits" /\ mm.i = Start(t, ka) + 2 * p /\ mm.i2 = Start(t, ka) + p
  /\ mm.errors = 0 /\ OfBit(t, mm.a, mm.b)
  /\ Layout(t, mm.buf, ka, p) /\ Untouched(t, mm)
\* ... after x pairs of the silence that follows, ...
Fading(t, set, mm, ka, x) ==
  /\ mm.at = "bits" /\ mm.i = End(t, ka) + 2 * x /\ mm.i2 = Start(t, ka) + LenOf(t, ka) + x
  /\ mm.errors \in 0 .. set.allowed_errors
  /\ \/ mm.a = LowOf(t) /\ mm.b = LowOf(t) /\ x <= 2 * mm.errors + 1
     \/ mm.a = 0 /\ mm.b = 65535 /\ x <= 2 * mm.errors
     \/ OfBit(t, mm.a, mm.b) /\ x = 0
  /\ Layout(t, mm.buf, ka, LenOf(t, ka)) /\ Untouched(t, mm)
\* ... or at the end.
Tailing(t, mm) ==
  /\ mm.at \in {"search", "bits"} /\ mm.i \in Int /\ mm.i2 \in Int
  /\ InTail(t, mm.i) /\ InTail(t, mm.i2)
  /\ Layout(t, mm.buf, FrameCount(t), LenOf(t, FrameCount(t)))

LEMMA Whence ==
  ASSUME settings \in Settings, traffic \in Traffic
  PROVE  /\ IsTraffic(traffic) /\ settings.quality \in Int /\ settings.allowed_errors \in Nat
BY DecodeAssumption DEF DecodeAssumption

LEMMA SilenceIs ==
  ASSUME NEW t, IsTraffic(t), NEW ka \in 0 .. FrameCount(t), NEW x \in 1 .. t.size,
         AfterFrame(t, ka) <= x, ka < FrameCount(t) => x < t.at[ka + 1]
  PROVE  Original(t)[x] = LowOf(t)
<1> SUFFICES ASSUME NEW k \in 1 .. FrameCount(t) PROVE x < t.at[k] \/ x >= End(t, k)
  BY Strengths, Zenon
<1>0. ka \in Int /\ FrameCount(t) \in Nat /\ x \in Int
  BY TrafficIs
<1>1. CASE k <= ka
  <2>1. ka \in 1 .. FrameCount(t) /\ End(t, k) <= End(t, ka)
    BY <1>0, <1>1, Behind
  <2>2. End(t, k) \in Int /\ End(t, ka) \in Int /\ End(t, ka) <= x
    BY <1>0, <2>1, LenIs DEF AfterFrame
  <2> QED
    BY <1>0, <2>1, <2>2
<1>2. CASE ~ (k <= ka)
  <2>1. ka + 1 \in 1 .. FrameCount(t) /\ ka + 1 <= k /\ x < t.at[ka + 1]
    BY <1>0, <1>2
  <2>2. t.at[ka + 1] <= t.at[k]
    BY <2>1, Behind
  <2>3. t.at[ka + 1] \in Int /\ t.at[k] \in Int
    BY <2>1, LenIs
  <2> QED
    BY <1>0, <2>1, <2>2, <2>3
<1> QED
  BY <1>1, <1>2

LEMMA AtLeastLow ==
  ASSUME NEW t, IsTraffic(t), NEW x \in 1 .. t.size
  PROVE  Original(t)[x] \in Int /\ LowOf(t) <= Original(t)[x]
<1>1. Original(t)[x] \in {LowOf(t), HighOf(t)}
  BY Strengths
<1>2. LowOf(t) \in Int /\ HighOf(t) \in Int /\ LowOf(t) < HighOf(t)
  BY LevelsAre
<1> QED
  BY <1>1, <1>2

\* No preamble is found in the silence before a frame, ...
LEMMA NoneInSilence ==
  ASSUME NEW t, IsTraffic(t), NEW ka \in 0 .. FrameCount(t), NEW mm, Searching(t, mm, ka),
         NEW k \in mm.i .. t.size - 16, ka < FrameCount(t) => k < t.at[ka + 1]
  PROVE  ~ preamble(mm.buf, k)
<1>0. t.size \in Int /\ mm.i \in Int /\ 1 <= mm.i /\ AfterFrame(t, ka) <= mm.i
  <2>1. t.size \in Int /\ mm.i \in Int /\ AfterFrame(t, ka) <= mm.i
    BY TrafficIs DEF Searching
  <2>2. CASE ka = 0
    BY <2>1, <2>2 DEF AfterFrame
  <2>3. CASE ka # 0
    <3>1. ka \in 1 .. FrameCount(t)
      BY <2>3, TrafficIs
    <3>2. End(t, ka) \in Nat /\ End(t, ka) >= 1
      <4>1. /\ LenOf(t, ka) \in Nat /\ Start(t, ka) = t.at[ka] + 16
            /\ End(t, ka) = Start(t, ka) + 2 * LenOf(t, ka) /\ t.at[ka] \in Int /\ 0 < t.at[ka]
        BY <3>1, LenIs
      <4> QED
        BY <4>1
    <3> QED
      BY <2>1, <2>3, <3>2 DEF AfterFrame
  <2> QED
    BY <2>1, <2>2, <2>3
<1>1. k \in Int /\ k \in 1 .. t.size /\ k + 1 \in 1 .. t.size /\ k >= mm.i /\ k + 1 >= mm.i
  BY <1>0
<1>2. mm.buf[k] = Original(t)[k] /\ mm.buf[k + 1] = Original(t)[k + 1]
  BY <1>1 DEF Searching, Untouched
<1>3. AfterFrame(t, ka) <= k
  <2>1. AfterFrame(t, ka) \in Int
    <3>1. ka # 0 => ka \in 1 .. FrameCount(t)
      BY TrafficIs
    <3> QED
      BY <3>1, LenIs DEF AfterFrame
  <2> QED
    BY <1>0, <1>1, <2>1
<1>4. Original(t)[k] = LowOf(t)
  BY <1>1, <1>3, SilenceIs
<1>5. Original(t)[k + 1] \in Int /\ LowOf(t) <= Original(t)[k + 1] /\ LowOf(t) \in Int
  BY <1>1, AtLeastLow, LevelsAre
<1> QED
  BY <1>1, <1>2, <1>4, <1>5, PreambleNot

\* ... but the one of the frame.
LEMMA FoundAtFrame ==
  ASSUME NEW t, IsTraffic(t), NEW ka \in 0 .. FrameCount(t), NEW mm, Searching(t, mm, ka),
         ka < FrameCount(t)
  PROVE  /\ t.at[ka + 1] \in mm.i .. t.size - 16 /\ preamble(mm.buf, t.at[ka + 1])
         /\ mm.buf[t.at[ka + 1]] = HighOf(t) /\ mm.buf[t.at[ka + 1] + 1] = LowOf(t)
<1> DEFINE a == t.at[ka + 1]
           buf == mm.buf
           l == LenOf(t, ka + 1)
           z == t.size
<1>0. ka + 1 \in 1 .. FrameCount(t)
  BY TrafficIs
<1>1. /\ l \in {56, 112} /\ Start(t, ka + 1) = a + 16
      /\ End(t, ka + 1) = Start(t, ka + 1) + 2 * l
      /\ a \in Int /\ 0 < a /\ End(t, ka + 1) <= z + 1 /\ z \in Int
  BY <1>0, LenIs
<1>2. mm.i \in Int /\ mm.i <= a
  BY DEF Searching
<1>3. a \in mm.i .. z - 16
  <2> HIDE DEF a, l, z
  <2> QED
    BY <1>1, <1>2
<1>4. ASSUME NEW n \in 0 .. 15
      PROVE  buf[a + n] = IF n \in Pulses THEN HighOf(t) ELSE LowOf(t)
  <2>1. a + n \in 1 .. z /\ a + n >= mm.i
    <3> HIDE DEF a, l, z
    <3> QED
      BY <1>1, <1>2
  <2>2. buf[a + n] = Original(t)[a + n]
    BY <2>1 DEF Searching, Untouched
  <2> QED
    BY <1>0, <2>2, Strengths
<1>5. LowOf(t) \in Int /\ HighOf(t) \in Int /\ 0 < LowOf(t) /\ LowOf(t) < HighOf(t)
  BY LevelsAre
<1> HIDE DEF a, buf
<1>6. preamble(buf, a)
  BY <1>1, <1>4, <1>5, PreambleFound
<1>7. buf[a] = HighOf(t) /\ buf[a + 1] = LowOf(t)
  <2>1. a + 0 = a
    BY <1>1
  <2>2. buf[a + 0] = HighOf(t) /\ buf[a + 1] = LowOf(t)
    BY <1>4 DEF Pulses
  <2> QED
    BY <2>1, <2>2
<1> QED
  BY <1>3, <1>6, <1>7 DEF a, buf, z

LEMMA MarkedLayout ==
  ASSUME NEW t, IsTraffic(t), NEW ka \in Nat, ka + 1 \in 1 .. FrameCount(t), NEW buf,
         Layout(t, buf, ka, Whole(t, ka)), NEW buf2,
         buf2 = [j \in 1 .. t.size |->
                   IF t.at[ka + 1] <= j /\ j < t.at[ka + 1] + preamble_len THEN MESSAGEGO
                   ELSE buf[j]]
  PROVE  Layout(t, buf2, ka + 1, 0)
<1> DEFINE a == t.at[ka + 1]
           p == Whole(t, ka)
<1>0. ka \in 0 .. FrameCount(t) /\ ka \in Int /\ p \in Nat /\ a \in Int
  <2>1. ka \in 0 .. FrameCount(t) /\ ka \in Int
    BY TrafficIs
  <2>2. ka # 0 => ka \in 1 .. FrameCount(t)
    BY <2>1
  <2>3. p \in Nat
    BY <2>2, LenIs DEF Whole
  <2> QED
    BY <2>1, <2>3, LenIs
<1>1. buf \in [1 .. t.size -> Int]
  BY DEF Layout
<1> HIDE DEF a
<1>2. \A x \in 1 .. t.size :
        buf2[x] = IF a <= x /\ x < a + preamble_len THEN MESSAGEGO ELSE buf[x]
  BY DEF a
<1>3. buf2 \in [1 .. t.size -> Int]
  <2>1. MESSAGEGO \in Int
    BY DEF MESSAGEGO
  <2> QED
    BY <1>1, <2>1 DEF a
<1>4. From(t, ka, p) \in Int /\ From(t, ka, p) <= a
  <2>1. CASE ka = 0
    <3>1. 0 < a
      BY LenIs DEF a
    <3> QED
      BY <1>0, <2>1, <3>1 DEF From
  <2>2. CASE ka # 0
    <3>1. ka \in 1 .. FrameCount(t) /\ ka # ka + 1 /\ ka <= ka + 1
      BY <1>0, <2>2
    <3>2. End(t, ka) <= a
      BY <3>1, Behind DEF a
    <3> DEFINE s == Start(t, ka)
               l == LenOf(t, ka)
               e == End(t, ka)
    <3>3. l \in Nat /\ s \in Int /\ e = s + 2 * l
      BY <3>1, LenIs
    <3>4. From(t, ka, p) = s + l
      BY <2>2 DEF From, Whole
    <3> HIDE DEF s, l, p
    <3> QED
      BY <1>0, <3>2, <3>3, <3>4
  <2> QED
    BY <2>1, <2>2
<1> HIDE DEF p
<1>5. ASSUME NEW x \in 1 .. t.size
      PROVE  buf2[x] = buf[x] \/ (x >= From(t, ka, p) /\ MayBe(t, x, buf2[x], ka, p, p))
  <2>1. CASE a <= x /\ x < a + preamble_len
    <3>1. buf2[x] > 1
      BY <1>2, <2>1 DEF MESSAGEGO
    <3>2. x >= From(t, ka, p)
      BY <1>0, <1>4, <2>1
    <3> QED
      BY <3>1, <3>2, Zenon DEF MayBe
  <2>2. CASE ~ (a <= x /\ x < a + preamble_len)
    BY <1>2, <2>2
  <2> QED
    BY <2>1, <2>2
<1>6. Layout(t, buf2, ka, p)
  <2>1. p <= p /\ p + 1 .. p = {}
    BY <1>0
  <2>2. ka > 0 => p <= LenOf(t, ka)
    <3>1. ka > 0 => p = LenOf(t, ka)
      BY DEF p, Whole
    <3> QED
      BY <1>0, <3>1
  <2>3. Layout(t, buf, ka, p)
    BY DEF p
  <2>4. ka > 0 => \A j \in p + 1 .. p : buf2[Start(t, ka) + j - 1] = t.frames[ka][j]
    BY <2>1
  <2>5. p <= p
    BY <2>1
  <2> QED
    BY ONLY IsTraffic(t), <1>0, <1>3, <1>5, <2>2, <2>3, <2>4, <2>5, LayoutChange, Zenon
<1> QED
  BY <1>6, LayoutNext DEF p

LEMMA SearchFinds ==
  ASSUME settings \in Settings, traffic \in Traffic, NEW ka \in 0 .. FrameCount(traffic),
         Searching(traffic, m, ka), ka < FrameCount(traffic), Search
  PROVE  ka + 1 \in 1 .. FrameCount(traffic) /\ InFrame(traffic, m', ka + 1, 0)
<1> DEFINE t == traffic
           a == t.at[ka + 1]
<1>0. IsTraffic(t) /\ ka \in Nat /\ ka + 1 \in 1 .. FrameCount(t)
  BY Whence, TrafficIs
<1>1. /\ a \in m.i .. t.size - 16 /\ preamble(m.buf, a)
      /\ m.buf[a] = HighOf(t) /\ m.buf[a + 1] = LowOf(t)
  BY <1>0, FoundAtFrame
<1>2. a \in Preambles
  BY <1>1 DEF Preambles, len, preamble_len
<1>3. PICK k \in Preambles :
        /\ \A j \in Preambles : k <= j
        /\ m' = Turn("bits", Marked(k), k + preamble_len, k + preamble_len,
                     m.buf[k], m.buf[k + 1], 0)
  <2> HIDE DEF t, a
  <2> QED
    BY <1>2 DEF Search
<1>4. k = a
  <2>1. k \in m.i .. t.size - 16 /\ preamble(m.buf, k) /\ k <= a
    BY <1>2, <1>3 DEF Preambles, len, preamble_len
  <2>2. ~ (k < a)
    BY <1>0, <2>1, NoneInSilence
  <2>3. k \in Int /\ a \in Int
    <3>1. m.i \in Int /\ t.size \in Int
      BY <1>0, TrafficIs DEF Searching
    <3> QED
      BY <1>1, <2>1, <3>1
  <2> QED
    BY <2>1, <2>2, <2>3
<1>5. /\ m'.at = "bits" /\ m'.buf = Marked(a) /\ m'.i = a + 16 /\ m'.i2 = a + 16
      /\ m'.a = HighOf(t) /\ m'.b = LowOf(t) /\ m'.errors = 0
  <2> HIDE DEF a, t
  <2> QED
    BY <1>1, <1>3, <1>4 DEF Turn, preamble_len
<1>6. Marked(a) = [j \in 1 .. t.size |->
                     IF a <= j /\ j < a + preamble_len THEN MESSAGEGO ELSE m.buf[j]]
  BY DEF Marked, len
<1>7. Layout(t, m'.buf, ka + 1, 0)
  <2>1. Layout(t, m.buf, ka, Whole(t, ka))
    BY DEF Searching
  <2> QED
    BY <1>0, <1>5, <1>6, <2>1, MarkedLayout
<1>8. Start(t, ka + 1) = a + 16 /\ a \in Int
  BY <1>0, LenIs
<1>9. Untouched(t, m')
  <2> SUFFICES ASSUME NEW x \in 1 .. t.size, x >= a + 16 PROVE m'.buf[x] = Original(t)[x]
    BY <1>5 DEF Untouched
  <2>1. m.i \in Int /\ m.i <= a
    BY DEF Searching
  <2>2. x >= m.i /\ ~ (x < a + preamble_len)
    <3> HIDE DEF a
    <3> QED
      BY <1>8, <2>1 DEF preamble_len
  <2>3. m.buf[x] = Original(t)[x]
    BY <2>2 DEF Searching, Untouched
  <2> HIDE DEF a, t
  <2> QED
    BY <1>5, <1>6, <2>2, <2>3
<1>10. InFrame(t, m', ka + 1, 0)
  <2>1. OfBit(t, m'.a, m'.b)
    BY <1>5 DEF OfBit
  <2>2. m'.i = Start(t, ka + 1) + 2 * 0 /\ m'.i2 = Start(t, ka + 1) + 0
    <3> HIDE DEF a, t
    <3> QED
      BY <1>5, <1>8
  <2> QED
    BY <1>5, <1>7, <1>9, <2>1, <2>2 DEF InFrame
<1> QED
  BY <1>0, <1>10

LEMMA SearchEnds ==
  ASSUME settings \in Settings, traffic \in Traffic,
         Searching(traffic, m, FrameCount(traffic)), Search
  PROVE  Tailing(traffic, m')
<1> DEFINE t == traffic
           n == FrameCount(t)
           next == IF m.i > len - preamble_len THEN m.i ELSE len - preamble_len + 1
<1>0. IsTraffic(t) /\ n \in 0 .. n /\ n \in 1 .. n /\ t.size \in Int /\ m.i \in Int
  BY Whence, TrafficIs DEF Searching
<1>1. Preambles = {}
  <2> SUFFICES ASSUME NEW k \in m.i .. t.size - 16 PROVE ~ preamble(m.buf, k)
    BY DEF Preambles, len, preamble_len
  <2>1. ~ (n < n)
    BY <1>0
  <2> QED
    BY <1>0, <2>1, NoneInSilence
<1>2. m' = Turn("bits", m.buf, next, next, m.a, m.b, 0)
  <2> HIDE DEF t, n
  <2> QED
    BY <1>1 DEF Search
<1>3. next \in Int /\ InTail(t, next)
  <2>1. End(t, n) \in Int /\ End(t, n) <= m.i
    <3>1. n # 0
      BY <1>0
    <3> QED
      BY <1>0, <3>1, LenIs DEF Searching, AfterFrame
  <2>2. next \in Int /\ next >= t.size - 15 /\ next >= End(t, n)
    BY <1>0, <2>1 DEF len, preamble_len
  <2> HIDE DEF next
  <2> QED
    BY <2>2 DEF InTail
<1>4. m'.at = "bits" /\ m'.buf = m.buf /\ m'.i = next /\ m'.i2 = next
  <2> HIDE DEF next
  <2> QED
    BY <1>2 DEF Turn
<1>5. Layout(t, m.buf, n, LenOf(t, n))
  <2>1. n # 0
    BY <1>0
  <2> QED
    BY <2>1 DEF Searching, Whole
<1> HIDE DEF next, t
<1> QED
  BY <1>3, <1>4, <1>5 DEF Tailing, t

LEMMA PutsIs ==
  ASSUME NEW z \in Int, m.buf \in [1 .. z -> Int], NEW bit \in Int
  PROVE  /\ Puts(bit) \in [1 .. z -> Int]
         /\ \A x \in 1 .. z :
              Puts(bit)[x] = IF x = m.i2 THEN bit
                             ELSE IF x = m.i \/ x = m.i + 1 THEN OVERWRITE ELSE m.buf[x]
<1> DEFINE b0 == m.buf
           b1 == [b0 EXCEPT ![m.i] = OVERWRITE]
           b2 == [b1 EXCEPT ![m.i + 1] = OVERWRITE]
           b3 == [b2 EXCEPT ![m.i2] = bit]
<1>1. OVERWRITE \in Int
  BY DEF OVERWRITE
<1>2. b1 \in [1 .. z -> Int] /\ \A x \in 1 .. z : b1[x] = IF x = m.i THEN OVERWRITE ELSE b0[x]
  BY <1>1
<1>3. /\ b2 \in [1 .. z -> Int]
      /\ \A x \in 1 .. z : b2[x] = IF x = m.i + 1 THEN OVERWRITE ELSE b1[x]
  <2> HIDE DEF b1
  <2> QED
    BY <1>1, <1>2
<1>4. b3 \in [1 .. z -> Int] /\ \A x \in 1 .. z : b3[x] = IF x = m.i2 THEN bit ELSE b2[x]
  <2> HIDE DEF b2
  <2> QED
    BY <1>3
<1>5. Puts(bit) = b3
  BY Zenon DEF Puts
<1> HIDE DEF b0, b1, b2, b3
<1>6. \A x \in 1 .. z : b3[x] = IF x = m.i2 THEN bit
                                ELSE IF x = m.i \/ x = m.i + 1 THEN OVERWRITE ELSE b0[x]
  BY <1>2, <1>3, <1>4, Zenon
<1> QED
  BY <1>4, <1>5, <1>6 DEF b0

LEMMA NotInPreamble ==
  ASSUME NEW t, IsTraffic(t), NEW ka \in 1 .. FrameCount(t), NEW x \in Int,
         Start(t, ka) <= x, ka < FrameCount(t) => x < t.at[ka + 1],
         NEW k \in 1 .. FrameCount(t)
  PROVE  ~ (t.at[k] <= x /\ x < Start(t, k))
<1>0. ka \in Int /\ k \in Int /\ FrameCount(t) \in Int
  BY TrafficIs
<1>1. CASE k <= ka
  <2>1. Start(t, k) <= Start(t, ka)
    BY <1>1, Behind
  <2>2. Start(t, k) \in Int /\ Start(t, ka) \in Int
    BY LenIs
  <2> QED
    BY <2>1, <2>2
<1>2. CASE ~ (k <= ka)
  <2>1. ka + 1 \in 1 .. FrameCount(t) /\ ka + 1 <= k /\ x < t.at[ka + 1]
    BY <1>0, <1>2
  <2>2. t.at[ka + 1] <= t.at[k]
    BY <2>1, Behind
  <2>3. t.at[ka + 1] \in Int /\ t.at[k] \in Int
    BY <2>1, LenIs
  <2> QED
    BY <2>1, <2>2, <2>3
<1> QED
  BY <1>1, <1>2

\* A bit is put where it belongs, or is 0, or at the end.
LEMMA PutsLayout ==
  ASSUME NEW t, IsTraffic(t), NEW ka \in 1 .. FrameCount(t), NEW p \in Nat, NEW q \in Nat,
         Layout(t, m.buf, ka, p), p <= q, q <= LenOf(t, ka), NEW bit \in {0, 1},
         m.i \in Int, m.i2 \in Int, m.i2 >= Start(t, ka) + p, m.i >= Start(t, ka) + p,
         ka < FrameCount(t) => m.i2 < t.at[ka + 1],
         m.i2 < Start(t, ka) + q \/ bit = 0 \/ InTail(t, m.i2),
         \A j \in p + 1 .. q : m.i2 = Start(t, ka) + j - 1 /\ bit = t.frames[ka][j]
  PROVE  Layout(t, Puts(bit), ka, q)
<1> DEFINE buf2 == Puts(bit)
           s == Start(t, ka)
<1>0. /\ s \in Int /\ t.size \in Int /\ ka > 0 /\ ka \in 0 .. FrameCount(t) /\ bit \in Int
      /\ m.buf \in [1 .. t.size -> Int]
  BY LenIs, TrafficIs DEF Layout
<1>1. /\ buf2 \in [1 .. t.size -> Int]
      /\ \A x \in 1 .. t.size :
           buf2[x] = IF x = m.i2 THEN bit
                     ELSE IF x = m.i \/ x = m.i + 1 THEN OVERWRITE ELSE m.buf[x]
  BY <1>0, PutsIs
<1> HIDE DEF buf2
<1>2. ASSUME NEW x \in 1 .. t.size
      PROVE  buf2[x] = m.buf[x] \/ (x >= From(t, ka, p) /\ MayBe(t, x, buf2[x], ka, p, q))
  <2>0. From(t, ka, p) = s + p
    BY <1>0 DEF From
  <2>1. CASE x = m.i2
    <3>1. buf2[x] = bit
      BY <1>1, <2>1
    <3>2. s <= x /\ x >= s + p
      BY <1>0, <2>1
    <3>3. \A k \in 1 .. FrameCount(t) : ~ (t.at[k] <= x /\ x < Start(t, k))
      BY <2>1, <3>2, NotInPreamble
    <3>4. MayBe(t, x, buf2[x], ka, p, q)
      BY <1>0, <2>1, <3>1, <3>3 DEF MayBe
    <3> QED
      BY <2>0, <3>2, <3>4
  <2>2. CASE x # m.i2 /\ (x = m.i \/ x = m.i + 1)
    <3>1. buf2[x] > 1
      BY <1>1, <2>2 DEF OVERWRITE
    <3>2. x >= s + p
      BY <1>0, <2>2
    <3> QED
      BY <2>0, <3>1, <3>2, Zenon DEF MayBe
  <2>3. CASE x # m.i2 /\ ~ (x = m.i \/ x = m.i + 1)
    BY <1>1, <2>3
  <2> QED
    BY <2>1, <2>2, <2>3
<1>3. ASSUME NEW j \in p + 1 .. q PROVE buf2[s + j - 1] = t.frames[ka][j]
  <2>1. m.i2 = s + j - 1 /\ bit = t.frames[ka][j]
    OBVIOUS
  <2>2. m.i2 \in 1 .. t.size
    <3>1. /\ LenOf(t, ka) \in Nat /\ s = t.at[ka] + 16 /\ t.at[ka] \in Int
      BY LenIs
    <3>2. t.at[ka] <= m.i2 /\ m.i2 < s + LenOf(t, ka)
      <4> DEFINE a == t.at[ka]
                 l == LenOf(t, ka)
                 i2 == m.i2
      <4>1. /\ l \in Nat /\ s = a + 16 /\ a \in Int /\ j \in Int /\ 1 <= j /\ j <= l
            /\ i2 = s + j - 1
        BY <2>1, <3>1
      <4> HIDE DEF a, l, i2, s
      <4>2. a <= i2 /\ i2 < s + l
        BY <4>1
      <4> QED
        BY <4>2 DEF a, l, i2, s
    <3> QED
      BY <3>2, SamplesIn
  <2> QED
    BY <1>1, <2>1, <2>2
<1>4. Layout(t, buf2, ka, q)
  <2>1. ka > 0 => \A j \in p + 1 .. q : buf2[Start(t, ka) + j - 1] = t.frames[ka][j]
    BY <1>3
  <2>2. ka > 0 => q <= LenOf(t, ka)
    OBVIOUS
  <2> HIDE DEF s
  <2> QED
    BY <1>0, <1>1, <1>2, <2>1, <2>2, LayoutChange, Zenon
<1> QED
  BY <1>4 DEF buf2

LEMMA BrokenIs ==
  ASSUME NEW z \in Int, m.buf \in [1 .. z -> Int]
  PROVE  /\ Broken \in [1 .. z -> Int]
         /\ \A x \in 1 .. z : Broken[x] = IF x = m.i2 THEN BADSAMPLE ELSE m.buf[x]
<1> DEFINE buf == m.buf
           i2 == m.i2
<1>1. BADSAMPLE \in Int /\ buf \in [1 .. z -> Int] /\ Broken = [buf EXCEPT ![i2] = BADSAMPLE]
  BY DEF Broken, BADSAMPLE
<1> HIDE DEF buf, i2
<1>2. /\ Broken \in [1 .. z -> Int]
      /\ \A x \in 1 .. z : Broken[x] = IF x = i2 THEN BADSAMPLE ELSE buf[x]
  BY <1>1
<1> QED
  BY <1>2 DEF buf, i2

LEMMA BrokenLayout ==
  ASSUME NEW t, IsTraffic(t), NEW ka \in 1 .. FrameCount(t), NEW p \in Nat,
         Layout(t, m.buf, ka, p), p <= LenOf(t, ka), m.i2 \in Int, m.i2 >= Start(t, ka) + p
  PROVE  Layout(t, Broken, ka, p)
<1> DEFINE buf2 == Broken
<1>0. /\ Start(t, ka) \in Int /\ t.size \in Int /\ ka > 0 /\ ka \in 0 .. FrameCount(t)
      /\ m.buf \in [1 .. t.size -> Int]
  BY LenIs, TrafficIs DEF Layout
<1>1. /\ buf2 \in [1 .. t.size -> Int]
      /\ \A x \in 1 .. t.size : buf2[x] = IF x = m.i2 THEN BADSAMPLE ELSE m.buf[x]
  BY <1>0, BrokenIs
<1> HIDE DEF buf2
<1>2. ASSUME NEW x \in 1 .. t.size
      PROVE  buf2[x] = m.buf[x] \/ (x >= From(t, ka, p) /\ MayBe(t, x, buf2[x], ka, p, p))
  <2>1. CASE x = m.i2
    <3>1. buf2[x] > 1
      BY <1>1, <2>1 DEF BADSAMPLE
    <3>2. x >= From(t, ka, p)
      BY <1>0, <2>1 DEF From
    <3> QED
      BY <3>1, <3>2, Zenon DEF MayBe
  <2>2. CASE x # m.i2
    BY <1>1, <2>2
  <2> QED
    BY <2>1, <2>2
<1>3. Layout(t, buf2, ka, p)
  <2>1. p + 1 .. p = {} /\ p <= p
    OBVIOUS
  <2>2. ka > 0 => \A j \in p + 1 .. p : buf2[Start(t, ka) + j - 1] = t.frames[ka][j]
    BY <2>1
  <2>3. ka > 0 => p <= LenOf(t, ka)
    OBVIOUS
  <2> QED
    BY <1>0, <1>1, <1>2, <2>1, <2>2, <2>3, LayoutChange, Zenon
<1> QED
  BY <1>3 DEF buf2

\* The samples after a turn.
LEMMA PutsUntouched ==
  ASSUME NEW t, t.size \in Int, m.buf \in [1 .. t.size -> Int], NEW bit \in Int,
         Untouched(t, m), m.i \in Int, m.i2 \in Int, m.i2 <= m.i, NEW mm,
         mm.buf = Puts(bit), mm.i = m.i + 2
  PROVE  Untouched(t, mm)
<1> SUFFICES ASSUME NEW x \in 1 .. t.size, x >= m.i + 2 PROVE Puts(bit)[x] = Original(t)[x]
  BY DEF Untouched
<1>1. x # m.i2 /\ x # m.i /\ x # m.i + 1 /\ x >= m.i
  OBVIOUS
<1>2. Puts(bit)[x] = m.buf[x]
  BY <1>1, PutsIs
<1> QED
  BY <1>1, <1>2 DEF Untouched

LEMMA BrokenUntouched ==
  ASSUME NEW t, t.size \in Int, m.buf \in [1 .. t.size -> Int],
         Untouched(t, m), m.i \in Int, m.i2 \in Int, m.i2 < m.i, NEW mm,
         mm.buf = Broken, mm.i = m.i
  PROVE  Untouched(t, mm)
<1> SUFFICES ASSUME NEW x \in 1 .. t.size, x >= m.i PROVE Broken[x] = Original(t)[x]
  BY DEF Untouched
<1>1. x # m.i2
  OBVIOUS
<1>2. Broken[x] = m.buf[x]
  BY <1>1, BrokenIs
<1> QED
  BY <1>1, <1>2 DEF Untouched

Turning == DecodeNext /\ m.at = "bits"

\* What a turn of the loop over the bits may be.
LEMMA TurnIs ==
  ASSUME Turning, traffic.size \in Int, m.i \in Int
  PROVE  /\ shown' = shown
         /\ \/ m.i < traffic.size /\ (TakeBit \/ Guess \/ Break)
            \/ m.i >= traffic.size /\ EndManchester
<1>1. TakeBit \/ Guess \/ Break \/ EndManchester
  BY DEF Turning, DecodeNext, Search, Message, EndMessages
<1>2. shown' = shown
  BY <1>1 DEF TakeBit, Guess, Break, EndManchester
<1>3. len \in Int /\ len = traffic.size
  BY DEF len
<1> QED
  BY <1>1, <1>2, <1>3 DEF TakeBit, Guess, Break, EndManchester

LEMMA BitTaken ==
  ASSUME settings \in Settings, traffic \in Traffic, NEW ka \in 1 .. FrameCount(traffic),
         NEW p \in Nat, p < LenOf(traffic, ka), InFrame(traffic, m, ka, p), Turning
  PROVE  InFrame(traffic, m', ka, p + 1) /\ shown' = shown
<1> DEFINE t == traffic
           s == Start(t, ka)
           l == LenOf(t, ka)
           z == t.size
           frame == t.frames[ka]
           bit == frame[p + 1]
<1>0. /\ IsTraffic(t) /\ settings.quality \in Int
      /\ l \in Nat /\ s \in Int /\ z \in Int /\ End(t, ka) = s + 2 * l /\ End(t, ka) <= z + 1
      /\ p < l /\ 0 < s
  <2>1. IsTraffic(t) /\ settings.quality \in Int
    BY Whence
  <2>2. l \in Nat /\ s \in Int /\ z \in Int /\ End(t, ka) = s + 2 * l /\ End(t, ka) <= z + 1
    BY <2>1, LenIs
  <2>3. s = t.at[ka] + 16 /\ t.at[ka] \in Int /\ 0 < t.at[ka]
    BY <2>1, LenIs
  <2> QED
    BY <2>1, <2>2, <2>3
<1>1. /\ m.i = s + 2 * p /\ m.i2 = s + p /\ m.errors = 0 /\ OfBit(t, m.a, m.b)
      /\ Layout(t, m.buf, ka, p) /\ Untouched(t, m)
  BY DEF InFrame
<1>2. bit \in {0, 1} /\ p + 1 \in 1 .. l
  <2>1. IsFrame(frame) /\ l = Len(frame)
    BY <1>0, PlaceIs DEF LenOf
  <2>2. p + 1 \in 1 .. l
    BY <1>0
  <2> HIDE DEF frame, l
  <2> QED
    BY <2>1, <2>2, FrameIs
<1> HIDE DEF s, l, z
<1>3. m.i \in 1 .. z /\ m.i + 1 \in 1 .. z /\ m.i < z /\ m.i \in Int /\ m.i2 \in Int /\ m.i2 <= m.i
  BY <1>0, <1>1
<1>4. IF bit = 1 THEN m.buf[m.i] = HighOf(t) /\ m.buf[m.i + 1] = LowOf(t)
      ELSE m.buf[m.i] = LowOf(t) /\ m.buf[m.i + 1] = HighOf(t)
  <2>1. m.buf[m.i] = Original(t)[m.i] /\ m.buf[m.i + 1] = Original(t)[m.i + 1]
    BY <1>1, <1>3 DEF Untouched, z
  <2>2. m.i = s + 2 * (p + 1) - 2 /\ m.i + 1 = s + 2 * (p + 1) - 1
    BY <1>0, <1>1
  <2>3. IF bit = 1 THEN /\ Original(t)[s + 2 * (p + 1) - 2] = HighOf(t)
                        /\ Original(t)[s + 2 * (p + 1) - 1] = LowOf(t)
        ELSE /\ Original(t)[s + 2 * (p + 1) - 2] = LowOf(t)
             /\ Original(t)[s + 2 * (p + 1) - 1] = HighOf(t)
    <3>1. p + 1 \in 1 .. Len(t.frames[ka])
      BY <1>2 DEF l, LenOf
    <3> QED
      BY <1>0, <3>1, Strengths DEF s
  <2> HIDE DEF bit
  <2> QED
    BY <2>1, <2>2, <2>3
<1>5. Bit = bit
  <2>1. LowOf(t) \in Int /\ HighOf(t) \in Int /\ LowOf(t) < HighOf(t)
    BY <1>0, LevelsAre
  <2>2. (m.a = HighOf(t) /\ m.b = LowOf(t)) \/ (m.a = LowOf(t) /\ m.b = HighOf(t))
    BY <1>1 DEF OfBit
  <2>3. settings.quality \in Int /\ bit \in {0, 1}
    BY <1>0, <1>2
  <2>4. single_manchester(settings.quality, m.a, m.b, m.buf[m.i], m.buf[m.i + 1]) = bit
    <3> HIDE DEF bit, t
    <3> QED
      BY ONLY <1>4, <2>1, <2>2, <2>3, PairIs
  <2> QED
    BY <2>4 DEF Bit
<1>6. TakeBit /\ shown' = shown
  <2>1. shown' = shown /\ ((m.i < z /\ (TakeBit \/ Guess \/ Break)) \/ m.i >= z)
    BY <1>0, <1>3, TurnIs, Zenon DEF z
  <2>2. Bit # BADSAMPLE
    BY <1>2, <1>5 DEF BADSAMPLE
  <2>3. ~ (m.i >= z)
    BY <1>0, <1>3
  <2>4. ~ Guess /\ ~ Break
    BY <2>2 DEF Guess, Break
  <2> QED
    BY <2>1, <2>3, <2>4
<1>7. /\ m'.at = "bits" /\ m'.buf = Puts(bit) /\ m'.i = m.i + 2 /\ m'.i2 = m.i2 + 1
      /\ m'.a = m.buf[m.i] /\ m'.b = m.buf[m.i + 1] /\ m'.errors = m.errors
  <2>1. m' = Turn("bits", Puts(Bit), m.i + 2, m.i2 + 1, m.buf[m.i], m.buf[m.i + 1], m.errors)
    BY <1>6 DEF TakeBit
  <2> HIDE DEF bit
  <2> QED
    BY <1>5, <2>1 DEF Turn
<1>8. Layout(t, Puts(bit), ka, p + 1)
  <2>1. p + 1 \in Nat /\ p <= p + 1 /\ p + 1 <= l /\ m.i2 >= s + p /\ m.i >= s + p
        /\ m.i2 < s + (p + 1)
    BY <1>0, <1>1
  <2>2. ka < FrameCount(t) => m.i2 < t.at[ka + 1]
    <3> SUFFICES ASSUME ka < FrameCount(t) PROVE m.i2 < t.at[ka + 1]
      OBVIOUS
    <3>1. ka + 1 \in 1 .. FrameCount(t) /\ ka <= ka + 1 /\ ka # ka + 1
      BY <1>0, TrafficIs
    <3>2. End(t, ka) <= t.at[ka + 1] /\ t.at[ka + 1] \in Int
      BY <1>0, <3>1, Behind, LenIs
    <3> QED
      BY <1>0, <1>1, <3>2
  <2>3. \A j \in (p + 1) .. (p + 1) : m.i2 = s + j - 1 /\ bit = t.frames[ka][j]
    <3>1. \A j \in (p + 1) .. (p + 1) : j = p + 1
      OBVIOUS
    <3>2. m.i2 = s + (p + 1) - 1
      BY <1>0, <1>1
    <3> QED
      BY <3>1, <3>2
  <2> HIDE DEF bit
  <2> QED
    BY <1>0, <1>1, <1>2, <1>3, <2>1, <2>2, <2>3, PutsLayout DEF s, l
<1>9. Untouched(t, m')
  <2>1. m.buf \in [1 .. z -> Int] /\ bit \in Int
    BY <1>1, <1>2 DEF Layout, z
  <2> HIDE DEF bit
  <2> QED
    BY <1>0, <1>1, <1>3, <1>7, <2>1, PutsUntouched DEF z
<1>10. OfBit(t, m'.a, m'.b)
  <2> HIDE DEF bit
  <2> QED
    BY <1>4, <1>7, Zenon DEF OfBit
<1>11. m'.i = s + 2 * (p + 1) /\ m'.i2 = s + (p + 1) /\ m'.errors = 0
  BY <1>0, <1>1, <1>7
<1> HIDE DEF bit
<1> QED
  BY <1>6, <1>7, <1>8, <1>9, <1>10, <1>11 DEF InFrame, s

\* A frame's last bit begins the silence.
LEMMA FadingBegins ==
  ASSUME NEW t, IsTraffic(t), NEW set, set.allowed_errors \in Nat, NEW ka \in 1 .. FrameCount(t),
         NEW mm, InFrame(t, mm, ka, LenOf(t, ka))
  PROVE  Fading(t, set, mm, ka, 0)
<1> DEFINE s == Start(t, ka)
           l == LenOf(t, ka)
<1>1. l \in Nat /\ s \in Int /\ End(t, ka) = s + 2 * l
  BY LenIs
<1>2. mm.i = s + 2 * l /\ mm.i2 = s + l /\ mm.errors = 0
  BY DEF InFrame
<1> HIDE DEF s, l
<1>3. mm.i = End(t, ka) + 2 * 0 /\ mm.i2 = s + l + 0 /\ mm.errors \in 0 .. set.allowed_errors
  BY <1>1, <1>2
<1> QED
  BY <1>3 DEF InFrame, Fading, s, l

\* Where a pair of the silence is, and what there is.
LEMMA FadingIs ==
  ASSUME NEW t, IsTraffic(t), NEW set, set.allowed_errors \in Nat, NEW ka \in 1 .. FrameCount(t),
         NEW mm, NEW x \in Nat, Fading(t, set, mm, ka, x),
         t.gap >= 4 * set.allowed_errors + 2
  PROVE  /\ mm.i \in Int /\ mm.i2 \in Int /\ mm.i2 < mm.i /\ mm.errors \in Int
         /\ mm.i2 >= Start(t, ka) + LenOf(t, ka) /\ mm.i >= End(t, ka)
         /\ ka < FrameCount(t) => mm.i <= t.at[ka + 1]
         /\ 2 * x + 1 < t.gap => mm.i + 1 < End(t, ka) + t.gap
         /\ x <= 2 * mm.errors + 1 /\ mm.errors <= set.allowed_errors
<1> DEFINE s == Start(t, ka)
           l == LenOf(t, ka)
           e == set.allowed_errors
           n == mm.errors
           g == t.gap
           i == mm.i
           i2 == mm.i2
           f == End(t, ka)
<1>1. l \in Nat /\ s \in Int /\ f = s + 2 * l /\ l >= 1 /\ f \in Int
  BY LenIs
<1>2. i = f + 2 * x /\ i2 = s + l + x /\ n \in 0 .. e /\ x <= 2 * n + 1
  <2>1. i = f + 2 * x /\ i2 = s + l + x /\ n \in 0 .. e
    BY DEF Fading
  <2>2. x <= 2 * n + 1 \/ x <= 2 * n \/ x = 0
    BY DEF Fading
  <2> HIDE DEF n
  <2> QED
    BY <2>1, <2>2
<1>3. g \in Int /\ g >= 4 * e + 2 /\ e \in Nat
  BY TrafficIs
<1>4. ka < FrameCount(t) => f + g <= t.at[ka + 1] /\ t.at[ka + 1] \in Int
  <2> SUFFICES ASSUME ka < FrameCount(t) PROVE f + g <= t.at[ka + 1] /\ t.at[ka + 1] \in Int
    OBVIOUS
  <2>1. ka + 1 \in 1 .. FrameCount(t) /\ ka < ka + 1
    BY TrafficIs
  <2> QED
    BY <2>1, Apart, LenIs
<1> HIDE DEF s, l, e, n, g, i, i2, f
<1>5. i \in Int /\ i2 \in Int /\ i2 < i /\ i >= f /\ i <= f + g /\ n <= e /\ i2 >= s + l
      /\ n \in Int /\ (2 * x + 1 < g => i + 1 < f + g)
  BY <1>1, <1>2, <1>3
<1>6. ka < FrameCount(t) => i <= t.at[ka + 1]
  BY <1>1, <1>3, <1>4, <1>5
<1> QED
  BY <1>2, <1>5, <1>6 DEF s, l, e, n, g, i, i2, f

\* As long as errors are allowed there is silence.
LEMMA FadingQuiet ==
  ASSUME NEW t, IsTraffic(t), NEW set, set.allowed_errors \in Nat, NEW ka \in 1 .. FrameCount(t),
         NEW mm, NEW x \in Nat, Fading(t, set, mm, ka, x), mm.i < t.size,
         t.gap >= 4 * set.allowed_errors + 2
  PROVE  /\ mm.i \in 1 .. t.size /\ mm.i + 1 \in 1 .. t.size
         /\ \A y \in {mm.i, mm.i + 1} : mm.buf[y] \in Int /\ LowOf(t) <= mm.buf[y]
         /\ 2 * x + 1 < t.gap => \A y \in {mm.i, mm.i + 1} : mm.buf[y] = LowOf(t)
<1>1. /\ mm.i \in Int /\ mm.i >= End(t, ka) /\ t.size \in Int /\ t.gap \in Int
      /\ 2 * x + 1 < t.gap => mm.i + 1 < End(t, ka) + t.gap
      /\ End(t, ka) \in Int /\ End(t, ka) > 0
  <2>1. End(t, ka) \in Int /\ End(t, ka) > 0
    <3> DEFINE s == Start(t, ka)
               l == LenOf(t, ka)
    <3>1. l \in Nat /\ s = t.at[ka] + 16 /\ t.at[ka] \in Int /\ 0 < t.at[ka]
          /\ End(t, ka) = s + 2 * l
      BY LenIs
    <3> QED
      BY <3>1
  <2> QED
    BY <2>1, FadingIs, TrafficIs
<1>2. mm.i \in 1 .. t.size /\ mm.i + 1 \in 1 .. t.size
  BY <1>1
<1>3. ASSUME NEW y \in {mm.i, mm.i + 1}
      PROVE  mm.buf[y] = Original(t)[y] /\ y \in 1 .. t.size /\ y >= mm.i
  <2>1. y \in 1 .. t.size /\ y >= mm.i
    BY <1>2, <1>1
  <2> QED
    BY <2>1 DEF Fading, Untouched
<1>4. ASSUME 2 * x + 1 < t.gap, NEW y \in {mm.i, mm.i + 1} PROVE Original(t)[y] = LowOf(t)
  <2>0. ka # 0 /\ ka \in 0 .. FrameCount(t) /\ ka \in Int
    BY TrafficIs
  <2>1. AfterFrame(t, ka) <= y
    BY <1>1, <2>0, <1>3 DEF AfterFrame
  <2>2. y < End(t, ka) + t.gap
    BY <1>1, <1>4
  <2>3. ka < FrameCount(t) => y < t.at[ka + 1]
    <3> SUFFICES ASSUME ka < FrameCount(t) PROVE y < t.at[ka + 1]
      OBVIOUS
    <3>1. ka + 1 \in 1 .. FrameCount(t) /\ ka < ka + 1
      BY TrafficIs, <2>0
    <3>2. End(t, ka) + t.gap <= t.at[ka + 1] /\ t.at[ka + 1] \in Int
      BY <3>1, Apart, LenIs
    <3> QED
      BY <1>1, <2>2, <3>2, <1>3
  <2> QED
    BY <1>3, <2>0, <2>1, <2>3, SilenceIs
<1> QED
  BY <1>2, <1>3, <1>4, AtLeastLow

StrictFor(t, set) == set.quality \notin {0, 5} /\ t.gap >= 4 * set.allowed_errors + 2

LEMMA FadingPuts ==
  ASSUME settings \in Settings, traffic \in Traffic, StrictFor(traffic, settings),
         NEW ka \in 1 .. FrameCount(traffic), NEW x \in Nat,
         Fading(traffic, settings, m, ka, x), m.i < traffic.size,
         2 * x + 1 < traffic.gap
  PROVE  /\ Layout(traffic, Puts(0), ka, LenOf(traffic, ka))
         /\ \A mm : mm.buf = Puts(0) /\ mm.i = m.i + 2 => Untouched(traffic, mm)
<1> DEFINE t == traffic
           l == LenOf(t, ka)
<1>0. /\ IsTraffic(t) /\ settings.allowed_errors \in Nat /\ l \in Nat /\ l <= l /\ t.size \in Int
      /\ t.gap >= 4 * settings.allowed_errors + 2
  BY Whence, LenIs DEF StrictFor
<1>1. Layout(t, m.buf, ka, l) /\ Untouched(t, m) /\ m.buf \in [1 .. t.size -> Int]
  BY DEF Fading, Layout
<1>2. /\ m.i \in Int /\ m.i2 \in Int /\ m.i2 < m.i /\ m.i2 >= Start(t, ka) + l
      /\ ka < FrameCount(t) => m.i <= t.at[ka + 1]
  BY <1>0, FadingIs
<1>3. ka < FrameCount(t) => m.i2 < t.at[ka + 1]
  <2> SUFFICES ASSUME ka < FrameCount(t) PROVE m.i2 < t.at[ka + 1]
    OBVIOUS
  <2>1. ka + 1 \in 1 .. FrameCount(t)
    BY <1>0, TrafficIs
  <2>2. t.at[ka + 1] \in Int
    BY <1>0, <2>1, LenIs
  <2> QED
    BY <1>2, <2>2
<1>4. m.i >= Start(t, ka) + l /\ l + 1 .. l = {} /\ 0 \in {0, 1} /\ 0 \in Int /\ m.i2 <= m.i
  <2>1. Start(t, ka) \in Int
    BY <1>0, LenIs
  <2> HIDE DEF t, l
  <2> QED
    BY <1>0, <1>2, <2>1
<1>5. \A j \in l + 1 .. l : m.i2 = Start(t, ka) + j - 1 /\ 0 = t.frames[ka][j]
  BY <1>4
<1>6. Layout(t, Puts(0), ka, l)
  <2> HIDE DEF t, l
  <2> QED
    BY ONLY <1>0, <1>1, <1>2, <1>3, <1>4, <1>5, ka \in 1 .. FrameCount(traffic), PutsLayout DEF l, t
<1>7. ASSUME NEW mm, mm.buf = Puts(0), mm.i = m.i + 2 PROVE Untouched(t, mm)
  BY <1>0, <1>1, <1>2, <1>4, <1>7, PutsUntouched
<1> QED
  BY <1>6, <1>7

LEMMA FadingStep ==
  ASSUME settings \in Settings, traffic \in Traffic, StrictFor(traffic, settings),
         NEW ka \in 1 .. FrameCount(traffic), NEW x \in Nat,
         Fading(traffic, settings, m, ka, x), m.i < traffic.size, Turning
  PROVE  /\ shown' = shown
         /\ \/ Fading(traffic, settings, m', ka, x + 1)
            \/ Searching(traffic, m', ka)
<1> DEFINE t == traffic
           e == settings.allowed_errors
           l == LenOf(t, ka)
           lo == LowOf(t)
           c == m.buf[m.i]
           d == m.buf[m.i + 1]
<1>0. /\ IsTraffic(t) /\ settings.quality \in Int /\ e \in Nat /\ t.size \in Int /\ t.gap \in Int
      /\ settings.quality \notin {0, 5} /\ t.gap >= 4 * e + 2
  BY Whence, TrafficIs DEF StrictFor
<1>1. /\ m.i \in Int /\ m.i2 \in Int /\ m.i2 < m.i /\ m.errors \in Int
      /\ m.i2 >= Start(t, ka) + l /\ m.i >= End(t, ka)
      /\ ka < FrameCount(t) => m.i <= t.at[ka + 1]
      /\ x <= 2 * m.errors + 1 /\ m.errors <= e
  BY <1>0, FadingIs
<1>2. /\ m.i = End(t, ka) + 2 * x /\ m.i2 = Start(t, ka) + l + x /\ m.errors \in 0 .. e
      /\ \/ m.a = lo /\ m.b = lo
         \/ m.a = 0 /\ m.b = 65535 /\ x <= 2 * m.errors
         \/ OfBit(t, m.a, m.b) /\ x = 0
      /\ Layout(t, m.buf, ka, l) /\ Untouched(t, m)
  BY DEF Fading
<1>3. /\ c \in Int /\ d \in Int /\ lo <= c /\ lo <= d
      /\ 2 * x + 1 < t.gap => c = lo /\ d = lo
  BY <1>0, FadingQuiet
<1>4. shown' = shown /\ (TakeBit \/ Guess \/ Break)
  <2>1. ~ (m.i >= t.size)
    BY <1>0, <1>1
  <2> QED
    BY <1>0, <1>1, <2>1, TurnIs
<1>5. /\ lo \in Int /\ 0 < lo /\ lo < HighOf(t) /\ HighOf(t) \in Int /\ lo < 65535
  <2>1. lo \in 2 .. Peak /\ lo < HighOf(t) /\ HighOf(t) \in Int
    BY <1>0, LevelsAre
  <2> HIDE DEF lo
  <2> QED
    BY <2>1 DEF Peak
<1>6. Bit = single_manchester(settings.quality, m.a, m.b, c, d)
  BY DEF Bit
<1> HIDE DEF e, lo, c, d
<1>7. CASE TakeBit
  <2>1. Bit # BADSAMPLE
    BY <1>7 DEF TakeBit
  <2>2. ~ (m.a = lo /\ m.b = lo)
    BY <1>0, <1>3, <1>5, <1>6, <2>1, AfterQuietIs
  <2>3. 2 * x + 1 < t.gap
    BY <1>0, <1>2, <2>2
  <2>4. c = lo /\ d = lo
    BY <1>3, <2>3
  <2>5. Bit = 0
    <3>1. CASE m.a = 0 /\ m.b = 65535
      BY <1>0, <1>5, <1>6, <2>4, <3>1, AfterGuessIs
    <3>2. CASE OfBit(t, m.a, m.b)
      <4>1. (m.a = HighOf(t) /\ m.b = lo) \/ (m.a = lo /\ m.b = HighOf(t))
        BY <3>2 DEF OfBit, lo
      <4>2. /\ single_manchester(settings.quality, HighOf(t), lo, lo, lo) = BADSAMPLE
            /\ single_manchester(settings.quality, lo, HighOf(t), lo, lo) \in {0, BADSAMPLE}
        <5>1. /\ settings.quality \in Int /\ settings.quality \notin {0, 5} /\ lo \in Int
              /\ HighOf(t) \in Int /\ lo < HighOf(t)
          BY <1>0, <1>5
        <5> QED
          BY ONLY <5>1, QuietIs, Zenon
      <4> QED
        BY <1>6, <2>1, <2>4, <4>1, <4>2
    <3> QED
      BY <1>2, <2>2, <3>1, <3>2
  <2>6. /\ m'.at = "bits" /\ m'.buf = Puts(0) /\ m'.i = m.i + 2 /\ m'.i2 = m.i2 + 1
        /\ m'.a = lo /\ m'.b = lo /\ m'.errors = m.errors
    <3>1. m' = Turn("bits", Puts(Bit), m.i + 2, m.i2 + 1, m.buf[m.i], m.buf[m.i + 1], m.errors)
      BY <1>7 DEF TakeBit
    <3>2. m' = Turn("bits", Puts(0), m.i + 2, m.i2 + 1, lo, lo, m.errors)
      BY <2>4, <2>5, <3>1 DEF c, d
    <3> QED
      BY <3>2 DEF Turn
  <2>7. Layout(t, m'.buf, ka, l) /\ Untouched(t, m')
    BY <2>3, <2>6, FadingPuts
  <2>8. x + 1 <= 2 * m'.errors + 1
    BY <1>1, <1>2, <2>2, <2>6
  <2>9. m'.i = End(t, ka) + 2 * (x + 1) /\ m'.i2 = Start(t, ka) + l + (x + 1)
    <3>1. End(t, ka) \in Int /\ Start(t, ka) \in Int /\ l \in Int
      BY <1>0, LenIs
    <3> HIDE DEF t, l
    <3> QED
      BY <1>2, <2>6, <3>1
  <2>10. Fading(t, settings, m', ka, x + 1)
    BY <1>2, <2>6, <2>7, <2>8, <2>9 DEF Fading, e, lo
  <2> QED
    BY <1>4, <2>10
<1>8. CASE Guess
  <2>1. Bit = BADSAMPLE /\ m.errors < e
    BY <1>8 DEF Guess, e
  <2>2. 2 * x + 1 < t.gap
    BY <1>0, <1>1, <2>1
  <2>4. c = lo /\ d = lo
    BY <1>3, <2>2
  <2>6. /\ m'.at = "bits" /\ m'.buf = Puts(0) /\ m'.i = m.i + 2 /\ m'.i2 = m.i2 + 1
        /\ m'.a = 0 /\ m'.b = 65535 /\ m'.errors = m.errors + 1
    <3>1. m' = Turn("bits", Puts(IF m.buf[m.i] > m.buf[m.i + 1] THEN 1 ELSE 0),
                    m.i + 2, m.i2 + 1, 0, 65535, m.errors + 1)
      BY <1>8 DEF Guess
    <3>2. (IF m.buf[m.i] > m.buf[m.i + 1] THEN 1 ELSE 0) = 0
      BY <1>5, <2>4 DEF c, d
    <3>3. m' = Turn("bits", Puts(0), m.i + 2, m.i2 + 1, 0, 65535, m.errors + 1)
      BY <3>1, <3>2
    <3> QED
      BY <3>3 DEF Turn
  <2>7. Layout(t, m'.buf, ka, l) /\ Untouched(t, m')
    BY <2>2, <2>6, FadingPuts
  <2>8. x + 1 <= 2 * m'.errors /\ m'.errors \in 0 .. e
    BY <1>0, <1>1, <1>2, <2>1, <2>6
  <2>9. m'.i = End(t, ka) + 2 * (x + 1) /\ m'.i2 = Start(t, ka) + l + (x + 1)
    <3>1. End(t, ka) \in Int /\ Start(t, ka) \in Int /\ l \in Int
      BY <1>0, LenIs
    <3> HIDE DEF t, l
    <3> QED
      BY <1>2, <2>6, <3>1
  <2>10. Fading(t, settings, m', ka, x + 1)
    BY <2>6, <2>7, <2>8, <2>9 DEF Fading, e
  <2> QED
    BY <1>4, <2>10
<1>9. CASE Break
  <2>1. m'.at = "search" /\ m'.buf = Broken /\ m'.i = m.i
    <3>1. m' = Turn("search", Broken, m.i, m.i2, m.buf[m.i], m.buf[m.i + 1], m.errors + 1)
      BY <1>9 DEF Break
    <3> QED
      BY <3>1 DEF Turn
  <2>2. m.buf \in [1 .. t.size -> Int]
    BY <1>2 DEF Layout
  <2>3. Untouched(t, m')
    <3>1. t.size \in Int /\ m.i \in Int /\ m.i2 \in Int /\ m.i2 < m.i /\ Untouched(t, m)
      BY <1>0, <1>1, <1>2
    <3> HIDE DEF t
    <3> QED
      BY ONLY <2>1, <2>2, <3>1, BrokenUntouched, Zenon
  <2>4. l \in Nat /\ l <= l /\ ka # 0
    BY <1>0, LenIs
  <2>5. Layout(t, Broken, ka, l)
    <3> HIDE DEF t
    <3> QED
      <4>1. /\ IsTraffic(t) /\ Layout(t, m.buf, ka, l) /\ m.i2 \in Int
            /\ m.i2 >= Start(t, ka) + l /\ ka \in 1 .. FrameCount(t)
        BY <1>0, <1>1, <1>2 DEF t
      <4> HIDE DEF l
      <4>2. l <= LenOf(t, ka) /\ l \in Nat
        BY <2>4 DEF l
      <4> QED
        BY ONLY <4>1, <4>2, BrokenLayout, Zenon
  <2>6. Searching(t, m', ka)
    <3> HIDE DEF t
    <3> QED
      BY <1>1, <2>1, <2>3, <2>4, <2>5 DEF Searching, AfterFrame, Whole
  <2> QED
    BY <1>4, <2>6
<1> QED
  BY <1>4, <1>7, <1>8, <1>9

LEMMA InTailIs ==
  ASSUME NEW t, IsTraffic(t), NEW x \in Int, NEW y \in Int, InTail(t, x), x <= y
  PROVE  InTail(t, y)
<1>1. FrameCount(t) \in 1 .. FrameCount(t) /\ t.size \in Int
  BY TrafficIs
<1>2. End(t, FrameCount(t)) \in Int
  BY <1>1, LenIs
<1> QED
  BY <1>1, <1>2 DEF InTail

LEMMA TailPuts ==
  ASSUME NEW t, IsTraffic(t), Tailing(t, m), NEW bit \in {0, 1}
  PROVE  /\ Layout(t, Puts(bit), FrameCount(t), LenOf(t, FrameCount(t)))
         /\ Layout(t, Broken, FrameCount(t), LenOf(t, FrameCount(t)))
<1> DEFINE n == FrameCount(t)
           l == LenOf(t, n)
           s == Start(t, n)
<1>1. n \in 1 .. FrameCount(t)
  BY TrafficIs
<1>2. l \in Nat /\ s \in Int /\ End(t, n) = s + 2 * l
  BY <1>1, LenIs
<1>3. /\ m.i \in Int /\ m.i2 \in Int /\ m.i >= End(t, n) /\ m.i2 >= End(t, n)
      /\ InTail(t, m.i2) /\ Layout(t, m.buf, n, l)
  BY DEF Tailing, InTail
<1> HIDE DEF l, s
<1>4. m.i >= s + l /\ m.i2 >= s + l /\ l <= l /\ l + 1 .. l = {}
  BY <1>2, <1>3
<1>5. ~ (n < FrameCount(t))
  BY <1>1
<1>6. Layout(t, Puts(bit), n, l)
  <2>1. \A j \in l + 1 .. l : m.i2 = Start(t, n) + j - 1 /\ bit = t.frames[n][j]
    BY <1>4
  <2> HIDE DEF n
  <2> QED
    BY <1>1, <1>2, <1>3, <1>4, <1>5, <2>1, PutsLayout DEF l, s
<1>7. Layout(t, Broken, n, l)
  <2> HIDE DEF n
  <2> QED
    BY <1>1, <1>2, <1>3, <1>4, BrokenLayout DEF l, s
<1> QED
  BY <1>6, <1>7 DEF l

LEMMA TailStep ==
  ASSUME settings \in Settings, traffic \in Traffic, Tailing(traffic, m), m.i < traffic.size,
         DecodeNext
  PROVE  Tailing(traffic, m') /\ shown' = shown
<1> DEFINE t == traffic
           n == FrameCount(t)
<1>0. IsTraffic(t) /\ t.size \in Int
  BY Whence, TrafficIs
<1>1. /\ m.i \in Int /\ m.i2 \in Int /\ InTail(t, m.i) /\ InTail(t, m.i2)
      /\ Layout(t, m.buf, n, LenOf(t, n)) /\ m.at \in {"search", "bits"}
  BY DEF Tailing
<1>2. shown' = shown /\ (Search \/ TakeBit \/ Guess \/ Break)
  <2>1. ~ EndManchester
    BY <1>0, <1>1 DEF EndManchester, len
  <2>2. ~ Message /\ ~ EndMessages
    BY <1>1 DEF Message, EndMessages
  <2>3. Search \/ TakeBit \/ Guess \/ Break
    BY <2>1, <2>2 DEF DecodeNext
  <2> QED
    BY <2>3 DEF Search, TakeBit, Guess, Break
<1>3. CASE Search
  <2>1. Preambles = {}
    <3>1. m.i >= t.size - 15
      BY <1>1 DEF InTail
    <3>2. m.i .. len - preamble_len = {}
      BY <1>0, <1>1, <3>1 DEF len, preamble_len
    <3> QED
      BY <3>2 DEF Preambles
  <2>2. m' = Turn("bits", m.buf, m.i, m.i, m.a, m.b, 0)
    <3>1. m.i > len - preamble_len
      BY <1>0, <1>1 DEF InTail, len, preamble_len
    <3> HIDE DEF t, n
    <3> QED
      BY <1>3, <2>1, <3>1 DEF Search
  <2>3. m'.at = "bits" /\ m'.buf = m.buf /\ m'.i = m.i /\ m'.i2 = m.i
    BY <2>2 DEF Turn
  <2> QED
    BY <1>1, <1>2, <2>3 DEF Tailing
<1>4. m.i <= m.i + 2 /\ m.i2 <= m.i2 + 1 /\ m.i + 2 \in Int /\ m.i2 + 1 \in Int
  BY <1>1
<1>5. InTail(t, m.i + 2) /\ InTail(t, m.i2 + 1)
  BY <1>0, <1>1, <1>4, InTailIs
<1>6. CASE TakeBit \/ Guess
  <2>1. PICK bit \in {0, 1} :
          m'.at = "bits" /\ m'.buf = Puts(bit) /\ m'.i = m.i + 2 /\ m'.i2 = m.i2 + 1
    <3>1. CASE TakeBit
      <4>1. Bit \in {0, 1}
        <5>1. Bit \in {0, 1, BADSAMPLE}
          BY BitIs DEF Bit
        <5>2. Bit # BADSAMPLE
          BY <3>1 DEF TakeBit
        <5> QED
          BY <5>1, <5>2
      <4>2. m' = Turn("bits", Puts(Bit), m.i + 2, m.i2 + 1, m.buf[m.i], m.buf[m.i + 1], m.errors)
        BY <3>1 DEF TakeBit
      <4>3. m'.at = "bits" /\ m'.buf = Puts(Bit) /\ m'.i = m.i + 2 /\ m'.i2 = m.i2 + 1
        BY <4>2 DEF Turn
      <4> QED
        BY <4>1, <4>3
    <3>2. CASE Guess
      <4> DEFINE bit == IF m.buf[m.i] > m.buf[m.i + 1] THEN 1 ELSE 0
      <4>1. m' = Turn("bits", Puts(bit), m.i + 2, m.i2 + 1, 0, 65535, m.errors + 1)
        BY <3>2 DEF Guess
      <4>2. bit \in {0, 1}
        OBVIOUS
      <4> HIDE DEF bit
      <4>3. m'.at = "bits" /\ m'.buf = Puts(bit) /\ m'.i = m.i + 2 /\ m'.i2 = m.i2 + 1
        BY <4>1 DEF Turn
      <4> QED
        BY <4>2, <4>3
    <3> QED
      BY <1>6, <3>1, <3>2
  <2>2. Layout(t, Puts(bit), n, LenOf(t, n))
    BY <1>0, TailPuts
  <2> HIDE DEF t, n
  <2> QED
    BY <1>2, <1>4, <1>5, <2>1, <2>2 DEF Tailing, n, t
<1>7. CASE Break
  <2>1. m'.at = "search" /\ m'.buf = Broken /\ m'.i = m.i /\ m'.i2 = m.i2
    <3>1. m' = Turn("search", Broken, m.i, m.i2, m.buf[m.i], m.buf[m.i + 1], m.errors + 1)
      BY <1>7 DEF Break
    <3> QED
      BY <3>1 DEF Turn
  <2>2. Layout(t, Broken, n, LenOf(t, n))
    BY <1>0, TailPuts
  <2> QED
    BY <1>1, <1>2, <2>1, <2>2 DEF Tailing
<1> QED
  BY <1>2, <1>3, <1>6, <1>7

-----------------------------------------------------------------------------
(* The end of manchester.                                                  *)

\* Once all frames are decoded.
Decoding(t, set, mm) ==
  \/ \E ka \in 0 .. FrameCount(t) : Searching(t, mm, ka)
  \/ \E ka \in 1 .. FrameCount(t) : \E p \in Nat :
       p < LenOf(t, ka) /\ InFrame(t, mm, ka, p)
  \/ \E ka \in 1 .. FrameCount(t) : \E x \in Nat : Fading(t, set, mm, ka, x)
  \/ Tailing(t, mm)

LEMMA DecodingStep ==
  ASSUME settings \in Settings, traffic \in Traffic, StrictFor(traffic, settings),
         Decoding(traffic, settings, m), DecodeNext, ~ EndManchester
  PROVE  Decoding(traffic, settings, m') /\ shown' = shown
<1> DEFINE t == traffic
<1>0. /\ IsTraffic(t) /\ settings.allowed_errors \in Nat /\ FrameCount(t) \in Nat
      /\ t.gap >= 4 * settings.allowed_errors + 2
  BY Whence, TrafficIs DEF StrictFor
<1>1. ASSUME NEW ka \in 0 .. FrameCount(t), Searching(t, m, ka)
      PROVE  Decoding(t, settings, m') /\ shown' = shown
  <2>1. Search /\ shown' = shown
    <3>1. m.at = "search"
      BY <1>1 DEF Searching
    <3>2. Search
      BY <3>1 DEF DecodeNext, TakeBit, Guess, Break, Message, EndMessages
    <3> QED
      BY <3>2 DEF Search
  <2>2. CASE ka < FrameCount(t)
    <3>1. ka + 1 \in 1 .. FrameCount(t) /\ InFrame(t, m', ka + 1, 0)
      BY <1>1, <2>1, <2>2, SearchFinds
    <3>2. 0 \in Nat /\ 0 < LenOf(t, ka + 1)
      BY <1>0, <3>1, LenIs
    <3> HIDE DEF t
    <3> QED
      BY <2>1, <3>1, <3>2, Zenon DEF Decoding
  <2>3. CASE ka = FrameCount(t)
    <3>1. Tailing(t, m')
      BY <1>1, <2>1, <2>3, SearchEnds
    <3> QED
      BY <2>1, <3>1, Zenon DEF Decoding
  <2> QED
    BY <1>0, <2>2, <2>3
<1>2. ASSUME NEW ka \in 1 .. FrameCount(t), NEW p \in Nat, p < LenOf(t, ka), InFrame(t, m, ka, p)
      PROVE  Decoding(t, settings, m') /\ shown' = shown
  <2>1. InFrame(t, m', ka, p + 1) /\ shown' = shown
    <3>1. Turning
      BY <1>2 DEF Turning, InFrame
    <3> QED
      BY <1>2, <3>1, BitTaken
  <2>2. CASE p + 1 < LenOf(t, ka)
    <3> HIDE DEF t
    <3> QED
      BY <2>1, <2>2, p + 1 \in Nat, Zenon DEF Decoding
  <2>3. CASE p + 1 = LenOf(t, ka)
    <3>1. InFrame(t, m', ka, LenOf(t, ka))
      BY <2>1, <2>3
    <3>2. Fading(t, settings, m', ka, 0)
      <4> HIDE DEF t
      <4> QED
        BY <1>0, <3>1, FadingBegins
    <3> HIDE DEF t
    <3> QED
      BY <2>1, <3>2, 0 \in Nat, Zenon DEF Decoding
  <2>4. LenOf(t, ka) \in Nat
    BY <1>0, LenIs
  <2> QED
    BY <1>2, <2>2, <2>3, <2>4
<1>3. ASSUME NEW ka \in 1 .. FrameCount(t), NEW x \in Nat, Fading(t, settings, m, ka, x)
      PROVE  Decoding(t, settings, m') /\ shown' = shown
  <2>1. m.at = "bits" /\ Turning /\ m.i \in Int /\ t.size \in Int
    <3>1. m.at = "bits"
      BY <1>3 DEF Fading
    <3>2. m.i \in Int /\ t.size \in Int
      <4> HIDE DEF t
      <4> QED
        BY <1>0, <1>3, FadingIs, TrafficIs
    <3> QED
      BY <3>1, <3>2 DEF Turning
  <2>2. m.i < t.size
    <3>1. ~ (m.i >= t.size)
      BY <2>1, TurnIs
    <3> QED
      BY <2>1, <3>1
  <2>3. shown' = shown /\ (Fading(t, settings, m', ka, x + 1) \/ Searching(t, m', ka))
    BY <1>3, <2>1, <2>2, FadingStep
  <2>4. ka \in 0 .. FrameCount(t) /\ x + 1 \in Nat
    BY <1>0
  <2> HIDE DEF t
  <2> QED
    BY <2>3, <2>4, Zenon DEF Decoding
<1>4. CASE Tailing(t, m)
  <2>1. m.i \in Int /\ t.size \in Int /\ m.at \in {"search", "bits"}
    BY <1>0, <1>4, TrafficIs DEF Tailing
  <2>2. m.i < t.size
    <3>1. ~ (m.i >= t.size)
      <4>1. ~ Message /\ ~ EndMessages
        BY <2>1 DEF Message, EndMessages
      <4>2. Search \/ TakeBit \/ Guess \/ Break
        BY <4>1, Zenon DEF DecodeNext
      <4>3. m.i < t.size
        BY <4>2 DEF Search, TakeBit, Guess, Break, len
      <4> QED
        BY <2>1, <4>3
    <3> QED
      BY <2>1, <3>1
  <2>3. Tailing(t, m') /\ shown' = shown
    BY <1>4, <2>2, TailStep
  <2> QED
    BY <2>3, Zenon DEF Decoding
<1> QED
  BY <1>1, <1>2, <1>3, <1>4, Zenon DEF Decoding

LEMMA EndDecoding ==
  ASSUME settings \in Settings, traffic \in Traffic, StrictFor(traffic, settings),
         Decoding(traffic, settings, m), EndManchester
  PROVE  /\ Layout(traffic, m.buf, FrameCount(traffic), LenOf(traffic, FrameCount(traffic)))
         /\ m'.at = "messages" /\ m'.buf = m.buf /\ m'.i = 1 /\ shown' = shown
<1> DEFINE t == traffic
           n == FrameCount(t)
<1>0. /\ IsTraffic(t) /\ settings.allowed_errors \in Nat /\ n \in Nat /\ n \in 1 .. n
      /\ t.size \in Int /\ t.gap \in Int /\ t.gap >= 4 * settings.allowed_errors + 2
  BY Whence, TrafficIs DEF StrictFor
<1>1. m'.at = "messages" /\ m'.buf = m.buf /\ m'.i = 1 /\ shown' = shown /\ m.i >= t.size
  <2>1. m' = Turn("messages", m.buf, 1, m.i2, m.a, m.b, m.errors)
    BY DEF EndManchester
  <2>2. shown' = shown /\ m.i >= t.size
    BY DEF EndManchester, len
  <2> QED
    BY <2>1, <2>2 DEF Turn
\* A frame to come lies before the end.
<1>2. ASSUME NEW ka \in 0 .. n, m.i \in Int, ka < n => m.i <= t.at[ka + 1] PROVE ka = n
  <2> SUFFICES ASSUME ka < n PROVE FALSE
    BY <1>0
  <2>1. ka + 1 \in 1 .. n
    BY <1>0
  <2> DEFINE a == t.at[ka + 1]
             s == Start(t, ka + 1)
             l == LenOf(t, ka + 1)
             f == End(t, ka + 1)
             z == t.size
             i == m.i
  <2>2. l \in Nat /\ s = a + 16 /\ f = s + 2 * l /\ a \in Int /\ f <= z + 1 /\ z \in Int
    BY <1>0, <2>1, LenIs
  <2>3. i <= a /\ i >= z /\ i \in Int
    BY <1>1, <1>2
  <2> HIDE DEF a, s, l, f, z, i
  <2> QED
    BY <2>2, <2>3
<1>3. ASSUME NEW ka \in 0 .. n, Searching(t, m, ka) PROVE Layout(t, m.buf, n, LenOf(t, n))
  <2>1. m.i \in Int /\ (ka < n => m.i <= t.at[ka + 1]) /\ Layout(t, m.buf, ka, Whole(t, ka))
    BY <1>3 DEF Searching
  <2>2. ka = n /\ n # 0
    BY <1>0, <1>2, <2>1
  <2> QED
    BY <2>1, <2>2 DEF Whole
<1>4. ASSUME NEW ka \in 1 .. n, NEW p \in Nat, p < LenOf(t, ka), InFrame(t, m, ka, p) PROVE FALSE
  <2> DEFINE s == Start(t, ka)
             l == LenOf(t, ka)
             f == End(t, ka)
             z == t.size
             i == m.i
  <2>1. l \in Nat /\ s \in Int /\ f = s + 2 * l /\ f <= z + 1 /\ z \in Int
    BY <1>0, LenIs
  <2>2. i = s + 2 * p /\ i >= z /\ p < l
    BY <1>1, <1>4 DEF InFrame
  <2> HIDE DEF s, l, f, z, i
  <2> QED
    BY <2>1, <2>2
<1>5. ASSUME NEW ka \in 1 .. n, NEW x \in Nat, Fading(t, settings, m, ka, x)
      PROVE  Layout(t, m.buf, n, LenOf(t, n))
  <2>1. m.i \in Int /\ (ka < n => m.i <= t.at[ka + 1])
    <3> HIDE DEF t
    <3> QED
      BY <1>0, <1>5, FadingIs DEF n
  <2>2. ka \in 0 .. n
    BY <1>0
  <2>3. ka = n
    BY <1>2, <2>1, <2>2
  <2> QED
    BY <1>5, <2>3 DEF Fading
<1>6. ASSUME Tailing(t, m) PROVE Layout(t, m.buf, n, LenOf(t, n))
  BY <1>6 DEF Tailing
<1>7. Layout(t, m.buf, n, LenOf(t, n))
  BY <1>3, <1>4, <1>5, <1>6, Zenon DEF Decoding
<1> QED
  BY <1>1, <1>7

-----------------------------------------------------------------------------
(* messages.                                                               *)

\* The run of bits at k.
LEMMA RunIs ==
  ASSUME NEW z \in Nat, traffic.size = z, m.buf \in [1 .. z -> Int], NEW k \in 1 .. z, m.buf[k] <= 1
  PROVE  \E end \in k + 1 .. z + 1 :
           /\ end > z \/ m.buf[end] > 1
           /\ \A j \in k .. end - 1 : m.buf[j] <= 1
           /\ BitsFrom(k) = [j \in 1 .. end - k |-> m.buf[k + j - 1]]
           /\ Len(BitsFrom(k)) = end - k
<1> DEFINE T == {e \in k .. z + 1 : e > z \/ m.buf[e] > 1}
           end == CHOOSE e \in k .. len + 1 : EndsAt(k, e)
<1>0. len = z
  BY DEF len
<1>1. PICK e \in T : \A y \in T : e <= y
  <2>1. z + 1 \in T /\ T \in SUBSET Nat
    OBVIOUS
  <2> HIDE DEF T
  <2> QED
    BY <2>1, Least
<1>2. EndsAt(k, e)
  <2>1. e \in k .. z + 1 /\ (e > z \/ m.buf[e] > 1)
    OBVIOUS
  <2>2. ASSUME NEW j \in k .. e - 1 PROVE m.buf[j] <= 1
    <3>1. j \in k .. z /\ ~ (e <= j) /\ j \in 1 .. z
      BY <2>1
    <3>2. j \notin T
      BY <1>1, <3>1
    <3>3. ~ (m.buf[j] > 1)
      BY <3>1, <3>2
    <3>4. m.buf[j] \in Int
      BY <3>1
    <3> QED
      BY <3>3, <3>4
  <2> QED
    BY <1>0, <2>1, <2>2 DEF EndsAt
<1>3. end \in k .. z + 1 /\ EndsAt(k, end)
  <2>1. e \in k .. len + 1
    BY <1>0
  <2> QED
    BY <1>0, <1>2, <2>1
<1>4. BitsFrom(k) = [j \in 1 .. end - k |-> m.buf[k + j - 1]]
  BY Zenon DEF BitsFrom
<1> HIDE DEF end
<1>5. (end > z \/ m.buf[end] > 1) /\ \A j \in k .. end - 1 : m.buf[j] <= 1
  BY <1>0, <1>3 DEF EndsAt
<1>6. end \in k + 1 .. z + 1
  <2>1. end # k
    <3>1. ~ (k > z) /\ ~ (m.buf[k] > 1)
      OBVIOUS
    <3> QED
      BY <1>5, <3>1
  <2> QED
    BY <1>3, <2>1
<1>7. Len(BitsFrom(k)) = end - k
  <2>1. end - k \in Nat
    BY <1>6
  <2> QED
    BY <1>4, <2>1
<1> QED
  BY <1>4, <1>5, <1>6, <1>7

\* The run of a frame is taken for it.
LEMMA FrameRun ==
  ASSUME traffic.size \in Nat, m.buf \in [1 .. traffic.size -> Int],
         NEW frame, IsFrame(frame), NEW k \in 1 .. traffic.size,
         k + Len(frame) - 1 <= traffic.size,
         \A j \in 1 .. Len(frame) : m.buf[k + j - 1] = frame[j]
  PROVE  /\ Taken(BitsFrom(k)) = Len(frame) /\ FrameLen(BitsFrom(k)) = Len(frame)
         /\ Frame(BitsFrom(k)) = frame
<1> DEFINE z == traffic.size
           l == Len(frame)
           run == BitsFrom(k)
           buf == m.buf
<1>0. /\ l \in {56, 112} /\ frame \in [1 .. l -> {0, 1}] /\ frame[1] = (IF l = 112 THEN 1 ELSE 0)
      /\ \E j \in 1 .. 8 : frame[j] = 1
  BY FrameIs DEF short_frame, long_frame
<1>1. buf[k] <= 1
  <2>1. k + 1 - 1 = k
    OBVIOUS
  <2>2. 1 \in 1 .. Len(frame)
    <3>1. l \in {56, 112}
      BY <1>0
    <3> HIDE DEF l
    <3>2. 1 \in 1 .. l
      BY <3>1
    <3> QED
      BY <3>2 DEF l
  <2>3. m.buf[k + 1 - 1] = frame[1]
    BY <2>2
  <2>4. frame[1] \in {0, 1}
    BY <1>0
  <2> QED
    BY <2>1, <2>3, <2>4
<1>2. PICK end \in k + 1 .. z + 1 :
        /\ end > z \/ buf[end] > 1
        /\ run = [j \in 1 .. end - k |-> buf[k + j - 1]]
        /\ Len(run) = end - k
  BY <1>1, RunIs
<1>3. \A j \in 1 .. l : buf[k + j - 1] = frame[j]
  OBVIOUS
<1>4. k + l - 1 <= z /\ z \in Nat /\ k \in 1 .. z
  OBVIOUS
<1> HIDE DEF z, l, run, buf
<1>5. end - k >= l
  <2> SUFFICES ASSUME end - k < l PROVE FALSE
    BY <1>0
  <2>1. end - k + 1 \in 1 .. l /\ end <= z /\ k + (end - k + 1) - 1 = end
    BY <1>0, <1>2, <1>4
  <2>2. buf[k + (end - k + 1) - 1] = frame[end - k + 1] /\ frame[end - k + 1] \in {0, 1}
    BY <1>0, <1>3, <2>1
  <2>3. ~ (end > z) /\ ~ (buf[end] > 1)
    BY <2>1, <2>2, <1>4
  <2> QED
    BY <1>2, <2>3
<1>6. \A j \in 1 .. l : run[j] = frame[j]
  <2> SUFFICES ASSUME NEW j \in 1 .. l PROVE run[j] = frame[j]
    OBVIOUS
  <2>1. j \in 1 .. end - k
    BY <1>0, <1>2, <1>4, <1>5
  <2> QED
    BY <1>2, <1>3, <2>1
<1>7. Len(run) \in Int /\ Len(run) >= l
  BY <1>2, <1>5
<1>8. FrameLen(run) = l
  <2>1. run[1] = frame[1] /\ ~ (Len(run) < 8)
    BY <1>0, <1>6, <1>7
  <2> QED
    BY <1>0, <2>1 DEF FrameLen, short_frame, long_frame
<1>9. Taken(run) = l
  <2>1. ~ Empty(run)
    <3>1. PICK j \in 1 .. 8 : frame[j] = 1
      BY <1>0
    <3>2. j \in 1 .. l
      BY <1>0
    <3>3. run[j] = 1
      BY <1>6, <3>1, <3>2
    <3> QED
      BY <3>3 DEF Empty
  <2>2. ~ (Len(run) < FrameLen(run))
    BY <1>0, <1>7, <1>8
  <2> QED
    BY <1>8, <2>1, <2>2 DEF Taken
<1>10. Frame(run) = frame
  <2>1. \A j \in 1 .. l : (IF j <= Len(run) THEN run[j] ELSE 0) = frame[j]
    BY <1>0, <1>6, <1>7
  <2>2. Frame(run) = [j \in 1 .. l |-> IF j <= Len(run) THEN run[j] ELSE 0]
    BY <1>8, Zenon DEF Frame
  <2> QED
    BY <1>0, <2>1, <2>2
<1> QED
  BY <1>8, <1>9, <1>10 DEF run, l

\* Zeros, with bits at the end of the buffer, are no frame.
LEMMA OtherRun ==
  ASSUME NEW z \in Nat, traffic.size = z, m.buf \in [1 .. z -> Int], NEW k \in 1 .. z,
         m.buf[k] <= 1,
         \A x \in k .. z : (\A j \in k .. x : m.buf[j] <= 1) => m.buf[x] = 0 \/ x >= z - 15
  PROVE  /\ ~ (Taken(BitsFrom(k)) >= FrameLen(BitsFrom(k)) - 1)
         /\ \E end \in k + 1 .. z + 1 :
              /\ \A j \in k .. end - 1 : m.buf[j] <= 1
              /\ Taken(BitsFrom(k)) \in 0 .. end - k
<1> DEFINE run == BitsFrom(k)
           buf == m.buf
<1>1. PICK end \in k + 1 .. z + 1 :
        /\ \A j \in k .. end - 1 : buf[j] <= 1
        /\ run = [j \in 1 .. end - k |-> buf[k + j - 1]]
        /\ Len(run) = end - k
  BY RunIs
<1>2. \A x \in k .. z : (\A j \in k .. x : buf[j] <= 1) => buf[x] = 0 \/ x >= z - 15
  OBVIOUS
<1> HIDE DEF run, buf
<1>3. Len(run) \in Nat /\ Len(run) >= 1 /\ Len(run) = end - k
  BY <1>1
<1>4. FrameLen(run) \in {56, 112}
  BY DEF FrameLen, short_frame, long_frame
<1>5. CASE Empty(run)
  <2>1. Taken(run) = 7 /\ Len(run) >= 8
    BY <1>5 DEF Taken, Empty
  <2>2. Taken(run) \in 0 .. end - k /\ ~ (Taken(run) >= FrameLen(run) - 1)
    BY <1>3, <1>4, <2>1
  <2> QED
    BY <1>1, <2>2 DEF run, buf
<1>6. CASE ~ Empty(run)
  <2>1. Len(run) <= 23
    <3>1. CASE Len(run) < 8
      BY <1>3, <3>1
    <3>2. CASE Len(run) >= 8
      <4>1. PICK j \in 1 .. 8 : run[j] # 0
        BY <1>6, <3>2 DEF Empty
      <4> DEFINE x == k + j - 1
      <4>2. x \in k .. z /\ x <= end - 1 /\ j \in 1 .. end - k /\ x <= k + 7 /\ x \in Int
        BY <1>1, <1>3, <3>2
      <4>3. run[j] = buf[x]
        BY <1>1, <4>2
      <4> HIDE DEF x
      <4>4. \A y \in k .. x : buf[y] <= 1
        BY <1>1, <4>2
      <4>5. x >= z - 15
        BY <1>2, <4>1, <4>2, <4>3, <4>4
      <4> QED
        BY <1>1, <1>3, <4>2, <4>5
    <3> QED
      BY <1>3, <3>1, <3>2
  <2>2. Taken(run) = Len(run)
    BY <1>3, <1>4, <1>6, <2>1 DEF Taken
  <2>3. Taken(run) \in 0 .. end - k /\ ~ (Taken(run) >= FrameLen(run) - 1)
    BY <1>3, <1>4, <2>1, <2>2
  <2> QED
    BY <1>1, <2>3 DEF run, buf
<1> QED
  BY <1>5, <1>6

\* The frames that are asked for, one after the other.
Solutions(n, X, a, G) ==
  {f \in [0 .. n -> X] : f[0] = a /\ \A k \in 1 .. n : f[k] = G[<<k, f[k - 1]>>]}

\* What holds of 0, and of k if of k - 1, holds of all.
LEMMA Reaches ==
  ASSUME NEW n \in Nat, NEW P \in SUBSET (0 .. n), 0 \in P,
         \A k \in 1 .. n : k - 1 \in P => k \in P
  PROVE  P = 0 .. n
<1> SUFFICES ASSUME (0 .. n) \ P # {} PROVE FALSE
  OBVIOUS
<1>1. PICK x \in (0 .. n) \ P : \A y \in (0 .. n) \ P : x <= y
  <2>1. (0 .. n) \ P \in SUBSET Nat
    OBVIOUS
  <2> QED
    BY <2>1, Least
<1>2. x \in 1 .. n /\ x - 1 \in 0 .. n /\ ~ (x <= x - 1)
  BY <1>1
<1> QED
  BY <1>1, <1>2

\* A function can be defined by its value at 0 and each other by the one before.
LEMMA Recursion ==
  ASSUME NEW n \in Nat, NEW X, NEW a \in X, NEW G \in [(1 .. n) \X X -> X]
  PROVE  Solutions(n, X, a, G) # {}
<1> DEFINE Upto(ma, f) == /\ f \in [0 .. ma -> X] /\ f[0] = a
                          /\ \A k \in 1 .. ma : f[k] = G[<<k, f[k - 1]>>]
           P == {ma \in 0 .. n : \E f : Upto(ma, f)}
<1>1. 0 \in P
  <2>1. Upto(0, [k \in 0 .. 0 |-> a])
    OBVIOUS
  <2> HIDE DEF Upto
  <2> QED
    BY <2>1
<1>2. ASSUME NEW ma \in 1 .. n, ma - 1 \in P PROVE ma \in P
  <2>1. PICK f : Upto(ma - 1, f)
    BY <1>2
  <2>2. ma - 1 \in 0 .. (ma - 1) /\ f[ma - 1] \in X /\ G[<<ma, f[ma - 1]>>] \in X
    BY <2>1
  <2> DEFINE g == [k \in 0 .. ma |-> IF k = ma THEN G[<<ma, f[ma - 1]>>] ELSE f[k]]
  <2>3. g \in [0 .. ma -> X] /\ g[0] = a
    BY <2>1, <2>2
  <2>4. ASSUME NEW k \in 1 .. ma PROVE g[k] = G[<<k, g[k - 1]>>]
    <3>1. k - 1 \in 0 .. ma /\ k - 1 # ma /\ g[k - 1] = f[k - 1]
      OBVIOUS
    <3>2. CASE k = ma
      BY <3>1, <3>2
    <3>3. CASE k # ma
      <4>1. k \in 1 .. (ma - 1) /\ g[k] = f[k]
        BY <3>3
      <4> QED
        BY <2>1, <3>1, <4>1
    <3> QED
      BY <3>2, <3>3
  <2> HIDE DEF g
  <2>5. Upto(ma, g)
    BY <2>3, <2>4
  <2> HIDE DEF Upto
  <2> QED
    BY <2>5
<1>3. n \in P
  <2>1. P \in SUBSET (0 .. n)
    OBVIOUS
  <2> HIDE DEF P
  <2>2. P = 0 .. n
    BY <1>1, <1>2, <2>1, Reaches
  <2> QED
    BY <2>2
<1> QED
  BY <1>3 DEF P, Solutions

AnyFrame == [1 .. long_frame -> {0, 1}] \cup [1 .. short_frame -> {0, 1}]

LEMMA AskedIs ==
  ASSUME NEW set, NEW t, IsTraffic(t)
  PROVE  LET asked == Asked(set, t.frames)
         IN /\ asked[0] = <<>>
            /\ \A k \in 1 .. FrameCount(t) :
                 asked[k] = IF Displayed(set, t.frames[k]) THEN Append(asked[k - 1], t.frames[k])
                            ELSE asked[k - 1]
<1> DEFINE n == FrameCount(t)
           F == t.frames
           next == [ka \in (1 .. n) \X Seq(AnyFrame) |->
                      IF Displayed(set, F[ka[1]]) THEN Append(ka[2], F[ka[1]]) ELSE ka[2]]
           Is(f) == f = [k \in 0 .. Len(F) |->
                           IF k = 0 THEN <<>>
                           ELSE IF Displayed(set, F[k]) THEN Append(f[k - 1], F[k]) ELSE f[k - 1]]
<1>0. n \in Nat /\ F \in Seq(AnyFrame) /\ n = Len(F) /\ \A k \in 1 .. n : F[k] \in AnyFrame
  <2>1. F \in Seq(AnyFrame)
    BY DEF IsTraffic, AnyFrame
  <2>2. n \in Nat /\ n = Len(F)
    BY TrafficIs DEF FrameCount
  <2> HIDE DEF F
  <2> QED
    BY <2>1, <2>2
<1> HIDE DEF n, F
<1>1. next \in [(1 .. n) \X Seq(AnyFrame) -> Seq(AnyFrame)]
  BY <1>0
<1>2. PICK h \in Solutions(n, Seq(AnyFrame), <<>>, next) : TRUE
  <2> HIDE DEF next
  <2>1. <<>> \in Seq(AnyFrame)
    OBVIOUS
  <2>2. Solutions(n, Seq(AnyFrame), <<>>, next) # {}
    BY <1>0, <1>1, <2>1, Recursion
  <2> QED
    BY <2>2
<1>3. /\ h \in [0 .. n -> Seq(AnyFrame)] /\ h[0] = <<>>
      /\ \A k \in 1 .. n : h[k] = next[<<k, h[k - 1]>>]
  BY DEF Solutions
<1>4. \A k \in 1 .. n : h[k] = IF Displayed(set, F[k]) THEN Append(h[k - 1], F[k]) ELSE h[k - 1]
  <2> SUFFICES ASSUME NEW k \in 1 .. n
               PROVE  next[<<k, h[k - 1]>>] = IF Displayed(set, F[k]) THEN Append(h[k - 1], F[k])
                                              ELSE h[k - 1]
    BY <1>3
  <2>1. <<k, h[k - 1]>> \in (1 .. n) \X Seq(AnyFrame)
    <3>1. k - 1 \in 0 .. n
      BY <1>0
    <3> QED
      BY <1>3, <3>1
  <2> QED
    BY <2>1
<1>5. Is(h)
  <2> HIDE DEF next
  <2>1. h = [k \in 0 .. n |-> h[k]]
    BY <1>3
  <2>2. \A k \in 0 .. n : k = 0 \/ k \in 1 .. n
    BY <1>0
  <2>3. \A k \in 0 .. n : h[k] = IF k = 0 THEN <<>>
                                 ELSE IF Displayed(set, F[k]) THEN Append(h[k - 1], F[k])
                                 ELSE h[k - 1]
    BY <1>0, <1>3, <1>4, <2>2
  <2> QED
    BY <1>0, <2>1, <2>3
<1> DEFINE asked == CHOOSE f : Is(f)
<1>6. Is(asked)
  BY <1>5
<1>7. Asked(set, F) = asked
  BY DEF Asked
<1>8. \A k \in 0 .. n :
        asked[k] = IF k = 0 THEN <<>>
                   ELSE IF Displayed(set, F[k]) THEN Append(asked[k - 1], F[k]) ELSE asked[k - 1]
  <2> HIDE DEF asked
  <2> QED
    BY <1>0, <1>6
<1> HIDE DEF asked
<1>9. 0 \in 0 .. n /\ \A k \in 1 .. n : k \in 0 .. n /\ k # 0
  BY <1>0
<1>10. asked[0] = <<>>
  BY <1>8, <1>9
<1>11. \A k \in 1 .. n : asked[k] = IF Displayed(set, F[k]) THEN Append(asked[k - 1], F[k])
                                    ELSE asked[k - 1]
  BY <1>8, <1>9
<1> QED
  BY <1>7, <1>10, <1>11 DEF n, F

\* ka frames have been read.
Reading(t, set, mm, sh, ka) ==
  /\ mm.at = "messages" /\ Layout(t, mm.buf, FrameCount(t), LenOf(t, FrameCount(t)))
  /\ mm.i \in Int /\ mm.i >= 1 /\ (ka > 0 => mm.i >= Start(t, ka) + LenOf(t, ka))
  /\ ka < FrameCount(t) => mm.i <= Start(t, ka + 1)
  /\ sh = Asked(set, t.frames)[ka]

\* All the bits of all frames.
LEMMA LayoutHas ==
  ASSUME NEW t, IsTraffic(t), NEW buf, Layout(t, buf, FrameCount(t), LenOf(t, FrameCount(t)))
  PROVE  /\ buf \in [1 .. t.size -> Int]
         /\ \A k \in 1 .. FrameCount(t) :
              /\ \A j \in 1 .. LenOf(t, k) : buf[Start(t, k) + j - 1] = t.frames[k][j]
              /\ \A x \in t.at[k] .. Start(t, k) - 1 : buf[x] > 1
         /\ \A x \in 1 .. t.size : buf[x] <= 1 =>
              \/ \E k \in 1 .. FrameCount(t) : Start(t, k) <= x /\ x < Start(t, k) + LenOf(t, k)
              \/ buf[x] = 0
              \/ x >= t.size - 15
<1> DEFINE n == FrameCount(t)
<1>1. \A k : Decoded(t, n, LenOf(t, n), k) = LenOf(t, k)
  BY DEF Decoded
<1>2. buf \in [1 .. t.size -> Int] /\ PreamblesStay(t, buf) /\ Holds(t, buf, n, LenOf(t, n))
      /\ Others(t, buf, n, LenOf(t, n))
  BY DEF Layout
<1> HIDE DEF n
<1>3. \A k \in 1 .. n : \A j \in 1 .. LenOf(t, k) : buf[Start(t, k) + j - 1] = t.frames[k][j]
  BY <1>1, <1>2 DEF Holds
<1>4. \A k \in 1 .. n : \A x \in t.at[k] .. Start(t, k) - 1 : buf[x] > 1
  BY <1>2 DEF PreamblesStay, n
<1>5. \A x \in 1 .. t.size : buf[x] <= 1 =>
        \/ \E k \in 1 .. n : Start(t, k) <= x /\ x < Start(t, k) + LenOf(t, k)
        \/ buf[x] = 0
        \/ x >= t.size - 15
  <2> SUFFICES ASSUME NEW x \in 1 .. t.size, buf[x] <= 1, buf[x] # 0, ~ (x >= t.size - 15)
               PROVE  \E k \in 1 .. n : Start(t, k) <= x /\ x < Start(t, k) + LenOf(t, k)
    OBVIOUS
  <2>1. ~ InTail(t, x)
    BY DEF InTail
  <2>2. PICK k \in 1 .. n : Start(t, k) <= x /\ x < Start(t, k) + Decoded(t, n, LenOf(t, n), k)
    BY <1>2, <2>1 DEF Others
  <2> QED
    BY <1>1, <2>2
<1> QED
  BY <1>2, <1>3, <1>4, <1>5 DEF n

\* The first bit of a frame is one.
LEMMA FirstOfFrame ==
  ASSUME NEW t, IsTraffic(t), NEW ka \in 1 .. FrameCount(t), NEW buf,
         \A j \in 1 .. LenOf(t, ka) : buf[Start(t, ka) + j - 1] = t.frames[ka][j]
  PROVE  /\ Start(t, ka) \in 1 .. t.size /\ buf[Start(t, ka)] <= 1 /\ ~ (buf[Start(t, ka)] > 1)
         /\ Start(t, ka) + LenOf(t, ka) - 1 <= t.size
<1> DEFINE s == Start(t, ka)
           l == LenOf(t, ka)
           f == End(t, ka)
           z == t.size
           frame == t.frames[ka]
<1>1. /\ l \in {56, 112} /\ s = t.at[ka] + 16 /\ f = s + 2 * l /\ t.at[ka] \in Int /\ 0 < t.at[ka]
      /\ f <= z + 1 /\ z \in Int /\ s \in Int
  BY LenIs
<1>2. frame[1] \in {0, 1}
  <2>1. IsFrame(frame)
    BY PlaceIs
  <2> HIDE DEF frame
  <2> QED
    BY <2>1, FrameIs
<1>3. \A j \in 1 .. l : buf[s + j - 1] = frame[j]
  OBVIOUS
<1> HIDE DEF s, l, f, z, frame
<1>4. s \in 1 .. z /\ s + l - 1 <= z /\ 1 \in 1 .. l /\ s + 1 - 1 = s
  BY <1>1
<1>5. buf[s] = frame[1]
  <2>1. buf[s + 1 - 1] = frame[1]
    BY <1>3, <1>4
  <2> QED
    BY <1>4, <2>1
<1>6. buf[s] <= 1 /\ ~ (buf[s] > 1)
  BY <1>2, <1>5
<1> QED
  BY <1>4, <1>6 DEF s, l, z

\* What Message is: a run of bits at the first that is left.
LEMMA MessageIs ==
  ASSUME Message
  PROVE  \E k \in m.i .. traffic.size :
           /\ m.buf[k] <= 1 /\ \A j \in m.i .. k - 1 : m.buf[j] > 1
           /\ m'.at = "messages" /\ m'.buf = m.buf /\ m'.i = k + Taken(BitsFrom(k)) + 1
           /\ shown' = (IF Taken(BitsFrom(k)) >= FrameLen(BitsFrom(k)) - 1
                           /\ Displayed(settings, Frame(BitsFrom(k)))
                        THEN Append(shown, Frame(BitsFrom(k))) ELSE shown)
<1>1. PICK k \in m.i .. len :
        /\ FirstBit(k)
        /\ \E run \in {BitsFrom(k)} :
             /\ m' = Turn("messages", m.buf, k + Taken(run) + 1, m.i2, m.a, m.b, m.errors)
             /\ shown' = (IF Taken(run) >= FrameLen(run) - 1 /\ Displayed(settings, Frame(run))
                          THEN Append(shown, Frame(run)) ELSE shown)
  BY DEF Message
<1>2. m' = Turn("messages", m.buf, k + Taken(BitsFrom(k)) + 1, m.i2, m.a, m.b, m.errors)
  BY <1>1
<1>3. shown' = (IF Taken(BitsFrom(k)) >= FrameLen(BitsFrom(k)) - 1
                   /\ Displayed(settings, Frame(BitsFrom(k)))
                THEN Append(shown, Frame(BitsFrom(k))) ELSE shown)
  BY <1>1
<1>4. m'.at = "messages" /\ m'.buf = m.buf /\ m'.i = k + Taken(BitsFrom(k)) + 1
  BY <1>2 DEF Turn
<1>5. m.buf[k] <= 1 /\ \A j \in m.i .. k - 1 : m.buf[j] > 1
  BY <1>1 DEF FirstBit
<1> QED
  BY <1>3, <1>4, <1>5 DEF len

\* The next frame is found, or bits before it that are none.
LEMMA ReadingFrame ==
  ASSUME NEW t, traffic = t, IsTraffic(t), NEW ka \in 0 .. FrameCount(t),
         Reading(t, settings, m, shown, ka), ka < FrameCount(t),
         NEW k \in m.i .. t.size, m.buf[k] <= 1, \A j \in m.i .. k - 1 : m.buf[j] > 1
  PROVE  k = Start(t, ka + 1) \/ k < t.at[ka + 1]
<1>0. ka + 1 \in 1 .. FrameCount(t)
  BY TrafficIs
<1>1. /\ \A j \in 1 .. LenOf(t, ka + 1) :
           m.buf[Start(t, ka + 1) + j - 1] = t.frames[ka + 1][j]
      /\ \A x \in t.at[ka + 1] .. Start(t, ka + 1) - 1 : m.buf[x] > 1
      /\ m.buf \in [1 .. t.size -> Int]
  BY <1>0, LayoutHas DEF Reading
<1>2. Start(t, ka + 1) \in 1 .. t.size /\ ~ (m.buf[Start(t, ka + 1)] > 1)
  BY <1>0, <1>1, FirstOfFrame
<1>3. m.i \in Int /\ m.i >= 1 /\ m.i <= Start(t, ka + 1)
  BY DEF Reading
<1>4. t.at[ka + 1] \in Int /\ t.size \in Int
  BY <1>0, LenIs
<1>5. ~ (Start(t, ka + 1) < k)
  <2> SUFFICES ASSUME Start(t, ka + 1) < k PROVE FALSE
    OBVIOUS
  <2>1. Start(t, ka + 1) \in m.i .. k - 1
    BY <1>2, <1>3, <1>4
  <2> QED
    BY <1>2, <2>1
<1>6. k \notin t.at[ka + 1] .. Start(t, ka + 1) - 1
  <2>1. m.buf[k] \in Int
    BY <1>1, <1>3, <1>4
  <2>2. ~ (m.buf[k] > 1)
    BY <2>1
  <2> QED
    BY <1>1, <2>2
<1> QED
  BY <1>2, <1>3, <1>4, <1>5, <1>6

LEMMA FrameRead ==
  ASSUME NEW t, traffic = t, IsTraffic(t), NEW ka \in 0 .. FrameCount(t),
         Reading(t, settings, m, shown, ka), ka < FrameCount(t),
         NEW k, k = Start(t, ka + 1),
         NEW mm, mm.at = "messages", mm.buf = m.buf, mm.i = k + Taken(BitsFrom(k)) + 1,
         NEW sh, sh = (IF Taken(BitsFrom(k)) >= FrameLen(BitsFrom(k)) - 1
                          /\ Displayed(settings, Frame(BitsFrom(k)))
                       THEN Append(shown, Frame(BitsFrom(k))) ELSE shown)
  PROVE  Reading(t, settings, mm, sh, ka + 1)
<1> DEFINE frame == t.frames[ka + 1]
           l == LenOf(t, ka + 1)
           run == BitsFrom(k)
<1>0. ka + 1 \in 1 .. FrameCount(t) /\ t.size \in Nat
  BY TrafficIs
<1>1. /\ \A j \in 1 .. l : m.buf[k + j - 1] = frame[j]
      /\ m.buf \in [1 .. t.size -> Int]
  BY <1>0, LayoutHas DEF Reading
<1>2. k \in 1 .. t.size /\ k + l - 1 <= t.size
  BY <1>0, <1>1, FirstOfFrame
<1>3. IsFrame(frame) /\ l = Len(frame)
  BY <1>0, PlaceIs DEF LenOf
<1>4. Taken(run) = l /\ FrameLen(run) = l /\ Frame(run) = frame
  <2> HIDE DEF frame, l
  <2> QED
    BY <1>0, <1>1, <1>2, <1>3, FrameRun
<1>5. l \in {56, 112} /\ End(t, ka + 1) = k + 2 * l
  BY <1>0, LenIs
<1> HIDE DEF run
<1>6. mm.i = k + l + 1 /\ sh = (IF Displayed(settings, frame) THEN Append(shown, frame) ELSE shown)
  <2> HIDE DEF frame, l
  <2> QED
    BY <1>4, <1>5 DEF run
<1>7. sh = Asked(settings, t.frames)[ka + 1]
  <2>1. ka + 1 - 1 = ka
    OBVIOUS
  <2>2. Asked(settings, t.frames)[ka + 1] =
          IF Displayed(settings, frame) THEN Append(Asked(settings, t.frames)[ka + 1 - 1], frame)
          ELSE Asked(settings, t.frames)[ka + 1 - 1]
    <3>1. \A j \in 1 .. FrameCount(t) :
            Asked(settings, t.frames)[j] =
              IF Displayed(settings, t.frames[j])
              THEN Append(Asked(settings, t.frames)[j - 1], t.frames[j])
              ELSE Asked(settings, t.frames)[j - 1]
      BY AskedIs, Zenon
    <3> QED
      BY <1>0, <3>1
  <2>3. shown = Asked(settings, t.frames)[ka]
    BY DEF Reading
  <2> HIDE DEF frame
  <2> QED
    BY <1>6, <2>1, <2>2, <2>3
<1>8. ka + 1 < FrameCount(t) => mm.i <= Start(t, ka + 1 + 1)
  <2> SUFFICES ASSUME ka + 1 < FrameCount(t) PROVE mm.i <= Start(t, ka + 1 + 1)
    OBVIOUS
  <2> DEFINE kc == ka + 1 + 1
             a == t.at[kc]
             s == Start(t, kc)
             f == End(t, ka + 1)
  <2>1. kc \in 1 .. FrameCount(t) /\ ka + 1 < kc
    BY <1>0, TrafficIs
  <2> HIDE DEF kc
  <2>2. f <= a /\ s = a + 16 /\ a \in Int
    BY <1>0, <2>1, Apart, LenIs
  <2>3. f = k + 2 * l /\ mm.i = k + l + 1 /\ l \in {56, 112} /\ k \in Int
    BY <1>2, <1>5, <1>6
  <2> HIDE DEF l, f, a, s
  <2>4. mm.i <= s
    BY <2>2, <2>3
  <2> QED
    BY <2>4 DEF s, kc
<1>9. mm.i \in Int /\ mm.i >= 1 /\ mm.i >= Start(t, ka + 1) + l
  <2> HIDE DEF l
  <2> QED
    BY <1>2, <1>5, <1>6
<1> QED
  BY <1>7, <1>8, <1>9 DEF Reading

LEMMA OtherIs ==
  ASSUME NEW t, traffic = t, IsTraffic(t), NEW ka \in 0 .. FrameCount(t),
         Reading(t, settings, m, shown, ka),
         NEW x \in 1 .. t.size, x >= m.i, ka < FrameCount(t) => x < t.at[ka + 1], m.buf[x] <= 1
  PROVE  m.buf[x] = 0 \/ x >= t.size - 15
<1>0. ka \in Int /\ FrameCount(t) \in Int
  BY TrafficIs
<1>1. Layout(t, m.buf, FrameCount(t), LenOf(t, FrameCount(t))) /\ m.i \in Int
      /\ (ka > 0 => m.i >= Start(t, ka) + LenOf(t, ka))
  BY DEF Reading
<1>2. ASSUME NEW k \in 1 .. FrameCount(t), Start(t, k) <= x, x < Start(t, k) + LenOf(t, k)
      PROVE  FALSE
  <2>1. /\ LenOf(t, k) \in Nat /\ Start(t, k) \in Int /\ End(t, k) = Start(t, k) + 2 * LenOf(t, k)
        /\ Start(t, k) = t.at[k] + 16 /\ t.at[k] \in Int
    BY LenIs
  <2>2. CASE k <= ka
    <3>1. ka \in 1 .. FrameCount(t) /\ ka > 0
      BY <1>0, <2>2
    <3>2. /\ LenOf(t, ka) \in Nat /\ Start(t, ka) \in Int /\ t.at[ka] \in Int
          /\ Start(t, ka) = t.at[ka] + 16
      BY <3>1, LenIs
    <3>3. x >= Start(t, ka) + LenOf(t, ka)
      BY <1>1, <3>1, <3>2
    <3>4. CASE k = ka
      BY <1>2, <3>2, <3>3, <3>4
    <3>5. CASE k # ka
      <4>1. End(t, k) <= t.at[ka]
        BY <2>2, <3>1, <3>5, Behind
      <4> QED
        BY <1>2, <2>1, <3>2, <3>3, <4>1
    <3> QED
      BY <3>4, <3>5
  <2>3. CASE ~ (k <= ka)
    <3>1. ka + 1 \in 1 .. FrameCount(t) /\ ka + 1 <= k /\ x < t.at[ka + 1]
      BY <1>0, <2>3
    <3>2. t.at[ka + 1] <= t.at[k] /\ t.at[ka + 1] \in Int
      BY <3>1, Behind, LenIs
    <3> QED
      BY <1>2, <2>1, <3>1, <3>2
  <2> QED
    BY <2>2, <2>3
<1> QED
  BY <1>1, <1>2, LayoutHas

LEMMA OtherRead ==
  ASSUME NEW t, traffic = t, IsTraffic(t), NEW ka \in 0 .. FrameCount(t),
         Reading(t, settings, m, shown, ka),
         NEW k \in m.i .. t.size, m.buf[k] <= 1, ka < FrameCount(t) => k < t.at[ka + 1],
         NEW mm, mm.at = "messages", mm.buf = m.buf, mm.i = k + Taken(BitsFrom(k)) + 1,
         NEW sh, sh = (IF Taken(BitsFrom(k)) >= FrameLen(BitsFrom(k)) - 1
                          /\ Displayed(settings, Frame(BitsFrom(k)))
                       THEN Append(shown, Frame(BitsFrom(k))) ELSE shown)
  PROVE  Reading(t, settings, mm, sh, ka)
<1> DEFINE z == t.size
           run == BitsFrom(k)
           i == m.i
<1>0. /\ z \in Nat /\ m.buf \in [1 .. z -> Int] /\ i \in Int /\ i >= 1 /\ k \in 1 .. z
      /\ k >= i /\ k \in Int /\ ka \in Int /\ FrameCount(t) \in Int
  <2>1. z \in Nat /\ FrameCount(t) \in Int
    BY TrafficIs
  <2>2. m.buf \in [1 .. z -> Int] /\ i \in Int /\ i >= 1
    BY DEF Reading, Layout
  <2> QED
    BY <2>1, <2>2
<1>1. ASSUME ka < FrameCount(t)
      PROVE  /\ t.at[ka + 1] \in 1 .. z /\ ~ (m.buf[t.at[ka + 1]] <= 1)
             /\ t.at[ka + 1] \in Int /\ Start(t, ka + 1) = t.at[ka + 1] + 16 /\ k < t.at[ka + 1]
  <2> DEFINE a == t.at[ka + 1]
             s == Start(t, ka + 1)
             l == LenOf(t, ka + 1)
             f == End(t, ka + 1)
  <2>1. ka + 1 \in 1 .. FrameCount(t)
    BY <1>0, <1>1
  <2>2. /\ l \in Nat /\ s = a + 16 /\ f = s + 2 * l /\ a \in Int /\ 0 < a /\ f <= z + 1
    BY <2>1, LenIs
  <2>3. \A x \in a .. s - 1 : m.buf[x] > 1
    BY <2>1, LayoutHas DEF Reading
  <2> HIDE DEF a, s, l, f, z
  <2>4. a \in 1 .. z /\ a \in a .. s - 1
    BY <1>0, <2>2
  <2>5. m.buf[a] > 1 /\ m.buf[a] \in Int
    BY <1>0, <2>3, <2>4
  <2>6. ~ (m.buf[a] <= 1)
    BY <2>5
  <2> QED
    BY <1>1, <2>2, <2>4, <2>6 DEF a, s
<1>2. ASSUME NEW x \in k .. z, \A j \in k .. x : m.buf[j] <= 1
      PROVE  m.buf[x] = 0 \/ x >= z - 15
  <2>1. x \in 1 .. z /\ x >= m.i /\ x \in k .. x
    BY <1>0
  <2>2. ka < FrameCount(t) => x < t.at[ka + 1]
    <3> SUFFICES ASSUME ka < FrameCount(t) PROVE x < t.at[ka + 1]
      OBVIOUS
    <3>1. t.at[ka + 1] \notin k .. x /\ k < t.at[ka + 1] /\ t.at[ka + 1] \in Int
      BY <1>1, <1>2
    <3> QED
      BY <1>0, <2>1, <3>1
  <2> QED
    BY <1>2, <2>1, <2>2, OtherIs
<1>3. /\ ~ (Taken(run) >= FrameLen(run) - 1)
      /\ \E end \in k + 1 .. z + 1 :
           /\ \A j \in k .. end - 1 : m.buf[j] <= 1
           /\ Taken(run) \in 0 .. end - k
  <2> HIDE DEF run
  <2> QED
    BY <1>0, <1>2, OtherRun DEF run
<1>4. sh = shown
  BY <1>3
<1>5. PICK end \in k + 1 .. z + 1 :
        (\A j \in k .. end - 1 : m.buf[j] <= 1) /\ Taken(run) \in 0 .. end - k
  BY <1>3
<1> HIDE DEF run
<1>6. mm.i \in Int /\ mm.i >= i /\ mm.i >= 1 /\ mm.i <= end + 1 /\ end \in Int
  BY <1>0, <1>5 DEF run
<1>7. ASSUME ka < FrameCount(t) PROVE mm.i <= Start(t, ka + 1)
  <2>1. t.at[ka + 1] \notin k .. end - 1
    BY <1>1, <1>5, <1>7
  <2>2. end <= t.at[ka + 1]
    BY <1>0, <1>1, <1>6, <1>7, <2>1
  <2> QED
    BY <1>1, <1>6, <1>7, <2>2
<1>8. ASSUME ka > 0 PROVE mm.i >= Start(t, ka) + LenOf(t, ka)
  <2>1. ka \in 1 .. FrameCount(t)
    BY <1>8, <1>0
  <2>2. Start(t, ka) \in Int /\ LenOf(t, ka) \in Int
    BY <2>1, LenIs
  <2>3. i >= Start(t, ka) + LenOf(t, ka)
    BY <1>8 DEF Reading
  <2> QED
    BY <1>0, <1>6, <2>2, <2>3
<1> QED
  BY <1>4, <1>6, <1>7, <1>8 DEF Reading

LEMMA ReadingStep ==
  ASSUME settings \in Settings, traffic \in Traffic, NEW ka \in 0 .. FrameCount(traffic),
         Reading(traffic, settings, m, shown, ka), Message
  PROVE  \E kb \in 0 .. FrameCount(traffic) : Reading(traffic, settings, m', shown', kb)
<1> DEFINE t == traffic
<1>0. IsTraffic(t) /\ FrameCount(t) \in Nat
  BY Whence, TrafficIs
<1>1. PICK k \in m.i .. t.size :
        /\ m.buf[k] <= 1 /\ \A j \in m.i .. k - 1 : m.buf[j] > 1
        /\ m'.at = "messages" /\ m'.buf = m.buf /\ m'.i = k + Taken(BitsFrom(k)) + 1
        /\ shown' = (IF Taken(BitsFrom(k)) >= FrameLen(BitsFrom(k)) - 1
                        /\ Displayed(settings, Frame(BitsFrom(k)))
                     THEN Append(shown, Frame(BitsFrom(k))) ELSE shown)
  BY MessageIs
<1>2. CASE ka < FrameCount(t) /\ k = Start(t, ka + 1)
  <2>1. Reading(t, settings, m', shown', ka + 1)
    BY <1>0, <1>1, <1>2, FrameRead
  <2>2. ka + 1 \in 0 .. FrameCount(t)
    BY <1>0, <1>2
  <2> QED
    BY <2>1, <2>2
<1>3. CASE ~ (ka < FrameCount(t) /\ k = Start(t, ka + 1))
  <2>1. ka < FrameCount(t) => k < t.at[ka + 1]
    BY <1>0, <1>1, <1>3, ReadingFrame
  <2>2. Reading(t, settings, m', shown', ka)
    BY <1>0, <1>1, <2>1, OtherRead
  <2> QED
    BY <2>2
<1> QED
  BY <1>2, <1>3

LEMMA ReadingEnds ==
  ASSUME settings \in Settings, traffic \in Traffic, NEW ka \in 0 .. FrameCount(traffic),
         Reading(traffic, settings, m, shown, ka), EndMessages
  PROVE  /\ m'.at = "done"
         /\ shown' = Asked(settings, traffic.frames)[FrameCount(traffic)]
<1> DEFINE t == traffic
<1>0. IsTraffic(t) /\ FrameCount(t) \in Nat /\ t.size \in Int
  BY Whence, TrafficIs
<1>1. m'.at = "done" /\ shown' = shown
  <2>1. m' = Turn("done", m.buf, m.i, m.i2, m.a, m.b, m.errors) /\ shown' = shown
    BY DEF EndMessages
  <2> QED
    BY <2>1 DEF Turn
<1>2. \A k \in m.i .. t.size : m.buf[k] > 1
  BY DEF EndMessages, len
<1>3. ~ (ka < FrameCount(t))
  <2> SUFFICES ASSUME ka < FrameCount(t) PROVE FALSE
    OBVIOUS
  <2>1. ka + 1 \in 1 .. FrameCount(t)
    BY <1>0
  <2>2. \A j \in 1 .. LenOf(t, ka + 1) :
          m.buf[Start(t, ka + 1) + j - 1] = t.frames[ka + 1][j]
    BY <1>0, <2>1, LayoutHas DEF Reading
  <2>3. Start(t, ka + 1) \in 1 .. t.size /\ ~ (m.buf[Start(t, ka + 1)] > 1)
    BY <1>0, <2>1, <2>2, FirstOfFrame
  <2>4. m.i \in Int /\ m.i <= Start(t, ka + 1)
    BY DEF Reading
  <2>5. Start(t, ka + 1) \in m.i .. t.size
    BY <1>0, <2>3, <2>4
  <2> QED
    BY <1>2, <2>3, <2>5
<1>4. ka = FrameCount(t)
  BY <1>0, <1>3
<1> QED
  BY <1>1, <1>4 DEF Reading

-----------------------------------------------------------------------------
(* The first frame, at any quality.                                        *)

FirstKept(t, buf) ==
  /\ buf \in [1 .. t.size -> Int] /\ HeadStays(t, buf)
  /\ \A j \in 1 .. LenOf(t, 1) : buf[Start(t, 1) + j - 1] = t.frames[1][j]
AfterFirst(t, mm) ==
  /\ mm.at \in {"search", "bits"} /\ mm.i \in Int /\ mm.i2 \in Int
  /\ mm.i >= End(t, 1) /\ mm.i2 >= Start(t, 1) + LenOf(t, 1) /\ FirstKept(t, mm.buf)

LEMMA OneIs ==
  ASSUME NEW t, IsTraffic(t)
  PROVE  1 \in 1 .. FrameCount(t) /\ 0 \in 0 .. FrameCount(t) /\ 0 < FrameCount(t)
BY TrafficIs

LEMMA KeptChange ==
  ASSUME NEW t, IsTraffic(t), NEW buf, FirstKept(t, buf), NEW buf2 \in [1 .. t.size -> Int],
         \A x \in 1 .. t.size : buf2[x] = buf[x] \/ x >= Start(t, 1) + LenOf(t, 1)
  PROVE  FirstKept(t, buf2)
<1> DEFINE s == Start(t, 1)
           l == LenOf(t, 1)
           f == End(t, 1)
           z == t.size
<1>1. /\ l \in Nat /\ s = t.at[1] + 16 /\ f = s + 2 * l /\ t.at[1] \in Int /\ 0 < t.at[1]
      /\ f <= z + 1 /\ z \in Int /\ s \in Int
  BY OneIs, LenIs
<1>2. \A x \in 1 .. z : buf2[x] = buf[x] \/ x >= s + l
  OBVIOUS
<1>3. ASSUME NEW x \in 1 .. z, x < s PROVE buf2[x] > 1
  <2>1. buf[x] > 1
    BY <1>3 DEF FirstKept, HeadStays
  <2> HIDE DEF s, l, z
  <2>2. ~ (x >= s + l)
    BY <1>1, <1>3
  <2> QED
    BY <1>2, <2>1, <2>2
<1>4. ASSUME NEW j \in 1 .. l PROVE buf2[s + j - 1] = t.frames[1][j]
  <2>1. buf[s + j - 1] = t.frames[1][j]
    BY DEF FirstKept
  <2> DEFINE a == t.at[1]
  <2>2. /\ s = a + 16 /\ a \in Int /\ 0 < a /\ l \in Int /\ s \in Int /\ z \in Int
        /\ s + 2 * l <= z + 1
    BY <1>1
  <2>3. j \in Int /\ 1 <= j /\ j <= l
    BY <1>1
  <2> HIDE DEF s, l, z, f, a
  <2>4. s + j - 1 \in Int /\ 1 <= s + j - 1 /\ s + j - 1 <= z /\ ~ (s + j - 1 >= s + l)
    BY <2>2, <2>3
  <2>5. s + j - 1 \in 1 .. z
    BY <1>1, <2>4
  <2> QED
    BY <1>2, <2>1, <2>4, <2>5
<1> QED
  BY <1>3, <1>4 DEF FirstKept, HeadStays

LEMMA LayoutKept ==
  ASSUME NEW t, IsTraffic(t), NEW buf, Layout(t, buf, 1, LenOf(t, 1))
  PROVE  FirstKept(t, buf)
<1>1. 1 \in 1 .. 1 /\ Decoded(t, 1, LenOf(t, 1), 1) = LenOf(t, 1)
  BY DEF Decoded
<1>2. \A k \in 1 .. 1 : \A j \in 1 .. Decoded(t, 1, LenOf(t, 1), k) :
        buf[Start(t, k) + j - 1] = t.frames[k][j]
  BY DEF Layout, Holds
<1>3. \A j \in 1 .. LenOf(t, 1) : buf[Start(t, 1) + j - 1] = t.frames[1][j]
  BY <1>1, <1>2
<1> QED
  BY <1>3 DEF Layout, FirstKept

LEMMA AfterBegins ==
  ASSUME NEW t, IsTraffic(t), NEW mm, InFrame(t, mm, 1, LenOf(t, 1))
  PROVE  AfterFirst(t, mm)
<1> DEFINE s == Start(t, 1)
           l == LenOf(t, 1)
<1>1. l \in Nat /\ s \in Int /\ End(t, 1) = s + 2 * l
  BY OneIs, LenIs
<1>2. mm.at = "bits" /\ mm.i = s + 2 * l /\ mm.i2 = s + l /\ Layout(t, mm.buf, 1, l)
  BY DEF InFrame
<1>3. FirstKept(t, mm.buf)
  BY <1>2, LayoutKept
<1> HIDE DEF s, l
<1>4. mm.i \in Int /\ mm.i2 \in Int /\ mm.i >= End(t, 1) /\ mm.i2 >= s + l
  BY <1>1, <1>2
<1> QED
  BY <1>2, <1>3, <1>4 DEF AfterFirst, s, l

LEMMA AfterStep ==
  ASSUME settings \in Settings, traffic \in Traffic, AfterFirst(traffic, m), DecodeNext
  PROVE  /\ shown' = shown
         /\ \/ AfterFirst(traffic, m')
            \/ m'.at = "messages" /\ m'.i = 1 /\ FirstKept(traffic, m'.buf)
<1> DEFINE t == traffic
           s == Start(t, 1)
           l == LenOf(t, 1)
           z == t.size
           f == End(t, 1)
<1>0. /\ IsTraffic(t) /\ l \in Nat /\ s \in Int /\ f = s + 2 * l /\ z \in Int /\ f \in Int
  <2>1. IsTraffic(t)
    BY Whence
  <2> QED
    BY <2>1, OneIs, LenIs
<1>1. /\ m.i \in Int /\ m.i2 \in Int /\ m.i >= f /\ m.i2 >= s + l /\ FirstKept(t, m.buf)
      /\ m.at \in {"search", "bits"} /\ m.buf \in [1 .. z -> Int]
  BY DEF AfterFirst, FirstKept
<1>2. shown' = shown /\ (Search \/ TakeBit \/ Guess \/ Break \/ EndManchester)
  <2>1. ~ Message /\ ~ EndMessages
    BY <1>1 DEF Message, EndMessages
  <2>2. Search \/ TakeBit \/ Guess \/ Break \/ EndManchester
    BY <2>1, Zenon DEF DecodeNext
  <2> QED
    BY <2>2 DEF Search, TakeBit, Guess, Break, EndManchester
<1> HIDE DEF s, l, z, f
<1>3. m.i >= s + l
  BY <1>0, <1>1
<1>4. ASSUME NEW k \in Preambles,
             m' = Turn("bits", Marked(k), k + preamble_len, k + preamble_len,
                       m.buf[k], m.buf[k + 1], 0)
      PROVE  AfterFirst(t, m')
  <2>1. k \in m.i .. z - 16
    BY DEF Preambles, len, preamble_len, z
  <2>2. /\ m'.at = "bits" /\ m'.buf = Marked(k) /\ m'.i = k + 16 /\ m'.i2 = k + 16
    BY <1>4 DEF Turn, preamble_len
  <2>3. Marked(k) = [j \in 1 .. z |-> IF k <= j /\ j < k + preamble_len THEN MESSAGEGO
                                      ELSE m.buf[j]]
    BY DEF Marked, len, z
  <2>4. Marked(k) \in [1 .. z -> Int]
    <3>1. MESSAGEGO \in Int
      BY DEF MESSAGEGO
    <3> QED
      BY <1>1, <2>3, <3>1
  <2>5. \A x \in 1 .. z : Marked(k)[x] = m.buf[x] \/ x >= s + l
    <3> SUFFICES ASSUME NEW x \in 1 .. z PROVE Marked(k)[x] = m.buf[x] \/ x >= s + l
      OBVIOUS
    <3>1. CASE k <= x
      BY <1>0, <1>1, <1>3, <2>1, <3>1
    <3>2. CASE ~ (k <= x)
      BY <2>3, <3>2
    <3> QED
      BY <3>1, <3>2
  <2>6. FirstKept(t, Marked(k))
    <3> HIDE DEF t
    <3> QED
      BY <1>0, <1>1, <2>4, <2>5, KeptChange DEF s, l, z
  <2>7. m'.i \in Int /\ m'.i >= f /\ m'.i2 >= s + l
    BY <1>0, <1>1, <1>3, <2>1, <2>2
  <2> QED
    BY <2>2, <2>6, <2>7 DEF AfterFirst, s, l, f
<1>5. CASE Search
  <2> DEFINE next == IF m.i > len - preamble_len THEN m.i ELSE len - preamble_len + 1
  <2>1. \/ \E k \in Preambles :
             m' = Turn("bits", Marked(k), k + preamble_len, k + preamble_len,
                       m.buf[k], m.buf[k + 1], 0)
        \/ m' = Turn("bits", m.buf, next, next, m.a, m.b, 0)
    BY <1>5 DEF Search
  <2>2. ASSUME m' = Turn("bits", m.buf, next, next, m.a, m.b, 0) PROVE AfterFirst(t, m')
    <3>1. next \in Int /\ next >= m.i
      BY <1>0, <1>1 DEF len, preamble_len, z
    <3> HIDE DEF next
    <3>2. m'.at = "bits" /\ m'.buf = m.buf /\ m'.i = next /\ m'.i2 = next
      BY <2>2 DEF Turn
    <3>3. m'.i \in Int /\ m'.i >= f /\ m'.i2 >= s + l
      BY <1>0, <1>1, <1>3, <3>1, <3>2
    <3> QED
      BY <1>1, <3>2, <3>3 DEF AfterFirst, s, l, f
  <2> QED
    BY <1>2, <1>4, <2>1, <2>2
<1>6. CASE TakeBit \/ Guess
  <2>1. PICK bit \in Int :
          m'.at = "bits" /\ m'.buf = Puts(bit) /\ m'.i = m.i + 2 /\ m'.i2 = m.i2 + 1
    <3>1. CASE TakeBit
      <4>1. Bit \in Int
        <5>1. Bit \in {0, 1, BADSAMPLE} /\ BADSAMPLE \in Int
          BY BitIs DEF Bit, BADSAMPLE
        <5> QED
          BY <5>1
      <4>2. m' = Turn("bits", Puts(Bit), m.i + 2, m.i2 + 1, m.buf[m.i], m.buf[m.i + 1], m.errors)
        BY <3>1 DEF TakeBit
      <4>3. m'.at = "bits" /\ m'.buf = Puts(Bit) /\ m'.i = m.i + 2 /\ m'.i2 = m.i2 + 1
        BY <4>2 DEF Turn
      <4> QED
        BY <4>1, <4>3
    <3>2. CASE Guess
      <4> DEFINE bit == IF m.buf[m.i] > m.buf[m.i + 1] THEN 1 ELSE 0
      <4>1. m' = Turn("bits", Puts(bit), m.i + 2, m.i2 + 1, 0, 65535, m.errors + 1)
        BY <3>2 DEF Guess
      <4>2. bit \in Int
        OBVIOUS
      <4> HIDE DEF bit
      <4>3. m'.at = "bits" /\ m'.buf = Puts(bit) /\ m'.i = m.i + 2 /\ m'.i2 = m.i2 + 1
        BY <4>1 DEF Turn
      <4> QED
        BY <4>2, <4>3
    <3> QED
      BY <1>6, <3>1, <3>2
  <2>2. /\ Puts(bit) \in [1 .. z -> Int]
        /\ \A x \in 1 .. z : Puts(bit)[x] = IF x = m.i2 THEN bit
                               ELSE IF x = m.i \/ x = m.i + 1 THEN OVERWRITE ELSE m.buf[x]
    BY <1>0, <1>1, PutsIs
  <2>3. \A x \in 1 .. z : Puts(bit)[x] = m.buf[x] \/ x >= s + l
    <3> SUFFICES ASSUME NEW x \in 1 .. z, ~ (x >= s + l) PROVE Puts(bit)[x] = m.buf[x]
      OBVIOUS
    <3>1. x # m.i2 /\ x # m.i /\ x # m.i + 1
      BY <1>0, <1>1, <1>3
    <3> QED
      BY <2>2, <3>1, Zenon
  <2>4. FirstKept(t, Puts(bit))
    <3> HIDE DEF t
    <3> QED
      BY <1>0, <1>1, <2>2, <2>3, KeptChange DEF s, l, z
  <2>5. m'.i \in Int /\ m'.i2 \in Int /\ m'.i >= f /\ m'.i2 >= s + l
    BY <1>0, <1>1, <2>1
  <2> QED
    BY <1>2, <2>1, <2>4, <2>5 DEF AfterFirst, s, l, f
<1>7. CASE Break
  <2>1. m'.at = "search" /\ m'.buf = Broken /\ m'.i = m.i /\ m'.i2 = m.i2
    <3>1. m' = Turn("search", Broken, m.i, m.i2, m.buf[m.i], m.buf[m.i + 1], m.errors + 1)
      BY <1>7 DEF Break
    <3> QED
      BY <3>1 DEF Turn
  <2>2. /\ Broken \in [1 .. z -> Int]
        /\ \A x \in 1 .. z : Broken[x] = IF x = m.i2 THEN BADSAMPLE ELSE m.buf[x]
    BY <1>0, <1>1, BrokenIs
  <2>3. \A x \in 1 .. z : Broken[x] = m.buf[x] \/ x >= s + l
    BY <1>1, <2>2
  <2>4. FirstKept(t, Broken)
    <3> HIDE DEF t
    <3> QED
      BY <1>0, <1>1, <2>2, <2>3, KeptChange DEF s, l, z
  <2> QED
    BY <1>1, <1>2, <2>1, <2>4 DEF AfterFirst, s, l, f
<1>8. CASE EndManchester
  <2>1. m' = Turn("messages", m.buf, 1, m.i2, m.a, m.b, m.errors)
    BY <1>8 DEF EndManchester
  <2>2. m'.at = "messages" /\ m'.buf = m.buf /\ m'.i = 1
    BY <2>1 DEF Turn
  <2> QED
    BY <1>1, <1>2, <2>2
<1> QED
  BY <1>2, <1>5, <1>6, <1>7, <1>8

-----------------------------------------------------------------------------
(* From the buffer as it came to the frames that are displayed.            *)

\* The first frame's bits come first, and are shown first.
FirstShown(t, set, sh) ==
  \E F : sh \in Seq(F) /\ (Displayed(set, t.frames[1]) => sh # <<>> /\ sh[1] = t.frames[1])
FirstInv ==
  \/ shown = <<>> /\ \/ Searching(traffic, m, 0)
                     \/ \E p \in Nat : p < LenOf(traffic, 1) /\ InFrame(traffic, m, 1, p)
                     \/ AfterFirst(traffic, m)
                     \/ m.at = "messages" /\ m.i = 1 /\ FirstKept(traffic, m.buf)
  \/ m.at \in {"messages", "done"} /\ FirstShown(traffic, settings, shown)
\* All frames' bits come in order, and are shown in that order.
StrictInv ==
  \/ shown = <<>> /\ Decoding(traffic, settings, m)
  \/ \E ka \in 0 .. FrameCount(traffic) : Reading(traffic, settings, m, shown, ka)
  \/ m.at = "done" /\ shown = Asked(settings, traffic.frames)[FrameCount(traffic)]
FramesInv ==
  /\ settings \in Settings /\ traffic \in Traffic
  /\ FirstInv /\ (StrictFor(traffic, settings) => StrictInv)

LEMMA FramesBegin ==
  ASSUME DecodeInit
  PROVE  Searching(traffic, m, 0) /\ shown = <<>>
<1> DEFINE t == traffic
           z == t.size
<1>0. /\ IsTraffic(t) /\ z \in Int /\ FrameCount(t) \in Nat \ {0}
      /\ m.at = "search" /\ m.i = 1 /\ m.buf = Original(t) /\ shown = <<>>
  <2>1. settings \in Settings /\ traffic \in Traffic
    BY DEF DecodeInit
  <2>2. IsTraffic(t) /\ z \in Int /\ FrameCount(t) \in Nat \ {0}
    BY <2>1, Whence, TrafficIs
  <2>3. m = Turn("search", Original(t), 1, 1, 0, 0, 0) /\ shown = <<>>
    BY DEF DecodeInit, Original
  <2> HIDE DEF t
  <2> QED
    BY <2>2, <2>3 DEF Turn
<1> HIDE DEF t, z
<1>1. m.buf \in [1 .. z -> Int]
  BY <1>0, OriginalIs DEF z
<1>2. ASSUME NEW x \in 1 .. z PROVE m.buf[x] > 1
  <2>1. Original(t)[x] \in Int /\ LowOf(t) <= Original(t)[x]
    BY <1>0, AtLeastLow DEF z
  <2>2. LowOf(t) \in Int /\ 1 < LowOf(t)
    BY <1>0, LevelsAre
  <2> QED
    BY <1>0, <2>1, <2>2
<1>3. PreamblesStay(t, m.buf)
  <2> SUFFICES ASSUME NEW k \in 1 .. FrameCount(t), NEW x \in t.at[k] .. Start(t, k) - 1
               PROVE  m.buf[x] > 1
    BY DEF PreamblesStay
  <2> DEFINE s == Start(t, k)
             l == LenOf(t, k)
             f == End(t, k)
             a == t.at[k]
  <2>1. l \in Nat /\ s = a + 16 /\ f = s + 2 * l /\ a \in Int /\ 0 < a /\ f <= z + 1 /\ z \in Int
    BY <1>0, LenIs DEF z
  <2>2. x \in a .. s - 1
    OBVIOUS
  <2> HIDE DEF s, l, f, a
  <2>3. x \in 1 .. z
    BY <2>1, <2>2
  <2> QED
    BY <1>2, <2>3
<1>4. Holds(t, m.buf, 0, 0)
  BY DEF Holds
<1>5. Others(t, m.buf, 0, 0)
  <2> SUFFICES ASSUME NEW x \in 1 .. z, m.buf[x] <= 1 PROVE FALSE
    BY DEF Others, z
  <2>1. m.buf[x] > 1 /\ m.buf[x] \in Int
    BY <1>1, <1>2
  <2> QED
    BY <2>1
<1>6. Layout(t, m.buf, 0, 0)
  BY <1>1, <1>2, <1>3, <1>4, <1>5 DEF Layout, HeadStays, z
<1>7. 1 <= t.at[1]
  <2>1. 1 \in 1 .. FrameCount(t)
    BY <1>0
  <2>2. t.at[1] \in Int /\ 0 < t.at[1]
    BY <1>0, <2>1, LenIs
  <2> QED
    BY <2>2
<1>8. Untouched(t, m) /\ Whole(t, 0) = 0 /\ AfterFrame(t, 0) = 1
  BY <1>0 DEF Untouched, Whole, AfterFrame
<1>9. 0 < FrameCount(t) => m.i <= t.at[0 + 1]
  BY <1>0, <1>7
<1> QED
  BY <1>0, <1>6, <1>8, <1>9 DEF Searching, t

\* What a step takes the loops of messages to.
LEMMA Messaging ==
  ASSUME DecodeNext, m.at = "messages"
  PROVE  Message \/ EndMessages
BY DEF DecodeNext, Search, TakeBit, Guess, Break, EndManchester

LEMMA NoneDone ==
  ASSUME DecodeNext
  PROVE  m.at # "done"
BY DEF DecodeNext, Search, TakeBit, Guess, Break, EndManchester, Message, EndMessages

\* The first run of bits is the first frame.
LEMMA FirstRead ==
  ASSUME NEW t, traffic = t, IsTraffic(t), FirstKept(t, m.buf), m.i = 1, shown = <<>>, Message
  PROVE  m'.at = "messages" /\ FirstShown(t, settings, shown')
<1> DEFINE s == Start(t, 1)
           l == LenOf(t, 1)
           frame == t.frames[1]
<1>0. 1 \in 1 .. FrameCount(t) /\ t.size \in Nat /\ m.buf \in [1 .. t.size -> Int]
  BY OneIs, TrafficIs DEF FirstKept
<1>1. PICK k \in m.i .. t.size :
        /\ m.buf[k] <= 1 /\ \A j \in m.i .. k - 1 : m.buf[j] > 1
        /\ m'.at = "messages" /\ m'.buf = m.buf /\ m'.i = k + Taken(BitsFrom(k)) + 1
        /\ shown' = (IF Taken(BitsFrom(k)) >= FrameLen(BitsFrom(k)) - 1
                        /\ Displayed(settings, Frame(BitsFrom(k)))
                     THEN Append(shown, Frame(BitsFrom(k))) ELSE shown)
  BY MessageIs
<1>2. \A j \in 1 .. l : m.buf[s + j - 1] = frame[j]
  BY DEF FirstKept
<1>3. s \in 1 .. t.size /\ ~ (m.buf[s] > 1) /\ s + l - 1 <= t.size
  BY <1>0, <1>2, FirstOfFrame
<1>4. \A x \in 1 .. t.size : x < s => m.buf[x] > 1
  BY DEF FirstKept, HeadStays
<1>5. IsFrame(frame) /\ l = Len(frame)
  BY <1>0, PlaceIs DEF LenOf
<1>6. l \in {56, 112}
  BY <1>0, LenIs
<1> HIDE DEF s, l, frame
<1>7. k = s
  <2>1. k \in 1 .. t.size /\ m.buf[k] \in Int /\ ~ (m.buf[k] > 1)
    <3>1. k \in 1 .. t.size
      BY <1>0
    <3>2. m.buf[k] \in Int /\ m.buf[k] <= 1
      BY <1>0, <1>1, <3>1
    <3> QED
      BY <3>1, <3>2
  <2>2. ~ (k < s)
    BY <1>4, <2>1
  <2>3. ~ (s \in 1 .. k - 1)
    BY <1>1, <1>3
  <2> QED
    BY <1>0, <1>3, <2>1, <2>2, <2>3
<1>8. Taken(BitsFrom(k)) = l /\ FrameLen(BitsFrom(k)) = l /\ Frame(BitsFrom(k)) = frame
  BY <1>0, <1>2, <1>3, <1>5, <1>7, FrameRun
<1>9. shown' = (IF Displayed(settings, frame) THEN Append(<<>>, frame) ELSE <<>>)
  BY <1>1, <1>6, <1>8
<1>10. shown' \in Seq({frame})
       /\ (Displayed(settings, frame) => shown' # <<>> /\ shown'[1] = frame)
  <2> DEFINE F == {frame}
             one == Append(<<>>, frame)
  <2>1. <<>> \in Seq(F) /\ frame \in F
    OBVIOUS
  <2> HIDE DEF F
  <2>2. one \in Seq(F) /\ one # <<>> /\ one[1] = frame
    BY <2>1
  <2> HIDE DEF one
  <2>3. shown' = (IF Displayed(settings, frame) THEN one ELSE <<>>)
    BY <1>9 DEF one
  <2> QED
    BY <2>1, <2>2, <2>3 DEF F
<1> QED
  BY <1>1, <1>10 DEF FirstShown, frame

LEMMA FirstStays ==
  ASSUME FirstShown(traffic, settings, shown), Message, UNCHANGED <<settings, traffic>>
  PROVE  m'.at = "messages" /\ FirstShown(traffic, settings, shown')
<1>1. PICK F : /\ shown \in Seq(F)
               /\ Displayed(settings, traffic.frames[1]) =>
                    shown # <<>> /\ shown[1] = traffic.frames[1]
  BY DEF FirstShown
<1>2. PICK e : shown' = Append(shown, e) \/ shown' = shown
  BY MessageIs
<1>3. m'.at = "messages"
  BY MessageIs
<1> DEFINE E == F \cup {e}
<1>4. shown \in Seq(E) /\ e \in E
  BY <1>1
<1> HIDE DEF E
<1>5. shown' \in Seq(E) /\ (shown # <<>> => shown' # <<>> /\ shown'[1] = shown[1])
  BY <1>2, <1>4
<1>6. Displayed(settings, traffic.frames[1]) => shown' # <<>> /\ shown'[1] = traffic.frames[1]
  BY <1>1, <1>5
<1> QED
  BY <1>3, <1>5, <1>6 DEF FirstShown

LEMMA SettingsStay ==
  ASSUME DecodeNext
  PROVE  UNCHANGED <<settings, traffic>>
BY DEF DecodeNext, Search, TakeBit, Guess, Break, EndManchester, Message, EndMessages

LEMMA FirstStep ==
  ASSUME settings \in Settings, traffic \in Traffic, FirstInv, DecodeNext
  PROVE  FirstInv'
<1> DEFINE t == traffic
           First(mm) == \/ Searching(t, mm, 0)
                        \/ \E p \in Nat : p < LenOf(t, 1) /\ InFrame(t, mm, 1, p)
                        \/ AfterFirst(t, mm)
                        \/ mm.at = "messages" /\ mm.i = 1 /\ FirstKept(t, mm.buf)
<1>0. /\ IsTraffic(t) /\ 1 \in 1 .. FrameCount(t) /\ 0 \in 0 .. FrameCount(t)
      /\ 0 < FrameCount(t) /\ LenOf(t, 1) \in Nat /\ LenOf(t, 1) # 0 /\ t.size \in Int
      /\ settings' = settings /\ traffic' = traffic
  <2>1. IsTraffic(t)
    BY Whence
  <2>2. settings' = settings /\ traffic' = traffic
    BY SettingsStay
  <2>3. LenOf(t, 1) \in {56, 112}
    BY <2>1, OneIs, LenIs
  <2> QED
    BY <2>1, <2>2, <2>3, OneIs, TrafficIs
<1>1. ASSUME shown = <<>>, Searching(t, m, 0) PROVE shown' = <<>> /\ First(m')
  <2>1. m.at = "search" /\ m.i \in Int
    BY <1>1 DEF Searching
  <2>2. t.at[0 + 1] \in m.i .. t.size - 16
    BY <1>0, <1>1, FoundAtFrame
  <2>3. ~ (m.i >= t.size)
    BY <1>0, <2>1, <2>2
  <2>4. Search /\ shown' = shown
    <3>1. ~ EndManchester
      BY <2>3 DEF EndManchester, len
    <3>2. Search
      BY <2>1, <3>1 DEF DecodeNext, TakeBit, Guess, Break, Message, EndMessages
    <3> QED
      BY <3>2 DEF Search
  <2>5. InFrame(t, m', 0 + 1, 0)
    BY <1>0, <1>1, <2>4, SearchFinds
  <2>6. InFrame(t, m', 1, 0) /\ 0 < LenOf(t, 1)
    BY <1>0, <2>5
  <2> QED
    BY <1>1, <2>4, <2>6
<1>2. ASSUME shown = <<>>, NEW p \in Nat, p < LenOf(t, 1), InFrame(t, m, 1, p)
      PROVE  shown' = <<>> /\ First(m')
  <2>1. Turning
    BY <1>2 DEF InFrame, Turning
  <2>2. InFrame(t, m', 1, p + 1) /\ shown' = shown
    BY <1>0, <1>2, <2>1, BitTaken
  <2>3. CASE p + 1 < LenOf(t, 1)
    BY <1>2, <2>2, <2>3
  <2>4. CASE ~ (p + 1 < LenOf(t, 1))
    <3>1. p + 1 = LenOf(t, 1)
      BY <1>0, <1>2, <2>4
    <3>2. InFrame(t, m', 1, LenOf(t, 1))
      BY <2>2, <3>1
    <3>3. AfterFirst(t, m')
      BY <1>0, <3>2, AfterBegins
    <3> QED
      BY <1>2, <2>2, <3>3
  <2> QED
    BY <2>3, <2>4
<1>3. ASSUME shown = <<>>, AfterFirst(t, m) PROVE shown' = <<>> /\ First(m')
  BY <1>3, AfterStep
<1>4. ASSUME shown = <<>>, m.at = "messages", m.i = 1, FirstKept(t, m.buf)
      PROVE  m'.at = "messages" /\ FirstShown(t, settings, shown')
  <2>1. ~ EndMessages
    <3> SUFFICES ASSUME EndMessages PROVE FALSE
      OBVIOUS
    <3>1. \A k \in m.i .. t.size : m.buf[k] > 1
      BY DEF EndMessages, len
    <3>2. \A j \in 1 .. LenOf(t, 1) : m.buf[Start(t, 1) + j - 1] = t.frames[1][j]
      BY <1>4 DEF FirstKept
    <3>3. Start(t, 1) \in 1 .. t.size /\ ~ (m.buf[Start(t, 1)] > 1)
      BY <1>0, <3>2, FirstOfFrame
    <3> QED
      BY <1>4, <3>1, <3>3
  <2>2. Message
    BY <1>4, <2>1, Messaging
  <2> QED
    BY <1>0, <1>4, <2>2, FirstRead
<1>5. ASSUME m.at \in {"messages", "done"}, FirstShown(t, settings, shown)
      PROVE  m'.at \in {"messages", "done"} /\ FirstShown(t, settings, shown')
  <2>1. Message \/ EndMessages
    BY <1>5, NoneDone, Messaging
  <2>2. CASE Message
    <3>1. UNCHANGED <<settings, traffic>>
      BY <1>0
    <3>2. m'.at = "messages" /\ FirstShown(t, settings, shown')
      BY <1>5, <2>2, <3>1, FirstStays
    <3> QED
      BY <3>2
  <2>3. CASE EndMessages
    <3>1. m' = Turn("done", m.buf, m.i, m.i2, m.a, m.b, m.errors) /\ shown' = shown
      BY <2>3 DEF EndMessages
    <3>2. m'.at = "done"
      BY <3>1 DEF Turn
    <3> QED
      BY <1>5, <3>1, <3>2
  <2> QED
    BY <2>1, <2>2, <2>3
<1>6. \/ shown' = <<>> /\ First(m')
      \/ m'.at \in {"messages", "done"} /\ FirstShown(t, settings, shown')
  <2>1. CASE shown = <<>> /\ First(m)
    <3> HIDE DEF t
    <3>1. CASE m.at = "messages" /\ m.i = 1 /\ FirstKept(t, m.buf)
      BY <1>4, <2>1, <3>1
    <3>2. CASE Searching(t, m, 0)
      BY <1>1, <2>1, <3>2
    <3>3. CASE \E p \in Nat : p < LenOf(t, 1) /\ InFrame(t, m, 1, p)
      BY <1>2, <2>1, <3>3
    <3>4. CASE AfterFirst(t, m)
      BY <1>3, <2>1, <3>4
    <3> QED
      BY <2>1, <3>1, <3>2, <3>3, <3>4
  <2>2. CASE ~ (shown = <<>> /\ First(m))
    <3>1. m.at \in {"messages", "done"} /\ FirstShown(t, settings, shown)
      BY <2>2 DEF FirstInv
    <3> QED
      BY <1>5, <3>1
  <2> QED
    BY <2>1, <2>2
<1> QED
  BY <1>0, <1>6 DEF FirstInv

LEMMA StrictStep ==
  ASSUME settings \in Settings, traffic \in Traffic, StrictFor(traffic, settings), StrictInv,
         DecodeNext
  PROVE  StrictInv'
<1> DEFINE t == traffic
           n == FrameCount(t)
           Read(mm, sh) == \E ka \in 0 .. n : Reading(t, settings, mm, sh, ka)
<1>0. /\ IsTraffic(t) /\ n \in Nat /\ 0 \in 0 .. n /\ 0 < n
      /\ settings' = settings /\ traffic' = traffic
  BY Whence, SettingsStay, TrafficIs, OneIs
<1>1. ASSUME shown = <<>>, Decoding(t, settings, m)
      PROVE  (shown' = <<>> /\ Decoding(t, settings, m')) \/ Read(m', shown')
  <2>1. CASE EndManchester
    <3>1. /\ Layout(t, m.buf, n, LenOf(t, n))
          /\ m'.at = "messages" /\ m'.buf = m.buf /\ m'.i = 1 /\ shown' = shown
      BY <1>1, <2>1, EndDecoding
    <3>2. Asked(settings, t.frames)[0] = <<>>
      BY <1>0, AskedIs, Zenon
    <3>3. 1 <= Start(t, 0 + 1)
      <4>1. Start(t, 1) = t.at[1] + 16 /\ t.at[1] \in Int /\ 0 < t.at[1]
        BY <1>0, OneIs, LenIs
      <4> QED
        BY <4>1
    <3>4. ~ (0 > 0)
      OBVIOUS
    <3>5. Reading(t, settings, m', shown', 0)
      BY <1>1, <3>1, <3>2, <3>3, <3>4 DEF Reading
    <3> QED
      BY <1>0, <3>5
  <2>2. CASE ~ EndManchester
    BY <1>1, <2>2, DecodingStep
  <2> QED
    BY <2>1, <2>2
<1>2. ASSUME NEW ka \in 0 .. n, Reading(t, settings, m, shown, ka)
      PROVE  Read(m', shown') \/ (m'.at = "done" /\ shown' = Asked(settings, t.frames)[n])
  <2>1. Message \/ EndMessages
    BY <1>2, Messaging DEF Reading
  <2>2. CASE Message
    BY <1>2, <2>2, ReadingStep
  <2>3. CASE EndMessages
    BY <1>2, <2>3, ReadingEnds
  <2> QED
    BY <2>1, <2>2, <2>3
<1>3. m.at # "done"
  BY NoneDone
<1>4. \/ shown' = <<>> /\ Decoding(t, settings, m')
      \/ Read(m', shown')
      \/ m'.at = "done" /\ shown' = Asked(settings, t.frames)[n]
  BY <1>1, <1>2, <1>3 DEF StrictInv
<1> QED
  BY <1>0, <1>4 DEF StrictInv

LEMMA FramesKept == FramesInv /\ [DecodeNext]_decodeVars => FramesInv'
<1> SUFFICES ASSUME FramesInv, [DecodeNext]_decodeVars PROVE FramesInv'
  OBVIOUS
<1>1. settings \in Settings /\ traffic \in Traffic /\ FirstInv
      /\ (StrictFor(traffic, settings) => StrictInv)
  BY DEF FramesInv
<1>2. CASE DecodeNext
  <2>1. settings' = settings /\ traffic' = traffic
    BY <1>2, SettingsStay
  <2>2. FirstInv'
    BY <1>1, <1>2, FirstStep
  <2>3. StrictFor(traffic, settings) => StrictInv'
    BY <1>1, <1>2, StrictStep
  <2>4. StrictFor(traffic, settings)' = StrictFor(traffic, settings)
    BY <2>1
  <2> QED
    BY <1>1, <2>1, <2>2, <2>3, <2>4 DEF FramesInv
<1>3. CASE UNCHANGED decodeVars
  BY <1>1, <1>3 DEF decodeVars, FramesInv, FirstInv, StrictInv
<1> QED
  BY <1>2, <1>3

LEMMA FramesMean == FramesInv => FramesReceived
<1> SUFFICES ASSUME FramesInv, m.at = "done"
             PROVE  /\ Displayed(settings, traffic.frames[1]) =>
                         shown # <<>> /\ shown[1] = traffic.frames[1]
                    /\ Strict => shown = Asked(settings, traffic.frames)[Len(traffic.frames)]
  BY DEF FramesReceived
<1>1. FirstInv /\ (Strict => StrictInv)
  BY DEF FramesInv, Strict, StrictFor
<1>2. FirstShown(traffic, settings, shown)
  BY <1>1 DEF FirstInv, Searching, InFrame, AfterFirst
<1>3. Strict => shown = Asked(settings, traffic.frames)[Len(traffic.frames)]
  BY <1>1 DEF StrictInv, Reading, Decoding, Searching, InFrame, Fading, Tailing, FrameCount
<1> QED
  BY <1>2, <1>3 DEF FirstShown

\* The first frame sent in the clear is the first displayed; where a message
\* always ends in the silence, all are, in their order, and nothing else: whatever
\* is sent, at whatever strength, and whatever is asked for (rtl_adsb.c:254-330).
THEOREM AllFramesReceived == DecodeSpec => []FramesReceived
<1>1. DecodeInit => FramesInv
  <2> SUFFICES ASSUME DecodeInit PROVE FramesInv
    OBVIOUS
  <2>1. settings \in Settings /\ traffic \in Traffic
    BY DEF DecodeInit
  <2>2. Searching(traffic, m, 0) /\ shown = <<>>
    BY FramesBegin
  <2>3. 0 \in 0 .. FrameCount(traffic)
    BY <2>1, Whence, OneIs
  <2> QED
    BY <2>1, <2>2, <2>3 DEF FramesInv, FirstInv, StrictInv, Decoding
<1> QED
  BY <1>1, FramesKept, FramesMean, PTL DEF DecodeSpec
=============================================================================
