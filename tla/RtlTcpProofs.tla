---------------------------- MODULE RtlTcpProofs ----------------------------
(***************************************************************************)
(* Theorems about RtlTcp, for every number of signals.  The inductive      *)
(* invariant ties the three control points together: past the join the FFT *)
(* thread is over, the handler is never on top of a thread that is over,   *)
(* and a set do_exit means that a signal came.                             *)
(***************************************************************************)
EXTENDS RtlTcp, TLAPS

Flags ==
  /\ reading \in BOOLEAN /\ in_cb \in BOOLEAN /\ canceler \in BOOLEAN
  /\ dev_lost \in BOOLEAN /\ failed \in BOOLEAN
  /\ gpio \in BOOLEAN /\ output \in BOOLEAN /\ released \in BOOLEAN

Control ==
  /\ async_status \in S!Status
  /\ main \in {"setup", "create", "read", "reading", "join", "drain", "close",
               "freed", "exited"}
  /\ fft \in {"none", "setup", "loop", "work", "exited"}
  /\ hdl \in {"idle", "cancel", "store", "release", "close", "count"}
  /\ on \in {"main", "fft"}
  /\ do_exit \in 0..3 /\ signals \in 0..MaxSignals
  /\ do_exit = 3 => main = "exited"

JoinInv ==
  /\ main \in {"drain", "close", "freed"} => fft = "exited"
  /\ hdl # "idle" /\ on = "fft" => fft \in {"setup", "loop", "work"}
  /\ do_exit > 0 \/ hdl = "count" \/ fft = "exited" => signals > 0
  /\ fft = "exited" /\ main \in {"setup", "create", "read", "reading", "join", "drain"}
       => do_exit > 0
  /\ main \in {"setup", "create"} => fft = "none"
  /\ hdl # "idle" => signals > 0

PinInv == released => ~output /\ fft \in {"loop", "work", "exited"}

IInv == Control /\ JoinInv /\ PinInv

LEMMA ControlStep == ASSUME SignalsAssumption, Control, [Next]_vars PROVE Control'
<1> USE DEF Control, SignalsAssumption, handler, pin, stream, S!Status
<1>1. CASE GpioInit \/ CreateFft \/ Join \/ ResetExit \/ CloseDevice \/ ReturnFromMain
  BY <1>1 DEF GpioInit, CreateFft, Join, ResetExit, CloseDevice, ReturnFromMain
<1>2. CASE StartReading \/ ReadReturns
  BY <1>2 DEF StartReading, ReadReturns, S!Call, S!Return
<1>3. CASE Streaming
  BY <1>3 DEF Streaming, S!EnterCallback, S!LeaveCallback, S!CancelInside, S!Fail
<1>4. CASE Fft
  BY <1>4 DEF Fft, FftSetup, FftRound, FftRoundEnds, FftExits
<1>5. ASSUME NEW t \in {"main", "fft"}, Signal(t) PROVE Control'
  BY <1>5 DEF Signal
<1>6. CASE HandlerCancels \/ HandlerStores \/ HandlerFindsNone
  BY <1>6 DEF HandlerCancels, HandlerStores, HandlerFindsNone, S!CancelTest,
     S!CancelStore
<1>7. CASE HandlerReleases \/ HandlerCloses
  BY <1>7 DEF HandlerReleases, HandlerCloses
<1>8. CASE HandlerCounts
  BY <1>8 DEF HandlerCounts, Alive
<1>9. CASE UNCHANGED vars
  BY <1>9 DEF vars
<1> QED
  BY <1>1, <1>2, <1>3, <1>4, <1>5, <1>6, <1>7, <1>8, <1>9 DEF Next, Main, Handler

LEMMA FlagsStep == ASSUME Flags, [Next]_vars PROVE Flags'
<1> USE Zenon DEF Flags, handler, pin, stream
<1>1. CASE GpioInit \/ CreateFft \/ Join \/ ResetExit \/ CloseDevice \/ ReturnFromMain
  BY <1>1 DEF GpioInit, CreateFft, Join, ResetExit, CloseDevice, ReturnFromMain
<1>2. CASE StartReading \/ ReadReturns
  BY <1>2 DEF StartReading, ReadReturns, S!Call, S!Return
<1>3. CASE Streaming
  BY <1>3 DEF Streaming, S!EnterCallback, S!LeaveCallback, S!CancelInside, S!Fail
<1>4. CASE Fft
  BY <1>4 DEF Fft, FftSetup, FftRound, FftRoundEnds, FftExits
<1>5. ASSUME NEW t \in {"main", "fft"}, Signal(t) PROVE Flags'
  BY <1>5 DEF Signal
<1>6. CASE HandlerCancels \/ HandlerStores \/ HandlerFindsNone
  BY <1>6 DEF HandlerCancels, HandlerStores, HandlerFindsNone, S!CancelTest,
     S!CancelStore
<1>7. CASE HandlerReleases \/ HandlerCloses
  BY <1>7 DEF HandlerReleases, HandlerCloses
<1>8. CASE HandlerCounts
  BY <1>8 DEF HandlerCounts
<1>9. CASE UNCHANGED vars
  BY <1>9 DEF vars
<1> QED
  BY <1>1, <1>2, <1>3, <1>4, <1>5, <1>6, <1>7, <1>8, <1>9 DEF Next, Main, Handler

LEMMA JoinStep ==
  ASSUME SignalsAssumption, Control, JoinInv, [Next]_vars
  PROVE  JoinInv'
<1> USE DEF Control, JoinInv, SignalsAssumption, handler, pin
<1>1. CASE GpioInit \/ CreateFft \/ Join
  BY <1>1 DEF GpioInit, CreateFft, Join, Runs
<1>2. CASE ResetExit \/ CloseDevice \/ ReturnFromMain
  BY <1>2 DEF ResetExit, CloseDevice, ReturnFromMain, Runs
<1>3. CASE StartReading \/ ReadReturns \/ Streaming
  BY <1>3 DEF StartReading, ReadReturns, Streaming
<1>4. CASE Fft
  BY <1>4 DEF Fft, FftSetup, FftRound, FftRoundEnds, FftExits, Runs
<1>5. ASSUME NEW t \in {"main", "fft"}, Signal(t) PROVE JoinInv'
  BY <1>5 DEF Signal
<1>6. CASE HandlerCancels \/ HandlerStores \/ HandlerFindsNone
  BY <1>6 DEF HandlerCancels, HandlerStores, HandlerFindsNone
<1>7. CASE HandlerReleases \/ HandlerCloses
  BY <1>7 DEF HandlerReleases, HandlerCloses
<1>8. CASE HandlerCounts
  BY <1>8 DEF HandlerCounts, Alive
<1>9. CASE UNCHANGED vars
  BY <1>9 DEF vars
<1> QED
  BY <1>1, <1>2, <1>3, <1>4, <1>5, <1>6, <1>7, <1>8, <1>9 DEF Next, Main, Handler

LEMMA PinStep == ASSUME JoinInv, PinInv, [Next]_vars PROVE PinInv'
<1> USE DEF JoinInv, PinInv, handler, pin
<1>1. CASE GpioInit \/ CreateFft \/ Join
  BY <1>1 DEF GpioInit, CreateFft, Join
<1>2. CASE ResetExit \/ CloseDevice \/ ReturnFromMain
  BY <1>2 DEF ResetExit, CloseDevice, ReturnFromMain
<1>3. CASE StartReading \/ ReadReturns \/ Streaming
  BY <1>3 DEF StartReading, ReadReturns, Streaming
<1>4. CASE Fft
  BY <1>4 DEF Fft, FftSetup, FftRound, FftRoundEnds, FftExits
<1>5. ASSUME NEW t \in {"main", "fft"}, Signal(t) PROVE PinInv'
  BY <1>5 DEF Signal
<1>6. CASE HandlerCancels \/ HandlerStores \/ HandlerFindsNone
  BY <1>6 DEF HandlerCancels, HandlerStores, HandlerFindsNone
<1>7. CASE HandlerReleases
  BY <1>7, Zenon DEF HandlerReleases
<1>8. CASE HandlerCloses \/ HandlerCounts
  BY <1>8 DEF HandlerCloses, HandlerCounts
<1>9. CASE UNCHANGED vars
  BY <1>9 DEF vars
<1> QED
  BY <1>1, <1>2, <1>3, <1>4, <1>5, <1>6, <1>7, <1>8, <1>9 DEF Next, Main, Handler

LEMMA InvInductive == Spec => [](Flags /\ IInv)
<1>1. ASSUME Init PROVE Flags /\ IInv
  <2>1. Flags
    BY <1>1, Zenon DEF Init, S!StreamInit, Flags
  <2>2. PinInv
    BY <1>1, Zenon DEF Init, PinInv
  <2>3. Control /\ JoinInv
    BY <1>1, SignalsAssumption
       DEF Init, S!StreamInit, S!Status, Control, JoinInv, SignalsAssumption
  <2> QED
    BY <2>1, <2>2, <2>3 DEF IInv
<1>2. ASSUME Flags /\ IInv, [Next]_vars PROVE (Flags /\ IInv)'
  BY <1>2, SignalsAssumption, ControlStep, FlagsStep, JoinStep, PinStep DEF IInv
<1> QED
  BY <1>1, <1>2, PTL DEF Spec

(***************************************************************************)
(* Every variable of the program's life keeps its type; in particular      *)
(* do_exit never passes 3, the value at which the handler exits.           *)
(***************************************************************************)
THEOREM TypeCorrect == Spec => []TypeOK
<1>1. Flags /\ IInv => TypeOK
  BY DEF Flags, IInv, Control, TypeOK
<1> QED
  BY <1>1, InvInductive, PTL

(***************************************************************************)
(* main gets past the join only with do_exit set, and only a signal sets   *)
(* it: a stream that ends by itself does not end the program.              *)
(***************************************************************************)
THEOREM OnlySignalsEndIt == Spec => []OnlySignalsEnd
<1>1. IInv => OnlySignalsEnd
  BY DEF IInv, Control, JoinInv, OnlySignalsEnd
<1> QED
  BY <1>1, InvInductive, PTL

(***************************************************************************)
(* A pin that a handler made an input stays an input.                      *)
(***************************************************************************)
THEOREM PinReleasedForGood == Spec => []PinStaysReleased
<1>1. IInv => PinStaysReleased
  BY DEF IInv, PinInv, PinStaysReleased
<1> QED
  BY <1>1, InvInductive, PTL

(***************************************************************************)
(* The device outlives every handler that runs on top of the FFT thread.   *)
(***************************************************************************)
THEOREM HandlerHasDevice == Spec => []HandlerOnFftHasDevice
<1>1. IInv => HandlerOnFftHasDevice
  BY DEF IInv, JoinInv, HandlerOnFftHasDevice
<1> QED
  BY <1>1, InvInductive, PTL
=============================================================================
