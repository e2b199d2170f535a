------------------------------- MODULE RtlTcp -------------------------------
(***************************************************************************)
(* The life of rtl_tcp.c: main, the FFT thread and the signal handler,     *)
(* which runs on top of one of the two, composed with the stream of        *)
(* librtlsdr (AsyncStream).  What goes through the queue is SampleQueue's. *)
(***************************************************************************)
EXTENDS Naturals

CONSTANT MaxSignals     \* bound on the signals sent

ASSUME SignalsAssumption == MaxSignals \in Nat

VARIABLES
  async_status, reading, in_cb, canceler, dev_lost, failed,   \* the stream
  main, fft,       \* where the two threads are
  hdl, on,         \* where the handler is, and the thread it interrupted
  do_exit,
  signals,         \* signals delivered so far
  gpio,            \* the bcm2835 library is initialised
  output,          \* DETECTION_PIN is configured as an output
  released         \* a handler made the pin an input after the FFT's pin setup

stream == <<async_status, reading, in_cb, canceler, dev_lost, failed>>
pin == <<gpio, output, released>>
handler == <<hdl, on, signals>>
vars == <<stream, main, fft, do_exit, pin, handler>>

S == INSTANCE AsyncStream

Init ==
  /\ S!StreamInit
  /\ main = "setup" /\ fft = "none" /\ hdl = "idle" /\ on = "main"
  /\ do_exit = 0 /\ signals = 0
  /\ gpio = FALSE /\ output = FALSE /\ released = FALSE

\* A thread makes no step while the handler runs on top of it.
Runs(t) == hdl = "idle" \/ on # t

-----------------------------------------------------------------------------
(* main, from the sigaction calls on: the pin library, the FFT thread ... *)
GpioInit ==
  /\ Runs("main") /\ main = "setup"
  /\ \/ gpio' = TRUE /\ main' = "create"
     \/ main' = "exited" /\ UNCHANGED gpio                        \* return 1
  /\ UNCHANGED <<stream, fft, do_exit, output, released, handler>>

CreateFft ==
  /\ Runs("main") /\ main = "create"
  /\ main' = "read" /\ fft' = "setup"
  /\ UNCHANGED <<stream, do_exit, pin, handler>>

(* ... the stream, which is canceled or ends by itself ... *)
StartReading ==
  /\ Runs("main") /\ main = "read"
  /\ S!Call /\ main' = "reading"
  /\ UNCHANGED <<fft, do_exit, pin, handler>>

Streaming ==
  /\ Runs("main") /\ main = "reading"
  /\ S!EnterCallback \/ S!LeaveCallback \/ S!CancelInside \/ S!Fail
  /\ UNCHANGED <<main, fft, do_exit, pin, handler>>

LeaveCallback == Streaming /\ S!LeaveCallback

\* Mutant of ReadReturns: do_exit is reset before the join.
ReadReturnsResets ==
  /\ Runs("main") /\ main = "reading"
  /\ S!Return /\ main' = "join" /\ do_exit' = 0
  /\ UNCHANGED <<fft, pin, handler>>

ReadReturns ==
  /\ Runs("main") /\ main = "reading"
  /\ S!Return /\ main' = "join"
  /\ UNCHANGED <<fft, do_exit, pin, handler>>

\* Mutant of Join: main does not wait.
JoinAtOnce ==
  /\ Runs("main") /\ main = "join"
  /\ main' = "drain"
  /\ UNCHANGED <<stream, fft, do_exit, pin, handler>>

(* ... pthread_join, the rest of the list freed, do_exit = 0 ... *)
Join ==
  /\ Runs("main") /\ main = "join" /\ fft = "exited"
  /\ main' = "drain"
  /\ UNCHANGED <<stream, fft, do_exit, pin, handler>>

ResetExit ==
  /\ Runs("main") /\ main = "drain"
  /\ do_exit' = 0 /\ main' = "close"
  /\ UNCHANGED <<stream, fft, pin, handler>>

(* ... and rtlsdr_close, which waits for INACTIVE unless the device is lost. *)
CloseDevice ==
  /\ Runs("main") /\ main = "close"
  /\ dev_lost \/ async_status = "INACTIVE"
  /\ main' = "freed"
  /\ UNCHANGED <<stream, fft, do_exit, pin, handler>>

ReturnFromMain ==
  /\ Runs("main") /\ main = "freed"
  /\ main' = "exited"
  /\ UNCHANGED <<stream, fft, do_exit, pin, handler>>

-----------------------------------------------------------------------------
(* ducky_fft.  The pin becomes an output, if the library is still open. *)
FftSetup ==
  /\ Runs("fft") /\ fft = "setup" /\ main # "exited"
  /\ output' = (gpio \/ output) /\ fft' = "loop"
  /\ UNCHANGED <<stream, main, do_exit, gpio, released, handler>>

\* Mutant of FftRound: every round configures the pin.
FftRoundSetsPin ==
  /\ Runs("fft") /\ fft = "loop" /\ do_exit = 0 /\ main # "exited"
  /\ fft' = "work" /\ output' = (gpio \/ output)
  /\ UNCHANGED <<stream, main, do_exit, gpio, released, handler>>

\* while (!do_exit): a round takes the list and computes what it holds.
FftRound ==
  /\ Runs("fft") /\ fft = "loop" /\ do_exit = 0 /\ main # "exited"
  /\ fft' = "work"
  /\ UNCHANGED <<stream, main, do_exit, pin, handler>>

FftRoundEnds ==
  /\ Runs("fft") /\ fft = "work" /\ main # "exited"
  /\ fft' = "loop"
  /\ UNCHANGED <<stream, main, do_exit, pin, handler>>

\* Mutant of FftExits: the thread ends with the stream.
FftExitsWithStream ==
  /\ Runs("fft") /\ fft = "loop" /\ main = "join"
  /\ fft' = "exited"
  /\ UNCHANGED <<stream, main, do_exit, pin, handler>>

FftExits ==
  /\ Runs("fft") /\ fft = "loop" /\ do_exit # 0 /\ main # "exited"
  /\ fft' = "exited"
  /\ UNCHANGED <<stream, main, do_exit, pin, handler>>

-----------------------------------------------------------------------------
(* sighandler, on top of a living thread t. *)
Signal(t) ==
  /\ hdl = "idle" /\ main # "exited" /\ signals < MaxSignals
  /\ t = "fft" => fft \in {"setup", "loop", "work"}
  /\ hdl' = "cancel" /\ on' = t /\ signals' = signals + 1
  /\ UNCHANGED <<stream, main, fft, do_exit, pin>>

Alive == main # "exited"

\* rtlsdr_cancel_async: of a running device; otherwise -2, which is ignored.
HandlerCancels ==
  /\ Alive /\ hdl = "cancel" /\ main # "freed" /\ S!CancelTest
  /\ hdl' = "store"
  /\ UNCHANGED <<main, fft, on, do_exit, pin, signals>>

HandlerStores ==
  /\ Alive /\ hdl = "store" /\ S!CancelStore
  /\ hdl' = "release"
  /\ UNCHANGED <<main, fft, on, do_exit, pin, signals>>

HandlerFindsNone ==
  /\ Alive /\ hdl = "cancel" /\ (async_status # "RUNNING" \/ main = "freed")
  /\ hdl' = "release"
  /\ UNCHANGED <<stream, main, fft, on, do_exit, pin, signals>>

\* gpio_clr, gpio_fsel(INPT)
HandlerReleases ==
  /\ Alive /\ hdl = "release"
  /\ output' = (output /\ ~gpio)
  /\ released' = (released \/ (gpio /\ fft \in {"loop", "work", "exited"}))
  /\ hdl' = "close"
  /\ UNCHANGED <<stream, main, fft, on, do_exit, gpio, signals>>

HandlerCloses ==                                              \* bcm2835_close
  /\ Alive /\ hdl = "close"
  /\ gpio' = FALSE /\ hdl' = "count"
  /\ UNCHANGED <<stream, main, fft, on, do_exit, output, released, signals>>

\* Mutant of HandlerCounts: no hard exit.
HandlerCountsOn ==
  /\ Alive /\ hdl = "count"
  /\ do_exit' = do_exit + 1 /\ hdl' = "idle"
  /\ UNCHANGED <<stream, main, fft, on, pin, signals>>

\* do_exit++; at 2 the user is asked to press again, at 3 it is exit(0).
HandlerCounts ==
  /\ Alive /\ hdl = "count"
  /\ do_exit' = do_exit + 1
  /\ main' = IF do_exit' = 3 THEN "exited" ELSE main
  /\ hdl' = "idle"
  /\ UNCHANGED <<stream, fft, on, pin, signals>>

Main ==
  \/ GpioInit \/ CreateFft \/ StartReading \/ Streaming \/ ReadReturns
  \/ Join \/ ResetExit \/ CloseDevice \/ ReturnFromMain
Fft == FftSetup \/ FftRound \/ FftRoundEnds \/ FftExits
Handler ==
  \/ HandlerCancels \/ HandlerStores \/ HandlerFindsNone
  \/ HandlerReleases \/ HandlerCloses \/ HandlerCounts

Next == Main \/ Fft \/ Handler \/ \E t \in {"main", "fft"} : Signal(t)

Spec == Init /\ [][Next]_vars

(***************************************************************************)
(* Fairness: the threads and the handler run.  Nothing makes the stream    *)
(* end by itself, data arrive or a signal come.  That a canceled read      *)
(* returns however often its callback runs (SF) is AsyncRead!CancelReturns.*)
(***************************************************************************)
FairSpec ==
  /\ Spec /\ WF_vars(Fft) /\ WF_vars(Handler) /\ SF_vars(ReadReturns)
  /\ WF_vars(LeaveCallback)
  /\ WF_vars(GpioInit \/ CreateFft \/ StartReading \/ Join \/ ResetExit
             \/ CloseDevice \/ ReturnFromMain)

-----------------------------------------------------------------------------
TypeOK ==
  /\ async_status \in S!Status
  /\ reading \in BOOLEAN /\ in_cb \in BOOLEAN /\ canceler \in BOOLEAN
  /\ dev_lost \in BOOLEAN /\ failed \in BOOLEAN
  /\ main \in {"setup", "create", "read", "reading", "join", "drain", "close",
               "freed", "exited"}
  /\ fft \in {"none", "setup", "loop", "work", "exited"}
  /\ hdl \in {"idle", "cancel", "store", "release", "close", "count"}
  /\ on \in {"main", "fft"}
  /\ do_exit \in 0..3 /\ signals \in 0..MaxSignals
  /\ gpio \in BOOLEAN /\ output \in BOOLEAN /\ released \in BOOLEAN

\* rtlsdr_close waits for a device that nobody will make INACTIVE.
LeftCanceling ==
  ~reading /\ async_status = "CANCELING" /\ ~dev_lost /\ main = "close"

(***************************************************************************)
(* A signal that finds the stream running, or already over, ends the       *)
(* program: the read returns, the FFT thread notices, the join and the     *)
(* close come back.  The one exception is a device left CANCELING, by an   *)
(* event handling that failed or by a store that came after the return.    *)
(***************************************************************************)
CaughtSignalExits ==
  (do_exit > 0 /\ (async_status = "CANCELING" \/ main = "join"))
    ~> (main = "exited" \/ LeftCanceling)

(***************************************************************************)
(* A stream that ends by itself (device lost, read failed) does not end    *)
(* the program: main gets past pthread_join only by a signal, and finds    *)
(* do_exit set, since only main resets it.                                 *)
(***************************************************************************)
OnlySignalsEnd ==
  /\ main = "drain" => do_exit > 0
  /\ main \in {"close", "freed"} => signals > 0

(***************************************************************************)
(* Once a handler has made DETECTION_PIN an input after the FFT thread had *)
(* set it up, it stays one to the end of the process, even if the FFT      *)
(* thread works on and more signals come.                                  *)
(***************************************************************************)
PinStaysReleased == released => ~output

(***************************************************************************)
(* While a handler runs on top of the FFT thread, main does not get past   *)
(* its join, so the device is neither closed nor freed under the handler.  *)
(***************************************************************************)
HandlerOnFftHasDevice ==
  hdl # "idle" /\ on = "fft" => main \notin {"drain", "close", "freed"}
=============================================================================
