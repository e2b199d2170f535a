-------------------------------- MODULE Adsb --------------------------------
(***************************************************************************)
(* rtl_adsb.c from the creation of its demodulator thread on: main, which  *)
(* streams (AsyncStream) and leaves without joining, the demodulator, and  *)
(* the signal handler on top of either.  A mutex is used as a semaphore:   *)
(* the callback unlocks it after copying a buffer, whoever has it locked,  *)
(* and the demodulator only locks.  What is decoded is AdsbDecode's.       *)
(***************************************************************************)
EXTENDS Naturals

CONSTANTS
  MaxSignals,     \* bound on the signals sent
  MaxBuffers      \* bound on the callbacks made

ASSUME AdsbAssumption == MaxSignals \in Nat /\ MaxBuffers \in Nat

VARIABLES
  async_status, reading, in_cb, dev_lost, failed,   \* the stream
  cancelers,      \* threads in rtlsdr_cancel_async that have seen RUNNING
  main, cb, demod,  \* where main, its callback and the demodulator are
  hdl, on,        \* where the handler is, and the thread it interrupted
  do_exit,
  data_ready,     \* the mutex: "free", "locked", "destroyed"
  copied,         \* what the buffer has of the callback's: "never", "part",
                  \* "new", or "taken" by a round of the demodulator
  raced,          \* the last round began while the callback was at work
  rounds,         \* "none", "first", or "more" rounds so far
  signals, buffers  \* signals and callbacks so far

stream == <<async_status, reading, in_cb, dev_lost, failed, cancelers>>
handler == <<hdl, on, signals>>
work == <<data_ready, copied, raced, rounds>>
vars == <<stream, main, cb, demod, handler, do_exit, work, buffers>>

\* Here several threads may be between the test and the store of a cancel.
S == INSTANCE AsyncStream WITH canceler <- (cancelers # {})

Init ==
  /\ cancelers = {} /\ S!StreamInit
  /\ main = "create" /\ cb = "none" /\ demod = "none"
  /\ hdl = "idle" /\ on = "main" /\ do_exit = 0
  /\ data_ready = "free" /\ copied = "never" /\ raced = FALSE /\ rounds = "none"
  /\ signals = 0 /\ buffers = 0

\* A thread makes no step while the handler runs on top of it, or once main
\* has returned.
Runs(t) == (hdl = "idle" \/ on # t) /\ main # "exited"
HasDevice == main \notin {"free", "exit", "exited"}

\* rtlsdr_cancel_async.  On a device that is closed it may do anything; what
\* it reads there is not RUNNING.
CancelTest(t, goto_store, goto_end) ==
  /\ IF HasDevice /\ async_status = "RUNNING"
     THEN goto_store /\ cancelers' = cancelers \cup {t}
     ELSE goto_end /\ UNCHANGED cancelers
  /\ UNCHANGED <<async_status, reading, in_cb, dev_lost, failed>>

CancelStore(t) ==
  /\ cancelers' = cancelers \ {t}
  /\ async_status' = IF HasDevice THEN "CANCELING" ELSE async_status
  /\ UNCHANGED <<reading, in_cb, dev_lost, failed>>

-----------------------------------------------------------------------------
(* main: the thread, the stream ...                                        *)
CreateDemod ==
  /\ Runs("main") /\ main = "create"
  /\ main' = "read" /\ demod' = "loop"
  /\ UNCHANGED <<stream, cb, handler, do_exit, work, buffers>>

StartReading ==
  /\ Runs("main") /\ main = "read"
  /\ UNCHANGED cancelers /\ S!Call /\ main' = "reading"
  /\ UNCHANGED <<cb, demod, handler, do_exit, work, buffers>>

StreamFails ==
  /\ Runs("main") /\ main = "reading"
  /\ UNCHANGED cancelers /\ (S!CancelInside \/ S!Fail)
  /\ UNCHANGED <<main, cb, demod, handler, do_exit, work, buffers>>

ReadReturns ==
  /\ Runs("main") /\ main = "reading"
  /\ UNCHANGED cancelers /\ S!Return /\ main' = "cancel"
  /\ UNCHANGED <<cb, demod, handler, do_exit, work, buffers>>

(* ... and, canceled or not, the end.                                      *)
MainCancels ==
  /\ Runs("main")
  /\ \/ main = "cancel" /\ CancelTest("main", main' = "store", main' = "destroy")
     \/ main = "store" /\ CancelStore("main") /\ main' = "destroy"
  /\ UNCHANGED <<cb, demod, handler, do_exit, work, buffers>>

\* A mutex that is locked is left as it is (EBUSY).
DestroyMutex ==
  /\ Runs("main") /\ main = "destroy"
  /\ data_ready' = IF data_ready = "free" THEN "destroyed" ELSE data_ready
  /\ main' = "close"
  /\ UNCHANGED <<stream, cb, demod, handler, do_exit, copied, raced, rounds, buffers>>

\* rtlsdr_close waits for INACTIVE unless the device is lost.
CloseDevice ==
  /\ Runs("main") /\ main = "close" /\ (dev_lost \/ async_status = "INACTIVE")
  /\ main' = "free"
  /\ UNCHANGED <<stream, cb, demod, handler, do_exit, work, buffers>>

\* Mutant of FreeBuffer: main waits for the demodulator first.
FreeBufferJoins ==
  /\ Runs("main") /\ main = "free" /\ demod = "ended" /\ main' = "exit"
  /\ UNCHANGED <<stream, cb, demod, handler, do_exit, work, buffers>>

FreeBuffer ==
  /\ Runs("main") /\ main = "free" /\ main' = "exit"
  /\ UNCHANGED <<stream, cb, demod, handler, do_exit, work, buffers>>

ReturnFromMain ==
  /\ Runs("main") /\ main = "exit" /\ main' = "exited"
  /\ UNCHANGED <<stream, cb, demod, handler, do_exit, work, buffers>>

-----------------------------------------------------------------------------
(* rtlsdr_callback.  The copy is not one step for the demodulator.         *)
EnterCallback ==
  /\ Runs("main") /\ main = "reading" /\ buffers < MaxBuffers
  /\ UNCHANGED cancelers /\ S!EnterCallback
  /\ cb' = "enter" /\ buffers' = buffers + 1
  /\ UNCHANGED <<main, demod, handler, do_exit, work>>

Copies ==
  /\ Runs("main")
  /\ \/ cb = "enter" /\ do_exit # 0 /\ cb' = "leave" /\ UNCHANGED copied
     \/ cb = "enter" /\ do_exit = 0 /\ cb' = "copy" /\ copied' = "part"
     \/ cb = "copy" /\ cb' = "trylock" /\ copied' = "new"
  /\ UNCHANGED <<stream, main, demod, handler, do_exit, data_ready, raced, rounds, buffers>>

\* Mutant of TryLock: the result counts, and a mutex found locked stays so.
TryLockOrLeave ==
  /\ Runs("main") /\ cb = "trylock"
  /\ data_ready' = "locked" /\ cb' = IF data_ready = "locked" THEN "leave" ELSE "unlock"
  /\ UNCHANGED <<stream, main, demod, handler, do_exit, copied, raced, rounds, buffers>>

TryLock ==
  /\ Runs("main") /\ cb = "trylock"
  /\ data_ready' = "locked" /\ cb' = "unlock"
  /\ UNCHANGED <<stream, main, demod, handler, do_exit, copied, raced, rounds, buffers>>

Unlock ==
  /\ Runs("main") /\ cb = "unlock"
  /\ data_ready' = "free" /\ cb' = "leave"
  /\ UNCHANGED <<stream, main, demod, handler, do_exit, copied, raced, rounds, buffers>>

LeaveCallback ==
  /\ Runs("main") /\ cb = "leave"
  /\ UNCHANGED cancelers /\ S!LeaveCallback /\ cb' = "none"
  /\ UNCHANGED <<main, demod, handler, do_exit, work, buffers>>

-----------------------------------------------------------------------------
(* demod_thread_fn.                                                        *)
DemodLoop ==
  /\ Runs("demod") /\ demod = "loop"
  /\ demod' = IF do_exit = 0 THEN "lock" ELSE "cancel"
  /\ UNCHANGED <<stream, main, cb, handler, do_exit, work, buffers>>

\* A round begins with the lock.  One that is destroyed is an error, which
\* nobody looks at.
BeginRound ==
  /\ Runs("demod") /\ demod = "lock" /\ data_ready # "locked"
  /\ data_ready' = IF data_ready = "free" THEN "locked" ELSE data_ready
  /\ copied' = IF copied = "new" THEN "taken" ELSE copied
  /\ raced' = (cb \in {"copy", "trylock", "unlock"})
  /\ rounds' = IF rounds = "none" THEN "first" ELSE "more"
  /\ demod' = "decode"
  /\ UNCHANGED <<stream, main, cb, handler, do_exit, buffers>>

\* Mutant of EndRound: the demodulator unlocks what it locked.
EndRoundUnlocks ==
  /\ Runs("demod") /\ demod = "decode" /\ demod' = "loop"
  /\ data_ready' = IF data_ready = "locked" THEN "free" ELSE data_ready
  /\ UNCHANGED <<stream, main, cb, handler, do_exit, copied, raced, rounds, buffers>>

EndRound ==
  /\ Runs("demod") /\ demod = "decode" /\ demod' = "loop"
  /\ UNCHANGED <<stream, main, cb, handler, do_exit, work, buffers>>

DemodCancels ==
  /\ Runs("demod")
  /\ \/ demod = "cancel" /\ CancelTest("demod", demod' = "store", demod' = "ended")
     \/ demod = "store" /\ CancelStore("demod") /\ demod' = "ended"
  /\ UNCHANGED <<main, cb, handler, do_exit, work, buffers>>

-----------------------------------------------------------------------------
(* sighandler, on top of a thread that exists.                             *)
Signal(t) ==
  /\ hdl = "idle" /\ signals < MaxSignals /\ main # "exited"
  /\ t = "demod" => demod \notin {"none", "ended"}
  /\ hdl' = "set" /\ on' = t /\ signals' = signals + 1
  /\ UNCHANGED <<stream, main, cb, demod, do_exit, work, buffers>>

SetExit ==
  /\ hdl = "set" /\ main # "exited"
  /\ do_exit' = 1 /\ hdl' = "cancel"
  /\ UNCHANGED <<stream, main, cb, demod, on, signals, work, buffers>>

HandlerCancels ==
  /\ main # "exited"
  /\ \/ hdl = "cancel" /\ CancelTest("handler", hdl' = "store", hdl' = "idle")
     \/ hdl = "store" /\ CancelStore("handler") /\ hdl' = "idle"
  /\ UNCHANGED <<main, cb, demod, on, signals, do_exit, work, buffers>>

-----------------------------------------------------------------------------
MainEnds == MainCancels \/ DestroyMutex \/ CloseDevice \/ FreeBuffer \/ ReturnFromMain
Callback == Copies \/ TryLock \/ Unlock \/ LeaveCallback
Demod == DemodLoop \/ BeginRound \/ EndRound \/ DemodCancels
Handler == SetExit \/ HandlerCancels
Main == CreateDemod \/ StartReading \/ ReadReturns \/ MainEnds

Next ==
  \/ Main \/ StreamFails \/ EnterCallback \/ Callback \/ Demod \/ Handler
  \/ \E t \in {"main", "demod"} : Signal(t)

\* The threads, the callback and the handler run on; nothing makes the stream
\* fail, a buffer or a signal arrive.
Fairness == WF_vars(Main) /\ WF_vars(Callback) /\ WF_vars(Demod) /\ WF_vars(Handler)
Spec == Init /\ [][Next]_vars /\ Fairness

-----------------------------------------------------------------------------
\* The types; the callback runs exactly while the stream is in one (lines 335-342).
TypeOK ==
  /\ async_status \in S!Status /\ cancelers \subseteq {"main", "demod", "handler"}
  /\ {reading, in_cb, dev_lost, failed, raced} \subseteq BOOLEAN
  /\ main \in {"create", "read", "reading", "cancel", "store", "destroy", "close",
               "free", "exit", "exited"}
  /\ cb \in {"none", "enter", "copy", "trylock", "unlock", "leave"} /\ in_cb = (cb # "none")
  /\ demod \in {"none", "loop", "lock", "decode", "cancel", "store", "ended"}
  /\ hdl \in {"idle", "set", "cancel", "store"} /\ on \in {"main", "demod"}
  /\ do_exit \in {0, 1} /\ data_ready \in {"free", "locked", "destroyed"}
  /\ copied \in {"never", "part", "new", "taken"} /\ rounds \in {"none", "first", "more"}
  /\ signals \in 0 .. MaxSignals /\ buffers \in 0 .. MaxBuffers

\* A round has data that no round had, be it while the callback writes over it,
\* but for the first round, which comes before any data (the mutex begins
\* unlocked), the round after one that ran into the callback (line 340), and
\* those after main has destroyed the mutex.
RoundsAreNew ==
  [][BeginRound => \/ copied \in {"part", "new"} \/ rounds = "none" \/ raced
                   \/ data_ready = "destroyed"]_vars

\* A buffer that was copied is decoded, or written over, unless the stream or
\* the program ends: the unlock is never lost on a demodulator that waits.
NewIsDecoded ==
  copied = "new" ~> (copied # "new" \/ do_exit = 1 \/ ~reading)

\* Once the stream is being canceled, main returns, unless a cancel came after
\* the stream had ended, or left it canceling: then rtlsdr_close waits for ever.
CancelEnds ==
  (reading /\ async_status = "CANCELING")
    ~> (main = "exited" \/ (~reading /\ async_status = "CANCELING"))
=============================================================================
