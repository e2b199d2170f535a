----------------------------- MODULE FmPipeline -----------------------------
(***************************************************************************)
(* The two threads of rtl_fm.c.  main reads the device and stores what it  *)
(* read in fm.buf; the demodulator waits for data_ready, filters fm.buf    *)
(* and, when several channels are scanned, retunes the device itself.      *)
(* safe_cond_wait waits for no predicate: a signal that nobody waits for   *)
(* is lost, and a wakeup does not say that fm.buf is new.                  *)
(***************************************************************************)
EXTENDS Naturals

CONSTANTS
  MaxFreqs,        \* most channels given with -f
  MaxConseq,       \* largest squelch delay (-t)
  MaxSpurious      \* bound on the spurious wakeups of pthread_cond_wait

ASSUME PipelineAssumption ==
  /\ MaxFreqs \in Nat \ {0}
  /\ MaxConseq \in Nat /\ MaxSpurious \in Nat

VARIABLES
  main, demod,                  \* where the two threads are
  do_exit, exit_flag,
  data_rw,                      \* the thread that holds the rwlock, or "free"
  first, rest,                  \* the two parts of fm.buf, as the parity of their read
  buf_len,                      \* "unset" until the first store
  freq_len, conseq_squelch, terminate_on_squelch, raw,        \* the options
  freq_now, squelch_hits,
  read_age, buf_age,            \* "old": main's buffer, or fm.buf, has samples
                                \* from before the end of the last retune
  uses,                         \* times the present fm.buf was demodulated
  stale,                        \* old buffers demodulated since the last retune
  spurious

options == <<freq_len, conseq_squelch, terminate_on_squelch, raw>>
exits == <<do_exit, exit_flag>>
buf == <<first, rest, buf_len, buf_age>>
squelch == <<freq_now, squelch_hits>>
seen == <<uses, stale>>
vars == <<main, demod, exits, data_rw, buf, options, squelch, read_age, seen,
          spurious>>

Init ==
  /\ main = "loop" /\ demod = "test"
  /\ do_exit = FALSE /\ exit_flag = FALSE /\ data_rw = "free"
  /\ first = 0 /\ rest = 0 /\ buf_len = "unset"
  /\ freq_len \in 1..MaxFreqs /\ conseq_squelch \in 0..MaxConseq
  /\ terminate_on_squelch \in IF freq_len > 1 THEN {FALSE} ELSE BOOLEAN
  /\ raw \in BOOLEAN
  /\ freq_now = 0 /\ squelch_hits = 0
  /\ read_age = "new" /\ buf_age = "new"
  /\ uses = 0 /\ stale = 0 /\ spurious = 0

\* What pthread_cond_signal does to the demodulator: nothing unless it waits.
Woken == IF demod = "wait" THEN "woken" ELSE demod

-----------------------------------------------------------------------------
(* main: while (!do_exit) sync_read. *)
ReadSync ==
  /\ main = "loop" /\ ~do_exit
  /\ main' = "read" /\ read_age' = "new"
  /\ UNCHANGED <<demod, exits, data_rw, buf, options, squelch, seen, spurious>>

\* Mutant of ReadFails: the return is missing, data_ready is signalled.
ReadFailsSignals ==
  /\ main = "read"
  /\ main' = "signal"
  /\ UNCHANGED <<demod, exits, data_rw, buf, options, squelch, read_age, seen,
                 spurious>>

\* rtlsdr_read_sync fails: a warning, and the next round.
ReadFails ==
  /\ main = "read"
  /\ main' = "loop"
  /\ UNCHANGED <<demod, exits, data_rw, buf, options, squelch, read_age, seen,
                 spurious>>

\* Mutant of StoreFirst: the copy takes no lock.
StoreUnlocked ==
  /\ main = "read"
  /\ main' = "copy" /\ first' = 1 - first
  /\ UNCHANGED <<demod, exits, data_rw, rest, buf_len, buf_age, options, squelch,
                 read_age, seen, spurious>>

\* The samples are there, and the lock: memcpy begins ...
StoreFirst ==
  /\ main = "read" /\ data_rw = "free"
  /\ main' = "copy" /\ data_rw' = "main" /\ first' = 1 - first
  /\ UNCHANGED <<demod, exits, rest, buf_len, buf_age, options, squelch, read_age,
                 seen, spurious>>

(* ... and ends. *)
StoreRest ==
  /\ main = "copy"
  /\ main' = "signal" /\ data_rw' = "free"
  /\ rest' = first /\ buf_len' = "set" /\ buf_age' = read_age /\ uses' = 0
  /\ UNCHANGED <<demod, exits, first, options, squelch, read_age, stale, spurious>>

SignalReady ==
  /\ main = "signal"
  /\ main' = "loop" /\ demod' = Woken
  /\ UNCHANGED <<exits, data_rw, buf, options, squelch, read_age, seen, spurious>>

LeaveLoop ==
  /\ main = "loop" /\ do_exit
  /\ main' = "last"
  /\ UNCHANGED <<demod, exits, data_rw, buf, options, squelch, read_age, seen,
                 spurious>>

\* The signal after the loop, so that the demodulator sees do_exit.
LastSignal ==
  /\ main = "last"
  /\ main' = "join" /\ demod' = Woken
  /\ UNCHANGED <<exits, data_rw, buf, options, squelch, read_age, seen, spurious>>

Join ==
  /\ main = "join" /\ demod = "ended"
  /\ main' = "done"
  /\ UNCHANGED <<demod, exits, data_rw, buf, options, squelch, read_age, seen,
                 spurious>>

-----------------------------------------------------------------------------
(* demod_thread_fn: while (!do_exit), and safe_cond_wait.  The mutex is held *)
(* only around the wait and around the signal.                               *)
TestExit ==
  /\ demod = "test"
  /\ demod' = IF do_exit THEN "ended" ELSE "enter"
  /\ UNCHANGED <<main, exits, data_rw, buf, options, squelch, read_age, seen,
                 spurious>>

\* Mutant of CondWait: no wait once there is a buffer.
CondWaitIfUnset ==
  /\ demod = "enter"
  /\ demod' = IF buf_len = "unset" THEN "wait" ELSE "woken"
  /\ UNCHANGED <<main, exits, data_rw, buf, options, squelch, read_age, seen,
                 spurious>>

CondWait ==
  /\ demod = "enter"
  /\ demod' = "wait"
  /\ UNCHANGED <<main, exits, data_rw, buf, options, squelch, read_age, seen,
                 spurious>>

SpuriousWakeup ==
  /\ demod = "wait" /\ spurious < MaxSpurious
  /\ demod' = "woken" /\ spurious' = spurious + 1
  /\ UNCHANGED <<main, exits, data_rw, buf, options, squelch, read_age, seen>>

(* full_demod: under the lock the buffer is rotated in place and filtered ... *)
Filter ==
  /\ demod = "woken" /\ data_rw = "free"
  /\ demod' = "filter" /\ data_rw' = "demod"
  /\ uses' = uses + 1
  /\ stale' = IF buf_age = "old" THEN stale + 1 ELSE stale
  /\ UNCHANGED <<main, exits, buf, options, squelch, read_age, spurious>>

Filtered ==
  /\ demod = "filter"
  /\ demod' = "demod" /\ data_rw' = "free"
  /\ UNCHANGED <<main, exits, buf, options, squelch, read_age, seen, spurious>>

\* ... the raw mode writes its output and returns ...
DemodRaw ==
  /\ demod = "demod" /\ raw
  /\ demod' = "check"
  /\ UNCHANGED <<main, exits, data_rw, buf, options, squelch, read_age, seen,
                 spurious>>

(* ... the others pass the squelch.  squelch_hits saturates above the delay, *)
(* it is only compared with it.                                              *)
Active ==
  /\ demod = "demod" /\ ~raw
  /\ squelch_hits' = 0 /\ demod' = "check"
  /\ UNCHANGED <<main, exits, data_rw, buf, options, freq_now, read_age, seen,
                 spurious>>

Quiet ==
  /\ demod = "demod" /\ ~raw
  /\ squelch_hits' = IF squelch_hits > conseq_squelch
                     THEN squelch_hits ELSE squelch_hits + 1
  /\ LET closed == squelch_hits' > conseq_squelch IN
       /\ exit_flag' = (exit_flag \/ (closed /\ terminate_on_squelch))
       /\ demod' = IF closed /\ freq_len > 1 THEN "hop" ELSE "check"
  /\ UNCHANGED <<main, do_exit, data_rw, buf, options, freq_now, read_age, seen,
                 spurious>>

\* Mutant of Retune: the last channel has a next one.
RetuneOn ==
  /\ demod = "hop"
  /\ freq_now' = freq_now + 1
  /\ squelch_hits' = conseq_squelch + 1
  /\ demod' = "flush"
  /\ UNCHANGED <<main, exits, data_rw, buf, options, read_age, seen, spurious>>

(* The hop: the next channel, with a hair trigger ... *)
Retune ==
  /\ demod = "hop"
  /\ freq_now' = (freq_now + 1) % freq_len
  /\ squelch_hits' = conseq_squelch + 1
  /\ demod' = "flush"
  /\ UNCHANGED <<main, exits, data_rw, buf, options, read_age, seen, spurious>>

(* ... 5 ms to settle, and BUFFER_DUMP bytes read away from the device.     *)
(* What main has read or is reading by now stays, and so does fm.buf.       *)
Flush ==
  /\ demod = "flush"
  /\ demod' = "check"
  /\ read_age' = "old" /\ buf_age' = "old" /\ stale' = 0
  /\ UNCHANGED <<main, exits, data_rw, first, rest, buf_len, options, squelch,
                 uses, spurious>>

\* Mutant of CheckExitFlag: exit_flag is forgotten.
CheckNoFlag ==
  /\ demod = "check"
  /\ demod' = "test"
  /\ UNCHANGED <<main, exits, data_rw, buf, options, squelch, read_age, seen,
                 spurious>>

CheckExitFlag ==
  /\ demod = "check"
  /\ do_exit' = (do_exit \/ exit_flag)
  /\ demod' = "test"
  /\ UNCHANGED <<main, exit_flag, data_rw, buf, options, squelch, read_age, seen,
                 spurious>>

-----------------------------------------------------------------------------
\* sighandler
Interrupt ==
  /\ main # "done" /\ ~do_exit
  /\ do_exit' = TRUE
  /\ UNCHANGED <<main, demod, exit_flag, data_rw, buf, options, squelch, read_age,
                 seen, spurious>>

Main ==
  \/ ReadSync \/ ReadFails \/ StoreFirst \/ StoreRest \/ SignalReady
  \/ LeaveLoop \/ LastSignal \/ Join

FullDemod ==
  \/ Filter \/ Filtered \/ DemodRaw \/ Active \/ Quiet \/ Retune \/ Flush

Demod == TestExit \/ CondWait \/ FullDemod \/ CheckExitFlag

Next == Main \/ Demod \/ SpuriousWakeup \/ Interrupt

Spec == Init /\ [][Next]_vars

FairSpec == Spec /\ WF_vars(Main) /\ WF_vars(Demod)
-----------------------------------------------------------------------------
(* Every variable of the two threads keeps its type. *)
TypeOK ==
  /\ main \in {"loop", "read", "copy", "signal", "last", "join", "done"}
  /\ demod \in {"test", "enter", "wait", "woken", "filter", "demod", "hop",
                "flush", "check", "ended"}
  /\ do_exit \in BOOLEAN /\ exit_flag \in BOOLEAN
  /\ data_rw \in {"free", "main", "demod"}
  /\ first \in {0, 1} /\ rest \in {0, 1} /\ buf_len \in {"unset", "set"}
  /\ freq_len \in 1..MaxFreqs /\ conseq_squelch \in 0..MaxConseq
  /\ terminate_on_squelch \in BOOLEAN /\ raw \in BOOLEAN
  /\ freq_now \in 0..(freq_len - 1) /\ squelch_hits \in 0..(conseq_squelch + 1)
  /\ read_age \in {"new", "old"} /\ buf_age \in {"new", "old"}
  /\ uses \in Nat /\ stale \in Nat /\ spurious \in 0..MaxSpurious

(* What full_demod rotates and filters is one read as a whole, however main *)
(* goes on reading (the rwlock of lines 609-616 and 680-683).               *)
NoTornBuffer == demod = "filter" => first = rest

\* The signal after the loop has been sent.
LastSent == main \in {"join", "done"}

(* How many wakeups no stored buffer stands for. *)
Extra == spurious + IF LastSent THEN 1 ELSE 0

(* A buffer is demodulated twice at most: once when it replaces, before its *)
(* signal, the buffer that the demodulator was woken for, and once for its  *)
(* own signal.  Only spurious wakeups and the last signal add to that.      *)
UsedTwice == uses <= 2 + Extra

(* fm.buf, which nothing initialises, is demodulated before the first read  *)
(* only after a spurious wakeup or the signal that ends the program.        *)
UnfilledOnlyAtExit == uses > 0 /\ buf_len = "unset" => Extra > 0

(* After a hop at most one buffer with samples of the former channel gets   *)
(* through to the squelch (the flush of lines 648-650 removes the others).  *)
OneStaleAfterHop == stale <= 1 + Extra

\* main waits for a demodulator that waits for a signal.
BothWait == main = "join" /\ demod = "wait"

(* Once do_exit is set the program ends, unless the last signal came between *)
(* the demodulator's test and its wait; and when the squelch itself sets     *)
(* do_exit (-t with a negative delay) it always ends.                        *)
ExitsUnlessAsleep ==
  /\ do_exit ~> (main = "done" \/ BothWait)
  /\ exit_flag ~> main = "done"
=============================================================================
