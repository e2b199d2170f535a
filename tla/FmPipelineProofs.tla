-------------------------- MODULE FmPipelineProofs --------------------------
(***************************************************************************)
(* Proofs about FmPipeline: its type invariant, the whole buffers, and the *)
(* bounds on buffers demodulated twice, before any read, or after a hop.   *)
(***************************************************************************)
EXTENDS FmPipeline, TLAPS

(* One when p, for counting the uses of a buffer that are still to come. *)
One(p) == IF p THEN 1 ELSE 0

(* The types of the flags, and of everything else. *)
Flags ==
  /\ do_exit \in BOOLEAN /\ exit_flag \in BOOLEAN
  /\ terminate_on_squelch \in BOOLEAN /\ raw \in BOOLEAN

Ranges ==
  /\ main \in {"loop", "read", "copy", "signal", "last", "join", "done"}
  /\ demod \in {"test", "enter", "wait", "woken", "filter", "demod", "hop",
                "flush", "check", "ended"}
  /\ data_rw \in {"free", "main", "demod"}
  /\ first \in {0, 1} /\ rest \in {0, 1} /\ buf_len \in {"unset", "set"}
  /\ freq_len \in 1..MaxFreqs /\ conseq_squelch \in 0..MaxConseq
  /\ freq_now \in 0..(freq_len - 1) /\ squelch_hits \in 0..(conseq_squelch + 1)
  /\ read_age \in {"new", "old"} /\ buf_age \in {"new", "old"}
  /\ uses \in Nat /\ stale \in Nat /\ spurious \in 0..MaxSpurious

(* main holds the lock exactly while it copies, and the parts of fm.buf     *)
(* differ only then.                                                        *)
LockInv ==
  /\ data_rw = "main" <=> main = "copy"
  /\ data_rw = "demod" <=> demod = "filter"
  /\ main # "copy" => first = rest

(* The present buffer has been used, will be by the wakeup under way, and   *)
(* will be for main's signal.                                               *)
UseInv == uses + One(demod = "woken") + One(main = "signal") <= 2 + Extra

(* Nothing but an extra wakeup reaches a buffer that was never stored. *)
UnsetInv ==
  buf_len = "unset" =>
    /\ main # "signal"
    /\ Extra > 0 \/ (demod # "woken" /\ uses = 0)

(* main's next signal stands for an old buffer. *)
OldComing ==
  \/ main \in {"read", "copy"} /\ read_age = "old"
  \/ main = "signal" /\ buf_age = "old"

(* The old buffers used since the hop, the one about to be, and the one     *)
(* that main still has to announce: one in all.                             *)
StaleInv ==
  /\ main \in {"read", "copy"} /\ read_age = "old" => buf_age = "old"
  /\ stale + One(demod = "woken" /\ buf_age = "old") + One(OldComing) <= 1 + Extra

-----------------------------------------------------------------------------
LEMMA FlagsStep == ASSUME Flags, [Next]_vars PROVE Flags'
<1> USE Zenon DEF Flags, options, exits, buf, squelch, seen
<1>1. CASE ReadSync \/ ReadFails
  BY <1>1 DEF ReadSync, ReadFails
<1>2. CASE StoreFirst
  BY <1>2 DEF StoreFirst
<1>3. CASE StoreRest
  BY <1>3 DEF StoreRest
<1>4. CASE SignalReady \/ LastSignal
  BY <1>4 DEF SignalReady, LastSignal
<1>5. CASE LeaveLoop \/ Join
  BY <1>5 DEF LeaveLoop, Join
<1>6. CASE TestExit \/ CondWait
  BY <1>6 DEF TestExit, CondWait
<1>7. CASE SpuriousWakeup
  BY <1>7 DEF SpuriousWakeup
<1>8. CASE Filter
  BY <1>8 DEF Filter
<1>9. CASE Filtered \/ DemodRaw \/ Active
  BY <1>9 DEF Filtered, DemodRaw, Active
<1>10. CASE Quiet
  BY <1>10 DEF Quiet
<1>11. CASE Retune
  BY <1>11 DEF Retune
<1>12. CASE Flush
  BY <1>12 DEF Flush
<1>13. CASE CheckExitFlag \/ Interrupt
  BY <1>13 DEF CheckExitFlag, Interrupt
<1>14. CASE UNCHANGED vars
  BY <1>14 DEF vars
<1> QED
  BY <1>1, <1>2, <1>3, <1>4, <1>5, <1>6, <1>7, <1>8, <1>9, <1>10, <1>11, <1>12,
     <1>13, <1>14 DEF Next, Main, Demod, FullDemod

LEMMA RangesStep ==
  ASSUME PipelineAssumption, Ranges, [Next]_vars
  PROVE  Ranges'
<1> USE DEF PipelineAssumption, Ranges, options, exits, buf, squelch, seen
<1>1. CASE ReadSync \/ ReadFails
  BY <1>1 DEF ReadSync, ReadFails
<1>2. CASE StoreFirst
  BY <1>2 DEF StoreFirst
<1>3. CASE StoreRest
  BY <1>3 DEF StoreRest
<1>4. CASE SignalReady \/ LastSignal
  BY <1>4 DEF SignalReady, LastSignal, Woken
<1>5. CASE LeaveLoop \/ Join
  BY <1>5 DEF LeaveLoop, Join
<1>6. CASE TestExit \/ CondWait
  BY <1>6 DEF TestExit, CondWait
<1>7. CASE SpuriousWakeup
  BY <1>7 DEF SpuriousWakeup
<1>8. CASE Filter
  BY <1>8 DEF Filter
<1>9. CASE Filtered \/ DemodRaw \/ Active
  BY <1>9 DEF Filtered, DemodRaw, Active
<1>10. CASE Quiet
  BY <1>10 DEF Quiet
<1>11. CASE Retune
  <2>1. (freq_now + 1) % freq_len \in 0..(freq_len - 1)
    OBVIOUS
  <2> QED
    BY <1>11, <2>1 DEF Retune
<1>12. CASE Flush
  BY <1>12 DEF Flush
<1>13. CASE CheckExitFlag \/ Interrupt
  BY <1>13 DEF CheckExitFlag, Interrupt
<1>14. CASE UNCHANGED vars
  BY <1>14 DEF vars
<1> QED
  BY <1>1, <1>2, <1>3, <1>4, <1>5, <1>6, <1>7, <1>8, <1>9, <1>10, <1>11, <1>12,
     <1>13, <1>14 DEF Next, Main, Demod, FullDemod

LEMMA LockStep == ASSUME Ranges, LockInv, [Next]_vars PROVE LockInv'
<1> USE DEF Ranges, LockInv, options, exits, buf, squelch, seen
<1>1. CASE ReadSync \/ ReadFails
  BY <1>1 DEF ReadSync, ReadFails
<1>2. CASE StoreFirst
  BY <1>2 DEF StoreFirst
<1>3. CASE StoreRest
  BY <1>3 DEF StoreRest
<1>4. CASE SignalReady \/ LastSignal
  BY <1>4 DEF SignalReady, LastSignal, Woken
<1>5. CASE LeaveLoop \/ Join
  BY <1>5 DEF LeaveLoop, Join
<1>6. CASE TestExit \/ CondWait
  BY <1>6 DEF TestExit, CondWait
<1>7. CASE SpuriousWakeup
  BY <1>7 DEF SpuriousWakeup
<1>8. CASE Filter
  BY <1>8 DEF Filter
<1>9. CASE Filtered \/ DemodRaw \/ Active
  BY <1>9 DEF Filtered, DemodRaw, Active
<1>10. CASE Quiet
  BY <1>10 DEF Quiet
<1>11. CASE Retune
  BY <1>11 DEF Retune
<1>12. CASE Flush
  BY <1>12 DEF Flush
<1>13. CASE CheckExitFlag \/ Interrupt
  BY <1>13 DEF CheckExitFlag, Interrupt
<1>14. CASE UNCHANGED vars
  BY <1>14 DEF vars
<1> QED
  BY <1>1, <1>2, <1>3, <1>4, <1>5, <1>6, <1>7, <1>8, <1>9, <1>10, <1>11, <1>12,
     <1>13, <1>14 DEF Next, Main, Demod, FullDemod

LEMMA UseStep == ASSUME Ranges, UseInv, [Next]_vars PROVE UseInv'
<1> USE DEF Ranges, UseInv, Extra, LastSent, One, options, exits, buf, squelch, seen
<1>1. CASE ReadSync \/ ReadFails
  BY <1>1 DEF ReadSync, ReadFails
<1>2. CASE StoreFirst
  BY <1>2 DEF StoreFirst
<1>3. CASE StoreRest
  BY <1>3 DEF StoreRest
<1>4. CASE SignalReady \/ LastSignal
  BY <1>4 DEF SignalReady, LastSignal, Woken
<1>5. CASE LeaveLoop \/ Join
  BY <1>5 DEF LeaveLoop, Join
<1>6. CASE TestExit \/ CondWait
  BY <1>6 DEF TestExit, CondWait
<1>7. CASE SpuriousWakeup
  BY <1>7 DEF SpuriousWakeup
<1>8. CASE Filter
  BY <1>8 DEF Filter
<1>9. CASE Filtered \/ DemodRaw \/ Active
  BY <1>9 DEF Filtered, DemodRaw, Active
<1>10. CASE Quiet
  BY <1>10 DEF Quiet
<1>11. CASE Retune
  BY <1>11 DEF Retune
<1>12. CASE Flush
  BY <1>12 DEF Flush
<1>13. CASE CheckExitFlag \/ Interrupt
  BY <1>13 DEF CheckExitFlag, Interrupt
<1>14. CASE UNCHANGED vars
  BY <1>14 DEF vars
<1> QED
  BY <1>1, <1>2, <1>3, <1>4, <1>5, <1>6, <1>7, <1>8, <1>9, <1>10, <1>11, <1>12,
     <1>13, <1>14 DEF Next, Main, Demod, FullDemod

LEMMA UnsetStep == ASSUME Ranges, UnsetInv, [Next]_vars PROVE UnsetInv'
<1> USE DEF Ranges, UnsetInv, Extra, LastSent, options, exits, buf, squelch, seen
<1>1. CASE ReadSync \/ ReadFails
  BY <1>1 DEF ReadSync, ReadFails
<1>2. CASE StoreFirst
  BY <1>2 DEF StoreFirst
<1>3. CASE StoreRest
  BY <1>3 DEF StoreRest
<1>4. CASE SignalReady \/ LastSignal
  BY <1>4 DEF SignalReady, LastSignal, Woken
<1>5. CASE LeaveLoop \/ Join
  BY <1>5 DEF LeaveLoop, Join
<1>6. CASE TestExit \/ CondWait
  BY <1>6 DEF TestExit, CondWait
<1>7. CASE SpuriousWakeup
  BY <1>7 DEF SpuriousWakeup
<1>8. CASE Filter
  BY <1>8 DEF Filter
<1>9. CASE Filtered \/ DemodRaw \/ Active
  BY <1>9 DEF Filtered, DemodRaw, Active
<1>10. CASE Quiet
  BY <1>10 DEF Quiet
<1>11. CASE Retune
  BY <1>11 DEF Retune
<1>12. CASE Flush
  BY <1>12 DEF Flush
<1>13. CASE CheckExitFlag \/ Interrupt
  BY <1>13 DEF CheckExitFlag, Interrupt
<1>14. CASE UNCHANGED vars
  BY <1>14 DEF vars
<1> QED
  BY <1>1, <1>2, <1>3, <1>4, <1>5, <1>6, <1>7, <1>8, <1>9, <1>10, <1>11, <1>12,
     <1>13, <1>14 DEF Next, Main, Demod, FullDemod

LEMMA StaleStep == ASSUME Ranges, StaleInv, [Next]_vars PROVE StaleInv'
<1> USE DEF Ranges, StaleInv, OldComing, Extra, LastSent, One, options, exits, buf, squelch, seen
<1>1. CASE ReadSync \/ ReadFails
  BY <1>1 DEF ReadSync, ReadFails
<1>2. CASE StoreFirst
  BY <1>2 DEF StoreFirst
<1>3. CASE StoreRest
  BY <1>3 DEF StoreRest
<1>4. CASE SignalReady \/ LastSignal
  BY <1>4 DEF SignalReady, LastSignal, Woken
<1>5. CASE LeaveLoop \/ Join
  BY <1>5 DEF LeaveLoop, Join
<1>6. CASE TestExit \/ CondWait
  BY <1>6 DEF TestExit, CondWait
<1>7. CASE SpuriousWakeup
  BY <1>7 DEF SpuriousWakeup
<1>8. CASE Filter
  BY <1>8 DEF Filter
<1>9. CASE Filtered \/ DemodRaw \/ Active
  BY <1>9 DEF Filtered, DemodRaw, Active
<1>10. CASE Quiet
  BY <1>10 DEF Quiet
<1>11. CASE Retune
  BY <1>11 DEF Retune
<1>12. CASE Flush
  BY <1>12 DEF Flush
<1>13. CASE CheckExitFlag \/ Interrupt
  BY <1>13 DEF CheckExitFlag, Interrupt
<1>14. CASE UNCHANGED vars
  BY <1>14 DEF vars
<1> QED
  BY <1>1, <1>2, <1>3, <1>4, <1>5, <1>6, <1>7, <1>8, <1>9, <1>10, <1>11, <1>12,
     <1>13, <1>14 DEF Next, Main, Demod, FullDemod

-----------------------------------------------------------------------------
IInv == Ranges /\ LockInv /\ UseInv /\ UnsetInv /\ StaleInv

LEMMA InvInit == ASSUME PipelineAssumption, Init PROVE Flags /\ IInv
<1>1. Flags
  BY Zenon DEF Init, Flags
<1>2. Ranges
  BY DEF PipelineAssumption, Init, Ranges
<1>3. LockInv
  BY DEF Init, LockInv
<1>4. UseInv /\ UnsetInv /\ StaleInv
  BY DEF Init, UseInv, UnsetInv, StaleInv, OldComing, Extra, LastSent, One
<1> QED
  BY <1>1, <1>2, <1>3, <1>4 DEF IInv

LEMMA InvInductive == Spec => [](Flags /\ IInv)
<1>1. Init => Flags /\ IInv
  BY PipelineAssumption, InvInit
<1>2. Flags /\ IInv /\ [Next]_vars => (Flags /\ IInv)'
  BY PipelineAssumption, FlagsStep, RangesStep, LockStep, UseStep, UnsetStep,
     StaleStep DEF IInv
<1> QED
  BY <1>1, <1>2, PTL DEF Spec

(***************************************************************************)
(* Every variable keeps its type; in particular the channel index and the  *)
(* squelch counter stay in their ranges for any number of channels and any *)
(* squelch delay.                                                          *)
(***************************************************************************)
THEOREM TypeCorrect == Spec => []TypeOK
<1>1. Flags /\ IInv => TypeOK
  BY DEF Flags, IInv, Ranges, TypeOK
<1> QED
  BY <1>1, InvInductive, PTL

(***************************************************************************)
(* full_demod filters whole reads: the rwlock keeps sync_read's copy and   *)
(* the filter apart.                                                       *)
(***************************************************************************)
THEOREM WholeBuffers == Spec => []NoTornBuffer
<1>1. IInv => NoTornBuffer
  BY DEF IInv, LockInv, NoTornBuffer
<1> QED
  BY <1>1, InvInductive, PTL

(***************************************************************************)
(* A stored buffer is demodulated at most twice, not counting spurious     *)
(* wakeups and the last signal, however many there are.                    *)
(***************************************************************************)
THEOREM AtMostTwice == Spec => []UsedTwice
<1>1. IInv => UsedTwice
  BY DEF IInv, Ranges, UseInv, UsedTwice, Extra, LastSent, One
<1> QED
  BY <1>1, InvInductive, PTL

(***************************************************************************)
(* The uninitialised fm.buf is demodulated only for a wakeup that stands   *)
(* for no buffer.                                                          *)
(***************************************************************************)
THEOREM UnsetOnlyAtExit == Spec => []UnfilledOnlyAtExit
<1>1. IInv => UnfilledOnlyAtExit
  BY DEF IInv, Ranges, UnsetInv, UnfilledOnlyAtExit, Extra, LastSent
<1> QED
  BY <1>1, InvInductive, PTL

(***************************************************************************)
(* One buffer of the former channel reaches the squelch after a hop, at    *)
(* most, not counting spurious wakeups and the last signal.                *)
(***************************************************************************)
THEOREM AtMostOneStale == Spec => []OneStaleAfterHop
<1>1. IInv => OneStaleAfterHop
  BY DEF IInv, Ranges, StaleInv, OneStaleAfterHop, Extra, LastSent, One
<1> QED
  BY <1>1, InvInductive, PTL
=============================================================================
