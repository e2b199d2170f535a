-------------------------- MODULE AsyncReadProofs --------------------------
(***************************************************************************)
(* Theorems about AsyncRead, for every number of transfers, every number   *)
(* of calls and both ways libusb may treat a repeated cancel.              *)
(***************************************************************************)
EXTENDS AsyncRead, FiniteSetTheorems, TLAPS

\* The two abbreviations of the cancel pass are always expanded.
USE DEF Asked, Breaks

LEMMA XfersFinite == IsFiniteSet(Xfers) /\ Cardinality(Xfers) = NBuf
  BY FS_Interval, NBufAssumption DEF Xfers

(***************************************************************************)
(* Types, step by step: the flags, then the rest.                          *)
(***************************************************************************)
LEMMA FlagsInductive ==
  ASSUME FlagsOK, [Next]_vars PROVE FlagsOK'
<1> USE DEF FlagsOK
<1>1. ASSUME NEW k \in 0..NBuf, SubmitAll(k) PROVE FlagsOK'
  BY <1>1 DEF SubmitAll
<1>2. ASSUME NEW x \in Xfers, NEW s \in Completion, Complete(x, s)
      PROVE  FlagsOK'
  BY <1>2 DEF Complete
<1>3. CASE ReadAsync
  BY <1>3 DEF ReadAsync
<1>4. CASE LoopTest
  BY <1>4 DEF LoopTest
<1>5. CASE CallbackData
  BY <1>5 DEF CallbackData
<1>6. CASE CallbackError
  BY <1>6 DEF CallbackError
<1>7. CASE CallbackCancelled
  BY <1>7 DEF CallbackCancelled
<1>8. CASE EventsReturn \/ EventsFail
  BY <1>8 DEF EventsReturn, EventsFail
<1>9. CASE CheckCanceling
  BY <1>9 DEF CheckCanceling
<1>10. CASE FreeBuffers \/ StoreStatus \/ Close \/ CloseDone
  BY <1>10 DEF FreeBuffers, StoreStatus, Close, CloseDone
<1>11. CASE CancelTest \/ CancelStore \/ Unplug \/ UNCHANGED vars
  BY <1>11 DEF CancelTest, CancelStore, Unplug, vars
<1> QED
  BY <1>1, <1>2, <1>3, <1>4, <1>5, <1>6, <1>7, <1>8, <1>9, <1>10, <1>11 DEF
     Next, Thread, Events

LEMMA DataInductive ==
  ASSUME DataOK, [Next]_vars PROVE DataOK'
<1> USE DEF DataOK, AsyncStatus, Completion
<1>1. ASSUME NEW k \in 0..NBuf, SubmitAll(k) PROVE DataOK'
  BY <1>1 DEF SubmitAll
<1>2. ASSUME NEW x \in Xfers, NEW s \in Completion, Complete(x, s)
      PROVE  DataOK'
  BY <1>2 DEF Complete
<1>3. CASE ReadAsync
  BY <1>3 DEF ReadAsync
<1>4. CASE LoopTest
  BY <1>4 DEF LoopTest
<1>5. CASE CallbackData
  BY <1>5 DEF CallbackData
<1>6. CASE CallbackError
  BY <1>6 DEF CallbackError
<1>7. CASE CallbackCancelled
  BY <1>7 DEF CallbackCancelled
<1>8. CASE EventsReturn \/ EventsFail
  BY <1>8 DEF EventsReturn, EventsFail
<1>9. CASE CheckCanceling
  BY <1>9 DEF CheckCanceling
<1>10. CASE FreeBuffers \/ StoreStatus \/ Close \/ CloseDone
  BY <1>10 DEF FreeBuffers, StoreStatus, Close, CloseDone
<1>11. CASE CancelTest \/ CancelStore \/ Unplug \/ UNCHANGED vars
  BY <1>11 DEF CancelTest, CancelStore, Unplug, vars
<1> QED
  BY <1>1, <1>2, <1>3, <1>4, <1>5, <1>6, <1>7, <1>8, <1>9, <1>10, <1>11 DEF
     Next, Thread, Events

(***************************************************************************)
(* Every variable keeps its type (the fields of the device and the locals  *)
(* of rtlsdr_read_async).                                                  *)
(***************************************************************************)
THEOREM TypeCorrect == Spec => []TypeOK
<1>1. Init => TypeOK
  <2>1. 1 \in Xfers
    BY NBufAssumption DEF Xfers
  <2>2. Init => FlagsOK
    BY DEF Init, FlagsOK
  <2>3. Init => DataOK
    BY <2>1 DEF Init, DataOK, AsyncStatus, Completion
  <2> QED
    BY <2>2, <2>3 DEF TypeOK
<1>2. TypeOK /\ [Next]_vars => TypeOK'
  BY FlagsInductive, DataInductive DEF TypeOK
<1> QED
  BY <1>1, <1>2, PTL DEF Spec

(***************************************************************************)
(* The transfers, one conjunct of ReadInv at a time.                       *)
(***************************************************************************)
LEMMA InFlightStep ==
  ASSUME ReadInv, [Next]_vars PROVE InFlightCompleted'
<1> USE DEF ReadInv, TypeOK, DataOK, InFlightCompleted, SubmitFresh, InFlight,
            CallbackIdle, Accepts
<1>1. ASSUME NEW k \in 0..NBuf, SubmitAll(k) PROVE InFlightCompleted'
  BY <1>1 DEF SubmitAll
<1>2. ASSUME NEW x \in Xfers, NEW s \in Completion, Complete(x, s)
      PROVE  InFlightCompleted'
  BY <1>2 DEF Complete
<1>3. CASE ReadAsync
  BY <1>3 DEF ReadAsync
<1>4. CASE LoopTest
  BY <1>4 DEF LoopTest
<1>5. CASE CallbackData
  BY <1>5 DEF CallbackData
<1>6. CASE CallbackError
  BY <1>6 DEF CallbackError
<1>7. CASE CallbackCancelled
  BY <1>7 DEF CallbackCancelled
<1>8. CASE EventsReturn \/ EventsFail
  BY <1>8 DEF EventsReturn, EventsFail
<1>9. CASE CheckCanceling
  BY <1>9 DEF CheckCanceling
<1>10. CASE FreeBuffers \/ StoreStatus \/ Close \/ CloseDone
  BY <1>10 DEF FreeBuffers, StoreStatus, Close, CloseDone
<1>11. CASE CancelTest \/ CancelStore \/ Unplug \/ UNCHANGED vars
  BY <1>11 DEF CancelTest, CancelStore, Unplug, vars
<1> QED
  BY <1>1, <1>2, <1>3, <1>4, <1>5, <1>6, <1>7, <1>8, <1>9, <1>10, <1>11 DEF
     Next, Thread, Events

LEMMA BusyStep ==
  ASSUME ReadInv, [Next]_vars PROVE BusyWhileReading'
<1> USE DEF ReadInv, TypeOK, DataOK, BusyWhileReading, Reading, AsyncStatus
<1>1. ASSUME NEW k \in 0..NBuf, SubmitAll(k) PROVE BusyWhileReading'
  BY <1>1 DEF SubmitAll
<1>2. ASSUME NEW x \in Xfers, NEW s \in Completion, Complete(x, s)
      PROVE  BusyWhileReading'
  BY <1>2 DEF Complete
<1>3. CASE ReadAsync
  BY <1>3 DEF ReadAsync
<1>4. CASE LoopTest
  BY <1>4 DEF LoopTest
<1>5. CASE CallbackData
  BY <1>5 DEF CallbackData
<1>6. CASE CallbackError
  BY <1>6 DEF CallbackError
<1>7. CASE CallbackCancelled
  BY <1>7 DEF CallbackCancelled
<1>8. CASE EventsReturn \/ EventsFail
  BY <1>8 DEF EventsReturn, EventsFail
<1>9. CASE CheckCanceling
  BY <1>9 DEF CheckCanceling
<1>10. CASE FreeBuffers \/ StoreStatus \/ Close \/ CloseDone
  BY <1>10 DEF FreeBuffers, StoreStatus, Close, CloseDone
<1>11. CASE CancelTest \/ CancelStore \/ Unplug \/ UNCHANGED vars
  BY <1>11 DEF CancelTest, CancelStore, Unplug, vars
<1> QED
  BY <1>1, <1>2, <1>3, <1>4, <1>5, <1>6, <1>7, <1>8, <1>9, <1>10, <1>11 DEF
     Next, Thread, Events

LEMMA CheckStep ==
  ASSUME ReadInv, [Next]_vars PROVE CheckAfterCancelled'
<1> USE DEF ReadInv, TypeOK, DataOK, CheckAfterCancelled, Cancelling
<1>1. ASSUME NEW k \in 0..NBuf, SubmitAll(k) PROVE CheckAfterCancelled'
  BY <1>1 DEF SubmitAll
<1>2. ASSUME NEW x \in Xfers, NEW s \in Completion, Complete(x, s)
      PROVE  CheckAfterCancelled'
  BY <1>2 DEF Complete
<1>3. CASE ReadAsync
  BY <1>3 DEF ReadAsync
<1>4. CASE LoopTest
  BY <1>4 DEF LoopTest
<1>5. CASE CallbackData
  BY <1>5 DEF CallbackData
<1>6. CASE CallbackError
  BY <1>6 DEF CallbackError
<1>7. CASE CallbackCancelled
  BY <1>7 DEF CallbackCancelled
<1>8. CASE EventsReturn \/ EventsFail
  BY <1>8 DEF EventsReturn, EventsFail
<1>9. CASE CheckCanceling
  BY <1>9 DEF CheckCanceling
<1>10. CASE FreeBuffers \/ StoreStatus \/ Close \/ CloseDone
  BY <1>10 DEF FreeBuffers, StoreStatus, Close, CloseDone
<1>11. CASE CancelTest \/ CancelStore \/ Unplug \/ UNCHANGED vars
  BY <1>11 DEF CancelTest, CancelStore, Unplug, vars
<1> QED
  BY <1>1, <1>2, <1>3, <1>4, <1>5, <1>6, <1>7, <1>8, <1>9, <1>10, <1>11 DEF
     Next, Thread, Events

LEMMA FreeIsLastStep ==
  ASSUME ReadInv, [Next]_vars PROVE FreeIsLast'
<1> USE DEF ReadInv, TypeOK, DataOK, FreeIsLast, BusyWhileReading, Reading
<1>1. ASSUME NEW k \in 0..NBuf, SubmitAll(k) PROVE FreeIsLast'
  BY <1>1 DEF SubmitAll
<1>2. ASSUME NEW x \in Xfers, NEW s \in Completion, Complete(x, s)
      PROVE  FreeIsLast'
  BY <1>2 DEF Complete
<1>3. CASE ReadAsync
  BY <1>3 DEF ReadAsync
<1>4. CASE LoopTest
  BY <1>4 DEF LoopTest
<1>5. CASE CallbackData
  BY <1>5 DEF CallbackData
<1>6. CASE CallbackError
  BY <1>6 DEF CallbackError
<1>7. CASE CallbackCancelled
  BY <1>7 DEF CallbackCancelled
<1>8. CASE EventsReturn \/ EventsFail
  BY <1>8 DEF EventsReturn, EventsFail
<1>9. CASE CheckCanceling
  BY <1>9 DEF CheckCanceling
<1>10. CASE FreeBuffers \/ StoreStatus \/ Close \/ CloseDone
  BY <1>10 DEF FreeBuffers, StoreStatus, Close, CloseDone
<1>11. CASE CancelTest \/ CancelStore \/ Unplug \/ UNCHANGED vars
  BY <1>11 DEF CancelTest, CancelStore, Unplug, vars
<1> QED
  BY <1>1, <1>2, <1>3, <1>4, <1>5, <1>6, <1>7, <1>8, <1>9, <1>10, <1>11 DEF
     Next, Thread, Events

LEMMA CallbackIdleStep ==
  ASSUME ReadInv, [Next]_vars PROVE CallbackIdle'
<1> USE DEF ReadInv, TypeOK, DataOK, CallbackIdle, FlagsOK
<1>1. ASSUME NEW k \in 0..NBuf, SubmitAll(k) PROVE CallbackIdle'
  BY <1>1 DEF SubmitAll
<1>2. ASSUME NEW x \in Xfers, NEW s \in Completion, Complete(x, s)
      PROVE  CallbackIdle'
  BY <1>2 DEF Complete
<1>3. CASE ReadAsync
  BY <1>3 DEF ReadAsync
<1>4. CASE LoopTest
  BY <1>4 DEF LoopTest
<1>5. CASE CallbackData
  BY <1>5 DEF CallbackData
<1>6. CASE CallbackError
  BY <1>6 DEF CallbackError
<1>7. CASE CallbackCancelled
  BY <1>7 DEF CallbackCancelled
<1>8. CASE EventsReturn \/ EventsFail
  BY <1>8 DEF EventsReturn, EventsFail
<1>9. CASE CheckCanceling
  BY <1>9 DEF CheckCanceling
<1>10. CASE FreeBuffers \/ StoreStatus \/ Close \/ CloseDone
  BY <1>10 DEF FreeBuffers, StoreStatus, Close, CloseDone
<1>11. CASE CancelTest \/ CancelStore \/ Unplug \/ UNCHANGED vars
  BY <1>11 DEF CancelTest, CancelStore, Unplug, vars
<1> QED
  BY <1>1, <1>2, <1>3, <1>4, <1>5, <1>6, <1>7, <1>8, <1>9, <1>10, <1>11 DEF
     Next, Thread, Events

LEMMA SubmitFreshStep ==
  ASSUME ReadInv, [Next]_vars PROVE SubmitFresh'
<1> USE DEF ReadInv, TypeOK, DataOK, SubmitFresh, Reading
<1>1. ASSUME NEW k \in 0..NBuf, SubmitAll(k) PROVE SubmitFresh'
  BY <1>1 DEF SubmitAll
<1>2. ASSUME NEW x \in Xfers, NEW s \in Completion, Complete(x, s)
      PROVE  SubmitFresh'
  BY <1>2 DEF Complete
<1>3. CASE ReadAsync
  BY <1>3 DEF ReadAsync
<1>4. CASE LoopTest
  BY <1>4 DEF LoopTest
<1>5. CASE CallbackData
  BY <1>5 DEF CallbackData
<1>6. CASE CallbackError
  BY <1>6 DEF CallbackError
<1>7. CASE CallbackCancelled
  BY <1>7 DEF CallbackCancelled
<1>8. CASE EventsReturn \/ EventsFail
  BY <1>8 DEF EventsReturn, EventsFail
<1>9. CASE CheckCanceling
  BY <1>9 DEF CheckCanceling
<1>10. CASE FreeBuffers \/ StoreStatus \/ Close \/ CloseDone
  BY <1>10 DEF FreeBuffers, StoreStatus, Close, CloseDone
<1>11. CASE CancelTest \/ CancelStore \/ Unplug \/ UNCHANGED vars
  BY <1>11 DEF CancelTest, CancelStore, Unplug, vars
<1> QED
  BY <1>1, <1>2, <1>3, <1>4, <1>5, <1>6, <1>7, <1>8, <1>9, <1>10, <1>11 DEF
     Next, Thread, Events

LEMMA NoneResubmittedStep ==
  ASSUME ReadInv, [Next]_vars PROVE NoneResubmitted'
<1> USE DEF ReadInv, TypeOK, DataOK, NoneResubmitted, Reading, SubmitFresh,
            InFlightCompleted, InFlight, Accepts
<1>1. ASSUME NEW k \in 0..NBuf, SubmitAll(k) PROVE NoneResubmitted'
  BY <1>1 DEF SubmitAll
<1>2. ASSUME NEW x \in Xfers, NEW s \in Completion, Complete(x, s)
      PROVE  NoneResubmitted'
  BY <1>2 DEF Complete
<1>3. CASE ReadAsync
  BY <1>3 DEF ReadAsync
<1>4. CASE LoopTest
  BY <1>4 DEF LoopTest
<1>5. CASE CallbackData
  BY <1>5 DEF CallbackData
<1>6. CASE CallbackError
  BY <1>6 DEF CallbackError
<1>7. CASE CallbackCancelled
  BY <1>7 DEF CallbackCancelled
<1>8. CASE EventsReturn \/ EventsFail
  BY <1>8 DEF EventsReturn, EventsFail
<1>9. CASE CheckCanceling
  BY <1>9 DEF CheckCanceling
<1>10. CASE FreeBuffers \/ StoreStatus \/ Close \/ CloseDone
  BY <1>10 DEF FreeBuffers, StoreStatus, Close, CloseDone
<1>11. CASE CancelTest \/ CancelStore \/ Unplug \/ UNCHANGED vars
  BY <1>11 DEF CancelTest, CancelStore, Unplug, vars
<1> QED
  BY <1>1, <1>2, <1>3, <1>4, <1>5, <1>6, <1>7, <1>8, <1>9, <1>10, <1>11 DEF
     Next, Thread, Events

LEMMA LastCanceledStep ==
  ASSUME ReadInv, [Next]_vars PROVE LastIsCanceled'
<1> USE DEF ReadInv, TypeOK, DataOK, LastIsCanceled, LastIsEmpty, Reading,
            AsyncStatus, FlagsOK
<1>1. ASSUME NEW k \in 0..NBuf, SubmitAll(k) PROVE LastIsCanceled'
  BY <1>1 DEF SubmitAll
<1>2. ASSUME NEW x \in Xfers, NEW s \in Completion, Complete(x, s)
      PROVE  LastIsCanceled'
  BY <1>2 DEF Complete
<1>3. CASE ReadAsync
  BY <1>3 DEF ReadAsync
<1>4. CASE LoopTest
  BY <1>4 DEF LoopTest
<1>5. CASE CallbackData
  BY <1>5 DEF CallbackData
<1>6. CASE CallbackError
  BY <1>6 DEF CallbackError
<1>7. CASE CallbackCancelled
  BY <1>7 DEF CallbackCancelled
<1>8. CASE EventsReturn \/ EventsFail
  BY <1>8 DEF EventsReturn, EventsFail
<1>9. CASE CheckCanceling
  BY <1>9 DEF CheckCanceling
<1>10. CASE FreeBuffers \/ StoreStatus \/ Close \/ CloseDone
  BY <1>10 DEF FreeBuffers, StoreStatus, Close, CloseDone
<1>11. CASE CancelTest \/ CancelStore \/ Unplug \/ UNCHANGED vars
  BY <1>11 DEF CancelTest, CancelStore, Unplug, vars
<1> QED
  BY <1>1, <1>2, <1>3, <1>4, <1>5, <1>6, <1>7, <1>8, <1>9, <1>10, <1>11 DEF
     Next, Thread, Events

(***************************************************************************)
(* Counting the transfers that ended in an error: there are at most NBuf,  *)
(* and if there are NBuf, all did.                                         *)
(***************************************************************************)
LEMMA CountFailed ==
  ASSUME NEW st \in [Xfers -> Completion], NEW c \in Xfers,
         NEW F, F = {x \in Xfers : st[x] = "ERROR"}
  PROVE  /\ Cardinality(F) \in Nat /\ Cardinality(F \ {c}) \in Nat
         /\ Cardinality(F \ {c}) = IF c \in F THEN Cardinality(F) - 1
                                   ELSE Cardinality(F)
         /\ Cardinality(F) >= NBuf => F = Xfers
<1>1. F \in SUBSET Xfers
  OBVIOUS
<1>2. /\ IsFiniteSet(F) /\ Cardinality(F) <= NBuf
      /\ Cardinality(F) = NBuf => F = Xfers
  BY <1>1, XfersFinite, FS_Subset
<1>3. Cardinality(F) \in Nat
  BY <1>2, FS_CardinalityType
<1>4. /\ IsFiniteSet(F \ {c})
      /\ Cardinality(F \ {c}) = IF c \in F THEN Cardinality(F) - 1
                                ELSE Cardinality(F)
  BY <1>2, FS_RemoveElement
<1>5. Cardinality(F \ {c}) \in Nat
  BY <1>4, FS_CardinalityType
<1> QED
  BY <1>2, <1>3, <1>4, <1>5, NBufAssumption

LEMMA ErrorsStep ==
  ASSUME ReadInv, [Next]_vars PROVE ErrorsAreDead'
<1> USE DEF ReadInv, TypeOK, DataOK, ErrorsAreDead, Reading
<1>1. status' \in [Xfers -> Completion] /\ cur' \in Xfers
  BY DataInductive
<1>2. Cardinality(Failed') \in Nat /\ Cardinality(Failed' \ {cur'}) \in Nat
  BY <1>1, CountFailed DEF Failed
<1>3. Cardinality(Failed \ {cur}) = IF cur \in Failed THEN Cardinality(Failed) - 1
                                    ELSE Cardinality(Failed)
  BY CountFailed DEF Failed
<1>4. CASE UNCHANGED status /\ ~ReadAsync
  <2>1. Failed' = Failed
    BY <1>4 DEF Failed
  <2> USE <1>2, <1>3, <2>1
  <2>3. CASE CallbackData
    BY <2>3 DEF CallbackData
  <2>4. CASE CallbackError
    <3>1. CASE status[cur] = "ERROR"
      <4>1. cur \in Failed
        BY <3>1 DEF Failed
      <4> QED
        BY <2>4, <3>1, <4>1 DEF CallbackError
    <3>2. CASE status[cur] # "ERROR"
      <4>1. cur \notin Failed
        BY <3>2 DEF Failed
      <4> QED
        BY <2>4, <3>2, <4>1 DEF CallbackError
    <3> QED
      BY <3>1, <3>2
  <2>5. CASE CallbackCancelled
    <3>1. cur \notin Failed
      BY <2>5 DEF Failed, CallbackCancelled
    <3> QED
      BY <2>5, <3>1 DEF CallbackCancelled
  <2>6. ASSUME NEW k \in 0..NBuf, SubmitAll(k) PROVE ErrorsAreDead'
    BY <2>6 DEF SubmitAll
  <2>7. CASE LoopTest \/ EventsReturn \/ EventsFail \/ CheckCanceling
    BY <2>7 DEF LoopTest, EventsReturn, EventsFail, CheckCanceling
  <2>8. CASE FreeBuffers \/ StoreStatus \/ Close \/ CloseDone
    BY <2>8 DEF FreeBuffers, StoreStatus, Close, CloseDone
  <2>9. CASE CancelTest \/ CancelStore \/ Unplug \/ UNCHANGED vars
    BY <2>9 DEF CancelTest, CancelStore, Unplug, vars
  <2>10. ASSUME NEW x \in Xfers, NEW s \in Completion, Complete(x, s)
         PROVE  ErrorsAreDead'
    <3>1. status[x] = s /\ status[x] = "COMPLETED"
      BY <1>4, <2>10 DEF Complete, InFlightCompleted
    <3>2. x \notin Failed /\ cur' = x
      BY <2>10, <3>1 DEF Failed, Complete
    <3> QED
      BY <2>10, <3>2 DEF Complete
  <2> QED
    BY <1>4, <2>3, <2>4, <2>5, <2>6, <2>7, <2>8, <2>9, <2>10
       DEF Next, Thread, Events
<1>5. ASSUME NEW x \in Xfers, NEW s \in Completion, Complete(x, s)
      PROVE  ErrorsAreDead'
  <2>1. status[x] = "COMPLETED" /\ cur' = x
    BY <1>5 DEF Complete, InFlightCompleted
  <2>2. Failed' \ {cur'} = Failed
    BY <1>5, <2>1 DEF Complete, Failed
  <2> QED
    BY <1>5, <2>2 DEF Complete
<1>6. CASE ReadAsync
  <2>1. (fresh' => xfer_errors = 0) /\ xfer_errors' = xfer_errors
    BY <1>6, Zenon DEF ReadAsync
  <2>2. pc' = "submit"
    BY <1>6 DEF ReadAsync
  <2> QED
    BY <1>2, <2>1, <2>2
<1>7. UNCHANGED status \/ ReadAsync
      \/ \E x \in Xfers, s \in Completion : Complete(x, s)
  BY DEF Next, Thread, Events, SubmitAll, LoopTest, CallbackData, CallbackError,
         CallbackCancelled, EventsReturn, EventsFail, CheckCanceling,
         FreeBuffers, StoreStatus, Close, CloseDone, CancelTest, CancelStore,
         Unplug, vars
<1> QED
  BY <1>4, <1>5, <1>6, <1>7

LEMMA LostStep ==
  ASSUME ReadInv, [Next]_vars PROVE LostMeansDead'
<1> USE DEF ReadInv, TypeOK, DataOK, LostMeansDead, Reading
<1>1. ASSUME NEW x \in Xfers, NEW s \in Completion, Complete(x, s)
      PROVE  LostMeansDead'
  <2>1. x \notin Failed
    BY <1>1 DEF Complete, InFlightCompleted, Failed
  <2> QED
    BY <1>1, <2>1 DEF Complete
<1>2. CASE ReadAsync
  BY <1>2 DEF ReadAsync
<1>3. CASE CallbackError
  <2>1. CASE xfer_errors' >= NBuf /\ fresh
    <3>1. xfer_errors' <= Cardinality(Failed')
      BY <1>3, <2>1, ErrorsStep DEF ErrorsAreDead, CallbackError
    <3>2. /\ Cardinality(Failed') \in Nat
          /\ Cardinality(Failed') >= NBuf => Failed' = Xfers
      BY DataInductive, CountFailed DEF Failed
    <3>3. xfer_errors' \in Nat
      BY DataInductive
    <3> QED
      BY <2>1, <3>1, <3>2, <3>3, NBufAssumption
  <2>2. CASE status[cur] = "NO_DEVICE"
    BY <1>3, <2>2 DEF CallbackError, CallbackIdle
  <2>3. CASE ~(xfer_errors' >= NBuf \/ status[cur] = "NO_DEVICE")
    BY <1>3, <2>3 DEF CallbackError, Failed
  <2>4. CASE ~fresh
    BY <1>3, <2>4 DEF CallbackError
  <2> QED
    BY <2>1, <2>2, <2>3, <2>4
<1> USE DEF Failed
<1>4. ASSUME NEW k \in 0..NBuf, SubmitAll(k) PROVE LostMeansDead'
  BY <1>4 DEF SubmitAll
<1>5. CASE LoopTest \/ EventsReturn \/ EventsFail
  BY <1>5 DEF LoopTest, EventsReturn, EventsFail
<1>6. CASE CallbackData \/ CallbackCancelled \/ CheckCanceling
  BY <1>6 DEF CallbackData, CallbackCancelled, CheckCanceling
<1>7. CASE FreeBuffers \/ StoreStatus \/ Close \/ CloseDone
  BY <1>7 DEF FreeBuffers, StoreStatus, Close, CloseDone
<1>8. CASE CancelTest \/ CancelStore \/ Unplug \/ UNCHANGED vars
  BY <1>8 DEF CancelTest, CancelStore, Unplug, vars
<1> QED
  BY <1>1, <1>2, <1>3, <1>4, <1>5, <1>6, <1>7, <1>8 DEF Next, Thread, Events

LEMMA LastStep ==
  ASSUME ReadInv, [Next]_vars PROVE LastIsEmpty'
<1> USE DEF ReadInv, TypeOK, FlagsOK, LastIsEmpty
<1>1. CASE CheckCanceling /\ last' /\ ~gone /\ fresh
  <2>1. \A x \in Xfers : xfer[x] \in {"flight", "cancelling"} =>
          status[x] = "COMPLETED" /\ (xfer[x] = "cancelling" => RecancelOk)
    BY <1>1 DEF InFlightCompleted, InFlight, CheckAfterCancelled, Cancelling,
                CheckCanceling
  <2>2. \A x \in Xfers : xfer[x] \in {"flight", "cancelling"} =>
          status[x] # "CANCELLED" /\ Accepts(x)
    BY <1>1, <2>1 DEF Accepts
  <2>3. CASE dev_lost
    <3>1. Failed = Xfers
      BY <1>1, <2>3 DEF LostMeansDead, Reading, CheckCanceling
    <3>2. \A x \in Xfers : xfer[x] \notin {"flight", "cancelling"}
      BY <2>1, <3>1 DEF Failed
    <3> QED
      BY <1>1, <3>2 DEF CheckCanceling, InFlight, Accepts, DataOK
  <2>4. CASE ~dev_lost /\ async_status = "CANCELING"
    <3>1. {x \in {y \in Xfers : status[y] # "CANCELLED"} : Accepts(x)} = {}
      BY <1>1, <2>4, Zenon DEF CheckCanceling
    <3>2. \A x \in Xfers : xfer[x] \notin {"flight", "cancelling"}
      BY <2>2, <3>1
    <3> QED
      BY <1>1, <3>2 DEF CheckCanceling, InFlight, Accepts, DataOK
  <2>5. CASE async_status # "CANCELING"
    BY <1>1, <2>5 DEF CheckCanceling
  <2> QED
    BY <2>3, <2>4, <2>5
<1>2. CASE CheckCanceling /\ ~(last' /\ ~gone /\ fresh)
  BY <1>2 DEF CheckCanceling
<1> USE DEF InFlight, DataOK
<1>3. ASSUME NEW k \in 0..NBuf, SubmitAll(k) PROVE LastIsEmpty'
  BY <1>3 DEF SubmitAll
<1>4. ASSUME NEW x \in Xfers, NEW s \in Completion, Complete(x, s)
      PROVE  LastIsEmpty'
  BY <1>4 DEF Complete
<1>5. CASE LoopTest \/ EventsReturn \/ EventsFail
  BY <1>5 DEF LoopTest, EventsReturn, EventsFail, FreeIsLast
<1>9. CASE ReadAsync
  <2>1. pc' = "submit" /\ last' = FALSE
    BY <1>9, Zenon DEF ReadAsync
  <2> QED
    BY <2>1
<1>6. CASE CallbackData \/ CallbackError \/ CallbackCancelled
  BY <1>6 DEF CallbackData, CallbackError, CallbackCancelled
<1>7. CASE FreeBuffers \/ StoreStatus \/ Close \/ CloseDone
  BY <1>7 DEF FreeBuffers, StoreStatus, Close, CloseDone
<1>8. CASE CancelTest \/ CancelStore \/ Unplug \/ UNCHANGED vars
  BY <1>8 DEF CancelTest, CancelStore, Unplug, vars
<1> QED
  BY <1>1, <1>2, <1>3, <1>4, <1>5, <1>6, <1>7, <1>8, <1>9
     DEF Next, Thread, Events

(***************************************************************************)
(* ReadInv is inductive.                                                   *)
(***************************************************************************)
THEOREM ReadInvariant == Spec => []ReadInv
<1>1. Init => ReadInv
  <2> SUFFICES ASSUME Init PROVE ReadInv
    OBVIOUS
  <2>1. TypeOK
    <3>1. 1 \in Xfers
      BY NBufAssumption DEF Xfers
    <3>2. FlagsOK
      BY DEF Init, FlagsOK
    <3>3. DataOK
      BY <3>1 DEF Init, DataOK, AsyncStatus, Completion
    <3> QED
      BY <3>2, <3>3 DEF TypeOK
  <2> QED
    BY <2>1 DEF Init, ReadInv, InFlightCompleted, InFlight, BusyWhileReading,
       Reading, ErrorsAreDead, LostMeansDead, CheckAfterCancelled, LastIsEmpty,
       FreeIsLast, CallbackIdle, SubmitFresh, NoneResubmitted,
       LastIsCanceled
<1>2. ReadInv /\ [Next]_vars => ReadInv'
  BY FlagsInductive, DataInductive, InFlightStep, BusyStep, CheckStep,
     FreeIsLastStep, CallbackIdleStep, SubmitFreshStep, NoneResubmittedStep,
     ErrorsStep, LostStep, LastStep, LastCanceledStep
     DEF ReadInv, TypeOK
<1> QED
  BY <1>1, <1>2, PTL DEF Spec

(***************************************************************************)
(* A transfer that libusb owns is never freed while event handling works   *)
(* and the device is plugged in, whatever fails and whoever cancels.       *)
(***************************************************************************)
THEOREM FreeSafe == Spec => []FreeOnlyReturned
<1>1. ReadInv => FreeOnlyReturned
  BY DEF ReadInv, FreeOnlyReturned, FreeIsLast, LastIsEmpty
<1> QED
  BY <1>1, ReadInvariant, PTL

(***************************************************************************)
(* Once everything in flight has been cancelled, no transfer goes back to  *)
(* flight in the same call.                                                *)
(***************************************************************************)
THEOREM CancelIsFinal == Spec => []CancelledStayCancelled
<1>1. ReadInv => CancelledStayCancelled
  BY DEF ReadInv, CancelledStayCancelled, NoneResubmitted, Reading
<1> QED
  BY <1>1, ReadInvariant, PTL

\* Every step of the transfers is a step of the stream, or a stutter.
LEMMA StreamStep ==
  ASSUME ReadInv, [Next]_vars
  PROVE  [Stream!StreamNext]_(Stream!streamVars)
<1> USE DEF Reading, ReadInv, TypeOK, Stream!StreamNext, Stream!streamVars
<1>1. CASE ReadAsync
  BY <1>1 DEF ReadAsync, Stream!Call
<1>2. ASSUME NEW k \in 0..NBuf, SubmitAll(k)
      PROVE  [Stream!StreamNext]_(Stream!streamVars)
  BY <1>2 DEF SubmitAll, FreeIsLast, Stream!CancelInside
<1>3. CASE LoopTest \/ EventsReturn \/ CheckCanceling
  BY <1>3 DEF LoopTest, EventsReturn, CheckCanceling, FreeIsLast
<1>4. CASE EventsFail
  BY <1>4 DEF EventsFail, FreeIsLast, Stream!Fail
<1>5. ASSUME NEW x \in Xfers, NEW s \in Completion, Complete(x, s)
      PROVE  [Stream!StreamNext]_(Stream!streamVars)
  <2>1. (status[cur])' = s
    BY <1>5 DEF Complete, DataOK
  <2> QED
    BY <1>5, <2>1 DEF Complete, Stream!EnterCallback
<1>6. CASE CallbackData
  BY <1>6 DEF CallbackData, Stream!LeaveCallback
<1>7. CASE CallbackError
  <2>0. /\ pc = "cb" /\ status[cur] # "COMPLETED" /\ pc' = "events"
        /\ UNCHANGED <<r, canceler>>
    BY <1>7 DEF CallbackError
  <2>1. CASE dev_lost' = TRUE /\ async_status' = IF async_status = "RUNNING"
                                                THEN "CANCELING" ELSE async_status
    <3>1. dev_lost' \in {dev_lost, TRUE}
      BY <2>1, Zenon
    <3>2. /\ async_status' \in {async_status, "CANCELING"}
          /\ async_status = "RUNNING" => async_status' = "CANCELING"
      BY <2>1
    <3>3. /\ Reading /\ Reading'
          /\ ~(pc = "cb" /\ status[cur] = "COMPLETED")
          /\ ~(pc = "cb" /\ status[cur] = "COMPLETED")'
      BY <2>0
    <3> QED
      BY <2>0, <3>1, <3>2, <3>3, Zenon DEF Stream!CancelInside
  <2>2. CASE UNCHANGED <<dev_lost, async_status>>
    BY <1>7, <2>2 DEF CallbackError
  <2> QED
    BY <1>7, <2>1, <2>2 DEF CallbackError
<1>8. CASE CallbackCancelled \/ FreeBuffers
  BY <1>8 DEF CallbackCancelled, FreeBuffers
<1>9. CASE StoreStatus
  BY <1>9 DEF StoreStatus, Stream!Return, FreeIsLast, LastIsCanceled, DataOK
<1>10. CASE CancelTest
  BY <1>10 DEF CancelTest, Stream!CancelTest
<1>11. CASE CancelStore
  BY <1>11 DEF CancelStore, Stream!CancelStore
<1>12. CASE Unplug \/ Close \/ CloseDone \/ UNCHANGED vars
  BY <1>12 DEF Unplug, Close, CloseDone, vars
<1> QED
  BY <1>1, <1>2, <1>3, <1>4, <1>5, <1>6, <1>7, <1>8, <1>9, <1>10, <1>11,
     <1>12 DEF Next, Thread, Events

(***************************************************************************)
(* rtlsdr_read_async and rtlsdr_cancel_async implement AsyncStream: no     *)
(* callback outside a call, and no return without a cancel or a failure.   *)
(***************************************************************************)
THEOREM StreamRefinement == Spec => Implements
<1>1. Init => Stream!StreamInit
  BY DEF Init, Stream!StreamInit, Reading
<1> QED
  BY <1>1, StreamStep, ReadInvariant, PTL DEF Spec, Implements, Stream!StreamSpec
=============================================================================
