----------------------------- MODULE AsyncRead -----------------------------
(***************************************************************************)
(* rtlsdr_read_async() of librtlsdr.c with its bulk transfers: allocate,   *)
(* submit, handle libusb's events, cancel, free; together with             *)
(* _libusb_callback, rtlsdr_cancel_async (called from a signal handler or  *)
(* another thread) and rtlsdr_close.  libusb itself is external: a         *)
(* submitted transfer is completed from inside libusb_handle_events with   *)
(* some status; a cancel takes effect at the next completion.              *)
(***************************************************************************)
EXTENDS Naturals, FiniteSets

CONSTANTS
  NBuf,         \* dev->xfer_buf_num
  MaxCalls,     \* bound on the calls of rtlsdr_read_async in one behaviour
  RecancelOk    \* TRUE: a libusb that accepts a second cancel of a transfer and
                \* may complete some of the cancelled ones per event call; FALSE: one
                \* that refuses it and completes all of them in the next event call

ASSUME NBufAssumption == NBuf \in Nat \ {0}
ASSUME MaxCallsAssumption == MaxCalls \in Nat
ASSUME RecancelAssumption == RecancelOk \in BOOLEAN

Xfers == 1..NBuf

VARIABLES
  pc,            \* where the thread that owns the device is
  async_status, dev_lost, xfer_errors,   \* fields of the device
  next_status, r,                        \* locals of rtlsdr_read_async
  canceler,      \* a cancel from outside has seen RUNNING and not stored yet
  xfer,          \* the transfers: freed, idle (not submitted), flight, cancelling
  status,        \* xfer[i]->status, the last completion
  cur,           \* the transfer whose callback runs (when pc = "cb")
  last,          \* inside the handle_events call that precedes the final break
  gone,          \* the device was unplugged
  calls,         \* calls of rtlsdr_read_async so far
  fresh          \* the current call began with xfer_errors = 0 and dev_lost = 0

vars == <<pc, async_status, dev_lost, xfer_errors, next_status, r, canceler,
          xfer, status, cur, last, gone, calls, fresh>>

AsyncStatus == {"INACTIVE", "CANCELING", "RUNNING"}
Completion == {"COMPLETED", "ERROR", "OTHER", "CANCELLED", "NO_DEVICE"}
Reading == pc \in {"submit", "poll", "events", "cb", "check", "free", "store"}

InFlight == {x \in Xfers : xfer[x] \in {"flight", "cancelling"}}
Cancelling == {x \in Xfers : xfer[x] = "cancelling"}

Init ==
  /\ pc = "idle" /\ async_status = "INACTIVE" /\ next_status = "INACTIVE"
  /\ dev_lost = FALSE /\ xfer_errors = 0 /\ r = "ok" /\ canceler = FALSE
  /\ xfer = [x \in Xfers |-> "freed"] /\ status = [x \in Xfers |-> "COMPLETED"]
  /\ cur = 1 /\ last = FALSE /\ gone = FALSE /\ calls = 0 /\ fresh = TRUE

(* rtlsdr_read_async: entry.  xfer_errors and dev_lost keep what the last
   call left. *)
ReadAsync ==
  /\ pc = "idle" /\ async_status = "INACTIVE" /\ calls < MaxCalls
  /\ async_status' = "RUNNING" /\ next_status' = "INACTIVE" /\ r' = "ok"
  /\ xfer' = [x \in Xfers |-> "idle"]
  /\ status' = [x \in Xfers |-> "COMPLETED"]       \* libusb_alloc_transfer zeroes
  /\ calls' = calls + 1 /\ fresh' = (xfer_errors = 0 /\ ~dev_lost)
  /\ pc' = "submit" /\ last' = FALSE
  /\ UNCHANGED <<dev_lost, xfer_errors, canceler, cur, gone>>

\* The submit loop: it stops at the first transfer that libusb refuses.
SubmitAll(k) ==
  /\ pc = "submit"
  /\ gone => k = 0
  /\ xfer' = [x \in Xfers |-> IF x <= k THEN "flight" ELSE "idle"]
  /\ async_status' = IF k < NBuf THEN "CANCELING" ELSE async_status
  /\ r' = IF k < NBuf THEN "refused" ELSE "ok"
  /\ pc' = "poll"
  /\ UNCHANGED <<dev_lost, xfer_errors, next_status, canceler, status, cur,
                 last, gone, calls, fresh>>

\* while (RTLSDR_INACTIVE != dev->async_status)
LoopTest ==
  /\ pc = "poll"
  /\ pc' = IF async_status = "INACTIVE" THEN "free" ELSE "events"
  /\ UNCHANGED <<async_status, dev_lost, xfer_errors, next_status, r, canceler,
                 xfer, status, cur, last, gone, calls, fresh>>

(* libusb_handle_events_timeout completes a transfer, and calls back. *)
Complete(x, s) ==
  /\ pc = "events" /\ x \in InFlight
  /\ CASE gone -> s = "NO_DEVICE"
       [] ~gone /\ xfer[x] = "cancelling" -> s = "CANCELLED"
       [] OTHER -> s \in {"COMPLETED", "ERROR", "OTHER"}
  /\ xfer' = [xfer EXCEPT ![x] = "idle"]
  /\ status' = [status EXCEPT ![x] = s]
  /\ cur' = x /\ pc' = "cb"
  /\ UNCHANGED <<async_status, dev_lost, xfer_errors, next_status, r, canceler,
                 last, gone, calls, fresh>>

\* Mutant of CallbackData: a good transfer only makes up for one bad one.
CallbackDataPaysBack ==
  /\ pc = "cb" /\ status[cur] = "COMPLETED"
  /\ xfer' = [xfer EXCEPT ![cur] = IF gone THEN "idle" ELSE "flight"]
  /\ xfer_errors' = xfer_errors - 1
  /\ pc' = "events"
  /\ UNCHANGED <<async_status, dev_lost, next_status, r, canceler, status, cur,
                 last, gone, calls, fresh>>

\* _libusb_callback, after dev->cb has returned: the result of the resubmission
\* is ignored.
CallbackData ==
  /\ pc = "cb" /\ status[cur] = "COMPLETED"
  /\ \E s \in {"flight", "idle"} :
       /\ gone => s = "idle"
       /\ xfer' = [xfer EXCEPT ![cur] = s]
  /\ xfer_errors' = 0
  /\ pc' = "events"
  /\ UNCHANGED <<async_status, dev_lost, next_status, r, canceler, status, cur,
                 last, gone, calls, fresh>>

\* _libusb_callback on a failed transfer, which is not submitted again.
CallbackError ==
  /\ pc = "cb" /\ status[cur] \notin {"COMPLETED", "CANCELLED"}
  /\ xfer_errors' = IF status[cur] = "ERROR" THEN xfer_errors + 1 ELSE xfer_errors
  /\ IF xfer_errors' >= NBuf \/ status[cur] = "NO_DEVICE"
     THEN /\ dev_lost' = TRUE
          /\ async_status' = IF async_status = "RUNNING" THEN "CANCELING"
                             ELSE async_status
     ELSE UNCHANGED <<dev_lost, async_status>>
  /\ pc' = "events"
  /\ UNCHANGED <<next_status, r, canceler, xfer, status, cur, last, gone, calls,
                 fresh>>

CallbackCancelled ==
  /\ pc = "cb" /\ status[cur] = "CANCELLED"
  /\ pc' = "events"
  /\ UNCHANGED <<async_status, dev_lost, xfer_errors, next_status, r, canceler,
                 xfer, status, cur, last, gone, calls, fresh>>

(* libusb_handle_events_timeout returns.  A disconnect completes every transfer
   in flight first; so does, with ~RecancelOk, a cancel. *)
EventsReturn ==
  /\ pc = "events"
  /\ gone => InFlight = {}
  /\ ~RecancelOk => Cancelling = {}
  /\ r' = IF last THEN r ELSE "ok"
  /\ pc' = IF last THEN "free" ELSE "check"
  /\ UNCHANGED <<async_status, dev_lost, xfer_errors, next_status, canceler,
                 xfer, status, cur, last, gone, calls, fresh>>

\* It fails with LIBUSB_ERROR_INTERRUPTED (a stray signal) or another error,
\* having completed only some; before the final break the result is ignored.
EventsFail ==
  /\ pc = "events"
  /\ \/ /\ ~last
        /\ \/ r' = "interrupted" /\ pc' = "poll"
           \/ r' = "io" /\ pc' = "free"
     \/ last /\ pc' = "free" /\ UNCHANGED r
  /\ UNCHANGED <<async_status, dev_lost, xfer_errors, next_status, canceler,
                 xfer, status, cur, last, gone, calls, fresh>>

\* libusb_cancel_transfer accepts x.
Accepts(x) == ~gone /\ (xfer[x] = "flight" \/ (RecancelOk /\ xfer[x] = "cancelling"))

\* Mutants of Breaks: nothing is waited for; the loop never ends.
BreaksAtOnce(taken) == TRUE
BreaksNever(taken) == dev_lost

\* The transfers the pass asks libusb to cancel, and whether it is the last one.
Asked == {x \in Xfers : status[x] # "CANCELLED"}
Breaks(taken) == dev_lost \/ taken = {}

(* After the events: one pass over the transfers if the status is CANCELING. *)
CheckCanceling ==
  /\ pc = "check"
  /\ IF async_status = "CANCELING"
     THEN LET Taken == {x \in Asked : Accepts(x)}
          IN  /\ xfer' = [x \in Xfers |-> IF x \in Taken THEN "cancelling" ELSE xfer[x]]
              /\ next_status' = IF Taken # {} THEN "CANCELING" ELSE "INACTIVE"
              /\ r' = IF Asked = {} THEN r
                      ELSE IF \E x \in Taken : \A y \in Asked : y <= x
                           THEN "ok" ELSE "refused"
              /\ last' = Breaks(Taken)
              /\ pc' = IF last' THEN "events" ELSE "poll"
     ELSE pc' = "poll" /\ UNCHANGED <<xfer, next_status, r, last>>
  /\ UNCHANGED <<async_status, dev_lost, xfer_errors, canceler, status, cur,
                 gone, calls, fresh>>

FreeBuffers ==                                  \* _rtlsdr_free_async_buffers
  /\ pc = "free"
  /\ xfer' = [x \in Xfers |-> "freed"] /\ pc' = "store"
  /\ UNCHANGED <<async_status, dev_lost, xfer_errors, next_status, r, canceler,
                 status, cur, last, gone, calls, fresh>>

\* Mutant of StoreStatus: the status stays what it is.
StoreNothing ==
  /\ pc = "store"
  /\ pc' = "idle"
  /\ UNCHANGED <<async_status, dev_lost, xfer_errors, next_status, r, canceler,
                 xfer, status, cur, last, gone, calls, fresh>>

StoreStatus ==                         \* dev->async_status = next_status; return r
  /\ pc = "store"
  /\ async_status' = next_status /\ pc' = "idle"
  /\ UNCHANGED <<dev_lost, xfer_errors, next_status, r, canceler, xfer, status,
                 cur, last, gone, calls, fresh>>

(* rtlsdr_cancel_async from outside: test, then store. *)
CancelTest ==
  /\ ~canceler /\ pc # "closed" /\ async_status = "RUNNING"
  /\ canceler' = TRUE
  /\ UNCHANGED <<pc, async_status, dev_lost, xfer_errors, next_status, r, xfer,
                 status, cur, last, gone, calls, fresh>>

CancelStore ==
  /\ canceler
  /\ async_status' = "CANCELING" /\ canceler' = FALSE
  /\ UNCHANGED <<pc, dev_lost, xfer_errors, next_status, r, xfer, status, cur,
                 last, gone, calls, fresh>>

Unplug ==
  /\ ~gone /\ pc \notin {"closing", "closed"}
  /\ gone' = TRUE
  /\ UNCHANGED <<pc, async_status, dev_lost, xfer_errors, next_status, r,
                 canceler, xfer, status, cur, last, calls, fresh>>

(* rtlsdr_close: it waits for INACTIVE unless the device is lost. *)
Close ==
  /\ pc = "idle" /\ calls > 0
  /\ pc' = "closing"
  /\ UNCHANGED <<async_status, dev_lost, xfer_errors, next_status, r, canceler,
                 xfer, status, cur, last, gone, calls, fresh>>

CloseDone ==
  /\ pc = "closing" /\ (dev_lost \/ async_status = "INACTIVE")
  /\ pc' = "closed"
  /\ UNCHANGED <<async_status, dev_lost, xfer_errors, next_status, r, canceler,
                 xfer, status, cur, last, gone, calls, fresh>>

Events ==
  \/ \E x \in Xfers, s \in Completion : Complete(x, s)
  \/ CallbackData \/ CallbackError \/ CallbackCancelled
  \/ EventsReturn \/ EventsFail

Thread ==
  \/ \E k \in 0..NBuf : SubmitAll(k)
  \/ LoopTest \/ Events \/ CheckCanceling \/ FreeBuffers \/ StoreStatus

Next ==
  \/ ReadAsync \/ Thread \/ Close \/ CloseDone
  \/ CancelTest \/ CancelStore \/ Unplug

Spec == Init /\ [][Next]_vars

(***************************************************************************)
(* Fairness: the thread runs, a stored half of a cancel is stored, and the *)
(* event handling neither is interrupted for ever nor keeps a cancelled    *)
(* transfer for ever.  Nobody has to call, cancel, close or unplug.        *)
(***************************************************************************)
Fairness ==
  /\ WF_vars(Thread) /\ WF_vars(CloseDone) /\ WF_vars(CancelStore)
  /\ SF_vars(EventsReturn)
  /\ SF_vars(\E x \in Xfers, s \in {"CANCELLED", "NO_DEVICE"} : Complete(x, s))

FairSpec == Spec /\ Fairness

-----------------------------------------------------------------------------
FlagsOK ==
  /\ dev_lost \in BOOLEAN /\ canceler \in BOOLEAN /\ last \in BOOLEAN
  /\ gone \in BOOLEAN /\ fresh \in BOOLEAN

DataOK ==
  /\ pc \in {"idle", "submit", "poll", "events", "cb", "check", "free", "store",
             "closing", "closed"}
  /\ async_status \in AsyncStatus /\ next_status \in {"INACTIVE", "CANCELING"}
  /\ r \in {"ok", "refused", "interrupted", "io"}
  /\ xfer_errors \in Nat /\ calls \in Nat
  /\ xfer \in [Xfers -> {"freed", "idle", "flight", "cancelling"}]
  /\ status \in [Xfers -> Completion]
  /\ cur \in Xfers

TypeOK == FlagsOK /\ DataOK

(***************************************************************************)
(* _rtlsdr_free_async_buffers never frees a transfer that libusb still     *)
(* owns, as long as the event handling works and the device is there.      *)
(* That includes a device declared lost after NBuf failed transfers: the   *)
(* break skips the wait for the cancelled ones, but the failed ones, never *)
(* resubmitted, were all there are -- unless xfer_errors or dev_lost, which *)
(* no call resets, were left over from an earlier call.                    *)
(***************************************************************************)
FreeOnlyReturned ==
  pc = "free" /\ r # "io" /\ ~gone /\ fresh => InFlight = {}

\* The inductive invariant behind it: a transfer in flight last completed well,
\* xfer_errors counts transfers that are dead, a device lost to them has none
\* left, and the last event call is made only when none is in flight.
Failed == {x \in Xfers : status[x] = "ERROR"}
InFlightCompleted == \A x \in InFlight : status[x] = "COMPLETED"
BusyWhileReading == Reading => async_status # "INACTIVE"
ErrorsAreDead ==
  Reading /\ fresh =>
    xfer_errors <= Cardinality(IF pc = "cb" THEN Failed \ {cur} ELSE Failed)
LostMeansDead == Reading /\ fresh /\ dev_lost => gone \/ Failed = Xfers
CheckAfterCancelled == pc = "check" /\ ~RecancelOk => Cancelling = {}
LastIsEmpty ==
  /\ pc \in {"submit", "poll", "check"} => ~last
  /\ pc \in {"events", "cb", "free"} /\ last /\ ~gone /\ fresh
       => InFlight = {} /\ pc # "cb"
LastIsCanceled ==
  Reading => /\ last \/ next_status = "CANCELING" => async_status = "CANCELING"
             /\ last /\ next_status = "CANCELING" => dev_lost
FreeIsLast ==
  /\ pc \in {"free", "store"} => last \/ r = "io"
  /\ pc \in {"submit", "poll", "events", "cb", "check"} => r # "io"
CallbackIdle ==
  pc = "cb" => xfer[cur] = "idle" /\ (status[cur] = "NO_DEVICE" => gone)
SubmitFresh ==
  pc = "submit" => next_status = "INACTIVE" /\ \A x \in Xfers : status[x] = "COMPLETED"
NoneResubmitted ==
  Reading /\ next_status = "CANCELING" /\ ~gone
    => /\ \A x \in Xfers : xfer[x] # "flight"
       /\ pc = "cb" => status[cur] # "COMPLETED"

ReadInv ==
  /\ TypeOK /\ InFlightCompleted /\ BusyWhileReading /\ ErrorsAreDead
  /\ LostMeansDead /\ CheckAfterCancelled /\ LastIsEmpty /\ FreeIsLast
  /\ CallbackIdle /\ SubmitFresh /\ NoneResubmitted /\ LastIsCanceled

(***************************************************************************)
(* After the pass that cancelled everything, no transfer goes back to      *)
(* flight: the loop is waiting only for cancellations (or a disconnect).   *)
(***************************************************************************)
CancelledStayCancelled ==
  pc \in {"poll", "events"} /\ next_status = "CANCELING" /\ ~gone
     => \A x \in Xfers : xfer[x] # "flight"

(***************************************************************************)
(* A canceled call comes back: rtlsdr_cancel_async during streaming ends   *)
(* rtlsdr_read_async whatever the transfers do meanwhile.                  *)
(***************************************************************************)
CancelReturns == (Reading /\ async_status = "CANCELING") ~> ~Reading

(***************************************************************************)
(* "block until all async operations have been completed (if any)",        *)
(* librtlsdr.c 1585: rtlsdr_close comes back when the read is over.  It    *)
(* does not after an event error that struck once a pass had cancelled     *)
(* transfers, nor after a cancel whose store came after the read's.        *)
(***************************************************************************)
CloseReturns == pc = "closing" ~> pc = "closed"

\* The stream as the programs see it.
Stream == INSTANCE AsyncStream WITH
  reading <- Reading,
  in_cb <- (pc = "cb" /\ status[cur] = "COMPLETED"),
  failed <- (r = "io")
Implements == Stream!StreamSpec
=============================================================================
