---------------------------- MODULE AsyncStream ----------------------------
(***************************************************************************)
(* What rtlsdr_read_async() and rtlsdr_cancel_async() promise the programs *)
(* that call them (librtlsdr.c 1725-1837), without transfers: a call turns *)
(* the device RUNNING, the callback runs only inside the call, a cancel    *)
(* moves RUNNING to CANCELING, and the call comes back only once canceled, *)
(* or because libusb's event handling failed.  AsyncRead implements it;    *)
(* the programs' modules are composed with it.                             *)
(***************************************************************************)

VARIABLES async_status,  \* dev->async_status, read and written without a lock
          reading,       \* a call of rtlsdr_read_async is in progress
          in_cb,         \* the caller's callback is running
          canceler,      \* a cancel has seen RUNNING and not yet stored CANCELING
          dev_lost,      \* dev->dev_lost
          failed         \* event handling failed in the last call

streamVars == <<async_status, reading, in_cb, canceler, dev_lost, failed>>

Status == {"INACTIVE", "CANCELING", "RUNNING"}

StreamInit ==
  /\ async_status = "INACTIVE"
  /\ reading = FALSE /\ in_cb = FALSE /\ canceler = FALSE
  /\ dev_lost = FALSE /\ failed = FALSE

\* A call on an inactive device.  (On any other it returns -2 at once.)
Call ==
  /\ ~reading /\ async_status = "INACTIVE"
  /\ reading' = TRUE /\ async_status' = "RUNNING" /\ failed' = FALSE
  /\ UNCHANGED <<in_cb, canceler, dev_lost>>

\* dev->cb(xfer->buffer, xfer->actual_length, dev->cb_ctx) begins and ends.
EnterCallback ==
  /\ reading /\ ~in_cb
  /\ in_cb' = TRUE
  /\ UNCHANGED <<async_status, reading, canceler, dev_lost, failed>>

LeaveCallback ==
  /\ in_cb
  /\ in_cb' = FALSE
  /\ UNCHANGED <<async_status, reading, canceler, dev_lost, failed>>

\* rtlsdr_cancel_async: the test and the store are two steps for the other
\* threads.  On a device that is not RUNNING it returns -2 and changes nothing.
CancelTest ==
  /\ ~canceler /\ async_status = "RUNNING"
  /\ canceler' = TRUE
  /\ UNCHANGED <<async_status, reading, in_cb, dev_lost, failed>>

CancelStore ==
  /\ canceler
  /\ async_status' = "CANCELING" /\ canceler' = FALSE
  /\ UNCHANGED <<reading, in_cb, dev_lost, failed>>

\* The library cancels itself: a transfer could not be submitted, or the device
\* is lost.
CancelInside ==
  /\ reading /\ ~in_cb
  /\ dev_lost' \in {dev_lost, TRUE}
  /\ async_status' \in {async_status, "CANCELING"}
  /\ async_status = "RUNNING" => async_status' = "CANCELING"
  /\ UNCHANGED <<reading, in_cb, canceler, failed>>

\* libusb's event handling fails: the loop is left where it is.
Fail ==
  /\ reading /\ ~in_cb /\ ~failed
  /\ failed' = TRUE
  /\ UNCHANGED <<async_status, reading, in_cb, canceler, dev_lost>>

\* The call returns.  Canceled, it leaves the device INACTIVE, unless a lost
\* device or failed event handling made it leave CANCELING behind.
Return ==
  /\ reading /\ ~in_cb
  /\ reading' = FALSE
  /\ \/ async_status = "CANCELING" /\ async_status' = "INACTIVE"
     \/ failed /\ async_status' = "INACTIVE"
     \/ (dev_lost \/ failed) /\ async_status = "CANCELING" /\ UNCHANGED async_status
  /\ UNCHANGED <<in_cb, canceler, dev_lost, failed>>

StreamNext ==
  \/ Call \/ EnterCallback \/ LeaveCallback
  \/ CancelTest \/ CancelStore \/ CancelInside \/ Fail \/ Return

StreamSpec == StreamInit /\ [][StreamNext]_streamVars
=============================================================================
