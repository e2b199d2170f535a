----------------------------- MODULE LossyFifo -----------------------------
(***************************************************************************)
(* What the sample queue of rtl_tcp.c promises between rtlsdr_callback and *)
(* ducky_fft: buffers leave in the order they arrived, a full queue makes  *)
(* room by losing its oldest buffer, and nothing else is lost before the   *)
(* program is exiting.  Buffers are named by their number of arrival.      *)
(* SampleQueue, with the linked list and the two threads, implements it.   *)
(***************************************************************************)
EXTENDS Integers, Sequences

CONSTANT llbuf_num    \* option -n; 0 means no limit

VARIABLES queue,      \* ll_buffers, head first
          taken,      \* the chain ducky_fft has taken and not finished
          arrived,    \* number of the last buffer that arrived
          exiting,    \* do_exit is set
          broken      \* ducky_fft went on without the mutex

fifoVars == <<queue, taken, arrived, exiting, broken>>

FifoInit ==
  queue = <<>> /\ taken = <<>> /\ arrived = 0 /\ exiting = FALSE /\ broken = FALSE

\* The comparison llbuf_num == num_queued - 2, with num_queued one less than
\* the number of queued buffers; it is not made on an empty list.
Full == queue # <<>> /\ llbuf_num # 0 /\ Len(queue) - 1 = llbuf_num + 2

MakeRoom ==
  /\ Full
  /\ queue' = Tail(queue)
  /\ UNCHANGED <<taken, arrived, exiting, broken>>

Arrive ==
  /\ ~Full
  /\ arrived' = arrived + 1
  /\ queue' = Append(queue, arrived + 1)
  /\ UNCHANGED <<taken, exiting, broken>>

TakeAll ==
  /\ taken = <<>> /\ queue # <<>>
  /\ taken' = queue /\ queue' = <<>>
  /\ UNCHANGED <<arrived, exiting, broken>>

Consume ==
  /\ taken # <<>>
  /\ taken' = Tail(taken)
  /\ UNCHANGED <<queue, arrived, exiting, broken>>

Exit ==
  /\ ~exiting
  /\ exiting' = TRUE
  /\ UNCHANGED <<queue, taken, arrived, broken>>

\* The rest of a taken chain, and of the queue, is given up at exit.
Abandon ==
  /\ exiting
  /\ \/ taken' = <<>> /\ UNCHANGED queue
     \/ queue' = <<>> /\ UNCHANGED taken
  /\ UNCHANGED <<arrived, exiting, broken>>

\* Without the mutex the consumer holds nothing any more, and the producer,
\* half way through a step, does not know that the queue was cleared:
Break ==
  /\ exiting
  /\ broken' = TRUE /\ taken' = <<>>
  /\ UNCHANGED <<queue, arrived, exiting>>

\* an arriving buffer is linked behind one that is no longer queued, or
Lose ==
  /\ broken
  /\ arrived' = arrived + 1
  /\ UNCHANGED <<queue, taken, exiting, broken>>

\* what was left of the full queue is put back.
Revive ==
  /\ broken /\ queue = <<>> /\ llbuf_num # 0 /\ arrived >= llbuf_num + 2
  /\ queue' = [i \in 1..(llbuf_num + 2) |-> arrived - (llbuf_num + 2) + i]
  /\ UNCHANGED <<taken, arrived, exiting, broken>>

FifoNext ==
  \/ MakeRoom \/ Arrive \/ TakeAll \/ Consume \/ Exit \/ Abandon
  \/ Break \/ Lose \/ Revive

FifoSpec == FifoInit /\ [][FifoNext]_fifoVars

-----------------------------------------------------------------------------
(* The queue never holds more than llbuf_num + 3 buffers: since the test is *)
(* an equality, one buffer too many would end all dropping.                 *)
Bounded == llbuf_num \in Nat \ {0} => Len(queue) <= llbuf_num + 3

(* The queue and what was taken hold arrival numbers. *)
FifoTypeOK ==
  /\ queue \in Seq(Nat) /\ taken \in Seq(Nat) /\ arrived \in Nat

(* What is queued are the latest arrivals, none missing in between; and what *)
(* the consumer holds came before, in order, none missing in between.        *)
LatestArrivals ==
  ~exiting => \A i \in 1..Len(queue) : queue[i] = arrived - Len(queue) + i

TakenInOrder ==
  ~exiting =>
    /\ \A i \in 1..(Len(taken) - 1) : taken[i + 1] = taken[i] + 1
    /\ \A i \in 1..Len(taken) : taken[i] + Len(queue) <= arrived
=============================================================================
