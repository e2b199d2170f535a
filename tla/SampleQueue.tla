---------------------------- MODULE SampleQueue ----------------------------
(***************************************************************************)
(* The sample queue of rtl_tcp.c as it is built: a linked list of malloced *)
(* nodes behind ll_buffers and ll_mutex.  rtlsdr_callback appends at the   *)
(* tail and frees the head of a full list; ducky_fft takes the whole list  *)
(* and frees what it has read; main frees the rest after the join.  At exit *)
(* ducky_fft may give up waiting for the mutex and take the list without   *)
(* it: from then on what the callback reads of ll_buffers is either what   *)
(* it has already read or what the variable holds now.                     *)
(*                                                                         *)
(* A node is named by its number of arrival, 0 is NULL.                    *)
(***************************************************************************)
EXTENDS Integers, Sequences, FiniteSets

CONSTANTS llbuf_num,   \* option -n
          MaxBufs      \* bound on the buffers that arrive

ASSUME QueueAssumption == llbuf_num \in Nat /\ MaxBufs \in Nat

Nodes == 1..MaxBufs

VARIABLES
  alloc,       \* the nodes malloced and not freed
  next,        \* curelem->next
  ll_buffers,  \* head of the list, under ll_mutex
  ll_mutex,    \* "none", "cb" or "fft"
  do_exit,
  arrived,     \* nodes malloced so far
  streaming,   \* rtlsdr_read_async has not returned
  cb, rpt, cur, num_queued,   \* rtlsdr_callback: control and locals
  head,        \* what it read of ll_buffers when it tested it
  keep,        \* its curelem, the list without its head
  fft, curelem,               \* ducky_fft: control and the chain it took
  unowned      \* the list was taken without the mutex

vars == <<alloc, next, ll_buffers, ll_mutex, do_exit, arrived, streaming,
          cb, rpt, cur, num_queued, head, keep, fft, curelem, unowned>>
cbVars == <<cb, rpt, cur, num_queued, head, keep, arrived>>
fftVars == <<fft, curelem, unowned>>

\* The nodes from n on, along next (which only ever leads to later arrivals).
ChainOf(link, n) ==
  LET from[m \in 0..MaxBufs] == IF m = 0 THEN <<>> ELSE <<m>> \o from[link[m]]
  IN  from[n]
Chain(n) == ChainOf(next, n)
OnChain(n) == {Chain(n)[i] : i \in 1..Len(Chain(n))}

Init ==
  /\ alloc = {} /\ next = [n \in Nodes |-> 0]
  /\ ll_buffers = 0 /\ ll_mutex = "none"
  /\ do_exit = FALSE /\ arrived = 0 /\ streaming = TRUE
  /\ cb = "idle" /\ rpt = 0 /\ cur = 0 /\ num_queued = 0 /\ head = 0 /\ keep = 0
  /\ fft = "lock" /\ curelem = 0 /\ unowned = FALSE

\* A dereferenced NULL ends the process, with all its threads.
Alive == cb # "crashed"

-----------------------------------------------------------------------------
(* rtlsdr_callback.  With do_exit set it returns at once. *)
CbAlloc ==
  /\ cb = "idle" /\ streaming /\ ~do_exit /\ arrived < MaxBufs
  /\ arrived' = arrived + 1 /\ rpt' = arrived + 1
  /\ alloc' = alloc \cup {arrived + 1}
  /\ cb' = "lock"
  /\ UNCHANGED <<next, ll_buffers, ll_mutex, do_exit, streaming, cur,
                 num_queued, head, keep, fftVars>>

CbLock ==
  /\ cb = "lock" /\ ll_mutex = "none"
  /\ ll_mutex' = "cb" /\ cb' = "look"
  /\ UNCHANGED <<alloc, next, ll_buffers, do_exit, arrived, streaming, rpt, cur,
                 num_queued, head, keep, fftVars>>

\* Mutant of CbLook: an empty list is not told apart.
CbLookBlind ==
  /\ cb = "look"
  /\ head' = ll_buffers /\ cb' = "walk"
  /\ UNCHANGED <<alloc, next, ll_buffers, ll_mutex, do_exit, arrived, streaming,
                 rpt, cur, num_queued, keep, fftVars>>

CbLook ==
  /\ cb = "look"
  /\ head' = ll_buffers
  /\ cb' = IF ll_buffers = 0 THEN "first" ELSE "walk"
  /\ UNCHANGED <<alloc, next, ll_buffers, ll_mutex, do_exit, arrived, streaming,
                 rpt, cur, num_queued, keep, fftVars>>

\* An empty list starts anew.
CbFirst ==
  /\ cb = "first"
  /\ ll_buffers' = rpt /\ cb' = "unlock"
  /\ UNCHANGED <<alloc, next, ll_mutex, do_exit, arrived, streaming, rpt, cur,
                 num_queued, head, keep, fftVars>>

\* What a read of ll_buffers may return after the first: the mutex keeps the
\* two the same, until the FFT thread takes the list without it.
Reads == {head, ll_buffers}

\* Mutant of DropsHead: off by one.
DropsHeadEarly(n) == llbuf_num # 0 /\ llbuf_num = n - 1

\* The equality test of a full list.
DropsHead(n) == llbuf_num # 0 /\ llbuf_num = n - 2

\* cur walks to the tail.
CbWalk ==
  /\ cb = "walk"
  /\ \E h \in Reads :
       \/ h = 0 /\ cb' = "crashed" /\ UNCHANGED <<cur, num_queued>>
       \/ /\ h # 0
          /\ cur' = Chain(h)[Len(Chain(h))]
          /\ num_queued' = Len(Chain(h)) - 1
          /\ cb' = IF DropsHead(num_queued') THEN "drop" ELSE "link"
  /\ UNCHANGED <<alloc, next, ll_buffers, ll_mutex, do_exit, arrived, streaming,
                 rpt, head, keep, fftVars>>

\* The head's data is freed, with its node below, and its next remembered.
CbDrop ==
  /\ cb = "drop"
  /\ \E h \in Reads :
       \/ h = 0 /\ cb' = "crashed" /\ UNCHANGED keep
       \/ h # 0 /\ keep' = next[h] /\ cb' = "free"
  /\ UNCHANGED <<alloc, next, ll_buffers, ll_mutex, do_exit, arrived, streaming,
                 rpt, cur, num_queued, head, fftVars>>

CbFree ==                                       \* free(NULL) does nothing
  /\ cb = "free"
  /\ \E h \in Reads : alloc' = alloc \ {h}
  /\ cb' = "store"
  /\ UNCHANGED <<next, ll_buffers, ll_mutex, do_exit, arrived, streaming, rpt,
                 cur, num_queued, head, keep, fftVars>>

CbStore ==
  /\ cb = "store"
  /\ ll_buffers' = keep /\ cb' = "link"
  /\ UNCHANGED <<alloc, next, ll_mutex, do_exit, arrived, streaming, rpt, cur,
                 num_queued, head, keep, fftVars>>

CbLink ==
  /\ cb = "link"
  /\ next' = [next EXCEPT ![cur] = rpt] /\ cb' = "unlock"
  /\ UNCHANGED <<alloc, ll_buffers, ll_mutex, do_exit, arrived, streaming, rpt,
                 cur, num_queued, head, keep, fftVars>>

\* pthread_cond_signal has no waiter; then pthread_mutex_unlock.
CbUnlock ==
  /\ cb = "unlock"
  /\ ll_mutex' = "none" /\ cb' = "idle"
  /\ UNCHANGED <<alloc, next, ll_buffers, do_exit, arrived, streaming, rpt, cur,
                 num_queued, head, keep, fftVars>>

-----------------------------------------------------------------------------
(* ducky_fft. *)
FftLock ==
  /\ Alive /\ fft = "lock" /\ ll_mutex = "none"
  /\ ll_mutex' = "fft" /\ fft' = "read"
  /\ UNCHANGED <<alloc, next, ll_buffers, do_exit, streaming, cbVars, curelem,
                 unowned>>

\* pthread_mutex_timedlock fails: the loop tries again, unless do_exit breaks it.
FftTimeout ==
  /\ Alive /\ fft = "lock" /\ ll_mutex # "none" /\ do_exit
  /\ fft' = "read"
  /\ UNCHANGED <<alloc, next, ll_buffers, ll_mutex, do_exit, streaming, cbVars,
                 curelem, unowned>>

FftRead ==
  /\ Alive /\ fft = "read"
  /\ curelem' = ll_buffers /\ fft' = "clear"
  /\ unowned' = (unowned \/ ll_mutex # "fft")
  /\ UNCHANGED <<alloc, next, ll_buffers, ll_mutex, do_exit, streaming, cbVars>>

\* Mutant of FftClear: ll_buffers is not cleared.
FftClearForgets ==
  /\ Alive /\ fft = "clear"
  /\ fft' = "unlock"
  /\ UNCHANGED <<alloc, next, ll_buffers, ll_mutex, do_exit, streaming, cbVars,
                 curelem, unowned>>

FftClear ==
  /\ Alive /\ fft = "clear"
  /\ ll_buffers' = 0 /\ fft' = "unlock"
  /\ UNCHANGED <<alloc, next, ll_mutex, do_exit, streaming, cbVars, curelem,
                 unowned>>

FftUnlock ==                       \* releases the mutex whoever holds it
  /\ Alive /\ fft = "unlock"
  /\ ll_mutex' = "none" /\ fft' = "test"
  /\ UNCHANGED <<alloc, next, ll_buffers, do_exit, streaming, cbVars, curelem,
                 unowned>>

\* Mutant of FftTest: do_exit is only looked at while there are buffers.
FftTestLate ==
  /\ Alive /\ fft = "test"
  /\ fft' = CASE curelem = 0 -> "lock" [] do_exit /\ curelem # 0 -> "exited"
              [] OTHER -> "use"
  /\ UNCHANGED <<alloc, next, ll_buffers, ll_mutex, do_exit, streaming, cbVars,
                 curelem, unowned>>

\* while (curelem != 0) { if (do_exit) break; ...
FftTest ==
  /\ Alive /\ fft = "test"
  /\ fft' = CASE do_exit -> "exited"
              [] ~do_exit /\ curelem = 0 -> "lock"
              [] OTHER -> "use"
  /\ UNCHANGED <<alloc, next, ll_buffers, ll_mutex, do_exit, streaming, cbVars,
                 curelem, unowned>>

\* Mutant of FftFree: the node is not freed.
FftFreeLeaks ==
  /\ Alive /\ fft = "use"
  /\ curelem' = next[curelem] /\ fft' = "test"
  /\ UNCHANGED <<alloc, next, ll_buffers, ll_mutex, do_exit, streaming, cbVars,
                 unowned>>

FftFree ==
  /\ Alive /\ fft = "use"
  /\ curelem' = next[curelem] /\ alloc' = alloc \ {curelem}
  /\ fft' = "test"
  /\ UNCHANGED <<next, ll_buffers, ll_mutex, do_exit, streaming, cbVars, unowned>>

-----------------------------------------------------------------------------
SetExit ==                                               \* the signal handler
  /\ Alive /\ ~do_exit
  /\ do_exit' = TRUE
  /\ UNCHANGED <<alloc, next, ll_buffers, ll_mutex, streaming, cbVars, fftVars>>

StreamEnds ==                                     \* rtlsdr_read_async returns
  /\ streaming /\ cb = "idle"
  /\ streaming' = FALSE
  /\ UNCHANGED <<alloc, next, ll_buffers, ll_mutex, do_exit, cbVars, fftVars>>

MainDrain ==                                   \* main, after pthread_join
  /\ ~streaming /\ fft = "exited" /\ ll_buffers # 0
  /\ alloc' = alloc \ OnChain(ll_buffers) /\ ll_buffers' = 0
  /\ UNCHANGED <<next, ll_mutex, do_exit, streaming, cbVars, fftVars>>

\* The callback under way.
CbStep ==
  \/ CbLock \/ CbLook \/ CbFirst \/ CbWalk
  \/ CbDrop \/ CbFree \/ CbStore \/ CbLink \/ CbUnlock
Fft ==
  \/ FftLock \/ FftTimeout \/ FftRead \/ FftClear \/ FftUnlock \/ FftTest
  \/ FftFree
Next == CbAlloc \/ CbStep \/ Fft \/ SetExit \/ StreamEnds \/ MainDrain

Spec == Init /\ [][Next]_vars

\* The two threads run; buffers need not arrive and no signal has to come.
FairSpec ==
  Spec /\ SF_vars(FftLock \/ FftTimeout) /\ WF_vars(Fft) /\ WF_vars(CbStep)

-----------------------------------------------------------------------------
\* The node rtlsdr_callback has malloced and not linked yet, the nodes of the
\* list, also between the free of its head and the store, and those the FFT
\* thread has taken from it.
Pending == IF cb \in {"idle", "unlock"} THEN {} ELSE {rpt}
Listed == IF cb = "store" THEN OnChain(keep) ELSE OnChain(ll_buffers)
Taken == IF fft = "clear" THEN {} ELSE OnChain(curelem)

(***************************************************************************)
(* No thread follows a pointer to a freed node, even after the list was    *)
(* taken without the mutex at exit: neither whoever walks the list, nor    *)
(* the callback at the head it is dropping, the tail it writes to and the  *)
(* node it links, nor the FFT thread at the chain it reads.                *)
(***************************************************************************)
NoDanglingNode ==
  /\ Listed \subseteq alloc
  /\ cb \in {"walk", "drop", "free"} => OnChain(head) \subseteq alloc
  /\ cb \in {"drop", "free", "store", "link"} => cur \in alloc /\ rpt \in alloc
  /\ fft = "use" => OnChain(curelem) \subseteq alloc

(***************************************************************************)
(* Until exit, every node has exactly one owner: the list, the FFT's chain *)
(* or the callback.  Nothing is leaked and nothing is shared.              *)
(***************************************************************************)
OneOwner ==
  ~do_exit =>
    /\ alloc = Listed \cup Taken \cup Pending
    /\ Listed \cap Taken = {}
    /\ Pending \cap (Listed \cup Taken) = {}

(***************************************************************************)
(* The callback dereferences NULL in one way only: the FFT thread, its     *)
(* timed lock having failed at exit, cleared ll_buffers under its hands.   *)
(***************************************************************************)
NullOnlyUnowned == cb = "crashed" => unowned

(***************************************************************************)
(* After the exit flag is set the FFT thread ends, so main's join returns, *)
(* unless the callback has brought down the process.                       *)
(***************************************************************************)
ExitEndsFft == do_exit ~> fft = "exited" \/ ~Alive

(***************************************************************************)
(* The list implements the lossy FIFO: a buffer arrives when it is linked. *)
(* What was taken without the mutex, or is left at exit, is given up.      *)
(***************************************************************************)
Fifo == INSTANCE LossyFifo WITH
  queue <- Chain(ll_buffers),
  taken <- IF unowned \/ fft \in {"clear", "exited"} THEN <<>> ELSE Chain(curelem),
  arrived <- arrived - Cardinality(Pending),
  exiting <- do_exit,
  broken <- unowned
ImplementsFifo == Fifo!FifoSpec
=============================================================================
