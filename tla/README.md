# Verification of rtl_tcp_pi

TLA+ models, TLC runs and TLAPS proofs for rtl_tcp_pi: a fork of the rtl-sdr
driver library and programs whose `rtl_tcp` does not serve TCP clients but runs
on a Raspberry Pi as a spike detector. It reads samples from the USB receiver,
runs an FFT over them and raises a GPIO pin, which a microcontroller watches,
when a signal shows up in a frequency window. Source paths below are under
`src/rtl-sdr/src/` unless they say otherwise. The repository's documentation
is the programs' usage texts, their comments and `include/rtl-sdr.h`.

## 1. The system

### Components, their state and operations

| component | state | operations | correct means |
|---|---|---|---|
| asynchronous streaming, `librtlsdr.c` 63-121, 1578-1837 | `async_status`, `dev_lost`, `xfer_errors`, the transfers | `rtlsdr_read_async`, `_libusb_callback`, `rtlsdr_cancel_async`, the wait of `rtlsdr_close` | transfers freed only when returned; a cancel ends the call; the device is INACTIVE afterwards |
| sample queue, `rtl_tcp.c` 72-106, 188-247, 391-426, 656-663, 954-962 | the list `ll_buffers`, `ll_mutex`, `do_exit` | `rtlsdr_callback` appends and drops, `ducky_fft` takes all and frees, `main` drains | a FIFO that loses its oldest buffer only when full; no node reached after its free, none leaked |
| life of rtl_tcp, `rtl_tcp.c` 169-186, 346-384, 667-676, 911-975 | control of main, FFT thread and signal handler; `do_exit`; the pin library | start, read, join, drain, close; handler: cancel, release pin, close library, count | a signal ends the program; the pin is released; the device outlives its users |
| spike detector, `rtl_tcp.c` 280-345, 456-641 | `old_fft`, `curr_output`, `threshold_array`, `DETECTION_PIN` | shift and average, threshold, scan | the pin says whether the last FFT held a spike; every detection is a pulse |
| device open and probe, `librtlsdr.c` 1236-1614 | the device structure, claimed interface, kernel driver | lookup, open, tuner probing, error paths, close | what is acquired is released; the kernel driver comes back |
| configuration, `librtlsdr.c` 535-1233 | frequency, correction, rate, gain, offset, sampling mode, crystals, EEPROM | the setters of `rtl-sdr.h` | the fields agree with each other and with the chips: samples are around the frequency that is reported |
| tuner R820T/R828D, `tuner_r82xx.c` | shadow registers, lock, antenna input | init with calibration, set frequency, gain, standby | the registers mean what was asked, and the chip has them |
| tuners FC0012, FC0013, FC2580, E4000, `tuner_*.c` | the chip's registers; the E4000's band | init, set frequency, bandwidth, gain, standby | the registers mean what was asked, in any order of calls |
| `rtl_fm.c` | demodulator state, two threads, a condition variable, an rwlock | read and store, demodulate and write, squelch, hop | no torn buffer, no buffer used again or after a hop, exit ends both threads |
| `rtl_adsb.c` | buffer, a mutex used as a semaphore, the decoder's place in the buffer | callback, demodulate, cancel; preamble, Manchester bits, messages | each buffer is decoded once; a cancel ends the program; the frames sent are those displayed |
| `rtl_power.c` | plan of hops, rates, bins and buffers | plan, scan, print rows | the rows tile the range; every hop is sampled as its transform needs |
| `rtl_sdr.c`, `rtl_test.c`, `rtl_eeprom.c` | byte counts, counters, EEPROM image | record, test, encode and decode | counts exact, codec inverts |
| `getopt/`, build files, `src/resource_drain.c` | none of interest | | third party, or no state |

### How they interact

`main` of rtl_tcp opens and configures the device, installs one handler for
three signals, initialises the pin library, starts `ducky_fft` and calls
`rtlsdr_read_async`, which does not return until canceled. libusb completes
transfers inside `libusb_handle_events_timeout`, so `_libusb_callback` and
`rtlsdr_callback` run on main's thread. They hand buffers to the FFT thread
through `ll_buffers`. The signal handler runs on top of whichever thread the
kernel picks, tests and stores `async_status` without a lock, uses the pin
library and counts `do_exit`, which both threads poll. main joins the FFT
thread, frees the rest, resets `do_exit` and closes the device, and that waits
for `async_status` to be INACTIVE.

A setter of the library changes fields of the handle, writes the demodulator's
registers and calls the tuner through a table (247-281); the tuner may ask back for
its clock (1839), which depends on crystal and correction. Setters call each other
(sample rate - offset tuning - center frequency), joining some results and dropping
others.

rtl_adsb and rtl_fm have a second thread each. In rtl_adsb the callback copies
into the one buffer and unlocks a mutex that the other thread locks, as a
semaphore; all of main, handler and demodulator cancel. In rtl_fm main reads
synchronously and signals a condition variable.

### What is hard

The list of hazards is in `PROJECT.json`. The main ones: test and store of
`async_status` from a handler or another thread; failures between submission
and cancellation; state that survives a call (`xfer_errors`, `dev_lost`,
`threshold_array`); a lock that may be unlocked by a thread that never got it;
the order of signal, stream start, pin setup, join and reset; array bounds and
0/0 in the detector's arithmetic; transfers to the chips that fail half way
through a setter, after which fields, shadow registers and chip may disagree;
registers that two settings share; divider arithmetic in bytes and 32 bits; a
semaphore made of a mutex; a decoder that overwrites its own input.

## 2. Modules

| module | what it is |
|---|---|
| `AsyncStream` | abstract: what a read promises its caller |
| `AsyncRead` | the read with its transfers; implements `AsyncStream` |
| `AsyncReadProofs` | theorems about `AsyncRead` |
| `LossyFifo` | abstract: the sample queue |
| `SampleQueue` | list, mutex and two threads; implements `LossyFifo` |
| `SampleQueueProofs` | theorems about `LossyFifo` and `SampleQueue`, and the refinement |
| `RtlTcp` | main, FFT thread and handler, composed with `AsyncStream` |
| `RtlTcpProofs` | theorems about `RtlTcp` |
| `FmPipeline` | rtl_fm's reading main and demodulator, squelch, hop and exit |
| `FmPipelineProofs` | theorems about `FmPipeline` |
| `Detector` | windows, threshold, scan and pin |
| `MCDetector` | values for `Detector`'s constants |
| `Device` | the functions of the library that configure a device, as operators on the handle |
| `DeviceLife` | open, configure, close, with the USB handles and the kernel driver |
| `DeviceProofs` | theorems about `DeviceLife` |
| `R82xx`, `MCR82xx` | the R820T and R828D with their shadow registers, and values for its constants |
| `R82xxProofs` | theorems about `R82xx` |
| `TunerBus` | sequences of transfers any of which may fail, and what they leave in a chip |
| `Fc001x`, `Fc2580`, `E4k` | what the other tuners' functions transfer, and what their registers mean |
| `Tuners`, `MCTuners` | sequences of calls to any of these tuners, and values |
| `Adsb` | rtl_adsb's callback, demodulator, main and handler, composed with `AsyncStream` |
| `AdsbProofs` | theorems about `Adsb` and `AdsbDecode` |
| `AdsbDecode`, `MCAdsbDecode` | the decoder on one buffer, and values |
| `PowerPlan` | rtl_power's plan of hops, windows and rows |
| `SpectrumProofs` | theorems about `Detector` and `PowerPlan` |

The small models need no MC module: their constants are numbers in the `.cfg`.
Operators commented "Mutant of ..." are altered forms of the definition that
follows; they are used only to show that a property notices the alteration.

### AsyncRead

`pc` is where the thread that owns the device is: `idle` between calls, then
`submit` (1756-1772), `poll` (the loop test 1774), `events` and `cb`
(inside libusb and `_libusb_callback`), `check` (1783-1807), `free` (1810),
`store` (1812). Each action is the stretch of code up to the next point at which
another thread's step makes a difference: every access to `async_status` is a
step of its own. `xfer[x]` is who owns transfer x, `status[x]` its last
completion, as the cancel pass reads it. libusb is external and modelled by how
the code uses it: a submitted transfer completes once, a cancel takes effect at a
later completion, a disconnect completes everything. Two behaviours of a repeated
cancel exist in the field, and `RecancelOk` chooses. `CancelTest` and
`CancelStore` are the two halves of `rtlsdr_cancel_async` on behalf of anybody
else; the call from `_libusb_callback` is on the reading thread and atomic.
`last` marks the extra `libusb_handle_events_timeout` before the break (1804).
`fresh` is a history variable.

### SampleQueue and LossyFifo

Nodes are named by the order of their `malloc`; `next` is the `next` field and 0
is NULL. The callback's and the FFT thread's steps are cut at every lock, unlock
and access to `ll_buffers`: the test (`CbLook`, 213), the walk to the tail with the test
of a full list (`CbWalk`, 216-224), the read of the head's `next` (`CbDrop`, 227-228),
its free (`CbFree`, 229), the store (`CbStore`, 230) and the link (`CbLink`, 233). The walk
is one step because nobody else writes a `next`. `FftTimeout` is the failed
`pthread_mutex_timedlock` with `do_exit` set: `FftRead`, `FftClear` and `FftUnlock` then run
without the mutex between any two of the callback's steps, and `unowned` remembers it.
That is a data race, so each later mention of `ll_buffers` in the callback reads either what
the test found there, which the compiler may have kept, or what it holds now
(`Reads`); if that is NULL the process is gone (`crashed`, `Alive`). The head that
is freed may then be the one that the FFT thread has taken.

The refinement mapping takes the list from `ll_buffers` as the FIFO's queue and the chain
at `curelem` as what was taken; a buffer arrives when it is linked. `LossyFifo` says what
may happen once the mutex is broken (`Break`, `broken`): the taken chain is given up, an
arriving buffer is lost behind a node that is no longer queued (`Lose`), or what the
callback remembered of a full list is put back (`Revive`).

### RtlTcp

`main`, `fft` and `hdl` are the three control points; `on` is the thread the
handler interrupted, which makes no step meanwhile (`Runs`). The handler's five
statements are five steps. The stream is `AsyncStream`'s actions, driven by main;
the queue does not appear, since `SampleQueue` shows that the FFT thread
always gets the mutex or leaves, or that the process ends by a crash after do_exit was set.
`released` is a history variable.
After `rtlsdr_close` has freed the device (`freed`) the handler's cancel reads
freed memory. The status may read as anything, and the cancel may store to it or not; neither
changes anything that is left of the state, so the model has one step for both, and a
heap damaged by the store is not told apart.

### Detector

Frequencies are counted in bins from `lowerBound`, so the span is `Points`.
`Cast` is the conversion to `unsigned long` of the positions: truncation, clamp,
and for a value of -1 or less either outcome a build may have. `Band` is the index
`curr_max_threshold` while bin b is looked at; `Raised` is the inner comparison
over all bins of a band. The average threshold stays a fraction: `Spike`
compares products. The scan is one step per bin, with the two writes of a
detection apart, because the microcontroller sees them.

### FmPipeline

`main` is where main is: `loop` (1028), `read` (in `rtlsdr_read_sync`, or at the
lock), `copy` (the `memcpy`, two steps long), `signal`, then `last` (1038), `join`,
`done`. `demod` is the other thread: `test` (691), `enter` and `wait` (692; between
the lock of the mutex and the wait, and between the lock and the signal, there is
nothing else, so the mutex is the atomicity of `CondWait` and `SignalReady`), then
`woken`, `filter` (609-616), `demod` (617-643), `hop` and `flush` (644-653), `check`
(694). `first` and `rest` are the parity of the read that each half of `fm.buf` is
of; `buf_len` tells whether the field was ever set; `squelch_hits` saturates one
above `conseq_squelch`, with which alone it is compared. The options are chosen in
`Init` and stay. `read_age` and `buf_age` mark samples from before the end of the
flush; a read begun after it returns new samples only (the device's own queue
is what `BUFFER_DUMP` is for). Whether a buffer is silent is a free choice. `uses`,
`stale` and `spurious` are history variables. A read may fail at any time, for ever
if the device is lost; one that never returns (`BULK_TIMEOUT` is 0) is not modelled.
`rtlsdr_callback` of rtl_fm is dead code: the asynchronous read is commented out.

### Device and DeviceLife

`s` is `rtlsdr_dev_t` without the stream, and what the chips were last told: `lo`
(the tuner's oscillator), `if_reg` (the down-converter), `samp` and `ppm` (the
resampler). A function of the library is an operator from a state to the set of its
outcomes; it is sequential code, so a call is one step. Every transfer may
fail: what it writes is then `Torn`. A tuner that does not lock and says so to no one
is `Unlocked`. `failed` is a history variable: whether any transfer has failed since
the open. The tuners differ only as the table of functions does: `KeepsClock` are
those that read their clock when they are told (E4000, R820T, R828D: `fosc`), the
others ask whenever they tune. Results are 0 or -1 for any error; which results a
caller joins, replaces or drops is as in the code. The resampler's ratio and the
rate computed back from it are exact, including the bits that are cut off.
`rtlsdr_open` is `Open` (a handle), `OpenFails` (no device, no memory), `ClaimFails`
and `DetachFails` (error paths after `libusb_open`, which leave its handle open; the
second returns 0). Gains are any that the program asks for; a gain changes no other
field.

### R82xx

A register is the set of its bits that are 1. `priv.regs` is the driver's shadow,
`stale` the registers whose last write did not reach the chip. An operation is a
sequence of steps (masked write, note in the struct, read) that ends at the first that
fails, `Takes`: the shadow changes before the write does (252-258). The initial
write of all registers, in pieces of seven, is the exception: nobody looks at its
result (1230), so `r82xx_init` goes on with the registers from some piece on
unknown to the chip. Which number the chip reports of its VCO, whether the PLL locks at
once, at the second try or not at all, and whether the calibration needs its second
pass are free. Frequencies are in kHz, and the arithmetic is the code's, in
the widths of its variables.

### TunerBus, Fc001x, Fc2580, E4k, Tuners

These drivers keep no shadow: `regs` is the chip. A function is an `Op`: its steps
and how it treats a failure (`Stops`, `GoesOn`, `Forgets`, `Silent`); `Result` is
what a fault in one part of one step leaves. A read that fails before a masked
write leaves the driver with whatever its variable holds (`BlindChange`), and one that
is made only to see whether a write is needed (`e4k_field_write`) leaves the write out
(`Checked`). `Tuners` is the table of `librtlsdr.c` and the sequence of calls. `rtlsdr_open`
ignores the result of init and begins with a cleared struct (`Cleared`); `rtlsdr_close` does
not reach the tuner, since the call of `rtlsdr_deinit_baseband` is commented out (1595), so
a closed chip keeps its registers. The tuner's standby is reached when direct sampling is turned
on (`DirectOn`), and turning it off is an init and a tuning to `dev->freq` (`DirectOff`); the
demodulator's registers, which those calls write too, are in `Device`.

`RF_OUTDIV_B` is the value of bit 1 of register 6 with which the FC0012 and FC0013
divide by a multiple of 3. The code contradicts itself about it. The tables of factors
(`tuner_fc0012.c` 161-200, `tuner_fc0013.c` 261-305) set the bit for the powers of two and clear it for the
multiples of 3; the comments say "Set to select 3 instead of 2 for the RF output divider"
(`tuner_fc0012.c` 69) and "divider 2" of the bit's initial 0 (102). No data sheet is in the
repository, so the reference takes the value as a parameter, and the run has the tables'.

Each of the three modules ends
with a reference that is not made from the driver's tables: which frequency the
chip's divider bits, integer and fraction make (`FcTuned`, `Fc2580Tuned`,
`E4kTuned`), and which input, filter and gain are selected. Clocks are multiples of
16 Hz, and setting the stick's pin does not fail.

### Adsb

`main` is where main is after the creation of the thread (497-516), `cb` where
`rtlsdr_callback` is on main's thread (335-342), `demod` the other thread (344-355),
`hdl` the handler on top of `on`. `data_ready` is the mutex. The callback's copy,
trylock and unlock are steps, because the demodulator runs beside them; its
`pthread_mutex_trylock` locks a free mutex and leaves a locked one, and the unlock by
a thread that does not own the mutex frees it. A round is the lock and the end of the
decoding. `rtlsdr_cancel_async` is its test and its store, on behalf of main,
demodulator and handler (`cancelers`); the stream is `AsyncStream`. main does not
join: it destroys the mutex (which fails if it is locked), closes, frees and returns,
and with it every thread ends. `copied`, `raced` and `rounds` are history variables.

### AdsbDecode

The buffer is what a receiver gets of frames in silence (`Received`, external):
`IsTraffic` says which frames may be sent, where, and how strong; a low sample's magnitude is
above 1, since the code tells its bits from samples by that. `Search` is the scan for a
preamble, `TakeBit`, `Guess` and `Break` are the three outcomes of a turn of the inner
loop, `Message` is a run of bits. `m.buf` is the one buffer in which bits overwrite
samples; `m.i` is where the loops read, `m.i2` where they write. The magnitude is
computed as in the code, the output is the sequence of frames displayed. TLC's buffer is
short (the real one has 2^17 samples); the proof's is of any length.

### PowerPlan

`frequency_range` step by step with the code's truncations (the crop is in quarters,
where the code's floating point is exact), then one row for each hop. A row is its two
ends, the bins that the loop of `csv_dbm` prints, and the value that is printed `again` after
the loop (833-838); `Columns` counts both. The
FFT and the filters appear as the lengths they read and write. `PlanAssumption` keeps
the range with its crop within an int (`FitsInt`): beyond it the code's conversion of
a double to int is undefined, and below it some number of hops always fits.

## 3. Runs

| run | bounds | shows |
|---|---|---|
| `async_read` | 2 transfers, 3 calls | types, `FreeOnlyReturned`, `CancelReturns` (a cancel ends the call), refinement of `AsyncStream` |
| `close_hang` | 2 transfers, 1 call | violated: the wait of `rtlsdr_close` can be endless |
| `sample_queue` | `-n 1`, 7 buffers | no dangling node, one owner until exit, NULL dereferenced only after the list was taken without the mutex, exit ends the FFT thread, refinement of `LossyFifo` |
| `rtl_tcp` | 4 signals | types, a signal that is caught while the stream runs ends the program, only signals do, the pin stays released, the device under a handler |
| `fm_pipeline` | 1 or 2 channels, squelch delay 0 or 1, 1 spurious wakeup | whole buffers, at most two uses of a buffer, one stale buffer after a hop, an unset buffer only at exit, exit unless the last signal was lost |
| `detector` | 6 points, 3 bands, 6 window choices, 14 spectra | the pin tells the last FFT, rising edges, order of frequency, where the bands overrun |
| `device` | 3 tuners' kinds, 2 frequencies, 3 rates, 1 correction, 2 crystals, 1 handle | the frequency reported is the one received (`TunedUnlessDisplaced`) and clocks apply (`ClocksApplied`) while nothing failed; a call that reports success keeps a sound device sound whatever failed (`SuccessKeepsSound`); close gives back |
| `r82xx` | both chips, 2 frequencies, 1 failing transfer | PLL, filters and gain mean what was asked and the chip has them, after any failure before; the R828D's input follows the frequency |
| `tuners` | four tuners, 3 to 5 frequencies each, 1 failing transfer | the same of their registers, through opens, closes and direct sampling; the FC001x with the tables' reading of their divider bit |
| `adsb` | 3 buffers, 2 signals | a round has new data, a new buffer is decoded, a cancel ends the program |
| `adsb_decode` | 1 or 2 frames, 3 gaps, 2 strengths, 2 lengths of the last silence, 13 settings | the frames sent are displayed, the decoder ends |
| `power` | 17 widths, 8 bin sizes, 4 crops, both filters | rows tile the range, their columns are its bins, up to two more and one repeated, hops are sampled as needed |

Why the bounds are enough. Two transfers have a first and a last, one that
failed and one that did not, one in flight while the other is back; three calls
let leftovers of one call meet the next and the one after. With `-n 1` a list
of four buffers is full, so seven let it fill, drop twice and be taken in
between. Four signals are the three that end in the hard exit and one more
after a reset. In rtl_fm reads are unbounded; two channels are the
least that hop, a delay of 0 or 1 puts the hair trigger at and above its limit, and
the theorems hold for any number of all three. Six points give threshold windows
of no bin, one bin and up to
five, below and above three bands (`MAX_BINS_FOR_MEDIAN` is 100), and a window
of five is the narrowest that overruns three bands; a margin of 17 percent is one
bin and reaches the negative positions that 1 percent of 2^18 points reaches.
For `device`, one tuner with a zero IF and one without stand for the two ways the
library treats tuners, and the one that keeps its clock and the one that asks are
among them; of the frequencies one is below the offset of offset tuning and one above;
of the rates two are valid, at the end of a range, and one is not; any transfer of any call may fail, so calls after
a failure, and after several, are covered without a bound on their number; the
theorems hold for all values. In `r82xx` and `tuners` one failure may come in
any of all calls and is followed by any others; two at once add only registers
lost in both. The frequencies are at the ends of bands, dividers and input
switches and, for the FC0012, beyond the width of its arithmetic; dividers and tables
are looked up for these frequencies only. At power-on
the registers are all ones in `tuners`, the opposite of most of what the inits write (the run passes
from all zeros too); other contents were not tried. Three buffers in `adsb` let one be copied
while one is decoded and one more unlock the mutex again; the theorem holds for any
number. In `adsb_decode` the gaps are those that the allowed errors just fill and
just do not. `power` has the ends of the ranges of rates and of the planner's own
loops.

Deadlock is checked in `device`, `r82xx` and `tuners`, where some call is always
possible. The other programs may stop (nobody calls, the process has exited, the
buffers are used up, the array was overrun, the sweep is over).

Fairness. Threads that can run do (weak fairness). A cancelled transfer is
completed, and event handling returns without error again and again (strong
fairness in `AsyncRead`): libusb's timeout of one second and the kernel see to
it. The FFT thread gets a mutex that is free again and again (strong fairness
in `SampleQueue`): it waits at most five seconds and tries again. In `RtlTcp` a
canceled read returns (strong fairness of `ReadReturns`), and that is
`CancelReturns`, checked on `AsyncRead`. In `FmPipeline`
both threads are weakly fair: at exit neither competes for the
lock with a thread that takes it again and again. Signals, failures of reads and
spurious wakeups are free. In `Adsb` main, the callback, the demodulator and the
handler are weakly fair: none of them competes for the mutex with a thread that
takes it again and again, since only the demodulator waits for it. `AdsbDecode` is
sequential code that runs on. No fairness makes data
arrive, signals come, a device fail or the stream end by itself.

## 4. What the models say of the code

`close_hang` is a violated run: "block until all async operations have been completed
(if any)" (`librtlsdr.c` 1585). A cancel from another thread may store CANCELING after
the read has stored INACTIVE; and an event error after a cancel pass leaves
`next_status` CANCELING. No one resets the status then. `CancelEnds` shows the same
wait as the only way in which rtl_adsb does not end.

The rest was met while modelling; the models contain it, and the properties say what
holds nevertheless.

rtl_tcp. When the timed lock gives up at exit (395), after five seconds in which the callback
held the mutex, the FFT thread clears `ll_buffers` under the callback's hands: a callback that has tested the list and not
yet dropped its head dereferences NULL (216, 227, 228), and one that is between the read of
the head's `next` and the store frees the head of the chain that the FFT thread has
taken and puts the rest back. `NullOnlyUnowned` says that there is no other way to the
crash; the freed head is not followed, because the FFT thread tests `do_exit` first
(`NoDanglingNode`). `num_queued` starts at 0 for one buffer and 2 is subtracted, so the list
grows to n + 3 buffers (`QueueBounded`; the usage says "max number of linked list
buffers to keep", 118). A signal before the stream has begun is
acknowledged and lost. `do_exit` is reset (964) before the close that may hang, so
that the count to the hard close starts anew. The usage (111) says the spike at the
tuned frequency is dropped; 505-506 are commented out.

rtl_fm. Between the demodulator's test of `do_exit` (691) and its wait (692) main can
set out to exit, send the last signal to nobody and join. By `ExitsUnlessAsleep` this
is the only way not to end.

librtlsdr. A correction whose write failed is stored, so that repeating the call
returns -2 and writes nothing (904). `rtlsdr_set_sample_rate` drops the result of
offset tuning (1098). Direct sampling puts 0 in the place of the offset, and turning
it off does not bring it back (1168); a frequency that is not above the offset is not
tuned again (1219): `Displaced` is exactly these two. `rtlsdr_open` returns 0 without
a device when the kernel driver cannot be detached, and leaves the USB handle
open there and when the interface cannot be claimed. It ignores the tuner's init. The
gain stays reported after a new init or another gain mode. With a crystal above
28.8001 MHz the lowest rates of the two ranges overflow the ratio's 26 bits.

R820T, R828D. The result of the first write of init is overwritten by that of the
calibration. A PLL without lock returns 0, in the calibration too. A frequency that
no divider fits is tuned with a divider of 128. The R828D's new input is noted before
it is written, so a retry does not write it (1098). `r820t_init` does not clear the
struct, so lock, input and frequency survive a new init.

Other tuners. Tables and comments of the FC0012 contradict each other about bit 1 of register 6
(section 2): with `RF_OUTDIV_B = 1`, the comments' reading, the run `tuners` violates `TunedAsAsked` for
every frequency of the FC0012 and FC0013. A tuning that fails stores 0 as the frequency, and turning direct sampling off
then tunes to 0 Hz. The FC0012's `freq * multi` wraps above 1073 MHz and may succeed at
another frequency. The FC0013's failed read writes zeros into the bits of the
register's other use. `rtlsdr_set_sample_rate` leaves the FC2580 with its narrow filter
until the next tuning. The E4000's writes are not looked at, a lock that cannot be read counts
as one, and `e4k_tune_freq` does not return the frequency its comment promises (572).

rtl_adsb. The mutex is not "locked when no data available" (61): it begins unlocked,
and the first round decodes a buffer that was never written. A demodulator that waits
for the mutex never sees `do_exit`; main does not join it, and frees the buffer and the
device it may be using. At the qualities 0 and 5 silence never ends a message. At the others every
second pair of it counts as a bit, so that a frame that follows within
`4 * allowed_errors + 2` samples may be lost.

rtl_power. Bins of 1 Hz ask for more than 2^21 of them and are printed wider than the
"maximum". Giant bins wider than the range make no hop; a crop near 1 makes none
either; a range of 0 divides by 0. The rate is rounded again after the recursive filter's
factor is, so that "MAXIMUM_RATE" (74) is not the maximum: 2051 Hz with a crop of a
quarter are sampled at 2800298. A boxcar factor that is no power of two leaves
windows partly of zeros. The last column of every row is
printed twice (833-838): with 2 bins and a crop of three quarters, whose row is too narrow
for a bin, three columns are printed.

Seen on the way, in comments only: "3% buffer edge" (282) is 1 percent in the code;
with no window given (853) the program warns that it will not search, but a
threshold window alone makes it search the whole band; for an odd number of points
the shift is one bin off the middle.

## 5. What is proved

TLAPS checks the following for every value of the constants.

`AsyncReadProofs`. `ReadInv` is inductive (`ReadInvariant`). `FreeOnlyReturned`
alone is not: at the free one has to know why the loop was left. Either the
last pass found nothing to cancel, then nothing is in flight (`LastIsEmpty`),
which needs that a transfer in flight has last COMPLETED, so the pass did ask for
it (`InFlightCompleted`); or the device is lost, by `NBuf` failed transfers, then
each of the `NBuf` has failed and was never submitted again (`LostMeansDead`),
which rests on counting: `xfer_errors` is at most the number of transfers whose
status is ERROR (`ErrorsAreDead`, with the library's cardinality theorems).
From it follow `TypeCorrect`, `FreeSafe`, `CancelIsFinal` and `StreamRefinement`:
the initial state and every step of the transfers map to `AsyncStream`.

`RtlTcpProofs`. `IInv` ties the control points: past the join the FFT thread
is over, a handler is never on top of a thread that is over, an FFT thread that
is over has seen `do_exit` set, and nothing but main's own reset clears it. From it
follow `OnlySignalsEndIt`, `PinReleasedForGood`, `HandlerHasDevice`, `TypeCorrect`.

`FmPipelineProofs`. `IInv` counts what is still to come for the buffer in `fm.buf`:
its uses, the wakeup under way and main's signal are two in all (`UseInv`), and
likewise for buffers from before a hop (`StaleInv`, which needs that an old read is
never on its way to a new `fm.buf`). `LockInv` says who holds the rwlock and that the
halves of the buffer differ only while main copies. From them follow `WholeBuffers`,
`AtMostTwice`, `UnsetOnlyAtExit`, `AtMostOneStale` and `TypeCorrect`.

`SampleQueueProofs`. The abstract queue is bounded by n + 3 (`QueueBounded`: the
equality test cannot be jumped over, because the queue grows by one), holds exactly
the latest arrivals (`QueueHoldsLatest`), and the consumer reads consecutive ones
(`ConsumedInOrder`).

The list: `QueueInv` is inductive (`QueueInvariant`). `NoDanglingNode` and
`OneOwner` say what the chains from `ll_buffers` and `curelem` contain; that a step
keeps them needs more. The pointers lead from older nodes to younger
ones, to nodes that are allocated, and to each from one node at most (`Pointers`):
so chains end, and two of them meet only where one begins in the other. Who is
where in its code says who holds the mutex, unless the FFT gave up waiting for it
(`Threads`). At each step of the callback, what it has read of the list is what the list
is, or the list is empty and the mutex was broken: the head it tested, the rest
it remembers and the tail it walked to (`Walking`), that this list is as long as
the test of a full list said (`IsFull`), and that the list is cleared by nothing but
the FFT thread (`Cleared`). What is allocated is divided among list, FFT and callback
(`Owners`), from whose form after a broken mutex `NothingDangles` follows as well. `NullNeedsBrokenLock` is
`Walking` read at the crash. Then every step maps to one of `LossyFifo` or to
none (`StepImplements`, `QueueImplementsFifo`): the drop of the head maps at its store, and
a store or link after the mutex was broken to `Revive` or `Lose`. What is proved of the abstract
queue is proved of the list: `ListBounded`, `ListInOrder`.

A chain is a recursive function over the heap. What it returns is proved without an
induction theorem: a statement that fails for some node fails for a greatest one
(`Greatest`, of the numbers up to a bound), where one step of the recursion
contradicts it (`ChainRecursion`, `Least`).

`AdsbProofs`. `RoundsAreNew` speaks of the step that begins a round; what makes it
true is that a mutex that is free again means a copy since (`HandOver`). That is
inductive only together with what the callback owes on its way there: from the copy
to the unlock its data is new, or the round that took it ran into the callback. From
it `NewRounds`; `Control`, `Flags` and `Counts` give `TypeCorrect`.

The decoder's theorem `AllFramesReceived` is for frames of any content, at any places of a buffer
of any size, of any strength, and for all settings. What one has to know of the
buffer at each turn is `Layout`: the decoded frames' bits stand where each of them began
(`Holds`), the samples before a frame's bits are no bits (`PreamblesStay`), and any other
bit is a 0 or in the last sixteen samples, where no preamble is looked for (`Others`): a run
of zeros is never taken for a frame, and one that is too short is not either. It says nothing of
the samples to come: these are `Untouched`. `Decoding` says where the loops are: before a
preamble, in a frame, in the silence behind it, or at the end. In the silence the writes go on at half the pace
of the reads (`Fading`): the pairs so far are at most two for each error, which is
why the silence that `Strict` asks for ends a message before the next preamble is read. From there one lemma
leads to the next: the first preamble found is the next frame's (`NoneInSilence`, `FoundAtFrame`: silence, and silence
with the beginning of a preamble, is none), a turn in it takes
the bit that was sent (`BitTaken`, at every quality), in silence a turn writes a 0 or ends the message
(`FadingStep`), and what is written stays behind what is read (`PutsLayout`, `LayoutChange`).
`messages` then finds each frame's run of bits with its length (`FrameRun`), and no frame
between two of them (`OtherRun`); `Reading` counts those it has shown. Without `Strict` the
loops may be anywhere after the first frame; that one still stands, and first
(`AfterFirst`, `FirstKept`). `Asked` is a recursive function; that it has a value for each frame
is `Recursion`.

`DeviceProofs`. For each function of the library a lemma says what its
outcomes are when no transfer failed (`Step`, `Keeps`, `Quiet`), and the calls are put
together from them as the code does. `IInv` is `Good` of the handle: while
nothing has failed, a frequency that is reported stands in the register that is in
use (`LoGood`, `IfGood`), whatever sampling mode and offset are - stronger than
`TunedUnlessDisplaced`, since a call that changes the mode needs what the other
register holds. `LifeInv` relates handles, leaks and the kernel driver to whether the
device is open. From them `TunedWhereReported`, `ClosingGivesBack` and `TypeCorrect`,
for all frequencies, rates, corrections, crystals and tuners. The types have this proof only; no run lists them. `DivShifted` is long
division in a fixed number of steps, so that its type can be proved.

`ClockInv` does the same for the correction and the crystals: each resampler and each
tuner that keeps its clock has the one last set (`ClockKnown`), and one that asks
asked since (`TunedByClock`). That gives `CorrectionReachesChips`. For the rate it
takes more: a rate is stored as it is computed back from its ratio, and unless that is
the rate that was asked for its own ratio may be another. `RateIsExact` computes when it is: when the ratio
fits 28 bits and bit 27 tells what bit 28 was, `InReach`, by the exact value of the long division
(`LongDivision`). That is false of a crystal of 28800128 Hz and a rate of 225001 Hz,
whose ratio becomes 0, and true of every valid rate with the crystal that the sticks
have (`DefaultInReach`). So `ClocksReachChips` and `SuccessIsSound` assume
`RatesInReach`, and `DefaultCrystalIsSound` has only the default crystal
as its hypothesis, which no program here changes. `SuccessIsSound` rests on `Kept`, for
each function: when a call returns 0 every transfer whose result it joins has
succeeded, so that what was sound before it is so after, and what was not is what
the property excepts.

`SpectrumProofs`. `DetectorInv`: the scan is at a bin of the detection window, none of
the bins before it passed, and after the first of them the pin is low; at the pulse this bin
did pass (`Scanning`). From it `PinIsTrue` and `OneEdgePerDetection`, for any
number of points and any spectra. `BandIs` says what the
counter of bands computes: bin b of the window is in the band with the number of the
window's bins up to there, divided by the bins in a band, rounded up; so the last bin tells how many
bands there are (`OverrunsOnlyIfUneven`). `BinsInOrder` is for an even number of
points only, because it is not true of an odd one.

rtl_power's plan is a computation, and `PlanInv` only says that the plan is
`frequency_range` of the request and the rows are those of the hops so far. The work is in what
that function returns. `SplitIs`: the smallest number of hops that the highest rate allows
exists, and as one hop more makes hops of more than half (`OneMore`), its rate is above the lowest
unless there is one hop. `RaisedRate` and `HalvedRate`: a decimated rate is within the device's
range, with either filter. `Covers` ties a rate to the Hz that a hop shows of it, to a quarter
Hz for each sample that is decimated; it holds after every step (`FirstIs`). From it the
half-width that `csv_dbm` prints is less than a bin short of half a hop (`HalfOfMany`, and `HalfOfTwo`, where
the crop may take half the bins or all), and from the crop's two truncations that the columns are the
bins of a row's width, up to two more and the repeated one, which is `RowsTileTheRange`. For `HopsAreSampled`:
the buffer is whole windows, or is decimated by two or more (`BufferHolds`, `WindowsFit`), and the
planner takes the first bins that are fine enough, so that the length of the buffer is far
from an int's limit (`BufferIsShort`).

`R82xxProofs`. An operation is a sequence of steps that may break off at any transfer,
and `Trace` is a recursive function over it. `Ending` says where such an operation
leaves the tuner: given a set of tuners for each place in the sequence, such that
each step leads from its set to the next, a complete operation ends in the last set,
and one that breaks off in none but a set that every step, done or lost, keeps
(`Recursion` and `TraceIs` give the trace its values, without an induction theorem:
`Reaches`). Each operation's lemma names its sets: what the multiplexer, the PLL and
the calibration keep (`Calm`), where the init and the R828D's branch turn the input
(`Turned`), what the gain's six writes leave (`Positions`). `DriverInv` is inductive: the
shadow of the antenna input's bits is what the driver notes of it while it is ready
(`BitsFollow`), which only an init establishes; the note is what the tuned frequency
wants (`InputWanted`), although the note is made before the write that may be lost and
the retry does not write; the two stages' positions are those the search found
for the gain that was set (`GainSet`); and while the driver is ready its intermediate
frequency is the one the standard fixed (`FreqNoted`). From it `ListensWhereAsked`. For
`GainIsAsAsked` the search is run for each of the 29 listed gains (`TurnsGive`): it
meets every one of them exactly.

`TunesWhereAsked` is about the registers. `TuneInv`, inductive with `DriverInv`, says
that after a frequency was set with success the registers that tune are those that
some divider, counter and fraction program (`Programmed`), and that these numbers are right for
the frequency (`AsAsked`). The first half follows the writes: a tuning that
locks has a fixed sequence of steps (`TuningWrites`, `TuningSteps`); which write of
each register's bits is the last (`LastOf`, `NoneAfter`) decides what it holds at the end
(`Programmes`), the writes of the attempt with less current and the fine-tune bits
included; and the gain operations write no bit of these (`AsideEnding`). The second half
is the PLL's arithmetic: the divider brings the oscillator into its octave (`Octave`,
`DividerFits`), the counter then fits its byte (`NintIs`, `CounterIs`), and the
loop that finds the fraction by halves, which stops after its last round whatever is left, errs
by at most fifteen units of its own rounding and the last half (`Round`, `SdmIsClose`, `FractionOf`).
`WhereAsked` reads the bytes back to numbers (`Reading`) and joins the two.

Assumptions: those named in the modules (`NBuf` positive, bounds and signals natural,
`DecodeAssumption`: the settings are of their types, the traffic is as `IsTraffic` says;
`DeviceAssumption`: what is asked for are numbers of the parameter's type, a
frequency is not 0; `PlanAssumption`: the range with its crop is an int); `RatesInReach` for the two theorems above that say so; and
`UsualClocks` for `TunesWhereAsked`: the tuner's clock is between 6915 and 32767 kHz. Sticks
have 16000 (R828D) or 28800 (R820T), and a correction in
parts per million moves them little. Below, the counter does not fit its byte; above, the
last half leaves more than the tolerance. TLC's run is at the real clocks.

Only model-checked: liveness (`CancelReturns`, `ExitEndsFft`,
`CaughtSignalExits`, `ExitsUnlessAsleep`, `NewIsDecoded`, `CancelEnds`, `RoundEnds`),
which is out of this prover's reach; the other tuners (`TunerBus` uses bitwise operators that no
prover knows).

## 6. Not modelled, and why

libusb, the kernel, the pin library and FFTW are external. Formatting, logging
and timing measurements have no state. Nested signal handlers (the three
signals do not mask each other) are not modelled: one handler at a time. The result
of `pthread_create`, which the code ignores, is taken to be success. Memory
allocation does not fail. Windows-only code is left out.

Of the library: looking a device up by index, name or serial number reads a table
and descriptors and keeps nothing; the EEPROM is a block that only `rtl_eeprom` reads and
writes; the FIR coefficients are written once. Of the R820T: `r82xx_xtal_check` and `r82xx_read_gain`
change nothing that is used; the standards that `r82xx_init` never asks for. Of the
E4000: gain enhancement, common mode and DC offset tables, which have no caller; of the
FC0013: `fc0013_rc_cal_add` and its reset, likewise. Streaming and configuration are
in separate modules: the library has no lock between them, and the programs here
configure before they stream, except rtl_fm and rtl_power, which read synchronously.

`rtl_sdr` is one loop on the stream of `AsyncStream` with a byte count; `rtl_test`
compares a counter with samples and measures wall-clock time; `rtl_eeprom` is a codec
of one block. rtl_fm's filters and demodulators and rtl_power's transform, filters and sweep
loop are signal processing on samples without state that outlives a buffer, but
for filter memories. `getopt` is third-party code for Windows, and
`src/resource_drain.c` a busy loop without state.

## 7. Plan

What would add most, in this order:

1. `Recorder` (rtl_sdr): the byte count that means "without limit" at 0.
2. `EepromCodec` (rtl_eeprom): the strings' offsets against the block's size.
3. rtl_fm's filters as algorithms against reference definitions, with their
   memories across buffers.
4. Proofs: the PLL arithmetic of the E4000 and the FC001x, once `TunerBus` masks
   without the bitwise module, as `R82xx` does.
