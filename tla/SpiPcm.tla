-------------------------------- MODULE SpiPcm --------------------------------
(***************************************************************************)
(* The capture path of sound/soc/mediatek/mt8167/amzn-spi-pcm: a work item *)
(* that reads audio frames from an FPGA over SPI into a ring buffer, and   *)
(* the PCM callbacks that start it, stop it and free the buffer under it.  *)
(*                                                                         *)
(* Sizes and offsets are in frames of SPI_BYTES_PER_FRAME bytes: every     *)
(* size in the driver is a whole number of frames.  The ALSA core calls    *)
(* the callbacks one at a time and in the order its stream states allow;   *)
(* the work item runs beside them.                                         *)
(***************************************************************************)
EXTENDS Integers, FiniteSets

CONSTANTS FrameBuf,    \* DOUGH_AUDIO_FRAME_BUF
          BufferSizes, \* the buffer sizes an application asks for
          SizeModulus, \* size_t wraps at SizeModulus
          MaxFlushed   \* MAX_FLUSHED_CYCLES

\* SPI_BYTES_PER_PERIOD: a full transfer and its header.
Period == FrameBuf + 1

\* period_bytes_min of amzn_mt_spi_pcm_hardware.
ASSUME SpiPcmAssumption ==
    /\ FrameBuf \in Nat \ {0} /\ MaxFlushed \in Nat
    /\ BufferSizes \subseteq Nat /\ \A b \in BufferSizes : b >= Period
    /\ SizeModulus \in Nat /\ \A b \in BufferSizes : SizeModulus > b + 2 * Period

VARIABLES app,         \* the stream: "closed", "open", "setup", "running" or,
                       \* inside hw_free, "flush"
          dma_bytes,   \* runtime->dma_bytes, 0 while no buffer is allocated
          buffer_size, \* runtime->buffer_size
          pending,     \* spi_work is queued
          run_thread,
          work,        \* where spi_data_read() is, or "idle"
          frames,      \* rx_df->dsf.num_audio_frames
          n_bytes, copied,
          src_ptr,     \* the position in the received frame
          cur_write_offset, elapsed, elapsed_threshold, iter_count,
          transfer_timestamps_enab

vars == <<app, dma_bytes, buffer_size, pending, run_thread, work, frames, n_bytes,
          copied, src_ptr, cur_write_offset, elapsed, elapsed_threshold,
          iter_count, transfer_timestamps_enab>>
streamVars == <<app, dma_bytes, buffer_size, pending>>
copyVars == <<frames, n_bytes, copied, src_ptr>>
ringVars == <<cur_write_offset, elapsed, elapsed_threshold>>

Init ==
    /\ app = "closed" /\ dma_bytes = 0 /\ buffer_size = 0
    /\ pending = FALSE /\ run_thread = FALSE /\ work = "idle"
    /\ frames = 0 /\ n_bytes = 0 /\ copied = 0 /\ src_ptr = 0
    /\ cur_write_offset = 0 /\ elapsed = 0 /\ elapsed_threshold = Period
    /\ iter_count = 0
    /\ transfer_timestamps_enab = FALSE

------------------------------------------------------------------------------
\* amzn_mt_spi_pcm_open(); an open that fails changes nothing.
Open ==
    /\ app = "closed"
    /\ app' = "open"
    /\ cur_write_offset' = 0
    /\ elapsed' = 0
    /\ UNCHANGED <<dma_bytes, buffer_size, pending, run_thread, work, copyVars,
                   elapsed_threshold, iter_count, transfer_timestamps_enab>>

\* amzn_mt_spi_pcm_hw_params() allocates only when there is no buffer; the core
\* then takes over the size that the application asked for.  It also allows the
\* call in a stream that is set up and does not call hw_free in between.
HwParams(size) ==
    /\ app \in {"open", "setup"}
    /\ app' = "setup"
    /\ dma_bytes' = IF dma_bytes = 0 THEN size ELSE dma_bytes
    /\ buffer_size' = size
    /\ UNCHANGED <<pending, run_thread, work, copyVars, ringVars, iter_count,
                   transfer_timestamps_enab>>

\* SNDRV_PCM_TRIGGER_START queues the work; work that runs is queued again and
\* runs a second time afterwards.
TriggerStart ==
    /\ app = "setup"
    /\ app' = "running"
    /\ pending' = TRUE
    /\ UNCHANGED <<dma_bytes, buffer_size, run_thread, work, copyVars, ringVars,
                   iter_count, transfer_timestamps_enab>>

\* Faulty: STOP does not clear run_thread.
TriggerStopForgets ==
    /\ app = "running"
    /\ app' = "setup"
    /\ UNCHANGED <<dma_bytes, buffer_size, pending, run_thread, work, copyVars,
                   ringVars, iter_count, transfer_timestamps_enab>>

\* SNDRV_PCM_TRIGGER_STOP, from the application or from the core on an overrun.
TriggerStop ==
    /\ app = "running"
    /\ app' = "setup"
    /\ run_thread' = FALSE
    /\ UNCHANGED <<dma_bytes, buffer_size, pending, work, copyVars, ringVars,
                   iter_count, transfer_timestamps_enab>>

\* amzn_mt_spi_pcm_hw_free() first waits in flush_workqueue() ...
HwFree ==
    /\ app = "setup"
    /\ app' = "flush"
    /\ UNCHANGED <<dma_bytes, buffer_size, pending, run_thread, work, copyVars,
                   ringVars, iter_count, transfer_timestamps_enab>>

\* Faulty: the buffer is freed without waiting for the work item.
HwFreeFlushedEarly ==
    /\ app = "flush"
    /\ app' = "open"
    /\ dma_bytes' = 0
    /\ UNCHANGED <<buffer_size, pending, run_thread, work, copyVars, ringVars,
                   iter_count, transfer_timestamps_enab>>

\* ... and frees the buffer when the work has ended.
HwFreeFlushed ==
    /\ app = "flush" /\ ~pending /\ work = "idle"
    /\ app' = "open"
    /\ dma_bytes' = 0
    /\ UNCHANGED <<buffer_size, pending, run_thread, work, copyVars, ringVars,
                   iter_count, transfer_timestamps_enab>>

\* amzn_mt_spi_pcm_close(): the core has called hw_free before.
Close ==
    /\ app = "open"
    /\ app' = "closed"
    /\ UNCHANGED <<dma_bytes, buffer_size, pending, run_thread, work, copyVars,
                   ringVars, iter_count, transfer_timestamps_enab>>

\* amzn_mt_spi_pcm_pointer().  The test compares frames with bytes; bytes is
\* what SPI_BYTES_PER_FRAME (at least 18) makes of dma_bytes.
pointer == IF cur_write_offset = 18 * dma_bytes THEN cur_write_offset - 1
                                                ELSE cur_write_offset

\* transfer_timestamps_set(), at any time; any value but 0 turns it on.
TimestampsSet ==
    /\ transfer_timestamps_enab' = ~transfer_timestamps_enab
    /\ UNCHANGED <<streamVars, run_thread, work, copyVars, ringVars, iter_count>>

------------------------------------------------------------------------------
\* A worker takes spi_work off the queue.
WorkBegins ==
    /\ pending /\ work = "idle"
    /\ pending' = FALSE
    /\ work' = "init"
    /\ UNCHANGED <<app, dma_bytes, buffer_size, run_thread, copyVars, ringVars,
                   iter_count, transfer_timestamps_enab>>

\* The transfer buffers cannot be allocated.
WorkNoMemory ==
    /\ work = "init"
    /\ work' = "idle"
    /\ UNCHANGED <<streamVars, run_thread, copyVars, ringVars, iter_count,
                   transfer_timestamps_enab>>

\* The counters are reset and run_thread is set, whatever it was.
WorkInit ==
    /\ work = "init"
    /\ elapsed' = 0
    /\ cur_write_offset' = 0
    /\ elapsed_threshold' = Period
    /\ iter_count' = 0
    /\ run_thread' = TRUE
    /\ work' = "loop"
    /\ UNCHANGED <<streamVars, copyVars, transfer_timestamps_enab>>

\* while (get_run_thread())
WorkLoop ==
    /\ work = "loop"
    /\ work' = IF run_thread THEN "transfer" ELSE "idle"
    /\ UNCHANGED <<streamVars, run_thread, copyVars, ringVars, iter_count,
                   transfer_timestamps_enab>>

\* spi_txrx() fails, which ends the work, or brings a frame.  A frame of the
\* wrong revision, and one of the first few that report an overrun, is skipped.
WorkTransfer(ok, rev, overrun, n) ==
    /\ work = "transfer"
    /\ frames' = n
    /\ work' = IF ~ok THEN "idle"
               ELSE IF ~rev \/ (overrun /\ iter_count < MaxFlushed) THEN "delay"
               ELSE "check"
    /\ UNCHANGED <<streamVars, run_thread, n_bytes, copied, src_ptr, ringVars,
                   iter_count, transfer_timestamps_enab>>

\* run_thread is looked at again, a frame count beyond the buffer is refused,
\* and the header goes along when timestamps are on.  The locals set here are
\* dead in a pass that does not copy.
WorkCheck ==
    /\ work = "check"
    /\ work' = IF ~run_thread THEN "idle"
               ELSE IF frames > FrameBuf THEN "delay" ELSE "copy"
    /\ n_bytes' = frames + (IF transfer_timestamps_enab THEN 1 ELSE 0)
    /\ copied' = 0
    /\ src_ptr' = 0
    /\ UNCHANGED <<streamVars, run_thread, frames, ringVars, iter_count,
                   transfer_timestamps_enab>>

\* Faulty: src_ptr is not advanced past the first chunk.
CopyChunkSameSource ==
    /\ work = "copy" /\ n_bytes > 0
    /\ LET room == dma_bytes - cur_write_offset
           bytes == IF room < n_bytes THEN room ELSE n_bytes
       IN  /\ cur_write_offset' = (cur_write_offset + bytes) % dma_bytes
           /\ n_bytes' = n_bytes - bytes
           /\ copied' = copied + bytes
    /\ UNCHANGED <<streamVars, run_thread, work, frames, src_ptr, elapsed,
                   elapsed_threshold, iter_count, transfer_timestamps_enab>>

\* One pass of while (n_bytes > 0): the chunk goes to the write offset, up to
\* the end of the ring, from src_ptr advanced by what was copied so far.
CopyChunk ==
    /\ work = "copy" /\ n_bytes > 0
    /\ LET room == dma_bytes - cur_write_offset
           bytes == IF room < n_bytes THEN room ELSE n_bytes
       IN  /\ cur_write_offset' = (cur_write_offset + bytes) % dma_bytes
           /\ n_bytes' = n_bytes - bytes
           /\ copied' = copied + bytes
    /\ src_ptr' = src_ptr + copied
    /\ UNCHANGED <<streamVars, run_thread, work, frames, elapsed,
                   elapsed_threshold, iter_count, transfer_timestamps_enab>>

\* Faulty: the thresholds restart one period early.
CopyEndEarly ==
    /\ work = "copy" /\ n_bytes = 0
    /\ work' = "delay"
    /\ LET e == (elapsed + copied) % SizeModulus
           wrap == elapsed_threshold + Period >= dma_bytes
       IN  IF e >= elapsed_threshold
           THEN /\ elapsed_threshold' = IF wrap THEN Period
                                        ELSE elapsed_threshold + Period
                /\ elapsed' = IF wrap THEN (e - dma_bytes) % SizeModulus ELSE e
           ELSE elapsed' = e /\ UNCHANGED elapsed_threshold
    /\ UNCHANGED <<streamVars, run_thread, copyVars, cur_write_offset, iter_count,
                   transfer_timestamps_enab>>

\* The period accounting after a transfer; snd_pcm_period_elapsed() is called
\* when the threshold is reached, which moves to the next period.
CopyEnd ==
    /\ work = "copy" /\ n_bytes = 0
    /\ work' = "delay"
    /\ LET e == (elapsed + copied) % SizeModulus
           wrap == elapsed_threshold + Period > dma_bytes
       IN  IF e >= elapsed_threshold
           THEN /\ elapsed_threshold' = IF wrap THEN Period
                                        ELSE elapsed_threshold + Period
                /\ elapsed' = IF wrap THEN (e - dma_bytes) % SizeModulus ELSE e
           ELSE elapsed' = e /\ UNCHANGED elapsed_threshold
    /\ UNCHANGED <<streamVars, run_thread, copyVars, cur_write_offset, iter_count,
                   transfer_timestamps_enab>>

\* The label delay: the pass is counted, the worker sleeps and goes round.
WorkDelay ==
    /\ work = "delay"
    /\ iter_count' = IF iter_count < MaxFlushed THEN iter_count + 1 ELSE iter_count
    /\ work' = "loop"
    /\ UNCHANGED <<streamVars, run_thread, copyVars, ringVars,
                   transfer_timestamps_enab>>

Transfer ==
    \E ok, rev, overrun \in BOOLEAN, n \in 0..(3 * Period) :
        WorkTransfer(ok, rev, overrun, n)

\* The steps that a worker takes by itself.
Work ==
    \/ WorkBegins \/ WorkNoMemory \/ WorkInit \/ WorkLoop \/ Transfer
    \/ WorkCheck \/ CopyChunk \/ CopyEnd \/ WorkDelay

Next ==
    \/ Open \/ (\E size \in BufferSizes : HwParams(size))
    \/ TriggerStart \/ TriggerStop \/ HwFree \/ HwFreeFlushed \/ Close
    \/ TimestampsSet
    \/ Work

Spec == Init /\ [][Next]_vars

\* The worker runs, and flush_workqueue() returns when the work has ended.
FairSpec == Spec /\ WF_vars(Work) /\ WF_vars(HwFreeFlushed)

------------------------------------------------------------------------------
Working == work \in {"transfer", "check", "copy", "delay", "loop"}

\* Each variable has the values that the code gives it.
TypeOK ==
    /\ app \in {"closed", "open", "setup", "running", "flush"}
    /\ dma_bytes \in BufferSizes \cup {0}
    /\ buffer_size \in BufferSizes \cup {0}
    /\ work \in {"idle", "init", "loop", "transfer", "check", "copy", "delay"}
    /\ {pending, run_thread, transfer_timestamps_enab} \subseteq BOOLEAN
    /\ {frames, n_bytes, copied, src_ptr} \subseteq 0..(4 * Period)
    /\ cur_write_offset \in Nat
    /\ {elapsed, elapsed_threshold} \subseteq 0..(SizeModulus - 1)
    /\ iter_count \in 0..MaxFlushed

\* The work item writes only to a buffer that is there, and inside it: hw_free
\* waits for the work, and no pass leaves the write offset at the end of the
\* ring.
WritesInsideLiveBuffer ==
    Working => dma_bytes > 0 /\ cur_write_offset < dma_bytes

\* The chunks of a transfer that is split at the end of the ring come from
\* consecutive positions of the received frame.  The code adds the running
\* total to src_ptr on every pass, which is right for two chunks and no more.
ChunksFollow ==
    [][copied' > copied => src_ptr' = copied]_vars

\* After every transfer the application has been told of each period that is
\* complete, and the period counter agrees with the ring: one call of
\* snd_pcm_period_elapsed() per transfer is enough, and elapsed, which is reset
\* by subtracting the size of the ring, never wraps below 0.
PeriodsAccounted ==
    work = "delay" =>
        /\ elapsed < elapsed_threshold
        /\ elapsed % dma_bytes = cur_write_offset

\* STOP never comes before the work item that START queued has started.
NoEarlyStop == [](pending \/ work = "init" => app = "running")

\* hw_free, and with it closing the stream, returns, if no STOP came so early
\* that the work item set run_thread again after it.
FlushReturns == NoEarlyStop => (app = "flush" ~> app # "flush")

\* What the comment in amzn_mt_spi_pcm_pointer() says of the position that it
\* reports to the core: it is within buffer_size - 1 frames.
PointerInBuffer == app = "running" /\ Working => pointer < buffer_size
==============================================================================
