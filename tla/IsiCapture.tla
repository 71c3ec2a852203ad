----------------------------- MODULE IsiCapture -----------------------------
(***************************************************************************)
(* One ISI capture channel: the video node and interrupt side of           *)
(* imx8-isi-cap.c, imx8-isi-core.c and imx8-isi-hw.c (under                *)
(* src/exercise-09-dec-21/camera/staging/media/imx/), with the videobuf2   *)
(* queue and the channel hardware as far as the driver depends on them.    *)
(*                                                                         *)
(* The channel writes frames alternately to the two addresses BUF1 and     *)
(* BUF2.  At the end of a frame it raises an interrupt and goes on with the*)
(* other address at once; the handler returns the finished buffer and      *)
(* loads the address that has become free, from the pending list or, when  *)
(* the application is late, from two buffers that share one piece of       *)
(* discard memory.                                                         *)
(*                                                                         *)
(* All ioctls and close run under isi_cap->lock.  The lists are changed    *)
(* under isi_cap->slock by QBUF, start and stop, but under mxc_isi->slock  *)
(* by the interrupt handler: the two do not exclude each other, and with   *)
(* Smp they may overlap, which can leave the lists damaged (broken; nothing*)
(* is said of what happens after that).                                    *)
(*                                                                         *)
(* The handler is assumed to take less than one frame, and less than the   *)
(* 5 ms of the reset in mxc_isi_channel_init; it may start arbitrarily     *)
(* late.  Frame sizes are one number.  One application, media links set up.*)
(*                                                                         *)
(* A definition named X_Something is X with a plausible programming error. *)
(***************************************************************************)
EXTENDS Naturals, FiniteSets, Sequences, DriverLists

CONSTANTS
    Buffers,              \* the vb2 buffers of the application
    Discard1, Discard2,   \* isi_cap->buf_discard[0] and [1]
    DiscardMem,           \* discard_buffer_dma[0], the address both stand for
    NoAddr,               \* an address register never loaded
    Sizes, DefaultSize,   \* sizes of a frame
    CountMod,             \* 2^32: frame_count is a u32
    Faults,               \* a subset of {"remote", "nomem"}
    Careful,              \* the application queues two buffers before STREAMON
    SubdevCallers,        \* someone sets formats on the source pad of the subdev
    Smp                   \* the handler may run beside a process

Discards == {Discard1, Discard2}

ASSUME BuffersAssumption ==
    /\ Discard1 # Discard2 /\ Discards \cap Buffers = {}
    /\ DiscardMem \notin Buffers /\ NoAddr \notin Buffers \cup {DiscardMem}
ASSUME SizesAssumption == Sizes \subseteq Nat \ {0} /\ DefaultSize \in Sizes
ASSUME CountAssumption == CountMod \in Nat /\ CountMod >= 4 /\ CountMod % 2 = 0
ASSUME ChannelAssumption ==
    /\ Faults \subseteq {"remote", "nomem"}
    /\ Careful \in BOOLEAN /\ SubdevCallers \in BOOLEAN /\ Smp \in BOOLEAN

VARIABLES
    opened,       \* the video node is open
    call,         \* where an ioctl or close that takes several steps is
    alloc,        \* plane size of the allocated buffers, 0 when there are none
    dst,          \* dst_f
    hwSize,       \* frame size the channel is configured to write
    pixSet,       \* isi_cap->pix has been filled in by an S_FMT
    discardSize,  \* size of the discard memory, 0 when there is none
    started,      \* vb2: start_streaming has succeeded
    isStreaming,  \* mxc_isi->is_streaming
    channel,      \* the channel and its interrupt are enabled
    remote,       \* the sensor is streaming
    queued,       \* vb2: queued, not yet given to the driver
    pending, discard,  \* out_pending, out_discard
    active,       \* out_active, each buffer with its id (the slot it is in)
    done,         \* vb2: filled, waiting for DQBUF
    slot,         \* the addresses in BUF1 and BUF2
    frameCount,   \* isi_cap->frame_count
    hwActive,     \* the slot the channel is writing
    irqPending,   \* a frame end the handler has not seen
    irq,          \* 0, or in the handler: the active slot mxc_isi->status shows
    asleep,       \* system sleep
    broken        \* the lists have been damaged

queueVars == <<queued, pending, active, discard, done, frameCount>>
hwVars == <<slot, hwActive, irqPending, channel, hwSize>>
formatVars == <<alloc, dst, pixSet, discardSize>>
flagVars == <<opened, call, started, isStreaming, remote, asleep, broken>>
vars == <<queueVars, hwVars, irq, formatVars, flagVars>>

Slots == {1, 2}
Addr(b) == IF b \in Discards THEN DiscardMem ELSE b
Entry(b, s) == [buf |-> b, id |-> s]
Entries == [buf : Buffers \cup Discards, id : Slots]
Bufs(list) == [i \in DOMAIN list |-> list[i].buf]

TypeOK ==
    /\ opened \in BOOLEAN /\ started \in BOOLEAN /\ isStreaming \in BOOLEAN
    /\ channel \in BOOLEAN /\ remote \in BOOLEAN /\ irqPending \in BOOLEAN
    /\ asleep \in BOOLEAN /\ broken \in BOOLEAN /\ pixSet \in BOOLEAN
    /\ call \in {"none", "on_pipeline", "off_channel", "off_drain", "release"}
    /\ irq \in {0} \cup Slots
    /\ dst \in Sizes /\ {alloc, hwSize, discardSize} \subseteq Sizes \cup {0}
    /\ queued \in Seq(Buffers) /\ pending \in Seq(Buffers) /\ done \in Seq(Buffers)
    /\ active \in Seq(Entries) /\ discard \in Seq(Discards)
    /\ slot \in [Slots -> Buffers \cup {DiscardMem, NoAddr}]
    /\ hwActive \in Slots
    /\ frameCount \in 0..(CountMod - 1)

-----------------------------------------------------------------------------
(* Who may run *)

\* A process may enter the driver: nobody holds isi_cap->lock, and on one CPU
\* the handler, once started, runs to its end first.
CpuFree == ~broken /\ (irq = 0 \/ Smp)
MayCall == opened /\ call = "none" /\ ~asleep /\ CpuFree

\* A process changes the lists while the handler is inside them.
Overlap == broken' \in IF irq # 0 /\ started THEN {broken, TRUE} ELSE {broken}

-----------------------------------------------------------------------------
(* Open, formats and buffers *)

\* mxc_isi_capture_open; a failing s_power leaves the node closed.
Open ==
    /\ ~opened /\ call = "none" /\ ~asleep /\ CpuFree
    /\ opened' = TRUE
    /\ UNCHANGED <<queueVars, hwVars, irq, formatVars, call, started, isStreaming, remote,
                   asleep, broken>>

SetFormat_WhileBusy(s) ==
    /\ MayCall
    /\ dst' = s /\ pixSet' = TRUE
    /\ UNCHANGED <<queueVars, hwVars, irq, alloc, discardSize, flagVars>>

\* VIDIOC_S_FMT: -EBUSY as long as buffers are allocated.
SetFormat(s) ==
    /\ MayCall /\ alloc = 0
    /\ dst' = s /\ pixSet' = TRUE
    /\ UNCHANGED <<queueVars, hwVars, irq, alloc, discardSize, flagVars>>

\* mxc_isi_subdev_set_fmt on a source pad: the busy test is for sink pads only,
\* and pix keeps what it had.
SubdevSetFormat(s) ==
    /\ SubdevCallers /\ call = "none" /\ ~asleep /\ CpuFree
    /\ dst' = s
    /\ UNCHANGED <<queueVars, hwVars, irq, alloc, pixSet, discardSize, flagVars>>

\* VIDIOC_REQBUFS: the queue is cancelled, its buffers are freed and new ones of
\* the current frame size allocated, or none.  Freed buffers that a failed start
\* has left on out_pending dangle.
RequestBuffers ==
    /\ MayCall /\ ~started
    /\ alloc' \in {0, dst}
    /\ queued' = <<>> /\ done' = <<>>
    /\ broken' = (broken \/ pending # <<>>)
    /\ UNCHANGED <<pending, active, discard, frameCount, hwVars, irq, dst, pixSet, discardSize,
                   opened, call, started, isStreaming, remote, asleep>>

\* The buffers the application may queue, as vb2 sees it.
Owned ==
    Range(queued) \cup Range(done) \cup (IF started THEN Range(pending) \cup Range(Bufs(active)) ELSE {})

QueueBuffer_AtHead(b) ==
    /\ MayCall /\ alloc # 0 /\ b \notin Owned
    /\ dst <= alloc
    /\ IF started
       THEN pending' = <<b>> \o pending /\ Overlap /\ UNCHANGED queued
       ELSE queued' = Append(queued, b) /\ UNCHANGED <<pending, broken>>
    /\ UNCHANGED <<active, discard, done, frameCount, hwVars, irq, formatVars,
                   opened, call, started, isStreaming, remote, asleep>>

\* VIDIOC_QBUF: cap_vb2_buffer_prepare refuses a buffer smaller than the frame;
\* cap_vb2_buffer_queue is called once the driver has started.
QueueBuffer(b) ==
    /\ MayCall /\ alloc # 0 /\ b \notin Owned
    /\ dst <= alloc
    /\ IF started
       THEN pending' = Append(pending, b) /\ Overlap /\ UNCHANGED queued
       ELSE queued' = Append(queued, b) /\ UNCHANGED <<pending, broken>>
    /\ UNCHANGED <<active, discard, done, frameCount, hwVars, irq, formatVars,
                   opened, call, started, isStreaming, remote, asleep>>

\* VIDIOC_DQBUF
DequeueBuffer ==
    /\ MayCall /\ started /\ done # <<>>
    /\ done' = Tail(done)
    /\ UNCHANGED <<queued, pending, active, discard, frameCount, hwVars, irq,
                   formatVars, flagVars>>

-----------------------------------------------------------------------------
(* The frame interrupt *)

\* The channel finishes a frame and goes on with the other slot.
FrameEnd ==
    /\ channel /\ remote /\ ~asleep /\ irq = 0
    /\ hwActive' = 3 - hwActive
    /\ irqPending' = TRUE
    /\ UNCHANGED <<queueVars, slot, channel, hwSize, irq, formatVars, flagVars>>

\* mxc_isi_irq_handler reads and clears the status.
IrqEnter ==
    /\ channel /\ irqPending /\ irq = 0
    /\ irq' = hwActive
    /\ irqPending' = FALSE
    /\ UNCHANGED <<queueVars, slot, hwActive, channel, hwSize, formatVars, flagVars>>

OutSlot_Reversed(n) == IF n = 0 \/ (irq = 1 /\ n # 1) THEN 1 ELSE 2

\* mxc_isi_channel_set_outbuf: the slot loaded for frame number n.
OutSlot(n) == IF n = 0 \/ (irq = 2 /\ n # 1) THEN 1 ELSE 2

Skip_Never == active = <<>>

\* The frame is skipped when the oldest active buffer is in the slot being
\* written: the interrupt comes a whole frame late.
Skip == active = <<>> \/ Head(active).id = irq

Spare_Forgets(h) == discard

\* out_discard after h has left out_active.
Spare(h) == IF h \in Discards THEN Append(discard, h) ELSE discard

Delivered_Always(h) == Append(done, h)

\* vb2_buffer_done for everything but discard buffers.
Delivered(h) == IF h \in Discards THEN done ELSE Append(done, h)

UsePending_DiscardFirst == pending # <<>> /\ Spare(Head(active).buf) = <<>>

\* The next buffer comes from the application whenever it has queued one.
UsePending == pending # <<>>

\* isi_cap->frame_count++, a u32.
NextCount == IF frameCount + 1 = CountMod THEN 0 ELSE frameCount + 1

\* b takes the slot that has become free.
Load(b) ==
    /\ slot' = [slot EXCEPT ![OutSlot(NextCount)] = Addr(b)]
    /\ active' = Append(Tail(active), Entry(b, OutSlot(NextCount)))

\* The finished buffer is returned and its slot reloaded.
Exchange ==
    LET spare == Spare(Head(active).buf) IN
    /\ done' = Delivered(Head(active).buf)
    /\ frameCount' = NextCount
    /\ \/ UsePending /\ Load(Head(pending)) /\ pending' = Tail(pending) /\ discard' = spare
       \/ /\ ~UsePending /\ spare # <<>>
          /\ Load(Head(spare)) /\ discard' = Tail(spare) /\ UNCHANGED pending
       \/ /\ ~UsePending /\ spare = <<>>   \* "trying to access empty discard list"
          /\ active' = Tail(active)
          /\ UNCHANGED <<pending, discard, slot>>
    /\ UNCHANGED queued

\* mxc_isi_cap_frame_write_done
FrameWriteDone ==
    /\ irq # 0 /\ ~broken
    /\ irq' = 0
    /\ IF Skip THEN UNCHANGED <<queueVars, slot>> ELSE Exchange
    /\ UNCHANGED <<hwActive, irqPending, channel, hwSize, formatVars, flagVars>>

-----------------------------------------------------------------------------
(* STREAMON *)

\* cap_vb2_start_streaming with the list of buffers p, at least two of them
\* handed over by vb2: a discard buffer in BUF1, the first buffer in BUF2.  The
\* discard memory is allocated plane by plane of pix, which has none before the
\* first S_FMT: then there is no such memory and DiscardMem is address 0.
StartStreaming(p) ==
    /\ started' = TRUE
    /\ discardSize' = IF pixSet THEN dst ELSE 0
    /\ active' = <<Entry(Discard1, 1), Entry(Head(p), 2)>>
    /\ pending' = Tail(p)
    /\ discard' = <<Discard2>>
    /\ queued' = <<>>
    /\ slot' = [s \in Slots |-> IF s = 1 THEN DiscardMem ELSE Head(p)]
    /\ frameCount' = 1
    /\ UNCHANGED done

\* vb2_ioctl_streamon.  When start_streaming fails vb2 takes its buffers back,
\* but they stay linked on out_pending; queueing one again damages the list.
Vb2StreamOn ==
    LET p == pending \o queued IN
    IF started \/ alloc = 0
    THEN UNCHANGED <<queueVars, slot, started, discardSize, broken>>
    ELSE /\ broken' = (broken \/ Range(pending) \cap Range(queued) # {})
         /\ \/ Len(queued) >= 2 /\ StartStreaming(p)
            \/ /\ Len(queued) < 2 \/ ("nomem" \in Faults /\ pixSet)
               /\ pending' = p
               /\ UNCHANGED <<queued, active, discard, done, frameCount, slot, started,
                              discardSize>>

\* mxc_isi_channel_init and mxc_isi_channel_config: reset, then the frame size
\* (before any format is set the line pitch is 0, and lines overwrite each other).
ConfigureChannel == hwSize' = dst /\ hwActive' = 1

\* mxc_isi_channel_enable: old status is cleared before interrupts are enabled.
EnableChannel == channel' = TRUE /\ irqPending' = FALSE

\* mxc_isi_cap_streamon up to the wait in mxc_isi_channel_enable; the result of
\* vb2_ioctl_streamon is overwritten.
StreamOn ==
    /\ MayCall /\ irq = 0
    /\ Careful => started \/ (alloc # 0 /\ Len(queued) >= 2)
    /\ ConfigureChannel
    /\ Vb2StreamOn
    /\ EnableChannel
    /\ call' = "on_pipeline"
    /\ UNCHANGED <<irq, alloc, dst, pixSet, opened, isStreaming, remote, asleep>>

OnPipeline_NoFlag ==
    /\ call = "on_pipeline"
    /\ remote' = TRUE /\ UNCHANGED isStreaming
    /\ call' = "none"
    /\ UNCHANGED <<queueVars, hwVars, irq, formatVars, opened, started, asleep, broken>>

\* The rest: mxc_isi_pipeline_enable(1) stops at the first subdev that fails.
OnPipeline ==
    /\ call = "on_pipeline"
    /\ \/ remote' = TRUE /\ isStreaming' = TRUE
       \/ "remote" \in Faults /\ remote' \in {remote, TRUE} /\ UNCHANGED isStreaming
    /\ call' = "none"
    /\ UNCHANGED <<queueVars, hwVars, irq, formatVars, opened, started, asleep, broken>>

-----------------------------------------------------------------------------
(* STREAMOFF and close *)

\* mxc_isi_cap_streamoff: first mxc_isi_pipeline_enable(0), whose result is
\* ignored.
StreamOff ==
    /\ MayCall
    /\ \/ remote' = FALSE
       \/ "remote" \in Faults /\ UNCHANGED remote
    /\ call' = "off_channel"
    /\ UNCHANGED <<queueVars, hwVars, irq, formatVars, opened, started, isStreaming, asleep,
                   broken>>

\* mxc_isi_channel_disable: interrupts off, but nothing waits for a handler.
OffChannel ==
    /\ call = "off_channel" /\ CpuFree
    /\ channel' = FALSE /\ irqPending' = FALSE
    /\ call' = "off_drain"
    /\ UNCHANGED <<queueVars, slot, hwActive, hwSize, irq, formatVars, opened, started,
                   isStreaming, remote, asleep, broken>>

\* __vb2_queue_cancel, with cap_vb2_stop_streaming when the driver has started:
\* the lists are emptied, every buffer goes back to the application.
Cancel ==
    /\ IF started
       THEN pending' = <<>> /\ active' = <<>> /\ discard' = <<>> /\ discardSize' = 0
       ELSE UNCHANGED <<pending, active, discard, discardSize>>
    /\ queued' = <<>> /\ done' = <<>>
    /\ started' = FALSE
    /\ UNCHANGED frameCount

\* vb2_ioctl_streamoff
OffDrain ==
    /\ call = "off_drain" /\ CpuFree
    /\ Cancel
    /\ Overlap
    /\ isStreaming' = FALSE
    /\ call' = "none"
    /\ UNCHANGED <<hwVars, irq, alloc, dst, pixSet, opened, remote, asleep>>

\* mxc_isi_capture_release: stop_streaming disables the channel first.  Neither
\* the sensor nor is_streaming is touched.
Close ==
    /\ MayCall
    /\ IF started THEN channel' = FALSE /\ irqPending' = FALSE
                  ELSE UNCHANGED <<channel, irqPending>>
    /\ call' = "release"
    /\ UNCHANGED <<queueVars, slot, hwActive, hwSize, irq, formatVars, opened, started,
                   isStreaming, remote, asleep, broken>>

\* The buffers are freed; the last user's mxc_isi_channel_deinit resets the
\* channel and switches it off.
Release ==
    /\ call = "release" /\ CpuFree
    /\ Cancel
    /\ IF started THEN Overlap ELSE broken' = (broken \/ pending # <<>>)
    /\ channel' = FALSE /\ irqPending' = FALSE
    /\ alloc' = 0
    /\ opened' = FALSE
    /\ call' = "none"
    /\ UNCHANGED <<slot, hwActive, hwSize, irq, dst, pixSet, isStreaming, remote, asleep>>

-----------------------------------------------------------------------------
(* System sleep *)

\* mxc_isi_pm_suspend, user space frozen; refused with is_streaming set.
SystemSuspend ==
    /\ call = "none" /\ irq = 0 /\ ~asleep
    /\ ~isStreaming
    /\ asleep' = TRUE
    /\ UNCHANGED <<queueVars, hwVars, irq, formatVars, opened, call, started, isStreaming,
                   remote, broken>>

SystemResume ==
    /\ asleep
    /\ asleep' = FALSE
    /\ UNCHANGED <<queueVars, hwVars, irq, formatVars, opened, call, started, isStreaming,
                   remote, broken>>

-----------------------------------------------------------------------------
\* What probe leaves: a default dst_f, no pix.
Init ==
    /\ opened = FALSE /\ call = "none" /\ asleep = FALSE /\ broken = FALSE
    /\ alloc = 0 /\ dst = DefaultSize /\ hwSize = 0
    /\ pixSet = FALSE /\ discardSize = 0
    /\ started = FALSE /\ isStreaming = FALSE /\ channel = FALSE /\ remote = FALSE
    /\ queued = <<>> /\ pending = <<>> /\ active = <<>> /\ discard = <<>> /\ done = <<>>
    /\ slot = [s \in Slots |-> NoAddr]
    /\ frameCount = 0
    /\ hwActive = 1 /\ irqPending = FALSE /\ irq = 0

\* The application.
UserStep ==
    \/ Open \/ RequestBuffers \/ DequeueBuffer \/ StreamOn \/ StreamOff \/ Close
    \/ \E s \in Sizes : SetFormat(s) \/ SubdevSetFormat(s)
    \/ \E b \in Buffers : QueueBuffer(b)

\* The rest of a call that has begun.
CallStep == OnPipeline \/ OffChannel \/ OffDrain \/ Release

Next ==
    \/ UserStep \/ CallStep
    \/ FrameEnd \/ IrqEnter \/ FrameWriteDone
    \/ SystemSuspend \/ SystemResume

Spec == Init /\ [][Next]_vars

\* An interrupt that finds the finished frame in the oldest active buffer.
TimelyIrq == IrqEnter /\ active # <<>> /\ Head(active).id # hwActive

\* A streaming sensor delivers frames, calls and handlers end, and interrupts
\* are not late for ever: one that is in time again and again is served.
FairSpec ==
    /\ Spec
    /\ WF_vars(FrameEnd)
    /\ WF_vars(FrameWriteDone)
    /\ WF_vars(CallStep)
    /\ SF_vars(TimelyIrq)

-----------------------------------------------------------------------------
(* Properties *)

\* Where a buffer can be while the application does not hold it.
Lists == <<queued, pending, Bufs(active), discard, done>>

\* While the channel runs, both addresses it may write are those of buffers on
\* the active list, and no buffer is in two places: the hardware never writes
\* memory that vb2 has handed back (frame_write_done, start and stop order), nor
\* the address of discard memory that has been freed or never allocated, once a
\* format has been set.
DmaTargetOwned ==
    /\ channel => \A s \in Slots : \E i \in DOMAIN active :
                     slot[s] = Addr(active[i].buf) /\ active[i].id = s
    /\ channel /\ pixSet => discardSize # 0
    /\ \A k \in DOMAIN Lists : NoRepeat(Lists[k])
    /\ \A k, l \in DOMAIN Lists : k # l => Range(Lists[k]) \cap Range(Lists[l]) = {}

\* A started channel always has two buffers: neither warning about an empty list
\* in mxc_isi_cap_frame_write_done can be reached, however late the application.
NeverStarved == started => Len(active) = 2

\* The slot being written is never reloaded, not even for the frame numbers 0
\* and 1 that set_outbuf treats specially and that come back when the 32-bit
\* frame counter wraps.
IdleSlotLoaded ==
    [][started /\ channel /\ channel' => slot'[hwActive] = slot[hwActive]]_vars

\* Frames fit the application's buffers and, once any format has been set, the
\* discard memory; before that STREAMON goes ahead without discard memory
\* (cap_vb2_start_streaming counts the planes of pix).
FrameFits == channel => hwSize <= alloc /\ (pixSet => hwSize <= discardSize)

\* A discard buffer is not in the application's line.
InLine(b) == IF b \in Buffers THEN <<b>> ELSE <<>>

\* The application's view: done, then the two active, then pending, then queued
\* buffers.
Line ==
    LET loaded == IF started THEN InLine(active[1].buf) \o InLine(active[2].buf) ELSE <<>> IN
    done \o loaded \o pending \o queued

Fifo == INSTANCE BufferFifo WITH line <- Line, ready <- Len(done)

\* The lists, the two slots and the discard buffers together implement a FIFO.
ImplementsFifo == Fifo!Spec

\* "running, prevent entering suspend": the channel is not running when the
\* system sleeps.
AsleepIsIdle == asleep => ~channel

\* "running, prevent entering suspend": suspend is refused only while running.
RefusedOnlyRunning == call = "none" /\ isStreaming => channel

\* A buffer the driver holds comes back as long as the sensor streams and no other
\* call (a second STREAMON resets the channel) is made.
BuffersReturn ==
    \A b \in Buffers :
        b \in Range(pending) \cup Range(Bufs(active))
          ~> (b \notin Range(pending) \cup Range(Bufs(active)) \/ ~remote \/ asleep \/ call # "none")
=============================================================================
