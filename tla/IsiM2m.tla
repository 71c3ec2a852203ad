------------------------------- MODULE IsiM2m -------------------------------
(***************************************************************************)
(* The memory to memory path of an ISI channel: imx8-isi-m2m.c with the    *)
(* part of imx8-isi-core.c and imx8-isi-hw.c it uses (all under            *)
(* src/exercise-09-dec-21/camera/staging/media/imx/), the v4l2-mem2mem and *)
(* videobuf2 cores and the channel hardware as far as the driver depends   *)
(* on them.                                                                *)
(*                                                                         *)
(* The channel reads a source buffer of the output queue and writes the    *)
(* converted frame to one of two addresses, BUF1 and BUF2, in turn.  Both  *)
(* hold capture buffers from capture STREAMON on; the interrupt at the end *)
(* of a job returns the older one with the source buffer and loads the     *)
(* address that has become free.                                           *)
(*                                                                         *)
(* The same channel serves the capture node of imx8-isi-cap.c: open and    *)
(* close of that node are here as far as they touch usage_count and        *)
(* m2m_enabled.  Left out: DQBUF (a buffer the driver has returned may be  *)
(* queued again), the flip and alpha controls, a second process that opens *)
(* the m2m node while the first one is inside close.                       *)
(*                                                                         *)
(* A definition named X_Something is X with a plausible programming error. *)
(***************************************************************************)
EXTENDS Naturals, FiniteSets, Sequences, DriverLists

CONSTANTS
    Sources, Targets,  \* the buffers of the output and of the capture queue
    NoAddr,            \* an address never loaded, a buffer never written
    Sizes,             \* the sizes of a frame S_FMT may choose on each queue
    CountMod,          \* 2^32: frame_count is a u32
    MaxCaptureUsers,   \* bound on the openers of the capture node
    Rewinds,           \* hardware: a channel that was disabled starts with BUF1
    Rules              \* the rules, listed below, that the application keeps

ASSUME BuffersAssumption ==
    /\ Sources \cap Targets = {} /\ NoAddr \notin Sources \cup Targets
    /\ "index" \in Rules => Sources \cup Targets \subseteq Nat
ASSUME SizesAssumption == Sizes \in [{"out", "cap"} -> SUBSET (Nat \ {0})]
ASSUME CountAssumption == CountMod \in Nat /\ CountMod >= 4 /\ CountMod % 2 = 0
ASSUME UsersAssumption == MaxCaptureUsers \in Nat
ASSUME RulesAssumption ==
    Rewinds \in BOOLEAN /\ Rules \subseteq {"order", "once", "two", "format", "alone", "index"}

VARIABLES
    opened,        \* the m2m node is open
    call,          \* the open, STREAMOFF or close that is under way
    cancelled,     \* v4l2-mem2mem: TRANS_ABORT, set by v4l2_m2m_cancel_job
    usage,         \* mxc_isi->usage_count
    m2mEnabled,    \* mxc_isi->m2m_enabled
    captureUsers,  \* files open on the capture node
    captureOpening,  \* mxc_isi_capture_open has found m2m_enabled clear
    fmt,           \* frame sizes of src_f and dst_f, 0 before S_FMT
    alloc,         \* plane size of the allocated buffers, 0 when there are none
    streaming,     \* vb2: the queues that have been started
    queued,        \* vb2: queued, not yet given to the driver
    ready,         \* v4l2-mem2mem: the two ready queues
    active,        \* isi_m2m->out_active
    frameCount,    \* isi_m2m->frame_count
    aborting,      \* isi_m2m->aborting
    job,           \* v4l2-mem2mem: TRANS_QUEUED, TRANS_RUNNING
    slot,          \* the addresses in BUF1 and BUF2
    hwActive,      \* the slot the channel writes next
    inAddr,        \* CHNL_IN_BUF_ADDR during a conversion
    inPitch,       \* source pitch and type registers, 0 after a reset
    hwSize,        \* sizes the channel was configured with
    channel,       \* the channel and its interrupt are enabled
    reading,       \* a conversion is under way
    irqPending,    \* a stored frame the handler has not seen
    irq,           \* 0, or in the handler: the slot mxc_isi->status shows
    irqAborts,     \* the handler has found aborting set
    memory         \* the source a target of the driver holds a converted frame of

shareVars == <<usage, m2mEnabled, captureUsers, captureOpening>>
nodeVars == <<opened, call, cancelled, shareVars>>
queueVars == <<fmt, alloc, streaming, queued, ready, active, frameCount, aborting>>
setupVars == <<slot, inPitch, hwSize>>
engineVars == <<channel, reading, irqPending, hwActive>>
startVars == <<job, inAddr, engineVars>>
irqVars == <<irq, irqAborts>>
vars == <<nodeVars, queueVars, setupVars, startVars, irqVars, memory>>

Queues == {"out", "cap"}
Slots == {1, 2}
Buffers(q) == IF q = "out" THEN Sources ELSE Targets
AnySize == {0} \cup UNION {Sizes[q] : q \in Queues}

TypeOK ==
    /\ call \in {"none", "open", "out", "cap", "close", "closed"}
    /\ opened \in BOOLEAN /\ cancelled \in BOOLEAN /\ m2mEnabled \in BOOLEAN
    /\ usage \in Nat /\ captureUsers \in 0..MaxCaptureUsers /\ captureOpening \in BOOLEAN
    /\ fmt \in [Queues -> AnySize] /\ alloc \in [Queues -> AnySize]
    /\ streaming \in [Queues -> BOOLEAN]
    /\ \A q \in Queues : queued[q] \in Seq(Buffers(q)) /\ ready[q] \in Seq(Buffers(q))
    /\ active \in Seq(Targets) /\ frameCount \in 0..(CountMod - 1) /\ aborting \in BOOLEAN
    /\ job \in {"none", "queued", "running"}
    /\ slot \in [Slots -> Targets \cup {NoAddr}] /\ hwActive \in Slots
    /\ inAddr \in Sources \cup {NoAddr} /\ inPitch \in AnySize
    /\ hwSize \in [Queues -> AnySize]
    /\ channel \in BOOLEAN /\ reading \in BOOLEAN /\ irqPending \in BOOLEAN
    /\ irq \in {0} \cup Slots /\ irqAborts \in BOOLEAN
    /\ memory \in [Targets -> Sources \cup {NoAddr}]

-----------------------------------------------------------------------------
(* What the application does by itself.  The driver needs each of these rules:
   "order"  the output queue is started before and stopped before the capture queue
   "once"   STREAMON is not repeated
   "two"    the capture queue is started with two buffers
   "format" the source format is set after each open
   "alone"  no node is opened while the other one is being opened            *)

\* The buffers of queue q that are not the application's.
Owned(q) == Range(queued[q]) \cup Range(ready[q]) \cup IF q = "cap" THEN Range(active) ELSE {}

MayStart(q) ==
    /\ "order" \in Rules /\ q = "out" => ~streaming["cap"]
    /\ "once" \in Rules => ~streaming[q]
    /\ "two" \in Rules /\ q = "cap" => streaming["cap"] \/ Len(queued["cap"]) >= 2
    /\ "format" \in Rules => inPitch = fmt["out"]

MayStop(q) == "order" \in Rules /\ q = "cap" => ~streaming["out"]

\* Not a need of the driver, which never looks at an index, but a bound: buffers that
\* have not been started with yet are queued by index, the lowest first.
MayQueue(q, b) ==
    "index" \in Rules => streaming[q] \/ \A c \in Buffers(q) \ Owned(q) : b <= c

\* An ioctl on the open m2m node; they exclude each other by isi_m2m->lock.
MayCall == opened /\ call = "none"

-----------------------------------------------------------------------------
(* Jobs: the v4l2-mem2mem core with the driver's callbacks *)

JobReady_TwoTargets(rdy) == Len(rdy["out"]) >= 1 /\ Len(rdy["cap"]) >= 2

\* mxc_isi_m2m_job_ready
JobReady(rdy) == Len(rdy["out"]) >= 1 /\ Len(rdy["cap"]) >= 1

\* __v4l2_m2m_try_queue: both queues started, a buffer on each.
Runnable(on, rdy) ==
    /\ \A q \in Queues : on[q] /\ rdy[q] # <<>>
    /\ JobReady(rdy)

\* mxc_isi_channel_enable: the status is cleared, then interrupts are enabled and,
\* for the m2m path, the memory read is started.
EnableChannel ==
    /\ channel' = TRUE
    /\ irqPending' = FALSE
    /\ reading' = (reading \/ m2mEnabled)

\* mxc_isi_m2m_device_run
DeviceRun(rdy) ==
    /\ job' = "running"
    /\ UNCHANGED hwActive
    /\ IF rdy["out"] = <<>>
       THEN UNCHANGED <<inAddr, channel, irqPending, reading>>
       ELSE inAddr' = Head(rdy["out"]) /\ EnableChannel

\* v4l2_m2m_try_schedule at the end of QBUF and STREAMON.
TrySchedule ==
    IF job = "queued" \/ (job = "none" /\ Runnable(streaming', ready'))
    THEN DeviceRun(ready')
    ELSE UNCHANGED startVars

\* The work item v4l2_m2m_job_finish schedules.
JobWork ==
    /\ job = "queued"
    /\ DeviceRun(ready)
    /\ UNCHANGED <<nodeVars, queueVars, setupVars, irqVars, memory>>

JobFinish_IgnoresCancel == job' = IF Runnable(streaming, ready') THEN "queued" ELSE "none"

\* v4l2_m2m_job_finish
JobFinish == job' = IF ~cancelled /\ Runnable(streaming, ready') THEN "queued" ELSE "none"

StopChannel(s) ==
    /\ channel' = FALSE /\ reading' = FALSE /\ irqPending' = FALSE
    /\ hwActive' = s

\* mxc_isi_channel_disable: the interrupt is disabled too.
DisableChannel == StopChannel(IF Rewinds THEN 1 ELSE hwActive)

-----------------------------------------------------------------------------
(* The interrupt *)

\* The channel has stored the converted frame.
FrameStored ==
    /\ channel /\ reading
    /\ memory' = IF slot[hwActive] = NoAddr THEN memory
                 ELSE [memory EXCEPT ![slot[hwActive]] = inAddr]
    /\ hwActive' = 3 - hwActive
    /\ reading' = FALSE /\ inAddr' = NoAddr
    /\ irqPending' = TRUE
    /\ UNCHANGED <<nodeVars, queueVars, setupVars, job, channel, irqVars>>

\* mxc_isi_irq_handler reads and clears the status; frame_write_done looks for the
\* current job and at aborting.  Without m2m_enabled the frame goes to the capture
\* side, which knows nothing of it.
IrqEnter ==
    /\ channel /\ irqPending /\ irq = 0
    /\ irqPending' = FALSE
    /\ irq' = IF m2mEnabled /\ job = "running" THEN hwActive ELSE 0
    /\ irqAborts' = (irq' # 0 /\ aborting)
    /\ UNCHANGED <<nodeVars, queueVars, setupVars, job, hwActive, inAddr, channel,
                   reading, memory>>

OutSlot_Reversed(n) == IF n = 0 \/ (irq = 1 /\ n # 1) THEN 1 ELSE 2

\* mxc_isi_channel_set_outbuf: the slot loaded for frame number n.
OutSlot(n) == IF n = 0 \/ (irq = 2 /\ n # 1) THEN 1 ELSE 2

NextCount_NoWrap == frameCount + 1

\* isi_m2m->frame_count++, a u32.
NextCount == IF frameCount + 1 = CountMod THEN 0 ELSE frameCount + 1

Convert_KeepsReady ==
    LET rest == IF active = <<>> THEN <<>> ELSE Tail(active)
        next == ready["cap"] IN
    /\ frameCount' = NextCount
    /\ IF next = <<>>
       THEN active' = rest /\ UNCHANGED slot
       ELSE /\ active' = Append(rest, Head(next))
            /\ slot' = [slot EXCEPT ![OutSlot(NextCount)] = Head(next)]
    /\ ready' = [ready EXCEPT !["out"] = Tail(@)]
    /\ memory' = [t \in Targets |-> IF t \in Range(active') THEN memory[t] ELSE NoAddr]

\* mxc_isi_m2m_frame_write_done when the source is there: source and oldest target
\* are returned, the next target takes the address that has become free.
Convert ==
    LET rest == IF active = <<>> THEN <<>> ELSE Tail(active)
        next == ready["cap"] IN
    /\ frameCount' = NextCount
    /\ IF next = <<>>
       THEN active' = rest /\ UNCHANGED slot
       ELSE /\ active' = Append(rest, Head(next))
            /\ slot' = [slot EXCEPT ![OutSlot(NextCount)] = Head(next)]
    /\ ready' = [q \in Queues |-> IF ready[q] = <<>> THEN <<>> ELSE Tail(ready[q])]
    /\ memory' = [t \in Targets |-> IF t \in Range(active') THEN memory[t] ELSE NoAddr]

\* mxc_isi_m2m_frame_write_done; an aborted job returns nothing.
FrameWriteDone ==
    /\ irq # 0
    /\ irq' = 0 /\ irqAborts' = FALSE
    /\ IF irqAborts
       THEN DisableChannel /\ UNCHANGED <<ready, active, slot, frameCount, memory>>
       ELSE /\ IF ready["out"] = <<>>
               THEN UNCHANGED <<ready, active, slot, frameCount, memory>>
               ELSE Convert
            /\ UNCHANGED engineVars
    /\ JobFinish
    /\ UNCHANGED <<nodeVars, fmt, alloc, streaming, queued, aborting, inPitch, hwSize,
                   inAddr>>

-----------------------------------------------------------------------------
(* Formats and buffers *)

SetFormat_WhileBusy(q, s) ==
    /\ MayCall
    /\ fmt' = [fmt EXCEPT ![q] = s]
    /\ inPitch' = IF q = "out" THEN s ELSE inPitch
    /\ UNCHANGED <<nodeVars, alloc, streaming, queued, ready, active, frameCount,
                   aborting, slot, hwSize, startVars, irqVars, memory>>

\* VIDIOC_S_FMT: -EBUSY as long as the queue has buffers.  The source registers
\* are written here and nowhere else.
SetFormat(q, s) ==
    /\ MayCall /\ alloc[q] = 0
    /\ fmt' = [fmt EXCEPT ![q] = s]
    /\ inPitch' = IF q = "out" THEN s ELSE inPitch
    /\ UNCHANGED <<nodeVars, alloc, streaming, queued, ready, active, frameCount,
                   aborting, slot, hwSize, startVars, irqVars, memory>>

\* VIDIOC_REQBUFS, m2m_vb2_queue_setup: -EINVAL before the first S_FMT.
RequestBuffers(q) ==
    /\ MayCall /\ ~streaming[q] /\ fmt[q] # 0
    /\ \E size \in {0, fmt[q]} : alloc' = [alloc EXCEPT ![q] = size]
    /\ queued' = [queued EXCEPT ![q] = <<>>]
    /\ UNCHANGED <<nodeVars, fmt, streaming, ready, active, frameCount, aborting,
                   setupVars, startVars, irqVars, memory>>

\* VIDIOC_QBUF: m2m_vb2_buffer_prepare refuses a buffer smaller than the frame;
\* m2m_vb2_buffer_queue is called once the queue has been started.
QueueBuffer(q, b) ==
    /\ MayCall /\ alloc[q] # 0 /\ b \notin Owned(q) /\ MayQueue(q, b)
    /\ fmt[q] <= alloc[q]
    /\ IF streaming[q]
       THEN ready' = [ready EXCEPT ![q] = Append(@, b)] /\ UNCHANGED queued
       ELSE queued' = [queued EXCEPT ![q] = Append(@, b)] /\ UNCHANGED ready
    /\ UNCHANGED streaming
    /\ TrySchedule
    /\ UNCHANGED <<nodeVars, fmt, alloc, active, frameCount, aborting, setupVars,
                   irqVars, memory>>

-----------------------------------------------------------------------------
(* STREAMON *)

\* The test "Not support upscale"; mxc_isi_channel_config reads both formats.
MayScale == fmt["out"] # 0 /\ fmt["cap"] # 0 /\ fmt["cap"] <= fmt["out"]

\* vb2 hands its buffers to the driver; nothing else happens for the output queue.
StreamOnOut ==
    /\ MayCall /\ MayStart("out") /\ MayScale /\ alloc["out"] # 0
    /\ IF streaming["out"] THEN UNCHANGED <<ready, queued>>
       ELSE /\ ready' = [ready EXCEPT !["out"] = @ \o queued["out"]]
            /\ queued' = [queued EXCEPT !["out"] = <<>>]
    /\ streaming' = [streaming EXCEPT !["out"] = TRUE]
    /\ TrySchedule
    /\ UNCHANGED <<nodeVars, fmt, alloc, active, frameCount, aborting, setupVars,
                   irqVars, memory>>

\* m2m_vb2_start_streaming with the ready buffers p: BUF1 and BUF2 are loaded.
StartStreaming(p) ==
    /\ slot' = [s \in Slots |-> p[s]]
    /\ active' = active \o <<p[1], p[2]>>
    /\ ready' = [ready EXCEPT !["cap"] = SubSeq(p, 3, Len(p))]
    /\ queued' = [queued EXCEPT !["cap"] = <<>>]
    /\ streaming' = [streaming EXCEPT !["cap"] = TRUE]
    /\ frameCount' = 1
    /\ aborting' = FALSE

\* mxc_isi_m2m_streamon for the capture queue: frame_count and the configuration
\* are written before vb2 looks at the queue, which may be streaming already, or
\* have less than two buffers: then they stay on the ready queue as well.
StreamOnCap ==
    LET p == ready["cap"] \o queued["cap"]
        refused == Len(queued["cap"]) < 2 IN
    /\ MayCall /\ MayStart("cap") /\ MayScale
    /\ hwSize' = fmt
    /\ \/ /\ ~streaming["cap"] /\ alloc["cap"] # 0 /\ ~refused
          /\ StartStreaming(p)
          /\ TrySchedule
       \/ /\ ~streaming["cap"] /\ (alloc["cap"] = 0 \/ refused)
          /\ ready' = IF alloc["cap"] = 0 THEN ready ELSE [ready EXCEPT !["cap"] = p]
          /\ frameCount' = 0
          /\ UNCHANGED <<slot, active, queued, streaming, aborting, startVars>>
       \/ /\ streaming["cap"]
          /\ frameCount' = 0
          /\ UNCHANGED <<slot, active, ready, queued, streaming, aborting>>
          /\ TrySchedule
    /\ UNCHANGED <<nodeVars, fmt, alloc, inPitch, irqVars, memory>>

-----------------------------------------------------------------------------
(* STREAMOFF *)

\* mxc_isi_m2m_streamoff: for the capture queue the channel is disabled first.
StreamOff(q) ==
    /\ MayCall /\ MayStop(q)
    /\ call' = q
    /\ IF q = "cap" THEN DisableChannel ELSE UNCHANGED engineVars
    /\ UNCHANGED <<opened, cancelled, shareVars, queueVars, setupVars, job, inAddr,
                   irqVars, memory>>

\* v4l2_m2m_cancel_job: a queued job is dropped, for a running one the driver's
\* job_abort is called and its end awaited.
CancelJob ==
    /\ call \in {"out", "cap", "close"} /\ ~cancelled
    /\ cancelled' = TRUE
    /\ IF job = "running" THEN aborting' = TRUE /\ UNCHANGED job
                          ELSE job' = "none" /\ UNCHANGED aborting
    /\ UNCHANGED <<opened, call, shareVars, fmt, alloc, streaming, queued, ready, active,
                   frameCount, setupVars, inAddr, engineVars, irqVars, memory>>

\* m2m_vb2_stop_streaming, for either queue: all three lists are emptied.
StopStreaming ==
    /\ ready' = [q \in Queues |-> <<>>]
    /\ active' = <<>>
    /\ memory' = [t \in Targets |-> NoAddr]

Cancelled == cancelled /\ job # "running"

\* The rest of v4l2_m2m_streamoff.
StreamOffEnd(q) ==
    /\ call = q /\ Cancelled
    /\ IF streaming[q] THEN StopStreaming
                       ELSE ready' = [ready EXCEPT ![q] = <<>>] /\ UNCHANGED <<active, memory>>
    /\ streaming' = [streaming EXCEPT ![q] = FALSE]
    /\ queued' = [queued EXCEPT ![q] = <<>>]
    /\ job' = "none"
    /\ cancelled' = FALSE
    /\ call' = "none"
    /\ UNCHANGED <<opened, shareVars, fmt, alloc, frameCount, aborting, setupVars,
                   inAddr, engineVars, irqVars>>

-----------------------------------------------------------------------------
(* Open and close *)

\* mxc_isi_channel_init, mxc_isi_channel_deinit: both reset the channel and its
\* registers.
ResetChannel ==
    /\ StopChannel(1)
    /\ inPitch' = 0
    /\ slot' = [s \in Slots |-> NoAddr] /\ hwSize' = [q \in Queues |-> 0]

ChannelUntouched == UNCHANGED <<engineVars, setupVars>>

\* mxc_isi_m2m_open: usage_count is tested, with no lock held.
OpenTest ==
    /\ ~opened /\ call = "none"
    /\ usage = 0
    /\ "alone" \in Rules => ~captureOpening
    /\ call' = "open"
    /\ UNCHANGED <<opened, cancelled, shareVars, queueVars, setupVars, startVars,
                   irqVars, memory>>

\* The rest of open; "fail" is a context that cannot be allocated.
OpenEnd ==
    /\ call = "open" /\ call' = "none"
    /\ \/ /\ opened' = TRUE /\ usage' = usage + 1 /\ m2mEnabled' = TRUE
          /\ IF usage = 0 THEN ResetChannel ELSE ChannelUntouched
       \/ UNCHANGED <<opened, usage, m2mEnabled>> /\ ChannelUntouched
    /\ UNCHANGED <<cancelled, captureUsers, captureOpening, queueVars, job, inAddr,
                   irqVars, memory>>

\* mxc_isi_m2m_release: v4l2_m2m_ctx_release cancels the job ...
Close ==
    /\ MayCall
    /\ call' = "close"
    /\ UNCHANGED <<opened, cancelled, shareVars, queueVars, setupVars, startVars,
                   irqVars, memory>>

\* ... then releases the queues; the last user switches the channel off.
CloseQueues ==
    /\ call = "close" /\ Cancelled
    /\ IF streaming["out"] \/ streaming["cap"] THEN StopStreaming
       ELSE ready' = [q \in Queues |-> <<>>] /\ UNCHANGED <<active, memory>>
    /\ streaming' = [q \in Queues |-> FALSE]
    /\ queued' = [q \in Queues |-> <<>>]
    /\ alloc' = [q \in Queues |-> 0]
    /\ job' = "none" /\ cancelled' = FALSE
    /\ usage' = usage - 1
    /\ IF usage = 1 THEN ResetChannel ELSE ChannelUntouched
    /\ call' = "closed"
    /\ UNCHANGED <<opened, m2mEnabled, captureUsers, captureOpening, fmt, frameCount,
                   aborting, inAddr, irqVars>>

\* m2m_enabled is cleared last.
CloseEnd ==
    /\ call = "closed" /\ call' = "none"
    /\ opened' = FALSE /\ m2mEnabled' = FALSE
    /\ UNCHANGED <<cancelled, usage, captureUsers, captureOpening, queueVars, setupVars,
                   startVars, irqVars, memory>>

\* mxc_isi_capture_open: m2m_enabled is tested, with no lock held.
CaptureOpenTest ==
    /\ ~captureOpening /\ captureUsers < MaxCaptureUsers
    /\ ~m2mEnabled
    /\ "alone" \in Rules => call # "open"
    /\ captureOpening' = TRUE
    /\ UNCHANGED <<opened, call, cancelled, usage, m2mEnabled, captureUsers, queueVars,
                   setupVars, startVars, irqVars, memory>>

CaptureOpenEnd_NoCount ==
    /\ captureOpening /\ captureOpening' = FALSE
    /\ captureUsers' = captureUsers + 1
    /\ m2mEnabled' = FALSE
    /\ UNCHANGED <<usage, opened, call, cancelled, queueVars, setupVars, startVars,
                   irqVars, memory>>

\* The rest of it, after s_power of the remote sub-device, which may fail.
CaptureOpenEnd ==
    /\ captureOpening /\ captureOpening' = FALSE
    /\ \/ captureUsers' = captureUsers + 1 /\ usage' = usage + 1 /\ m2mEnabled' = FALSE
       \/ UNCHANGED <<captureUsers, usage, m2mEnabled>>
    /\ UNCHANGED <<opened, call, cancelled, queueVars, setupVars, startVars, irqVars,
                   memory>>

\* mxc_isi_capture_release
CaptureClose ==
    /\ captureUsers > 0
    /\ captureUsers' = captureUsers - 1
    /\ usage' = IF usage > 0 THEN usage - 1 ELSE usage
    /\ IF usage = 1 THEN ResetChannel ELSE ChannelUntouched
    /\ UNCHANGED <<opened, call, cancelled, m2mEnabled, captureOpening, queueVars, job,
                   inAddr, irqVars, memory>>

-----------------------------------------------------------------------------
Init ==
    /\ opened = FALSE /\ call = "none" /\ cancelled = FALSE
    /\ usage = 0 /\ m2mEnabled = FALSE /\ captureUsers = 0 /\ captureOpening = FALSE
    /\ fmt = [q \in Queues |-> 0] /\ alloc = [q \in Queues |-> 0]
    /\ streaming = [q \in Queues |-> FALSE]
    /\ queued = [q \in Queues |-> <<>>] /\ ready = [q \in Queues |-> <<>>]
    /\ active = <<>> /\ frameCount = 0 /\ aborting = FALSE /\ job = "none"
    /\ slot = [s \in Slots |-> NoAddr] /\ hwActive = 1
    /\ inAddr = NoAddr /\ inPitch = 0 /\ hwSize = [q \in Queues |-> 0]
    /\ channel = FALSE /\ reading = FALSE /\ irqPending = FALSE
    /\ irq = 0 /\ irqAborts = FALSE
    /\ memory = [t \in Targets |-> NoAddr]

\* The application on the m2m node, and those on the capture node.
UserStep ==
    \/ OpenTest \/ Close \/ StreamOnOut \/ StreamOnCap
    \/ \E q \in Queues :
          \/ StreamOff(q) \/ RequestBuffers(q)
          \/ \E s \in Sizes[q] : SetFormat(q, s)
          \/ \E b \in Buffers(q) : QueueBuffer(q, b)
    \/ CaptureOpenTest \/ CaptureClose

\* The rest of a call that has begun.
CallStep ==
    \/ OpenEnd \/ CancelJob \/ CloseQueues \/ CloseEnd
    \/ \E q \in Queues : StreamOffEnd(q)

Next ==
    \/ UserStep \/ CallStep \/ CaptureOpenEnd
    \/ JobWork \/ FrameStored \/ IrqEnter \/ FrameWriteDone

Spec == Init /\ [][Next]_vars

\* Calls, work items and handlers end; a channel that reads stores a frame and its
\* interrupt is served.
FairSpec ==
    /\ Spec
    /\ WF_vars(CallStep) /\ WF_vars(CaptureOpenEnd) /\ WF_vars(JobWork)
    /\ WF_vars(FrameStored) /\ WF_vars(IrqEnter) /\ WF_vars(FrameWriteDone)

-----------------------------------------------------------------------------
(* Properties *)

\* While a conversion is under way the channel reads the source that the interrupt
\* will return, writes the target that the interrupt will return, has the next
\* target in the other slot, and there is one more to replace the first: neither
\* address ever belongs to a buffer the application holds (start_streaming,
\* job_ready, frame_write_done, stop order).
TargetOwned ==
    /\ reading => /\ ready["out"] # <<>> /\ inAddr = Head(ready["out"])
                  /\ active = <<slot[hwActive], slot[3 - hwActive]>>
                  /\ ready["cap"] # <<>>
    /\ NoRepeat(active \o ready["cap"] \o queued["cap"])

\* A target leaves out_active in the handler only with the frame converted from the
\* source that is returned in the same interrupt, also when frame_count wraps.
PairedResult ==
    [][FrameWriteDone /\ Len(ready["out"]) > Len(ready'["out"])
         => /\ active # <<>>
            /\ Head(active) \notin Range(active')
            /\ memory[Head(active)] = Head(ready["out"])]_vars

\* The channel is set up for the current formats, does not scale up, and neither
\* reads past a source buffer nor writes past a target buffer (S_FMT, REQBUFS and
\* STREAMON on two queues in any order).
FrameFits ==
    reading => /\ hwSize = fmt /\ inPitch = fmt["out"]
               /\ hwSize["cap"] <= hwSize["out"]
               /\ \A q \in Queues : hwSize[q] <= alloc[q]

\* "ISI channel[%d] is busy": the m2m node and the capture node are never open
\* together, the flag the interrupt handler dispatches on says which one is, and
\* usage_count counts the users, so that the channel is reset between them.
ExclusiveUse ==
    /\ opened => captureUsers = 0
    /\ call \notin {"closed"} => m2mEnabled = opened
    /\ usage = captureUsers + IF opened /\ call # "closed" THEN 1 ELSE 0

\* Open, STREAMOFF and close come to an end, although the last two wait for the
\* interrupt of a job that is being aborted.
CallsEnd == call # "none" ~> call = "none"

\* A source at the head of its queue is converted when a target is queued, unless
\* the application stops: no wakeup of the job queue is lost between QBUF, the
\* interrupt and the work item.
ConversionProceeds ==
    \A s \in Sources :
        (/\ \A q \in Queues : streaming[q] /\ ready[q] # <<>>
         /\ Head(ready["out"]) = s)
          ~> (ready["out"] = <<>> \/ Head(ready["out"]) # s \/ call # "none")
=============================================================================
