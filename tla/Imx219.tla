------------------------------- MODULE Imx219 -------------------------------
(***************************************************************************)
(* The IMX219 sensor driver (src/imx219/exercise-02/imx219.c), from probe  *)
(* to remove, on the runtime PM core of RuntimePm.                         *)
(*                                                                         *)
(* imx219_set_stream keeps the mutex from its first line to its last, the  *)
(* wait inside pm_runtime_get_sync included; the format and control calls  *)
(* run under the same mutex.  The PM callbacks (imx219_power_on and _off), *)
(* the system sleep callbacks and the two enumeration calls, which change  *)
(* nothing, do not take it.                                                *)
(* System sleep happens with user space frozen: no call is in progress.    *)
(*                                                                         *)
(* The controls kept are the ones that depend on each other: vertical      *)
(* blanking, exposure (whose range follows from mode and blanking),        *)
(* horizontal blanking and the two flips (which select the Bayer order).   *)
(* The gains and the test pattern are independent single registers.        *)
(*                                                                         *)
(* A definition named X_Something is X with a plausible programming error. *)
(***************************************************************************)
EXTENDS RuntimePm, FiniteSets

CONSTANTS
    Modes, DefaultMode,    \* supported_modes, supported_modes[0]
    Width, Height, VtsDef, \* [Modes -> Nat]
    Depths, DefaultDepth,  \* bits per sample of the two groups of codes[]
    VtsMax, VblankMin,     \* IMX219_VTS_MAX, IMX219_VBLANK_MIN
    FlipCtrls,             \* the flip controls: "h", "v"
    Ppl,                   \* IMX219_PPL_DEFAULT
    ExposureMin, ExposureDefault,
    Reset,                 \* content of a register after power up
    Faults,                \* which calls may fail: a subset of {"i2c", "rail"}
    ProbeCallers,          \* calls may arrive as soon as the subdev is registered
    FormatWhileStreaming,  \* some program sets formats while another streams
    RemoveWhileStreaming,  \* the driver may be unbound in the middle of a stream
    OtherClkUsers,
    MaxUsage

ASSUME ModesAssumption ==
    /\ DefaultMode \in Modes /\ DefaultDepth \in Depths
    /\ Width \in [Modes -> Nat] /\ Height \in [Modes -> Nat] /\ VtsDef \in [Modes -> Nat]
    /\ \A m \in Modes : /\ Height[m] + VblankMin <= VtsDef[m]
                        /\ VtsDef[m] <= VtsMax
                        /\ Height[m] + VblankMin - 4 >= ExposureMin
                        /\ Width[m] <= Ppl
    /\ Reset \notin Modes /\ Reset \notin Depths
ASSUME LimitsAssumption ==
    /\ VtsMax \in Nat /\ VblankMin \in Nat /\ Ppl \in Nat
    /\ ExposureMin \in Nat /\ ExposureDefault \in Nat /\ ExposureMin <= ExposureDefault
ASSUME EnvironmentAssumption ==
    /\ Faults \subseteq {"i2c", "rail"}
    /\ ProbeCallers \in BOOLEAN /\ FormatWhileStreaming \in BOOLEAN
    /\ RemoveWhileStreaming \in BOOLEAN
    /\ OtherClkUsers \in Nat /\ MaxUsage \in Nat

VARIABLES
    phase,      \* "unbound", "probing" (registered, PM not yet enabled) or "bound"
    asleep,     \* the system is suspended
    lock,       \* imx219->mutex is held by imx219_set_stream across steps
    spc,        \* where imx219_set_stream(1) is
    wpc,        \* where the PM worker is
    streaming,  \* imx219->streaming
    grabbed,    \* the flip controls are grabbed
    mode, code, \* imx219->mode; imx219->fmt.code as [depth, flip]
    flip,       \* committed values of the flip controls
    flipVal,    \* their val fields, which the driver reads
    tim,        \* vblank, exposure, expMax, hblank; registers vts and hwExposure
    powered, clk,
    hwStream, hwMode, hwDepth, hwFlip

stateVars == <<streaming, grabbed, mode, code, flip, flipVal, tim>>
hwVars == <<hwStream, hwMode, hwDepth, hwFlip>>
powerVars == <<powered, clk>>
threadVars == <<lock, spc, wpc>>
vars == <<pmVars, phase, asleep, threadVars, stateVars, hwVars, powerVars>>

Orientation == [FlipCtrls -> BOOLEAN]
NoFlip == [c \in FlipCtrls |-> FALSE]

TypeOK ==
    /\ RpmTypeOK
    /\ phase \in {"unbound", "probing", "bound"}
    /\ asleep \in BOOLEAN /\ lock \in BOOLEAN
    /\ spc \in {"idle", "rpm_resume", "resume_cb", "resume_ok", "resume_err", "put_noidle", "start"}
    /\ wpc \in {"idle", "suspend_cb", "suspend_ok"}
    /\ streaming \in BOOLEAN /\ grabbed \in BOOLEAN
    /\ mode \in Modes
    /\ code \in [depth : Depths, flip : Orientation]
    /\ flip \in Orientation /\ flipVal \in Orientation
    /\ tim \in [vblank : Nat, exposure : Nat, expMax : Nat, hblank : Nat,
                vts : Nat, hwExposure : Nat]
    /\ powered \in BOOLEAN /\ clk \in Nat
    /\ hwStream \in BOOLEAN
    /\ hwMode \in Modes \cup {Reset}
    /\ hwDepth \in Depths \cup {Reset}
    /\ hwFlip \in Orientation

-----------------------------------------------------------------------------
(* Register access and power *)

IoResults == {ok \in BOOLEAN : (ok => powered) /\ (~ok => "i2c" \in Faults \/ ~powered)}

\* Registers of a sensor whose supplies were switched off.
RegistersReset ==
    /\ hwStream' = FALSE /\ hwMode' = Reset /\ hwDepth' = Reset /\ hwFlip' = NoFlip

TimingReset(t) == [t EXCEPT !.vts = 0, !.hwExposure = 0]

\* imx219_get_format_code for a code of depth d: the Bayer order follows the val
\* fields of the flips.
GetFormatCode(d) == [depth |-> d, flip |-> flipVal]

\* What imx219_get_pad_format tells a caller about the active format.
GetPadFormat == [mode |-> mode, code |-> GetFormatCode(code.depth)]

\* pm_runtime_get_if_in_use(): the driver writes unless it returns zero.  With
\* runtime PM disabled it returns a negative error, which is taken for "in use".
InUse == phase = "probing" \/ (status = "active" /\ usage # 0)

\* n control writes, each ended by pm_runtime_put.  Where get_if_in_use took a
\* reference the pair is neutral; with PM disabled it took none.
PutAfterCtrl(n) ==
    /\ usage' = IF phase = "probing" THEN usage - n ELSE usage
    /\ UNCHANGED <<status, pmError, request>>

-----------------------------------------------------------------------------
(* Controls that depend on each other.  A work record w holds the timing     *)
(* record t and the number n of s_ctrl calls that reached the register write.*)

Clamp(x, lo, hi) == IF x < lo THEN lo ELSE IF x > hi THEN hi ELSE x

\* __v4l2_ctrl_modify_range on the exposure: the framework clamps the current
\* value and calls s_ctrl when that changed it.
ModifyExposureRange(w, max, ok) ==
    LET x == Clamp(w.t.exposure, ExposureMin, max)
        t == [w.t EXCEPT !.expMax = max]
    IN  IF x = t.exposure THEN [w EXCEPT !.t = t]
        ELSE [n |-> w.n + 1,
              t |-> IF ~InUse THEN [t EXCEPT !.exposure = x]
                    ELSE IF ok THEN [t EXCEPT !.exposure = x, !.hwExposure = x]
                    ELSE t]

\* imx219_set_ctrl for V4L2_CID_VBLANK in mode m: the exposure range first, the
\* frame length register after; the framework commits v unless a write failed.
SetVblankCtrl(w, m, v, ok) ==
    LET r == ModifyExposureRange(w, Height[m] + v - 4, ok)
    IN  [n |-> r.n + 1,
         t |-> IF ~InUse THEN [r.t EXCEPT !.vblank = v]
               ELSE IF ok THEN [r.t EXCEPT !.vblank = v, !.vts = Height[m] + v]
               ELSE r.t]

\* __v4l2_ctrl_modify_range on the read-only hblank: imx219_set_ctrl has no case
\* for it and returns -EINVAL when the sensor is in use, so the value stays.
ModifyHblankRange(w, h) ==
    IF w.t.hblank = h THEN w
    ELSE [n |-> w.n + 1, t |-> IF InUse THEN w.t ELSE [w.t EXCEPT !.hblank = h]]

\* The control updates of imx219_set_pad_format for a new mode m.
SetModeCtrls(m, ok) ==
    LET w0 == [t |-> tim, n |-> 0]
        vb == Clamp(tim.vblank, VblankMin, VtsMax - Height[m])
        w1 == IF vb = tim.vblank THEN w0 ELSE SetVblankCtrl(w0, m, vb, ok)
        vd == VtsDef[m] - Height[m]
        w2 == IF vd = w1.t.vblank THEN w1 ELSE SetVblankCtrl(w1, m, vd, ok)
        w3 == ModifyExposureRange(w2, VtsDef[m] - 4, ok)
    IN  ModifyHblankRange(w3, Ppl - Width[m])

\* __v4l2_ctrl_handler_setup: every control is replayed, vblank before exposure.
ReplayCtrls ==
    LET w == SetVblankCtrl([t |-> tim, n |-> 0], mode, tim.vblank, TRUE)
    IN  IF InUse THEN [w.t EXCEPT !.hwExposure = w.t.exposure] ELSE w.t

-----------------------------------------------------------------------------
(* Who may call what *)

\* A subdev call that takes the mutex: user space is running, the device is
\* registered and imx219_set_stream is not inside it.
MutexFree ==
    /\ ~lock /\ ~asleep
    /\ phase = "bound" \/ (phase = "probing" /\ ProbeCallers)

InitTiming ==
    [vblank |-> VtsDef[DefaultMode] - Height[DefaultMode],
     exposure |-> Clamp(ExposureDefault, ExposureMin, VtsDef[DefaultMode] - 4),
     expMax |-> VtsDef[DefaultMode] - 4,
     hblank |-> Ppl - Width[DefaultMode], vts |-> 0, hwExposure |-> 0]

\* imx219_probe up to the registration of the subdev: powered, defaults set,
\* stream mode entered and left once.  Runtime PM is still disabled.
Probe ==
    /\ phase = "unbound"
    /\ phase' = "probing"
    /\ powered' = TRUE /\ clk' = clk + 1
    /\ streaming' = FALSE /\ grabbed' = FALSE
    /\ mode' = DefaultMode
    /\ code' = [depth |-> DefaultDepth, flip |-> NoFlip]
    /\ flip' = NoFlip /\ flipVal' = NoFlip
    /\ tim' = InitTiming
    /\ UNCHANGED <<pmVars, asleep, threadVars, hwVars>>

\* The rest of imx219_probe: pm_runtime_set_active, _enable and _idle.
ProbeDone ==
    /\ phase = "probing"
    /\ phase' = "bound"
    /\ status' = "active" /\ pmError' = FALSE /\ request' = TRUE
    /\ UNCHANGED <<usage, asleep, threadVars, stateVars, hwVars, powerVars>>

Remove_AlwaysPowersOff ==
    /\ phase = "bound" /\ ~lock /\ ~asleep /\ wpc = "idle"
    /\ streaming => RemoveWhileStreaming
    /\ phase' = "unbound"
    /\ status' = "suspended" /\ pmError' = FALSE /\ request' = FALSE
    /\ powered' = FALSE /\ clk' = clk - 1
    /\ RegistersReset /\ tim' = TimingReset(tim)
    /\ streaming' = FALSE /\ grabbed' = FALSE
    /\ UNCHANGED <<usage, asleep, threadVars, mode, code, flip, flipVal>>

\* imx219_remove.  pm_runtime_disable waits for a callback in progress; the
\* usage count survives in the device.
Remove ==
    /\ phase = "bound" /\ ~lock /\ ~asleep /\ wpc = "idle"
    /\ streaming => RemoveWhileStreaming
    /\ phase' = "unbound"
    /\ status' = "suspended" /\ pmError' = FALSE /\ request' = FALSE
    /\ IF status = "suspended" THEN UNCHANGED <<powerVars, hwVars, tim>>
       ELSE /\ powered' = FALSE /\ clk' = clk - 1
            /\ RegistersReset /\ tim' = TimingReset(tim)
    /\ streaming' = FALSE /\ grabbed' = FALSE
    /\ UNCHANGED <<usage, asleep, threadVars, mode, code, flip, flipVal>>

-----------------------------------------------------------------------------
(* imx219_set_stream *)

\* imx219_set_stream(1) up to the usage count; a call that changes nothing
\* returns at once.
StreamOn ==
    /\ MutexFree /\ spc = "idle" /\ ~streaming
    /\ usage < MaxUsage
    /\ lock' = TRUE
    /\ usage' = usage + 1
    /\ spc' = "rpm_resume"
    /\ UNCHANGED <<status, pmError, request, phase, asleep, wpc, stateVars, hwVars, powerVars>>

\* pm_runtime_get_sync with the mutex held; refused while PM is disabled.
GetSync ==
    /\ spc = "rpm_resume"
    /\ \/ phase = "bound" /\ RpmReady /\ spc' = "start"
       \/ phase = "bound" /\ RpmBeginResume /\ spc' = "resume_cb"
       \/ (phase = "probing" \/ pmError) /\ UNCHANGED pmVars /\ spc' = "put_noidle"
    /\ UNCHANGED <<phase, asleep, lock, wpc, stateVars, hwVars, powerVars>>

PowerOn_KeepsClock ==
    /\ spc = "resume_cb"
    /\ \/ powered' = TRUE /\ clk' = clk + 1 /\ spc' = "resume_ok"
       \/ "rail" \in Faults /\ clk' = clk + 1 /\ UNCHANGED powered /\ spc' = "resume_err"
    /\ UNCHANGED <<pmVars, phase, asleep, lock, wpc, stateVars, hwVars>>

\* imx219_power_on as the runtime resume callback.  A failure gives back exactly
\* what was taken.
PowerOn ==
    /\ spc = "resume_cb"
    /\ \/ powered' = TRUE /\ clk' = clk + 1 /\ spc' = "resume_ok"
       \/ "rail" \in Faults /\ UNCHANGED powerVars /\ spc' = "resume_err"
    /\ UNCHANGED <<pmVars, phase, asleep, lock, wpc, stateVars, hwVars>>

ResumeDone ==
    /\ spc \in {"resume_ok", "resume_err"}
    /\ RpmEndResume(spc = "resume_ok")
    /\ spc' = IF spc = "resume_ok" THEN "start" ELSE "put_noidle"
    /\ UNCHANGED <<phase, asleep, lock, wpc, stateVars, hwVars, powerVars>>

PutNoidle ==
    /\ spc = "put_noidle"
    /\ RpmPutNoidle
    /\ spc' = "idle" /\ lock' = FALSE
    /\ UNCHANGED <<phase, asleep, wpc, stateVars, hwVars, powerVars>>

StartStreaming_NoReplay ==
    /\ TRUE \in IoResults
    /\ hwMode' = mode /\ hwDepth' = code.depth
    /\ hwStream' = TRUE
    /\ UNCHANGED <<tim, flipVal, hwFlip>>

\* imx219_start_streaming: mode registers, frame format, controls, stream bit.
StartStreaming ==
    /\ TRUE \in IoResults
    /\ hwMode' = mode /\ hwDepth' = code.depth
    /\ tim' = ReplayCtrls
    /\ flipVal' = flip
    /\ hwFlip' = IF InUse THEN flip ELSE hwFlip
    /\ hwStream' = TRUE

\* The same, stopped by a failed write before the stream bit.
StartStreamingFails ==
    /\ FALSE \in IoResults
    /\ hwMode' \in {hwMode, mode} /\ hwDepth' \in {hwDepth, code.depth}
    /\ tim' \in {tim, ReplayCtrls}
    /\ flipVal' \in {flipVal, flip}
    /\ UNCHANGED hwFlip

\* imx219_stop_streaming: a failed write is only logged.
StopStreaming ==
    \/ TRUE \in IoResults /\ hwStream' = FALSE
    \/ FALSE \in IoResults /\ UNCHANGED hwStream

StreamOnDone_NoGrab ==
    /\ spc = "start"
    /\ \/ StartStreaming /\ streaming' = TRUE /\ UNCHANGED <<pmVars, grabbed>>
       \/ StartStreamingFails /\ RpmPut /\ UNCHANGED <<streaming, grabbed, hwStream>>
    /\ spc' = "idle" /\ lock' = FALSE
    /\ UNCHANGED <<phase, asleep, wpc, mode, code, flip, powerVars>>

StreamOnDone_FallsThrough ==
    /\ spc = "start"
    /\ \/ StartStreaming /\ streaming' = TRUE /\ grabbed' = TRUE
       \/ StartStreamingFails /\ UNCHANGED <<streaming, grabbed, hwStream>>
    /\ RpmPut
    /\ spc' = "idle" /\ lock' = FALSE
    /\ UNCHANGED <<phase, asleep, wpc, mode, code, flip, powerVars>>

\* The end of imx219_set_stream(1): a failed start gives its reference back.
StreamOnDone ==
    /\ spc = "start"
    /\ \/ StartStreaming /\ streaming' = TRUE /\ grabbed' = TRUE /\ UNCHANGED pmVars
       \/ StartStreamingFails /\ RpmPut /\ UNCHANGED <<streaming, grabbed, hwStream>>
    /\ spc' = "idle" /\ lock' = FALSE
    /\ UNCHANGED <<phase, asleep, wpc, mode, code, flip, powerVars>>

StreamOff_Noidle ==
    /\ MutexFree /\ spc = "idle" /\ streaming
    /\ StopStreaming
    /\ RpmPutNoidle
    /\ streaming' = FALSE /\ grabbed' = FALSE
    /\ UNCHANGED <<phase, asleep, threadVars, mode, code, flip, flipVal, tim,
                   hwMode, hwDepth, hwFlip, powerVars>>

\* imx219_set_stream(0), all of it.
StreamOff ==
    /\ MutexFree /\ spc = "idle" /\ streaming
    /\ StopStreaming
    /\ RpmPut
    /\ streaming' = FALSE /\ grabbed' = FALSE
    /\ UNCHANGED <<phase, asleep, threadVars, mode, code, flip, flipVal, tim,
                   hwMode, hwDepth, hwFlip, powerVars>>

-----------------------------------------------------------------------------
(* The PM worker: imx219_power_off does not look at the streaming flag *)

ServeIdle ==
    /\ wpc = "idle" /\ ~asleep /\ phase = "bound"
    /\ RpmBeginSuspend
    /\ wpc' = IF SuspendAllowed(usage) THEN "suspend_cb" ELSE "idle"
    /\ UNCHANGED <<phase, asleep, lock, spc, stateVars, hwVars, powerVars>>

PowerOff ==
    /\ wpc = "suspend_cb"
    /\ powered' = FALSE /\ clk' = clk - 1
    /\ RegistersReset /\ tim' = TimingReset(tim)
    /\ wpc' = "suspend_ok"
    /\ UNCHANGED <<pmVars, phase, asleep, lock, spc, streaming, grabbed, mode, code, flip,
                   flipVal>>

SuspendDone ==
    /\ wpc = "suspend_ok"
    /\ RpmEndSuspend(TRUE)
    /\ wpc' = "idle"
    /\ UNCHANGED <<phase, asleep, lock, spc, stateVars, hwVars, powerVars>>

-----------------------------------------------------------------------------
(* System sleep: the core holds a reference from prepare to complete and    *)
(* drops a pending idle request                                             *)

SystemSuspend ==
    /\ phase = "bound" /\ ~asleep /\ ~lock /\ wpc = "idle" /\ usage < MaxUsage
    /\ asleep' = TRUE
    /\ usage' = usage + 1 /\ request' = FALSE
    /\ IF streaming THEN StopStreaming ELSE UNCHANGED hwStream
    /\ UNCHANGED <<status, pmError, phase, threadVars, stateVars, hwMode, hwDepth, hwFlip,
                   powerVars>>

\* imx219_resume, then the core's pm_runtime_put.  A failed restart clears the
\* streaming flag but neither drops the reference of the stream nor releases
\* the flip controls.
SystemResume ==
    /\ asleep
    /\ asleep' = FALSE
    /\ RpmPut
    /\ \/ ~streaming /\ UNCHANGED <<streaming, flipVal, tim, hwVars>>
       \/ streaming /\ StartStreaming /\ UNCHANGED streaming
       \/ streaming /\ StartStreamingFails /\ StopStreaming /\ streaming' = FALSE
    /\ UNCHANGED <<phase, threadVars, grabbed, mode, code, flip, powerVars>>

-----------------------------------------------------------------------------
(* Format and control callers *)

CallerVars == <<phase, asleep, threadVars, streaming, grabbed, hwStream, hwMode, hwDepth,
                powerVars>>

\* imx219_set_pad_format, V4L2_SUBDEV_FORMAT_ACTIVE.  The Bayer order of the
\* stored code is the one of the flips at this moment.  Nothing looks at the
\* streaming flag.
SetPadFormat(m, d) ==
    LET new == GetFormatCode(d) IN
    /\ MutexFree /\ usage > -MaxUsage
    /\ streaming => FormatWhileStreaming
    /\ mode # m \/ code # new
    /\ mode' = m /\ code' = new
    /\ \E ok \in (IF InUse THEN IoResults ELSE {TRUE}) :
         LET w == SetModeCtrls(m, ok) IN tim' = w.t /\ PutAfterCtrl(w.n)
    /\ UNCHANGED <<CallerVars, flip, flipVal, hwFlip>>

SetVblank_KeepsRange(v) ==
    /\ MutexFree /\ usage > -MaxUsage
    /\ v # tim.vblank
    /\ \E ok \in (IF InUse THEN IoResults ELSE {TRUE}) :
         /\ tim' = IF ~InUse THEN [tim EXCEPT !.vblank = v]
                   ELSE IF ok THEN [tim EXCEPT !.vblank = v, !.vts = Height[mode] + v]
                   ELSE tim
         /\ PutAfterCtrl(1)
    /\ UNCHANGED <<CallerVars, mode, code, flip, flipVal, hwFlip>>

\* VIDIOC_S_CTRL on V4L2_CID_VBLANK with a value in its range.
SetVblank(v) ==
    /\ MutexFree /\ usage > -MaxUsage
    /\ v # tim.vblank
    /\ \E ok \in (IF InUse THEN IoResults ELSE {TRUE}) :
         LET w == SetVblankCtrl([t |-> tim, n |-> 0], mode, v, ok)
         IN  tim' = w.t /\ PutAfterCtrl(w.n)
    /\ UNCHANGED <<CallerVars, mode, code, flip, flipVal, hwFlip>>

\* VIDIOC_S_CTRL on V4L2_CID_EXPOSURE with a value in its range.
SetExposure(x) ==
    /\ MutexFree /\ usage > -MaxUsage
    /\ x # tim.exposure
    /\ \E ok \in (IF InUse THEN IoResults ELSE {TRUE}) :
         /\ tim' = IF ~InUse THEN [tim EXCEPT !.exposure = x]
                   ELSE IF ok THEN [tim EXCEPT !.exposure = x, !.hwExposure = x]
                   ELSE tim
         /\ PutAfterCtrl(IF InUse THEN 1 ELSE 0)
    /\ UNCHANGED <<CallerVars, mode, code, flip, flipVal, hwFlip>>

\* VIDIOC_S_CTRL on one of the flips.  The framework stores the requested value
\* in val before it finds the control grabbed or the write failed; the driver
\* writes the val of both flips and derives the Bayer order from them.
SetFlip(c, b) ==
    LET val == [flipVal EXCEPT ![c] = b] IN
    /\ MutexFree /\ usage > -MaxUsage
    /\ flipVal' = val
    /\ \/ (grabbed \/ b = flip[c]) /\ UNCHANGED <<pmVars, flip, hwFlip>>
       \/ /\ ~grabbed /\ b # flip[c] /\ ~InUse
          /\ flip' = [flip EXCEPT ![c] = b] /\ UNCHANGED <<pmVars, hwFlip>>
       \/ /\ ~grabbed /\ b # flip[c] /\ InUse /\ TRUE \in IoResults
          /\ flip' = [flip EXCEPT ![c] = b] /\ hwFlip' = val /\ PutAfterCtrl(1)
       \/ /\ ~grabbed /\ b # flip[c] /\ InUse /\ FALSE \in IoResults
          /\ UNCHANGED <<flip, hwFlip>> /\ PutAfterCtrl(1)
    /\ UNCHANGED <<CallerVars, mode, code, tim>>

-----------------------------------------------------------------------------
Init ==
    /\ usage = 0 /\ status = "suspended" /\ pmError = FALSE /\ request = FALSE
    /\ phase = "unbound" /\ asleep = FALSE
    /\ lock = FALSE /\ spc = "idle" /\ wpc = "idle"
    /\ streaming = FALSE /\ grabbed = FALSE
    /\ mode = DefaultMode /\ code = [depth |-> DefaultDepth, flip |-> NoFlip]
    /\ flip = NoFlip /\ flipVal = NoFlip
    /\ tim = InitTiming
    /\ powered = FALSE /\ clk = OtherClkUsers
    /\ hwStream = FALSE /\ hwMode = Reset /\ hwDepth = Reset /\ hwFlip = NoFlip

ThreadStep == GetSync \/ PowerOn \/ ResumeDone \/ PutNoidle \/ StreamOnDone

WorkerStep == ServeIdle \/ PowerOff \/ SuspendDone

Next ==
    \/ Probe \/ ProbeDone \/ Remove
    \/ StreamOn \/ ThreadStep \/ StreamOff
    \/ WorkerStep
    \/ SystemSuspend \/ SystemResume
    \/ \E m \in Modes, d \in Depths : SetPadFormat(m, d)
    \/ \E v \in VblankMin..(VtsMax - Height[mode]) : SetVblank(v)
    \/ \E x \in ExposureMin..tim.expMax : SetExposure(x)
    \/ \E c \in FlipCtrls, b \in BOOLEAN : SetFlip(c, b)

Spec == Init /\ [][Next]_vars

\* Threads inside a call, the workqueue and a system resume all make progress.
FairSpec ==
    Spec /\ WF_vars(ThreadStep) /\ WF_vars(WorkerStep) /\ WF_vars(SystemResume)

-----------------------------------------------------------------------------
(* Properties *)

\* A streaming sensor has a reference, an active device and its supplies.
StreamHoldsPower ==
    streaming => usage >= 1 /\ status = "active" /\ powered

\* The runtime status and the supplies agree once runtime PM is enabled, and the
\* shared clock carries exactly the driver's own reference.
PowerAccounted ==
    /\ phase = "bound" => /\ status = "active" => powered
                          /\ status = "suspended" => ~powered
    /\ phase = "unbound" => ~powered
    /\ clk = OtherClkUsers + (IF powered THEN 1 ELSE 0)

\* The timing controls a caller reads fit together: blanking in the range of the
\* mode, exposure within the frame length, "hblank depends on mode->width only".
TimingConsistent ==
    ~lock /\ phase # "unbound" =>
        /\ tim.exposure \in ExposureMin..tim.expMax
        /\ tim.expMax = Height[mode] + tim.vblank - 4
        /\ tim.vblank \in VblankMin..(VtsMax - Height[mode])
        /\ tim.hblank = Ppl - Width[mode]

\* While frames flow, the registers hold the mode, depth, frame length, exposure
\* and orientation the driver reports, and the exposure ends 4 lines before the
\* frame does.
SensorRunsReported ==
    streaming /\ ~lock /\ ~asleep =>
        /\ hwStream
        /\ hwMode = GetPadFormat.mode /\ hwDepth = GetPadFormat.code.depth /\ hwFlip = flip
        /\ tim.vts = Height[mode] + tim.vblank
        /\ tim.hwExposure = tim.exposure
        /\ tim.hwExposure <= tim.vts - 4

\* "vflip and hflip cannot change during streaming": the committed flips and the
\* orientation register are frozen.
FlipsFrozen == [][streaming /\ streaming' => flip' = flip /\ (hwFlip' = hwFlip)]_vars

\* "vflip and hflip cannot change during streaming": the Bayer order a caller is
\* told while frames flow is the order of the frames.
BayerOrderStable ==
    streaming /\ ~lock /\ ~asleep => GetPadFormat.code.flip = hwFlip

\* "Applying V4L2 control value only happens when power is up for streaming".
CtrlWritesOnlyInUse ==
    [][streaming' = streaming /\ tim'.hwExposure # tim.hwExposure /\ tim'.hwExposure # 0
         => status = "active" /\ usage # 0]_vars

\* A sensor that stays bound, awake and stopped is eventually powered off.
StoppedSensorSuspends ==
    <>[](phase = "bound" /\ ~asleep /\ ~streaming /\ ~lock) => <>[](status = "suspended" /\ ~powered)
=============================================================================
