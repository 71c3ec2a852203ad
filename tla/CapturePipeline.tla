--------------------------- MODULE CapturePipeline ---------------------------
(***************************************************************************)
(* Application, ISI capture node, CSI-2 receiver and OV5648 together.      *)
(*                                                                         *)
(* The application is the capture class of src/exercise-16/v4l2.cpp: open  *)
(* sets a format and calls STREAMON without looking at the results, release*)
(* calls STREAMOFF and closes; it may also die, which closes the node only.*)
(* STREAMON and STREAMOFF are mxc_isi_cap_streamon and _streamoff of       *)
(* imx8-isi-cap.c, which walk the media graph from the video node: the walk*)
(* returns the farthest entity first, so the sensor is called before the   *)
(* receiver in both directions, and a sensor that fails ends the walk.     *)
(* Other programs set formats and controls on the sensor's subdev node at  *)
(* any time.                                                               *)
(*                                                                         *)
(* Sensor and receiver are the modules Ov5648 and Csi2Receiver; the buffers*)
(* of the channel are the subject of IsiCapture.  STREAMON sets the format *)
(* of the sensor and reads it back in two calls, each of which takes and   *)
(* releases the sensor's mutex: another program may come in between.       *)
(***************************************************************************)
EXTENDS Ov5648

CONSTANTS
    Requests,       \* formats the application asks for
    SensorCodes,    \* ov5648_mbus_codes
    YuvCodes,       \* codes that mxc_isi_get_src_fmt takes for YUV
    NoFormat,       \* no format yet
    CsisCodes, FirstCsisCode, SupplyFaults   \* see Csi2Receiver

VARIABLES
    csiUsage, csiStatus, csiError, csiRequest,
    cpc, csisFmt, seenFmt, phy, clks, running, isp, types,   \* see Csi2Receiver
    ipc,            \* where the video node's thread is in STREAMON or STREAMOFF
    opened,         \* the application has the node open (isCamOpen)
    dst,            \* isi_cap->dst_f
    src,            \* isi_cap->src_f: what the channel expects on its input
    channel,        \* the ISI channel is enabled
    streamOk,       \* the last STREAMON succeeded
    orphan,         \* history: an application has died and nobody stopped its stream
    raced,          \* history: another program has changed the sensor's format since
                    \* the last STREAMON set it, before STREAMON read it back ("get")
                    \* or before the sensor started ("start"); or "no"
    surplus,        \* history: a STREAMOFF got through to a sensor nobody had started
    stuck           \* history: the last suspend of the receiver has failed

Csi == INSTANCE Csi2Receiver WITH
         usage <- csiUsage, status <- csiStatus, pmError <- csiError, request <- csiRequest

csiVars == <<csiUsage, csiStatus, csiError, csiRequest, cpc, csisFmt, seenFmt, phy, clks,
             running, isp, types>>
historyVars == <<orphan, raced, surplus, stuck>>
nodeVars == <<ipc, opened, dst, src, channel, streamOk, historyVars>>
pipelineVars == <<vars, csiVars, nodeVars>>

Sizes == {f.size : f \in Formats}

Distance(a, b) == IF a < b THEN b - a ELSE a - b

\* v4l2_find_nearest_size over ov5648_modes: of two sizes equally near the one
\* first in the table, the larger.
NearestSize(n) ==
    CHOOSE s \in Sizes : \A t \in Sizes :
        Distance(n, s) < Distance(n, t) \/ (Distance(n, s) = Distance(n, t) /\ s >= t)

ASSUME CsisCodesAssumption == FirstCsisCode \in CsisCodes /\ SupplyFaults \in BOOLEAN

\* The capture class asks for the size of a mode (Sensors in v4l2.h): no request
\* rounds down, which STREAMON would refuse as upscaling every time.
ASSUME RequestsAssumption ==
    /\ \A f \in Formats : f.code \in SensorCodes /\ f.size \in Nat
    /\ \A c \in SensorCodes, s \in Sizes : [code |-> c, size |-> s] \in Formats
    /\ \A r \in Requests : r.size \in Nat /\ r.size <= NearestSize(r.size)

-----------------------------------------------------------------------------
(* Formats *)

\* The format ov5648_set_fmt settles for when it is asked for r.
Settled(r) ==
    [code |-> IF r.code \in SensorCodes THEN r.code ELSE DefaultFormat.code,
     size |-> NearestSize(r.size)]

\* The input of the channel for a sensor that reports f: mxc_isi_get_src_fmt knows
\* two formats on the pixel link.
SourceFrame(f) == [code |-> IF f.code \in YuvCodes THEN "yuv32" ELSE "rgb32", size |-> f.size]

-----------------------------------------------------------------------------
(* STREAMON *)

\* V4L2::open up to STREAMON: open, S_FMT, REQBUFS, QBUF.  The model ends with a
\* surplus STREAMOFF, after which the usage counts are too low for good.
AppOpen(r) ==
    /\ ~opened /\ ipc = "idle"
    /\ ~surplus
    /\ opened' = TRUE
    /\ dst' = r
    /\ ipc' = "on_config"
    /\ streamOk' = FALSE
    /\ UNCHANGED <<vars, csiVars, src, channel, historyVars>>

\* The sensor refuses the format while it streams, or fails to write it: the
\* receiver returns -EINVAL and STREAMON ends with nothing changed.
ConfigRefused ==
    /\ ipc = "on_config"
    /\ \/ streaming /\ UNCHANGED vars
       \/ ~streaming /\ SetFmt(Settled(dst)) /\ format' = format
    /\ ipc' = "idle"
    /\ UNCHANGED <<csiVars, opened, dst, src, channel, streamOk, historyVars>>

\* The sensor has the format, set now or before.
SensorAccepts == ~streaming /\ \/ SetFmt(Settled(dst)) /\ format' = Settled(dst)
                               \/ format = Settled(dst) /\ UNCHANGED vars

\* set_fmt of the receiver, from mxc_isi_source_fmt_init.
ConfigSet ==
    /\ ipc = "on_config"
    /\ SensorAccepts
    /\ Csi!TakeFormat(dst, format')
    /\ raced' = "no"
    /\ ipc' = "on_get"
    /\ UNCHANGED <<csiUsage, csiStatus, csiError, csiRequest, cpc, seenFmt, phy, clks, running,
                   isp, types, opened, dst, src, channel, streamOk, orphan, surplus, stuck>>

ConfigGet_RefusesEqual ==
    /\ ipc = "on_get"
    /\ Csi!SeeFormat(format)
    /\ src' = SourceFrame(format)
    /\ \/ dst.size >= src'.size /\ ipc' = "idle" /\ UNCHANGED channel
       \/ dst.size < src'.size /\ ipc' = "on_sensor" /\ channel' = TRUE
    /\ UNCHANGED <<vars, csiUsage, csiStatus, csiError, csiRequest, cpc, csisFmt, phy, clks,
                   running, isp, types, opened, dst, streamOk, historyVars>>

\* get_fmt of the receiver, then either "Not support upscale", which ends STREAMON,
\* or the channel is configured and enabled, which sleeps 300 ms.
ConfigGet ==
    /\ ipc = "on_get"
    /\ Csi!SeeFormat(format)
    /\ src' = SourceFrame(format)
    /\ \/ dst.size > src'.size /\ ipc' = "idle" /\ UNCHANGED channel
       \/ dst.size <= src'.size /\ ipc' = "on_sensor" /\ channel' = TRUE
    /\ UNCHANGED <<vars, csiUsage, csiStatus, csiError, csiRequest, cpc, csisFmt, phy, clks,
                   running, isp, types, opened, dst, streamOk, historyVars>>

\* mxc_isi_pipeline_enable calls the sensor.
CallSensor ==
    /\ \/ ipc = "on_sensor" /\ CallStream(TRUE) /\ ipc' = "on_sensor_wait"
       \/ ipc = "off_sensor" /\ CallStream(FALSE) /\ ipc' = "off_sensor_wait"
    /\ UNCHANGED <<csiVars, opened, dst, src, channel, streamOk, historyVars>>

AfterSensor_GoesOn(on, ok) == IF on THEN "on_csi" ELSE "off_csi"

\* Where the walk is once the sensor has returned: an error ends it.
AfterSensor(on, ok) ==
    IF on THEN (IF ok THEN "on_csi" ELSE "idle") ELSE (IF ok THEN "off_csi" ELSE "off_channel")

\* The sensor's part; s_stream has succeeded when it returns from one of its last
\* two steps.
SensorStep ==
    /\ ThreadStep
    /\ ipc' = IF spc' # "idle" THEN ipc ELSE AfterSensor(enable, spc \in {"flag", "put"})
    /\ surplus' = (surplus \/ (spc = "standby" /\ spc' = "flag" /\ ~enable /\ ~streaming))
    /\ UNCHANGED <<csiVars, opened, dst, src, channel, streamOk, orphan, raced, stuck>>

\* mxc_isi_pipeline_enable calls the receiver.
CallReceiver ==
    /\ ipc = "on_csi"
    /\ Csi!CallStart
    /\ ipc' = "on_csi_wait"
    /\ UNCHANGED <<vars, opened, dst, src, channel, streamOk, historyVars>>

\* The receiver's part; it never reports an error.
ReceiverStep ==
    /\ Csi!CallStep
    /\ IF cpc' = "idle" THEN ipc' = "idle" /\ streamOk' = TRUE ELSE UNCHANGED <<ipc, streamOk>>
    /\ UNCHANGED <<vars, opened, dst, src, channel, historyVars>>

-----------------------------------------------------------------------------
(* STREAMOFF, close and death *)

AppRelease_NoStreamOff ==
    /\ opened /\ ipc = "idle"
    /\ ipc' = "off_channel"
    /\ UNCHANGED <<vars, csiVars, opened, dst, src, channel, streamOk, historyVars>>

\* V4L2::release
AppRelease ==
    /\ opened /\ ipc = "idle"
    /\ ipc' = "off_sensor"
    /\ UNCHANGED <<vars, csiVars, opened, dst, src, channel, streamOk, historyVars>>

StopReceiver ==
    /\ ipc = "off_csi"
    /\ Csi!StopStream
    /\ ipc' = "off_channel"
    /\ UNCHANGED <<vars, opened, dst, src, channel, streamOk, historyVars>>

\* mxc_isi_channel_disable, vb2_ioctl_streamoff, close.
OffChannel ==
    /\ ipc = "off_channel"
    /\ channel' = FALSE
    /\ opened' = FALSE
    /\ orphan' = FALSE
    /\ ipc' = "idle"
    /\ UNCHANGED <<vars, csiVars, dst, src, streamOk, raced, surplus, stuck>>

\* mxc_isi_capture_release without STREAMOFF: the channel alone is stopped.
AppDies ==
    /\ opened /\ ipc = "idle"
    /\ channel' = FALSE
    /\ opened' = FALSE
    /\ orphan' = TRUE
    /\ UNCHANGED <<vars, csiVars, ipc, dst, src, streamOk, raced, surplus, stuck>>

-----------------------------------------------------------------------------
(* The subdev node of the sensor, and the PM workers *)

\* Which race it is to set the sensor's format while the node's thread is at pc.
RaceAt(pc) ==
    CASE pc = "on_get" -> "get"
      [] pc \in {"on_sensor", "on_sensor_wait"} -> "start"
      [] OTHER -> "no"

SubdevSetFmt(f) ==
    /\ SetFmt(f)
    /\ raced' = IF raced = "no" THEN RaceAt(ipc) ELSE raced
    /\ UNCHANGED <<csiVars, ipc, opened, dst, src, channel, streamOk, orphan, surplus, stuck>>

SubdevSetCtrl(c, v) == SetCtrl(c, v) /\ UNCHANGED <<csiVars, nodeVars>>

SensorWorker == WorkerStep /\ UNCHANGED <<csiVars, nodeVars>>

ReceiverWorker ==
    /\ Csi!WorkerStep
    /\ stuck' = IF csiStatus = "suspending" THEN csiStatus' = "active" ELSE stuck
    /\ UNCHANGED <<vars, ipc, opened, dst, src, channel, streamOk, orphan, raced, surplus>>

-----------------------------------------------------------------------------
PipelineInit ==
    /\ Init
    /\ Csi!InitReceiver(NoFormat)
    /\ ipc = "idle" /\ opened = FALSE /\ channel = FALSE /\ streamOk = FALSE
    /\ orphan = FALSE /\ raced = "no" /\ surplus = FALSE /\ stuck = FALSE
    /\ dst \in Requests /\ src = NoFormat

\* The rest of an ioctl that has begun.
NodeStep ==
    \/ ConfigRefused \/ ConfigSet \/ ConfigGet
    \/ CallSensor \/ SensorStep \/ CallReceiver \/ ReceiverStep
    \/ StopReceiver \/ OffChannel

PipelineNext ==
    \/ \E r \in Requests : AppOpen(r)
    \/ AppRelease \/ AppDies
    \/ NodeStep
    \/ \E f \in Formats : SubdevSetFmt(f)
    \/ \E c \in Ctrls, v \in Vals : SubdevSetCtrl(c, v)
    \/ SensorWorker \/ ReceiverWorker

\* Runnable threads and queued work are scheduled; nobody has to open or release.
PipelineSpec ==
    /\ PipelineInit /\ [][PipelineNext]_pipelineVars
    /\ WF_pipelineVars(NodeStep)
    /\ WF_pipelineVars(SensorWorker)
    /\ WF_pipelineVars(ReceiverWorker)

-----------------------------------------------------------------------------
(* Properties *)

\* A STREAMOFF stops a sensor nobody has started, and so gives back a reference
\* nobody has taken, in one case only: another program has set the sensor's format
\* between the set_fmt and the get_fmt of a STREAMON, which was refused for it
\* while the sensor was still powered from the stream before.  Every other refused
\* STREAMON leaves a sensor that does not answer.
SurplusNeedsRace == [][~surplus /\ surplus' => raced = "get"]_pipelineVars

\* The walk keeps sensor and receiver together although neither it nor they
\* record who is started: with no call under way the receiver runs exactly when
\* the sensor streams, and each holds one runtime PM reference then and none
\* otherwise, also after applications have died and others have released a
\* stream they never got, until a surplus STREAMOFF has got through.
ReferencesBalanced ==
    ipc = "idle" /\ ~surplus =>
        /\ running <=> streaming
        /\ csiUsage = IF running THEN 1 ELSE 0
        /\ usage = IF streaming THEN 1 ELSE 0

\* A sensor marked streaming has its reference, is active and powered in the
\* pipeline as it has alone, although the node calls s_stream(0) on sensors that
\* are not streaming: until one such call has got through.
StreamKeepsPower == ~surplus => StreamHoldsPower

\* A receiver that runs has its PHY supply, unless an earlier resume has failed,
\* which s_stream ignores, or a surplus STREAMOFF has taken its reference; and its
\* registers are written only with the clocks on, then too, because probe has left
\* them enabled.
ReceiverPowered ==
    /\ running /\ ~csiError /\ ~surplus => phy /\ csiStatus = "active"
    /\ cpc = "start" \/ ipc = "off_csi" => clks >= 1

\* Sensor, receiver and channel work with one format while an application's
\* stream runs: the receiver with the code of the set_fmt and the size of the
\* get_fmt, the channel with what it makes of the get_fmt, the sensor with what it
\* is programmed with.  Unless another program changed the sensor's format after
\* STREAMON had set it.
FormatsAgree ==
    opened /\ ipc = "idle" /\ streamOk /\ raced = "no" /\ ~surplus =>
        /\ src = SourceFrame(hwFormat)
        /\ isp = hwFormat
        /\ hwFormat.code \in types
        /\ dst.size <= src.size

\* When applications release what they open, sensor and receiver end up off: one
\* STREAMOFF is enough, also after a death and a refused STREAMON.  Only a PHY
\* regulator that could not be disabled keeps the receiver on.
PipelinePowersDown ==
    <>[](~opened /\ ~orphan) /\ []~surplus
        => <>[]( /\ status = "suspended" /\ ~powered /\ ~running
                 /\ csiStatus = "suspended" \/ stuck )

\* STREAMON may be refused while the sensor powers off, but an application that
\* opens again and again, with no dead one's stream in the way and nobody else
\* setting formats just then, gets its stream.
RetryStreams ==
    []<>(ipc = "on_config") /\ <>[](~orphan /\ raced = "no") /\ []~surplus => []<>streamOk
=============================================================================
