------------------------------- MODULE Ov5648 -------------------------------
(***************************************************************************)
(* The OV5648 sensor driver (src/imx219/exercise-02/ov5648.c) after probe. *)
(*                                                                         *)
(* Actors:                                                                 *)
(*   - the stream thread: the video node's ioctl path, serialised by the   *)
(*     capture device's lock, which calls ov5648_s_stream;                 *)
(*   - any number of format and control callers on the subdev node, whose  *)
(*     handlers run wholly under sensor->mutex (the control handler's lock *)
(*     is the same mutex): each is one action;                             *)
(*   - the PM worker, which runs ov5648_suspend.                           *)
(* s_stream takes the mutex only around the standby write: its steps before*)
(* and after (pm_runtime_get_sync, state->streaming, pm_runtime_put) are   *)
(* separate actions that interleave with everything else.                  *)
(*                                                                         *)
(* A definition named X_Something is X with a plausible programming error; *)
(* no specification uses it (see the README, "Mutants").                   *)
(***************************************************************************)
EXTENDS RuntimePm, FiniteSets

CONSTANTS
    Formats,        \* the (mode, mbus_code) pairs of ov5648_modes x ov5648_mbus_codes
    DefaultFormat,  \* (ov5648_modes[0], ov5648_mbus_codes[0])
    Ctrls,          \* the control clusters the driver programs
    Vals,           \* values of a cluster
    DefaultVal,     \* the value ov5648_ctrls_init gives it
    Reset, Torn,    \* register content after a reset, after a sequence cut short
    Faults,         \* which calls may fail: a subset of {"i2c", "rail"}
    ExternalPower,  \* the chip answers on I2C whatever the driver's rails do
    Disciplined,    \* the caller starts only a stopped, stops only a started stream
    OtherClkUsers,  \* references the other camera holds on the shared cam_clk
    MaxUsage        \* bound on the modelled usage count

ASSUME FormatsAssumption ==
    /\ DefaultFormat \in Formats
    /\ Reset \notin Formats
    /\ Torn \notin Formats
ASSUME CtrlsAssumption ==
    /\ DefaultVal \in Vals
    /\ Reset \notin Vals
    /\ Torn \notin Vals
    /\ Reset # Torn
ASSUME FaultsAssumption == Faults \subseteq {"i2c", "rail"}
ASSUME BooleanAssumption == ExternalPower \in BOOLEAN /\ Disciplined \in BOOLEAN
ASSUME BoundAssumption == OtherClkUsers \in Nat /\ MaxUsage \in Nat

VARIABLES
    spc,        \* where the stream thread is inside ov5648_s_stream
    enable,     \* the argument of that call
    wpc,        \* where the PM worker is inside the suspend path
    streaming,  \* sensor->state.streaming
    format,     \* sensor->state.mode and sensor->state.mbus_code
    ctrl,       \* the values the control framework has committed
    powered,    \* the driver's regulators are on, power-down and reset released
    clk,        \* enable count of the shared XVCLK
    hwStream,   \* the sensor is out of software standby
    hwFormat,   \* the mode the registers hold
    hwCtrl      \* the control values the registers hold

stateVars == <<streaming, format, ctrl>>
hwVars == <<hwStream, hwFormat, hwCtrl>>
powerVars == <<powered, clk>>
vars == <<pmVars, spc, enable, wpc, stateVars, hwVars, powerVars>>

StreamPc == {"idle", "rpm_resume", "resume_cb", "resume_ok", "resume_err",
             "put_noidle", "standby", "flag", "put"}
WorkerPc == {"idle", "suspend_cb", "suspend_ok", "suspend_err"}

TypeOK ==
    /\ RpmTypeOK
    /\ spc \in StreamPc
    /\ enable \in BOOLEAN
    /\ wpc \in WorkerPc
    /\ streaming \in BOOLEAN
    /\ format \in Formats
    /\ ctrl \in [Ctrls -> Vals]
    /\ powered \in BOOLEAN
    /\ clk \in Nat
    /\ hwStream \in BOOLEAN
    /\ hwFormat \in Formats \cup {Reset, Torn}
    /\ hwCtrl \in [Ctrls -> Vals \cup {Reset, Torn}]

-----------------------------------------------------------------------------
(* Register access *)

\* ov5648_write and ov5648_read: whether an access succeeds.  An unpowered chip
\* does not acknowledge; a powered one may still lose a transfer.
IoResults(on) ==
    {ok \in BOOLEAN : /\ ok => on \/ ExternalPower
                      /\ ~ok => "i2c" \in Faults \/ ~(on \/ ExternalPower)}

-----------------------------------------------------------------------------
(* Power *)

ClkAfterDisable_NoFloor(n) == clk + n - 1

\* The disable: label of ov5648_sensor_power, reached with n references of ours
\* on the clock: clk_disable_unprepare is unconditional and the clock framework
\* refuses only to go below zero.
ClkAfterDisable(n) == IF clk + n = 0 THEN 0 ELSE clk + n - 1

\* Registers of a chip that has lost its supplies start again from reset values.
PowerLost ==
    IF ExternalPower THEN UNCHANGED hwVars
    ELSE /\ hwStream' = FALSE
         /\ hwFormat' = Reset
         /\ hwCtrl' = [c \in Ctrls |-> Reset]

SensorPowerOff_KeepsClock == powered' = FALSE /\ PowerLost /\ UNCHANGED clk

\* ov5648_sensor_power(sd, 0)
SensorPowerOff ==
    /\ powered' = FALSE
    /\ clk' = ClkAfterDisable(0)
    /\ PowerLost

SensorPowerOn_FirstMode ==
    /\ TRUE \in IoResults(TRUE) /\ ~streaming
    /\ powered' = TRUE /\ clk' = clk + 1
    /\ hwStream' = FALSE /\ hwFormat' = DefaultFormat /\ hwCtrl' = ctrl

\* ov5648_sensor_init resets the chip, puts it in standby and configures the
\* current format; ov5648_state_configure refuses to do so while streaming, so
\* a resume never succeeds with the streaming flag set.
SensorInit ==
    /\ TRUE \in IoResults(TRUE)
    /\ ~streaming
    /\ hwStream' = FALSE
    /\ hwFormat' = format

\* ov5648_sensor_power(sd, 1) and the __v4l2_ctrl_handler_setup of ov5648_resume,
\* both successful.
SensorPowerOn ==
    /\ powered' = TRUE
    /\ clk' = clk + 1
    /\ SensorInit
    /\ hwCtrl' = ctrl

\* A regulator or the clock fails to enable: everything is disabled, the clock
\* that was never enabled included.
SupplyFails ==
    /\ "rail" \in Faults
    /\ powered' = FALSE
    /\ clk' = ClkAfterDisable(0)
    /\ PowerLost

\* The registers after ov5648_sensor_init, or the replay of the controls after
\* it, stopped part way.
RegistersAfterFailedInit ==
    IF ~ExternalPower THEN PowerLost
    ELSE \/ "i2c" \in Faults /\ UNCHANGED hwVars   \* the reset itself was lost
         \/ /\ hwStream' = FALSE
            /\ hwFormat' \in IF streaming THEN {Reset} ELSE {Reset, Torn}
            /\ hwCtrl' = [c \in Ctrls |-> Reset]
         \/ /\ ~streaming
            /\ hwStream' = FALSE
            /\ hwFormat' = format
            /\ hwCtrl' \in {h \in [Ctrls -> Vals \cup {Reset, Torn}] :
                              \A c \in Ctrls : h[c] \in {ctrl[c], Reset, Torn}}

InitFails_StaysOn ==
    /\ streaming \/ FALSE \in IoResults(TRUE)
    /\ powered' = TRUE /\ clk' = clk + 1
    /\ RegistersAfterFailedInit

\* The failure itself: a lost transfer, or the -EBUSY of ov5648_state_configure
\* while streaming.  The supplies were all on and are all disabled.
InitFails ==
    /\ streaming \/ FALSE \in IoResults(TRUE)
    /\ powered' = FALSE
    /\ clk' = ClkAfterDisable(1)
    /\ RegistersAfterFailedInit

-----------------------------------------------------------------------------
(* ov5648_s_stream *)

\* The call.  A disciplined caller alternates; the capture driver's STREAMOFF
\* ioctl does not, it calls s_stream(0) every time.
CallStream(e) ==
    /\ spc = "idle"
    /\ Disciplined => (streaming # e)
    /\ enable' = e
    /\ IF e THEN usage < MaxUsage /\ usage' = usage + 1 /\ spc' = "rpm_resume"
            ELSE usage > -MaxUsage /\ spc' = "standby" /\ UNCHANGED usage
    /\ UNCHANGED <<status, pmError, request, wpc, stateVars, hwVars, powerVars>>

GetSync_IgnoresError ==
    /\ spc = "rpm_resume"
    /\ \/ (RpmReady \/ RpmRefuse) /\ spc' = "standby"
       \/ RpmBeginResume /\ spc' = "resume_cb"
    /\ UNCHANGED <<enable, wpc, stateVars, hwVars, powerVars>>

\* pm_runtime_get_sync up to the callback.  A device on its way down keeps the
\* caller waiting: the action is not enabled.
GetSync ==
    /\ spc = "rpm_resume"
    /\ \/ RpmReady /\ spc' = "standby"
       \/ RpmBeginResume /\ spc' = "resume_cb"
       \/ RpmRefuse /\ spc' = "put_noidle"
    /\ UNCHANGED <<enable, wpc, stateVars, hwVars, powerVars>>

\* ov5648_resume, run by the PM core in the stream thread, under the mutex.
Resume ==
    /\ spc = "resume_cb"
    /\ \/ SensorPowerOn /\ spc' = "resume_ok"
       \/ (SupplyFails \/ InitFails) /\ spc' = "resume_err"
    /\ UNCHANGED <<pmVars, enable, wpc, stateVars>>

\* The core publishes the outcome of ov5648_resume, after the mutex is released.
ResumeDone ==
    /\ spc \in {"resume_ok", "resume_err"}
    /\ RpmEndResume(spc = "resume_ok")
    /\ spc' = IF spc = "resume_ok" THEN "standby" ELSE "put_noidle"
    /\ UNCHANGED <<enable, wpc, stateVars, hwVars, powerVars>>

\* The error return of a failed pm_runtime_get_sync.
PutNoidle ==
    /\ spc = "put_noidle"
    /\ RpmPutNoidle
    /\ spc' = "idle"
    /\ UNCHANGED <<enable, wpc, stateVars, hwVars, powerVars>>

SwStandby_IgnoresError ==
    /\ spc = "standby"
    /\ \/ TRUE \in IoResults(powered) /\ hwStream' = enable
       \/ FALSE \in IoResults(powered) /\ UNCHANGED hwStream
    /\ spc' = "flag"
    /\ UNCHANGED <<pmVars, enable, wpc, stateVars, hwFormat, hwCtrl, powerVars>>

SwStandby_PutsOnError ==
    /\ spc = "standby"
    /\ \/ /\ TRUE \in IoResults(powered)
          /\ hwStream' = enable
          /\ spc' = "flag"
          /\ UNCHANGED pmVars
       \/ /\ FALSE \in IoResults(powered)
          /\ UNCHANGED hwStream
          /\ spc' = "idle"
          /\ RpmPut
    /\ UNCHANGED <<enable, wpc, stateVars, hwFormat, hwCtrl, powerVars>>

\* ov5648_sw_standby under the mutex.  A failed write returns at once: the
\* reference an enabling call has taken is not given back.
SwStandby ==
    /\ spc = "standby"
    /\ \/ /\ TRUE \in IoResults(powered)
          /\ hwStream' = enable
          /\ spc' = "flag"
       \/ /\ FALSE \in IoResults(powered)
          /\ UNCHANGED hwStream
          /\ spc' = "idle"
    /\ UNCHANGED <<pmVars, enable, wpc, stateVars, hwFormat, hwCtrl, powerVars>>

\* state->streaming = !!enable, after the mutex has been released.
SetStreaming ==
    /\ spc = "flag"
    /\ streaming' = enable
    /\ spc' = IF enable THEN "idle" ELSE "put"
    /\ UNCHANGED <<pmVars, enable, wpc, format, ctrl, hwVars, powerVars>>

PutStream_Noidle ==
    /\ spc = "put"
    /\ RpmPutNoidle
    /\ spc' = "idle"
    /\ UNCHANGED <<enable, wpc, stateVars, hwVars, powerVars>>

\* pm_runtime_put at the end of s_stream(0).
PutStream ==
    /\ spc = "put"
    /\ RpmPut
    /\ spc' = "idle"
    /\ UNCHANGED <<enable, wpc, stateVars, hwVars, powerVars>>

-----------------------------------------------------------------------------
(* The PM worker *)

ServeIdle ==
    /\ wpc = "idle"
    /\ RpmBeginSuspend
    /\ wpc' = IF SuspendAllowed(usage) THEN "suspend_cb" ELSE "idle"
    /\ UNCHANGED <<spc, enable, stateVars, hwVars, powerVars>>

\* ov5648_suspend, under the mutex.  ov5648_sensor_power(0) cannot fail.
Suspend ==
    /\ wpc = "suspend_cb"
    /\ \/ /\ ~streaming
          /\ SensorPowerOff
          /\ wpc' = "suspend_ok"
       \/ /\ streaming
          /\ TRUE \in IoResults(powered)
          /\ powered' = FALSE
          /\ clk' = ClkAfterDisable(0)
          /\ hwStream' = FALSE
          /\ IF ExternalPower THEN UNCHANGED <<hwFormat, hwCtrl>>
             ELSE hwFormat' = Reset /\ hwCtrl' = [c \in Ctrls |-> Reset]
          /\ wpc' = "suspend_ok"
       \/ /\ streaming
          /\ FALSE \in IoResults(powered)
          /\ wpc' = "suspend_err"
          /\ UNCHANGED <<hwVars, powerVars>>
    /\ UNCHANGED <<pmVars, spc, enable, stateVars>>

SuspendDone ==
    /\ wpc \in {"suspend_ok", "suspend_err"}
    /\ RpmEndSuspend(wpc = "suspend_ok")
    /\ wpc' = "idle"
    /\ UNCHANGED <<spc, enable, stateVars, hwVars, powerVars>>

-----------------------------------------------------------------------------
(* Format and control callers *)

\* What one group of registers can hold after a write sequence that failed.
CutShort(old) == IF powered \/ ExternalPower THEN {old, Torn} ELSE {old}

\* ov5648_state_configure for a format f: with the device suspended the state
\* alone changes; otherwise the registers are written and the state is committed
\* only if every write succeeded.
FmtDeferred(f) == status = "suspended" /\ format' = f /\ UNCHANGED hwFormat

FmtWritten(f) ==
    /\ status # "suspended"
    /\ TRUE \in IoResults(powered)
    /\ format' = f
    /\ hwFormat' = f

FmtFails_Commits(f) ==
    /\ status # "suspended"
    /\ FALSE \in IoResults(powered)
    /\ hwFormat' \in CutShort(hwFormat)
    /\ format' = f

FmtFails(f) ==
    /\ status # "suspended"
    /\ FALSE \in IoResults(powered)
    /\ hwFormat' \in CutShort(hwFormat)
    /\ UNCHANGED format

SetFmt_WhileBusy(f) ==
    /\ f # format
    /\ FmtDeferred(f) \/ FmtWritten(f) \/ FmtFails(f)
    /\ UNCHANGED <<pmVars, spc, enable, wpc, streaming, ctrl, hwStream, hwCtrl, powerVars>>

\* ov5648_set_fmt with V4L2_SUBDEV_FORMAT_ACTIVE and a format that differs from
\* the current one (the same format, a TRY format and the -EBUSY of a streaming
\* sensor change nothing).
SetFmt(f) ==
    /\ ~streaming
    /\ f # format
    /\ FmtDeferred(f) \/ FmtWritten(f) \/ FmtFails(f)
    /\ UNCHANGED <<pmVars, spc, enable, wpc, streaming, ctrl, hwStream, hwCtrl, powerVars>>

CtrlDeferred_Inactive(c, v) ==
    status # "active" /\ ctrl' = [ctrl EXCEPT ![c] = v] /\ UNCHANGED hwCtrl

\* pm_runtime_suspended in ov5648_s_ctrl: the value is kept for the next resume.
CtrlDeferred(c, v) ==
    status = "suspended" /\ ctrl' = [ctrl EXCEPT ![c] = v] /\ UNCHANGED hwCtrl

\* The register writes of a cluster: exposure, gain, white balance, flips and
\* test pattern each have their own sequence of them.
CtrlWritten(c, v) ==
    /\ status # "suspended"
    /\ TRUE \in IoResults(powered)
    /\ ctrl' = [ctrl EXCEPT ![c] = v]
    /\ hwCtrl' = [hwCtrl EXCEPT ![c] = v]

\* One of them fails and ov5648_s_ctrl returns the error.
CtrlFails(c) ==
    /\ status # "suspended"
    /\ FALSE \in IoResults(powered)
    /\ \E w \in CutShort(hwCtrl[c]) : hwCtrl' = [hwCtrl EXCEPT ![c] = w]
    /\ UNCHANGED ctrl

\* ov5648_s_ctrl, called by the control framework with the mutex held when the
\* value of a cluster really changes; the framework commits it on success.
SetCtrl(c, v) ==
    /\ v # ctrl[c]
    /\ CtrlDeferred(c, v) \/ CtrlWritten(c, v) \/ CtrlFails(c)
    /\ UNCHANGED <<pmVars, spc, enable, wpc, streaming, format, hwStream, hwFormat, powerVars>>

-----------------------------------------------------------------------------
\* The values ov5648_ctrls_init gives the controls.
InitialCtrl == [c \in Ctrls |-> DefaultVal]

\* What ov5648_probe leaves behind: defaults committed, nothing programmed,
\* runtime PM enabled and suspended.
Init ==
    /\ usage = 0 /\ status = "suspended" /\ pmError = FALSE /\ request = FALSE
    /\ spc = "idle" /\ enable = FALSE /\ wpc = "idle"
    /\ streaming = FALSE
    /\ format = DefaultFormat
    /\ ctrl = InitialCtrl
    /\ powered = FALSE
    /\ clk = OtherClkUsers
    /\ hwStream = FALSE
    /\ hwFormat = Reset
    /\ hwCtrl = [c \in Ctrls |-> Reset]

\* The steps a thread owes once it is inside a call or has work queued.
ThreadStep ==
    \/ GetSync \/ Resume \/ ResumeDone \/ PutNoidle \/ SwStandby \/ SetStreaming
    \/ PutStream

WorkerStep == ServeIdle \/ Suspend \/ SuspendDone

Next ==
    \/ \E e \in BOOLEAN : CallStream(e)
    \/ ThreadStep
    \/ WorkerStep
    \/ \E f \in Formats : SetFmt(f)
    \/ \E c \in Ctrls, v \in Vals : SetCtrl(c, v)

Spec == Init /\ [][Next]_vars

\* The kernel schedules a runnable thread and its workqueues eventually; no
\* caller is obliged to make a call.
FairSpec == Spec /\ WF_vars(ThreadStep) /\ WF_vars(WorkerStep)

-----------------------------------------------------------------------------
(* Properties *)

\* A sensor marked streaming is on: its reference is held, the device is
\* active, the supplies and the chip's stream bit are on.  s_stream sets
\* the flag outside the mutex and the worker tests the count outside it, so
\* this rests on the order get, standby, flag, put.
StreamHoldsPower ==
    streaming => usage >= 1 /\ status = "active" /\ powered

\* The stream flag tells the truth whenever the stream thread is out of s_stream.
FlagMatchesSensor == spc = "idle" => (streaming <=> hwStream)

\* Controls set while the sensor was off reach the registers at power on, those
\* set while it is on reach them at once: an active sensor runs with the values
\* the control framework reports (ov5648_s_ctrl, ov5648_resume).
ControlsApplied == status = "active" => hwCtrl = ctrl

\* "State will be configured at first power on otherwise": an active sensor is
\* programmed with the format ov5648_get_fmt reports.
FormatApplied == status = "active" => hwFormat = format

\* With transfers that may be lost a register group can be half written, but an
\* active sensor never runs a complete configuration other than the reported one.
NoWrongConfiguration ==
    status = "active" =>
        /\ hwFormat \in {format, Torn}
        /\ \A c \in Ctrls : hwCtrl[c] \in {ctrl[c], Torn}

\* The runtime status the core publishes and the supplies the driver switched
\* agree, whatever fails and however the callers behave.
PowerMatchesStatus ==
    /\ status = "active" => powered
    /\ status = "suspended" => ~powered

\* The driver never gives back a reference on the shared camera clock that it
\* did not take: the other sensor keeps its clock.
ClockNotStolen == clk = OtherClkUsers + (IF powered THEN 1 ELSE 0)

\* While the chip is streaming its mode registers change only in the window
\* between the standby write of s_stream(1) and the assignment of the flag.
ReconfigureWindow ==
    [][hwStream /\ hwStream' /\ hwFormat' # hwFormat => spc = "flag"]_vars

\* "Wait for the sensor to be on before setting controls": a control written to
\* the registers finds the sensor on.
ControlWritesWaitForPower ==
    [][\A c \in Ctrls, v \in Vals :
         SetCtrl(c, v) /\ status # "suspended" => powered]_vars

\* A sensor that stays stopped is eventually powered off.
StoppedSensorSuspends ==
    <>[](~streaming /\ spc = "idle") => <>[](status = "suspended" /\ ~powered)
=============================================================================
