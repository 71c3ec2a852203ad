---------------------------- MODULE Ov5648Proofs ----------------------------
(***************************************************************************)
(* Proofs about the OV5648 driver, for every set of formats and controls,  *)
(* every bound on the usage count and every combination of faults the      *)
(* theorem's hypothesis allows.                                            *)
(***************************************************************************)
EXTENDS Ov5648, TLAPS

\* What the program counters say about status and power: the status is in
\* transition exactly while the thread that started the transition is inside
\* it, and the supplies change at the callback, between the two status changes.
PowerInv ==
    /\ status = "resuming" <=> spc \in {"resume_cb", "resume_ok", "resume_err"}
    /\ status = "suspending" <=> wpc # "idle"
    /\ PowerMatchesStatus
    /\ spc \in {"resume_cb", "resume_err"} => ~powered
    /\ spc = "resume_ok" => powered
    /\ wpc \in {"suspend_cb", "suspend_err"} => powered
    /\ wpc = "suspend_ok" => ~powered

\* The reference count protocol of ov5648_s_stream under a caller that
\* alternates: every step between get and put holds a reference.
RefInv ==
    /\ usage >= 0
    /\ streaming => usage >= 1 /\ status = "active"
    /\ spc \in {"rpm_resume", "resume_cb", "resume_ok", "resume_err", "put_noidle"}
          => enable /\ usage >= 1 /\ ~streaming
    /\ spc \in {"standby", "flag"} =>
          usage >= 1 /\ status = "active" /\ (streaming <=> ~enable)
    /\ spc = "put" => usage >= 1 /\ ~streaming
    /\ spc = "flag" => (hwStream <=> enable)
    /\ spc # "flag" => (hwStream <=> streaming)

\* What is in the registers of a sensor that is on.
ConfigInv ==
    powered => /\ hwFormat \in {format, Torn}
               /\ \A c \in Ctrls : hwCtrl[c] \in {ctrl[c], Torn}

\* The same without lost transfers: nothing is ever torn.
CleanInv == powered => hwFormat = format /\ hwCtrl = ctrl

-----------------------------------------------------------------------------
\* TypeOK in two halves, for the two provers: the Boolean variables and the rest.
Flags ==
    /\ pmError \in BOOLEAN /\ request \in BOOLEAN /\ enable \in BOOLEAN
    /\ streaming \in BOOLEAN /\ powered \in BOOLEAN /\ hwStream \in BOOLEAN

Values ==
    /\ usage \in Int
    /\ status \in RpmStatus
    /\ spc \in StreamPc
    /\ wpc \in WorkerPc
    /\ format \in Formats
    /\ ctrl \in [Ctrls -> Vals]
    /\ clk \in Nat
    /\ hwFormat \in Formats \cup {Reset, Torn}
    /\ hwCtrl \in [Ctrls -> Vals \cup {Reset, Torn}]

\* The type invariant in two halves, one per prover.
LEMMA TypeSplit == TypeOK <=> Flags /\ Values
  BY DEF TypeOK, RpmTypeOK, Flags, Values

\* What ov5648_probe leaves behind is well typed.
LEMMA TypeInit == Init => TypeOK
  <1> SUFFICES ASSUME Init PROVE Flags /\ Values
    BY TypeSplit
  <1>1. Flags
    BY Zenon DEF Init, InitialCtrl, Flags
  <1>2. Values
    BY FormatsAssumption, CtrlsAssumption, BoundAssumption
       DEF Init, InitialCtrl, Values, RpmStatus, StreamPc, WorkerPc
  <1> QED BY <1>1, <1>2

\* The clock framework keeps the enable count from going below zero.
LEMMA ClkNat == ASSUME clk \in Nat PROVE ClkAfterDisable(0) \in Nat /\ ClkAfterDisable(1) \in Nat
  BY DEF ClkAfterDisable

\* Every step keeps flags and program counters well typed.
LEMMA FlagsStep == Flags /\ [Next]_vars => Flags'
  <1> SUFFICES ASSUME Flags, [Next]_vars PROVE Flags'
    OBVIOUS
  <1> USE DEF Flags, pmVars, stateVars, hwVars, powerVars
  <1>1. ASSUME NEW e \in BOOLEAN, CallStream(e) PROVE Flags'
    BY <1>1, Zenon DEF CallStream
  <1>2. CASE GetSync
    BY <1>2, Zenon DEF GetSync, RpmReady, RpmBeginResume, RpmRefuse
  <1>3. CASE Resume
    BY <1>3, Zenon DEF Resume, SensorPowerOn, SensorInit, SupplyFails, InitFails, RegistersAfterFailedInit, ClkAfterDisable, PowerLost
  <1>4. CASE ResumeDone
    BY <1>4, Zenon DEF ResumeDone, RpmEndResume
  <1>5. CASE PutNoidle
    BY <1>5, Zenon DEF PutNoidle, RpmPutNoidle
  <1>6. CASE SwStandby
    BY <1>6, Zenon DEF SwStandby
  <1>7. CASE SetStreaming
    BY <1>7, Zenon DEF SetStreaming
  <1>8. CASE PutStream
    BY <1>8, Zenon DEF PutStream, RpmPut
  <1>9. CASE ServeIdle
    BY <1>9, Zenon DEF ServeIdle, RpmBeginSuspend
  <1>10. CASE Suspend
    BY <1>10, Zenon DEF Suspend, SensorPowerOff, ClkAfterDisable, PowerLost
  <1>11. CASE SuspendDone
    BY <1>11, Zenon DEF SuspendDone, RpmEndSuspend
  <1>12. ASSUME NEW f \in Formats, SetFmt(f) PROVE Flags'
    BY <1>12, Zenon DEF SetFmt, FmtDeferred, FmtWritten, FmtFails, CutShort
  <1>13. ASSUME NEW c \in Ctrls, NEW v \in Vals, SetCtrl(c, v) PROVE Flags'
    BY <1>13, Zenon DEF SetCtrl, CtrlDeferred, CtrlWritten, CtrlFails, CutShort
  <1>14. CASE UNCHANGED vars
    BY <1>14, Zenon DEF vars
  <1> QED
    BY <1>1, <1>2, <1>3, <1>4, <1>5, <1>6, <1>7, <1>8, <1>9, <1>10, <1>11, <1>12, <1>13, <1>14
       DEF Next, ThreadStep, WorkerStep

\* Every step keeps counts, formats and register contents well typed.
LEMMA ValuesStep == Flags /\ Values /\ [Next]_vars => Values'
  <1> SUFFICES ASSUME Flags /\ Values, [Next]_vars PROVE Values'
    OBVIOUS
  <1> USE DEF Flags, Values, RpmStatus, StreamPc, WorkerPc, pmVars, stateVars, hwVars, powerVars
  <1>1. ASSUME NEW e \in BOOLEAN, CallStream(e) PROVE Values'
    BY <1>1 DEF CallStream
  <1>2. CASE GetSync
    BY <1>2 DEF GetSync, RpmReady, RpmBeginResume, RpmRefuse
  <1>3. CASE Resume
    <2>1. CASE SensorPowerOn /\ spc' = "resume_ok"
      BY <1>3, <2>1 DEF Resume, SensorPowerOn, SensorInit
    <2>2. CASE SupplyFails /\ spc' = "resume_err"
      BY <1>3, <2>2, ClkNat DEF Resume, SupplyFails, PowerLost
    <2>3. CASE InitFails /\ spc' = "resume_err"
      <3>1. clk' \in Nat
        BY <2>3, ClkNat DEF InitFails
      <3>2. hwFormat' \in Formats \cup {Reset, Torn}
        BY <2>3 DEF InitFails, RegistersAfterFailedInit, PowerLost
      <3>3. hwCtrl' \in [Ctrls -> Vals \cup {Reset, Torn}]
        BY <2>3 DEF InitFails, RegistersAfterFailedInit, PowerLost
      <3> QED BY <1>3, <2>3, <3>1, <3>2, <3>3 DEF Resume
    <2> QED BY <1>3, <2>1, <2>2, <2>3 DEF Resume
  <1>4. CASE ResumeDone
    BY <1>4 DEF ResumeDone, RpmEndResume
  <1>5. CASE PutNoidle
    BY <1>5 DEF PutNoidle, RpmPutNoidle
  <1>6. CASE SwStandby
    BY <1>6 DEF SwStandby
  <1>7. CASE SetStreaming
    BY <1>7 DEF SetStreaming
  <1>8. CASE PutStream
    BY <1>8 DEF PutStream, RpmPut
  <1>9. CASE ServeIdle
    BY <1>9 DEF ServeIdle, RpmBeginSuspend
  <1>10. CASE Suspend
    <2>1. clk' \in Nat
      BY <1>10, ClkNat DEF Suspend, SensorPowerOff
    <2> QED
      BY <1>10, <2>1 DEF Suspend, SensorPowerOff, PowerLost
  <1>11. CASE SuspendDone
    BY <1>11 DEF SuspendDone, RpmEndSuspend
  <1>12. ASSUME NEW f \in Formats, SetFmt(f) PROVE Values'
    BY <1>12 DEF SetFmt, FmtDeferred, FmtWritten, FmtFails, CutShort
  <1>13. ASSUME NEW c \in Ctrls, NEW v \in Vals, SetCtrl(c, v) PROVE Values'
    BY <1>13 DEF SetCtrl, CtrlDeferred, CtrlWritten, CtrlFails, CutShort
  <1>14. CASE UNCHANGED vars
    BY <1>14 DEF vars
  <1> QED
    BY <1>1, <1>2, <1>3, <1>4, <1>5, <1>6, <1>7, <1>8, <1>9, <1>10, <1>11, <1>12, <1>13, <1>14
       DEF Next, ThreadStep, WorkerStep

\* Every step keeps the type invariant.
LEMMA TypeStep == TypeOK /\ [Next]_vars => TypeOK'
  <1>1. (TypeOK <=> Flags /\ Values)'
    BY TypeSplit, PTL
  <1> QED BY <1>1, TypeSplit, FlagsStep, ValuesStep

\* Every state of the driver has its type: the usage count is an integer (a
\* surplus put may drive it below zero), the clock count never goes negative.
THEOREM TypeCorrect == Spec => []TypeOK
  <1> QED BY TypeInit, TypeStep, PTL DEF Spec

-----------------------------------------------------------------------------
\* Every step keeps status, program counters and supplies in step.
LEMMA PowerStep == TypeOK /\ TypeOK' /\ PowerInv /\ [Next]_vars => PowerInv'
  <1> SUFFICES ASSUME TypeOK, TypeOK', PowerInv, [Next]_vars PROVE PowerInv'
    OBVIOUS
  <1> USE DEF TypeOK, RpmTypeOK, RpmStatus, StreamPc, WorkerPc, pmVars, stateVars, hwVars, powerVars, PowerInv, PowerMatchesStatus
  <1>1. ASSUME NEW e \in BOOLEAN, CallStream(e) PROVE PowerInv'
    BY <1>1 DEF CallStream
  <1>2. CASE GetSync
    BY <1>2 DEF GetSync, RpmReady, RpmBeginResume, RpmRefuse
  <1>3. CASE Resume
    BY <1>3 DEF Resume, SensorPowerOn, SensorInit, SupplyFails, InitFails, RegistersAfterFailedInit
  <1>4. CASE ResumeDone
    BY <1>4 DEF ResumeDone, RpmEndResume
  <1>5. CASE PutNoidle
    BY <1>5 DEF PutNoidle, RpmPutNoidle
  <1>6. CASE SwStandby
    BY <1>6 DEF SwStandby
  <1>7. CASE SetStreaming
    BY <1>7 DEF SetStreaming
  <1>8. CASE PutStream
    BY <1>8 DEF PutStream, RpmPut
  <1>9. CASE ServeIdle
    BY <1>9 DEF ServeIdle, RpmBeginSuspend, SuspendAllowed
  <1>10. CASE Suspend
    BY <1>10 DEF Suspend, SensorPowerOff
  <1>11. CASE SuspendDone
    BY <1>11 DEF SuspendDone, RpmEndSuspend
  <1>12. ASSUME NEW f \in Formats, SetFmt(f) PROVE PowerInv'
    BY <1>12 DEF SetFmt, FmtDeferred, FmtWritten, FmtFails
  <1>13. ASSUME NEW c \in Ctrls, NEW v \in Vals, SetCtrl(c, v) PROVE PowerInv'
    BY <1>13 DEF SetCtrl, CtrlDeferred, CtrlWritten, CtrlFails
  <1>14. CASE UNCHANGED vars
    BY <1>14 DEF vars
  <1> QED
    BY <1>1, <1>2, <1>3, <1>4, <1>5, <1>6, <1>7, <1>8, <1>9, <1>10, <1>11, <1>12, <1>13, <1>14
       DEF Next, ThreadStep, WorkerStep

\* The published runtime status and the supplies agree in every state, under
\* every fault and for callers of every kind: a device the core calls active has
\* its supplies on, one it calls suspended has them off.
THEOREM PowerTracksStatus == Spec => []PowerMatchesStatus
  <1>1. Init => PowerInv
    BY DEF Init, InitialCtrl, PowerInv, PowerMatchesStatus
  <1>2. PowerInv => PowerMatchesStatus
    BY DEF PowerInv
  <1> QED BY <1>1, <1>2, TypeCorrect, PowerStep, PTL DEF Spec

-----------------------------------------------------------------------------
\* Every step of an alternating caller, the worker and the other callers keeps
\* the reference counting protocol.
LEMMA RefStep == Disciplined /\ TypeOK /\ TypeOK' /\ PowerInv /\ RefInv /\ [Next]_vars => RefInv'
  <1> SUFFICES ASSUME Disciplined, TypeOK, TypeOK', PowerInv, RefInv, [Next]_vars PROVE RefInv'
    OBVIOUS
  <1> USE DEF TypeOK, RpmTypeOK, RpmStatus, StreamPc, WorkerPc, pmVars, stateVars, hwVars, powerVars, PowerInv, RefInv
  <1>1. ASSUME NEW e \in BOOLEAN, CallStream(e) PROVE RefInv'
    BY <1>1 DEF CallStream
  <1>2. CASE GetSync
    BY <1>2 DEF GetSync, RpmReady, RpmBeginResume, RpmRefuse
  <1>3. CASE Resume
    BY <1>3 DEF Resume, SensorPowerOn, SensorInit, SupplyFails, InitFails, RegistersAfterFailedInit, PowerLost
  <1>4. CASE ResumeDone
    BY <1>4 DEF ResumeDone, RpmEndResume
  <1>5. CASE PutNoidle
    BY <1>5 DEF PutNoidle, RpmPutNoidle
  <1>6. CASE SwStandby
    BY <1>6 DEF SwStandby
  <1>7. CASE SetStreaming
    BY <1>7 DEF SetStreaming
  <1>8. CASE PutStream
    BY <1>8 DEF PutStream, RpmPut
  <1>9. CASE ServeIdle
    BY <1>9 DEF ServeIdle, RpmBeginSuspend, SuspendAllowed
  <1>10. CASE Suspend
    BY <1>10 DEF Suspend, SensorPowerOff, PowerLost
  <1>11. CASE SuspendDone
    BY <1>11 DEF SuspendDone, RpmEndSuspend
  <1>12. ASSUME NEW f \in Formats, SetFmt(f) PROVE RefInv'
    BY <1>12 DEF SetFmt, FmtDeferred, FmtWritten, FmtFails
  <1>13. ASSUME NEW c \in Ctrls, NEW v \in Vals, SetCtrl(c, v) PROVE RefInv'
    BY <1>13 DEF SetCtrl, CtrlDeferred, CtrlWritten, CtrlFails
  <1>14. CASE UNCHANGED vars
    BY <1>14 DEF vars
  <1> QED
    BY <1>1, <1>2, <1>3, <1>4, <1>5, <1>6, <1>7, <1>8, <1>9, <1>10, <1>11, <1>12, <1>13, <1>14
       DEF Next, ThreadStep, WorkerStep

\* Under an alternating caller the protocol holds in every state.
LEMMA RefInvariant == ASSUME Disciplined PROVE Spec => [](TypeOK /\ PowerInv /\ RefInv)
  <1>1. Init => PowerInv /\ RefInv
    BY DEF Init, InitialCtrl, PowerInv, PowerMatchesStatus, RefInv
  <1>2. Disciplined
    OBVIOUS
  <1>3. TypeOK /\ TypeOK' /\ PowerInv /\ RefInv /\ [Next]_vars => RefInv'
    BY <1>2, RefStep
  <1> QED BY <1>1, <1>3, TypeCorrect, PowerStep, PTL DEF Spec

\* Under a caller that alternates start and stop, a sensor marked streaming has
\* a reference, an active device and its supplies, whatever transfer or supply
\* fails and however the PM worker and the other callers interleave.
THEOREM StreamSafety == ASSUME Disciplined PROVE Spec => []StreamHoldsPower
  <1>1. TypeOK /\ PowerInv /\ RefInv => StreamHoldsPower
    BY DEF PowerInv, PowerMatchesStatus, RefInv, StreamHoldsPower
  <1> QED BY <1>1, RefInvariant, PTL

\* Under the same caller the streaming flag and the chip's stream bit agree
\* whenever no s_stream call is in progress.
THEOREM FlagTruthful == ASSUME Disciplined PROVE Spec => []FlagMatchesSensor
  <1>1. TypeOK /\ PowerInv /\ RefInv => FlagMatchesSensor
    BY DEF RefInv, FlagMatchesSensor
  <1> QED BY <1>1, RefInvariant, PTL

\* Under the same caller the mode registers of a chip that is streaming change
\* only between the standby write and the assignment of the flag.
THEOREM ReconfigureOnlyInWindow == ASSUME Disciplined PROVE Spec => ReconfigureWindow
  <1> DEFINE Window == hwStream /\ hwStream' /\ hwFormat' # hwFormat => spc = "flag"
  <1>1. ASSUME TypeOK, PowerInv, RefInv, [Next]_vars PROVE [Window]_vars
    <2> SUFFICES ASSUME hwStream, hwStream', hwFormat' # hwFormat, spc # "flag" PROVE FALSE
      OBVIOUS
    <2>1. streaming
      BY <1>1 DEF RefInv
    <2>2. spc # "resume_cb"
      BY <1>1, <2>1 DEF RefInv
    <2>3. wpc # "suspend_cb"
      BY <1>1, <2>1 DEF RefInv, PowerInv
    <2> QED
      BY <1>1, <2>1, <2>2, <2>3
         DEF Next, ThreadStep, WorkerStep, CallStream, GetSync, Resume, ResumeDone, PutNoidle,
             SwStandby, SetStreaming, PutStream, ServeIdle, Suspend, SuspendDone, SetFmt, SetCtrl, CtrlDeferred, CtrlWritten, CtrlFails,
             vars, hwVars
  <1> QED BY <1>1, RefInvariant, PTL DEF Spec, ReconfigureWindow

-----------------------------------------------------------------------------
\* Every step keeps a powered sensor on the reported or a torn configuration.
LEMMA ConfigStep == TypeOK /\ TypeOK' /\ PowerInv /\ ConfigInv /\ [Next]_vars => ConfigInv'
  <1> SUFFICES ASSUME TypeOK, TypeOK', PowerInv, ConfigInv, [Next]_vars PROVE ConfigInv'
    OBVIOUS
  <1> USE DEF TypeOK, RpmTypeOK, RpmStatus, StreamPc, WorkerPc, pmVars, stateVars, hwVars, powerVars, PowerInv, PowerMatchesStatus, ConfigInv
  <1>1. ASSUME NEW e \in BOOLEAN, CallStream(e) PROVE ConfigInv'
    BY <1>1 DEF CallStream
  <1>2. CASE GetSync
    BY <1>2 DEF GetSync, RpmReady, RpmBeginResume, RpmRefuse
  <1>3. CASE Resume
    BY <1>3 DEF Resume, SensorPowerOn, SensorInit, SupplyFails, InitFails, RegistersAfterFailedInit
  <1>4. CASE ResumeDone
    BY <1>4 DEF ResumeDone, RpmEndResume
  <1>5. CASE PutNoidle
    BY <1>5 DEF PutNoidle, RpmPutNoidle
  <1>6. CASE SwStandby
    BY <1>6 DEF SwStandby
  <1>7. CASE SetStreaming
    BY <1>7 DEF SetStreaming
  <1>8. CASE PutStream
    BY <1>8 DEF PutStream, RpmPut
  <1>9. CASE ServeIdle
    BY <1>9 DEF ServeIdle, RpmBeginSuspend, SuspendAllowed
  <1>10. CASE Suspend
    BY <1>10 DEF Suspend, SensorPowerOff
  <1>11. CASE SuspendDone
    BY <1>11 DEF SuspendDone, RpmEndSuspend
  <1>12. ASSUME NEW f \in Formats, SetFmt(f) PROVE ConfigInv'
    BY <1>12 DEF SetFmt, FmtDeferred, FmtWritten, FmtFails, CutShort
  <1>13. ASSUME NEW c \in Ctrls, NEW v \in Vals, SetCtrl(c, v) PROVE ConfigInv'
    BY <1>13 DEF SetCtrl, CtrlDeferred, CtrlWritten, CtrlFails, CutShort
  <1>14. CASE UNCHANGED vars
    BY <1>14 DEF vars
  <1> QED
    BY <1>1, <1>2, <1>3, <1>4, <1>5, <1>6, <1>7, <1>8, <1>9, <1>10, <1>11, <1>12, <1>13, <1>14
       DEF Next, ThreadStep, WorkerStep

\* With lost transfers, failing supplies and any caller, an active sensor holds
\* in each register group the reported configuration or a half-written one,
\* never a complete configuration the driver does not report.
THEOREM ConfigurationSafety == Spec => []NoWrongConfiguration
  <1>1. Init => PowerInv /\ ConfigInv
    BY DEF Init, InitialCtrl, PowerInv, PowerMatchesStatus, ConfigInv
  <1>2. PowerInv /\ ConfigInv => NoWrongConfiguration
    BY DEF PowerInv, PowerMatchesStatus, ConfigInv, NoWrongConfiguration
  <1> QED BY <1>1, <1>2, TypeCorrect, PowerStep, ConfigStep, PTL DEF Spec

\* Without lost transfers every step keeps it on the reported one.
LEMMA CleanStep == "i2c" \notin Faults /\ TypeOK /\ TypeOK' /\ PowerInv /\ CleanInv /\ [Next]_vars => CleanInv'
  <1> SUFFICES ASSUME "i2c" \notin Faults, TypeOK, TypeOK', PowerInv, CleanInv, [Next]_vars PROVE CleanInv'
    OBVIOUS
  <1> USE DEF TypeOK, RpmTypeOK, RpmStatus, StreamPc, WorkerPc, pmVars, stateVars, hwVars, powerVars, PowerInv, PowerMatchesStatus, CleanInv
  <1>1. ASSUME NEW e \in BOOLEAN, CallStream(e) PROVE CleanInv'
    BY <1>1 DEF CallStream
  <1>2. CASE GetSync
    BY <1>2 DEF GetSync, RpmReady, RpmBeginResume, RpmRefuse
  <1>3. CASE Resume
    BY <1>3 DEF Resume, SensorPowerOn, SensorInit, SupplyFails, InitFails, RegistersAfterFailedInit
  <1>4. CASE ResumeDone
    BY <1>4 DEF ResumeDone, RpmEndResume
  <1>5. CASE PutNoidle
    BY <1>5 DEF PutNoidle, RpmPutNoidle
  <1>6. CASE SwStandby
    BY <1>6 DEF SwStandby
  <1>7. CASE SetStreaming
    BY <1>7 DEF SetStreaming
  <1>8. CASE PutStream
    BY <1>8 DEF PutStream, RpmPut
  <1>9. CASE ServeIdle
    BY <1>9 DEF ServeIdle, RpmBeginSuspend, SuspendAllowed
  <1>10. CASE Suspend
    BY <1>10 DEF Suspend, SensorPowerOff
  <1>11. CASE SuspendDone
    BY <1>11 DEF SuspendDone, RpmEndSuspend
  <1>12. ASSUME NEW f \in Formats, SetFmt(f) PROVE CleanInv'
    BY <1>12 DEF SetFmt, FmtDeferred, FmtWritten, FmtFails, IoResults
  <1>13. ASSUME NEW c \in Ctrls, NEW v \in Vals, SetCtrl(c, v) PROVE CleanInv'
    BY <1>13 DEF SetCtrl, CtrlDeferred, CtrlWritten, CtrlFails, IoResults
  <1>14. CASE UNCHANGED vars
    BY <1>14 DEF vars
  <1> QED
    BY <1>1, <1>2, <1>3, <1>4, <1>5, <1>6, <1>7, <1>8, <1>9, <1>10, <1>11, <1>12, <1>13, <1>14
       DEF Next, ThreadStep, WorkerStep

\* Without lost transfers a powered sensor holds the committed configuration in
\* every state.
LEMMA CleanInvariant == ASSUME "i2c" \notin Faults PROVE Spec => [](PowerInv /\ CleanInv)
  <1>1. Init => PowerInv /\ CleanInv
    BY DEF Init, InitialCtrl, PowerInv, PowerMatchesStatus, CleanInv
  <1>2. TypeOK /\ TypeOK' /\ PowerInv /\ CleanInv /\ [Next]_vars => CleanInv'
    BY CleanStep
  <1> QED BY <1>1, <1>2, TypeCorrect, PowerStep, PTL DEF Spec

\* Without lost transfers an active sensor runs exactly the committed controls,
\* set while it was off or while it was on.
THEOREM ControlsReachSensor == ASSUME "i2c" \notin Faults PROVE Spec => []ControlsApplied
  <1>1. PowerInv /\ CleanInv => ControlsApplied
    BY DEF PowerInv, PowerMatchesStatus, CleanInv, ControlsApplied
  <1> QED BY <1>1, CleanInvariant, PTL

\* Without lost transfers an active sensor runs exactly the format ov5648_get_fmt
\* reports, set while it was off or while it was on.
THEOREM FormatReachesSensor == ASSUME "i2c" \notin Faults PROVE Spec => []FormatApplied
  <1>1. PowerInv /\ CleanInv => FormatApplied
    BY DEF PowerInv, PowerMatchesStatus, CleanInv, FormatApplied
  <1> QED BY <1>1, CleanInvariant, PTL

-----------------------------------------------------------------------------
\* Disabling after n references of ours leaves n - 1 of them.
LEMMA ClkBalance ==
    ASSUME clk \in Nat
    PROVE  /\ ClkAfterDisable(1) = clk
           /\ clk >= 1 => ClkAfterDisable(0) = clk - 1
  BY DEF ClkAfterDisable

\* Without supply failures every step keeps the clock references balanced.
LEMMA ClockStep == "rail" \notin Faults /\ TypeOK /\ TypeOK' /\ PowerInv /\ ClockNotStolen /\ [Next]_vars => ClockNotStolen'
  <1> SUFFICES ASSUME "rail" \notin Faults, TypeOK, TypeOK', PowerInv, ClockNotStolen, [Next]_vars PROVE ClockNotStolen'
    OBVIOUS
  <1> USE DEF TypeOK, RpmTypeOK, RpmStatus, StreamPc, WorkerPc, pmVars, stateVars, hwVars, powerVars, PowerInv, PowerMatchesStatus, ClockNotStolen
  <1>1. ASSUME NEW e \in BOOLEAN, CallStream(e) PROVE ClockNotStolen'
    BY <1>1, BoundAssumption DEF CallStream
  <1>2. CASE GetSync
    BY <1>2, BoundAssumption DEF GetSync, RpmReady, RpmBeginResume, RpmRefuse
  <1>3. CASE Resume
    <2>1. ~powered
      BY <1>3 DEF Resume
    <2>2. CASE SensorPowerOn
      <3>1. powered' /\ clk' = clk + 1
        BY <2>2 DEF SensorPowerOn, SensorInit
      <3> QED BY <2>1, <3>1, BoundAssumption
    <2>3. CASE InitFails
      BY <2>1, <2>3, ClkBalance DEF InitFails
    <2> QED BY <1>3, <2>2, <2>3 DEF Resume, SupplyFails
  <1>4. CASE ResumeDone
    BY <1>4, BoundAssumption DEF ResumeDone, RpmEndResume
  <1>5. CASE PutNoidle
    BY <1>5, BoundAssumption DEF PutNoidle, RpmPutNoidle
  <1>6. CASE SwStandby
    BY <1>6, BoundAssumption DEF SwStandby
  <1>7. CASE SetStreaming
    BY <1>7, BoundAssumption DEF SetStreaming
  <1>8. CASE PutStream
    BY <1>8, BoundAssumption DEF PutStream, RpmPut
  <1>9. CASE ServeIdle
    BY <1>9, BoundAssumption DEF ServeIdle, RpmBeginSuspend, SuspendAllowed
  <1>10. CASE Suspend
    <2>1. powered /\ clk = OtherClkUsers + 1
      BY <1>10 DEF Suspend
    <2>2. ClkAfterDisable(0) = OtherClkUsers
      BY <2>1, ClkBalance, BoundAssumption
    <2>3. CASE wpc' = "suspend_ok"
      <3>1. ~powered' /\ clk' = OtherClkUsers
        BY <1>10, <2>2, <2>3 DEF Suspend, SensorPowerOff
      <3> QED BY <3>1, BoundAssumption
    <2>4. CASE wpc' = "suspend_err"
      BY <1>10, <2>4 DEF Suspend
    <2> QED BY <1>10, <2>3, <2>4 DEF Suspend
  <1>11. CASE SuspendDone
    BY <1>11, BoundAssumption DEF SuspendDone, RpmEndSuspend
  <1>12. ASSUME NEW f \in Formats, SetFmt(f) PROVE ClockNotStolen'
    BY <1>12, BoundAssumption DEF SetFmt, FmtDeferred, FmtWritten, FmtFails
  <1>13. ASSUME NEW c \in Ctrls, NEW v \in Vals, SetCtrl(c, v) PROVE ClockNotStolen'
    BY <1>13, BoundAssumption DEF SetCtrl, CtrlDeferred, CtrlWritten, CtrlFails
  <1>14. CASE UNCHANGED vars
    BY <1>14 DEF vars
  <1> QED
    BY <1>1, <1>2, <1>3, <1>4, <1>5, <1>6, <1>7, <1>8, <1>9, <1>10, <1>11, <1>12, <1>13, <1>14
       DEF Next, ThreadStep, WorkerStep

\* As long as no regulator or clock fails to enable, the driver returns exactly
\* the clock references it took: the shared clock's other user keeps its own.
THEOREM ClockBalanced == ASSUME "rail" \notin Faults PROVE Spec => []ClockNotStolen
  <1>1. Init => PowerInv /\ ClockNotStolen
    BY BoundAssumption DEF Init, InitialCtrl, PowerInv, PowerMatchesStatus, ClockNotStolen
  <1>2. TypeOK /\ TypeOK' /\ PowerInv /\ ClockNotStolen /\ [Next]_vars => ClockNotStolen'
    BY ClockStep
  <1> QED BY <1>1, <1>2, TypeCorrect, PowerStep, PTL DEF Spec
=============================================================================
