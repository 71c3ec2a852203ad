------------------------ MODULE CapturePipelineProofs ------------------------
(***************************************************************************)
(* Proofs about the whole pipeline, for every set of formats, requests and *)
(* controls, with any failure of a supply of the sensor or the receiver.   *)
(* The sensor's steps in the pipeline are steps of Ov5648, so what         *)
(* Ov5648Proofs shows of the sensor holds of it here; the walk through the *)
(* media graph is what makes the caller of s_stream the alternating one    *)
(* that module has to assume.                                              *)
(***************************************************************************)
EXTENDS CapturePipeline, Ov5648Proofs, WellFoundedInduction

\* No I2C transfer is lost, and supplies that may fail really switch the sensor.
Switched == "i2c" \notin Faults /\ ("rail" \in Faults => ~ExternalPower)

\* The sensor does not answer.
Silent == ~powered /\ ~ExternalPower

NodePc == {"idle", "on_config", "on_get", "on_sensor", "on_sensor_wait", "on_csi",
           "on_csi_wait", "off_sensor", "off_sensor_wait", "off_csi", "off_channel"}
ReceiverPc == {"idle", "get_sync", "resume", "start"}

\* The Boolean variables of receiver and node, and the others.
PipelineFlags ==
    /\ csiError \in BOOLEAN /\ csiRequest \in BOOLEAN
    /\ phy \in BOOLEAN /\ running \in BOOLEAN
    /\ opened \in BOOLEAN /\ streamOk \in BOOLEAN /\ surplus \in BOOLEAN

PipelineValues ==
    /\ csiUsage \in Int
    /\ csiStatus \in RpmStatus
    /\ cpc \in ReceiverPc
    /\ clks \in Int
    /\ ipc \in NodePc
    /\ dst \in Requests

\* Which of the three threads of control is where: the video node waits exactly
\* while the sensor or the receiver is inside s_stream.
WalkInv ==
    /\ spc # "idle" <=> ipc \in {"on_sensor_wait", "off_sensor_wait"}
    /\ cpc # "idle" <=> ipc = "on_csi_wait"
    /\ ipc = "on_sensor_wait" => enable /\ spc # "put"
    /\ ipc = "off_sensor_wait" => ~enable /\ spc \in {"standby", "flag", "put"}
    /\ ipc # "idle" => opened

\* The phases in which the sensor owes a reference.
SensorHeld == streaming \/ ipc = "on_sensor_wait" \/ spc = "put"

\* The sensor under the walk, until a STREAMOFF too many: one reference while it
\* is held, and a sensor that an application has open but nobody has started is
\* silent, so that the STREAMOFF that comes anyway fails at its first register and
\* gives nothing back; or it was refused the stream because of a race.
SensorInv == ~surplus =>
    /\ SensorHeld => usage = 1
    /\ ~SensorHeld => usage = 0
    /\ ipc \in {"on_get", "on_sensor", "on_sensor_wait", "off_csi", "off_channel"} => ~streaming
    /\ ipc \in {"on_csi", "on_csi_wait"} => streaming
    /\ streaming => status = "active"
    /\ ipc = "on_sensor_wait" /\ spc \in {"standby", "flag"} => status = "active"
    /\ ipc = "off_sensor_wait" /\ spc = "flag" => streaming
    /\ spc = "put" => ~streaming
    /\ pmError => status = "suspended" /\ ~ExternalPower
    /\ spc = "resume_err" => ~ExternalPower
    /\ wpc # "suspend_err"
    /\ spc = "put_noidle" => Silent
    /\ opened /\ ~streaming /\ ipc \in {"idle", "off_sensor"} => Silent \/ raced = "get"
    /\ opened /\ ~streaming /\ ipc = "off_sensor_wait" /\ spc = "standby"
          => Silent \/ raced = "get"

\* Between set_fmt and get_fmt the sensor has the format that was set, or another
\* program has come in between.
ReadBack == ipc = "on_get" => raced = "get" \/ (raced = "no" /\ format = Settled(dst))

\* The receiver under the walk, until a STREAMOFF too many: it is started last and
\* stopped right after the sensor, and holds one reference from start to stop.
ReceiverInv == ~surplus =>
    /\ ipc \in {"idle", "on_config", "off_sensor", "off_sensor_wait"}
          => (running <=> streaming \/ spc = "put")
    /\ ipc = "off_csi" => running
    /\ ipc \in {"on_get", "on_sensor", "on_sensor_wait", "on_csi", "on_csi_wait", "off_channel"}
          => ~running
    /\ running \/ ipc = "on_csi_wait" => csiUsage = 1
    /\ ~running /\ ipc # "on_csi_wait" => csiUsage = 0

\* Supplies of the receiver.
SupplyInv ==
    /\ csiStatus = "resuming" <=> cpc = "resume"
    /\ csiError => csiStatus \in {"suspended", "active"}
    /\ csiStatus \in {"active", "suspending"} => phy /\ clks >= 2
    /\ clks >= 1
    /\ (running \/ cpc = "start") /\ ~csiError /\ ~surplus => csiStatus = "active"

\* A STREAMON that has read the format back, up to the stream it leads to.
Settling == ipc \in {"on_sensor", "on_sensor_wait", "on_csi", "on_csi_wait"}
Served == opened /\ ipc = "idle" /\ streamOk

\* What STREAMON has set, read, configured and programmed, while it goes on and
\* after it, if nobody came in between.
FormatInv == ~surplus =>
    /\ ipc \in {"on_config", "on_get"} \/ Settling => ~streamOk
    /\ ipc = "on_get" \/ Settling \/ Served => csisFmt = Settled(dst).code
    /\ Served => streaming
    /\ Settling /\ raced = "no" => format = Settled(dst)
    /\ (Settling \/ Served) /\ raced = "no" =>
          /\ src = SourceFrame(Settled(dst))
          /\ dst.size <= src.size
          /\ seenFmt = Settled(dst)
    /\ Served /\ raced = "no" =>
          /\ format = Settled(dst)
          /\ isp = Settled(dst)
          /\ Settled(dst).code \in types

PipelineInv == WalkInv /\ SensorInv /\ ReadBack /\ ReceiverInv /\ SupplyInv

-----------------------------------------------------------------------------
\* A set of natural numbers that is not empty has a least element.
LEMMA LeastNat == ASSUME NEW D \in SUBSET Nat, D # {} PROVE \E d \in D : \A e \in D : d <= e
  <1> DEFINE Less == {ss \in Nat \X Nat : ss[1] < ss[2]}
  <1>1. IsWellFoundedOn(Less, Nat)
    BY NatLessThanWellFounded DEF OpToRel
  <1>2. PICK d \in D : \A e \in D : ~(<<e, d>> \in Less)
    <2> HIDE DEF Less
    <2> QED BY <1>1, WFMin
  <1>3. ASSUME NEW e \in D PROVE d <= e
    <2>1. e \in Nat /\ d \in Nat
      OBVIOUS
    <2>2. e < d => <<e, d>> \in Less
      BY <2>1
    <2>3. ~(e < d)
      <3> HIDE DEF Less
      <3> QED BY <1>2, <2>2
    <2> QED BY <2>1, <2>3
  <1> QED BY <1>3

\* v4l2_find_nearest_size finds a size of the table: there is a least distance,
\* and of the two sizes at that distance the larger is first.
LEMMA NearestInTable == ASSUME NEW n \in Nat PROVE NearestSize(n) \in Sizes
  <1>1. Sizes # {} /\ Sizes \subseteq Nat
    BY FormatsAssumption, RequestsAssumption DEF Sizes
  <1> DEFINE D == {Distance(n, t) : t \in Sizes}
  <1>2. D # {} /\ D \subseteq Nat
    <2>1. \A t \in Sizes : Distance(n, t) \in Nat
      BY <1>1 DEF Distance
    <2> QED BY <1>1, <2>1
  <1>3. PICK s \in Sizes : \A t \in Sizes : Distance(n, s) <= Distance(n, t)
    <2> HIDE DEF D
    <2>1. PICK d \in D : \A e \in D : d <= e
      BY <1>2, LeastNat
    <2> QED BY <2>1 DEF D
  <1> DEFINE First(s1) == \A t \in Sizes :
               Distance(n, s1) < Distance(n, t) \/ (Distance(n, s1) = Distance(n, t) /\ s1 >= t)
  <1>4. \E s1 \in Sizes : First(s1)
    <2>1. CASE \A t \in Sizes : Distance(n, s) = Distance(n, t) => s >= t
      <3>1. First(s)
        BY <1>1, <1>3, <2>1 DEF Distance
      <3> QED BY <3>1
    <2>2. CASE ~(\A t \in Sizes : Distance(n, s) = Distance(n, t) => s >= t)
      <3>1. PICK u \in Sizes : Distance(n, s) = Distance(n, u) /\ ~(s >= u)
        BY <2>2
      <3>2. First(u)
        BY <1>1, <1>3, <3>1 DEF Distance
      <3> QED BY <3>2
    <2> QED BY <2>1, <2>2
  <1> QED BY <1>4 DEF NearestSize

\* The format the sensor settles for is one it has.
LEMMA SettledIsFormat == ASSUME NEW r \in Requests PROVE Settled(r) \in Formats
  <1>1. NearestSize(r.size) \in Sizes
    BY NearestInTable, RequestsAssumption
  <1>2. DefaultFormat.code \in SensorCodes
    BY FormatsAssumption, RequestsAssumption
  <1> QED BY <1>1, <1>2, RequestsAssumption DEF Settled

\* Whatever the node does, the request it works on is one an application made.
LEMMA RequestStep == dst \in Requests /\ [PipelineNext]_pipelineVars => (dst \in Requests)'
  BY DEF PipelineNext, NodeStep, AppOpen, AppRelease, AppDies, ConfigRefused, ConfigSet, ConfigGet,
         CallSensor, SensorStep, CallReceiver, ReceiverStep, StopReceiver, OffChannel, SubdevSetFmt, SubdevSetCtrl,
         SensorWorker, ReceiverWorker, pipelineVars, nodeVars

\* A request is never rounded down: a STREAMON that is refused as upscaling has
\* not read the format back that it set.
LEMMA RefusedIfRaced ==
    ASSUME dst \in Requests, ReadBack, ConfigGet, dst.size > src'.size
    PROVE  raced = "get"
  <1>1. CASE format = Settled(dst)
    <2>1. src'.size = NearestSize(dst.size)
      BY <1>1 DEF ConfigGet, SourceFrame, Settled
    <2>2. NearestSize(dst.size) \in Nat /\ dst.size \in Nat /\ dst.size <= NearestSize(dst.size)
      BY NearestInTable, RequestsAssumption DEF Sizes
    <2> QED BY <2>1, <2>2
  <1> QED BY <1>1 DEF ConfigGet, ReadBack

\* What a step of the pipeline does to the sensor is a step of the sensor.
LEMMA SensorPart == dst \in Requests /\ [PipelineNext]_pipelineVars => [Next]_vars
  <1> SUFFICES ASSUME dst \in Requests, [PipelineNext]_pipelineVars PROVE [Next]_vars
    OBVIOUS
  <1>1. CASE ConfigRefused \/ ConfigSet \/ ConfigGet
    BY <1>1, SettledIsFormat DEF ConfigRefused, ConfigSet, ConfigGet, SensorAccepts, Next
  <1>2. CASE CallSensor
    BY <1>2 DEF CallSensor, Next
  <1>3. CASE SensorStep
    BY <1>3 DEF SensorStep, Next
  <1>4. CASE SensorWorker
    BY <1>4 DEF SensorWorker, Next
  <1>5. ASSUME NEW f \in Formats, SubdevSetFmt(f) PROVE [Next]_vars
    BY <1>5 DEF SubdevSetFmt, Next
  <1>6. ASSUME NEW c \in Ctrls, NEW v \in Vals, SubdevSetCtrl(c, v) PROVE [Next]_vars
    BY <1>6 DEF SubdevSetCtrl, Next
  <1>7. ASSUME \/ \E r \in Requests : AppOpen(r)
               \/ AppRelease \/ AppDies \/ CallReceiver \/ ReceiverStep
               \/ StopReceiver \/ OffChannel \/ ReceiverWorker
        PROVE  UNCHANGED vars
    BY <1>7
       DEF AppOpen, AppRelease, AppDies, CallReceiver, ReceiverStep, StopReceiver, OffChannel,
           ReceiverWorker
  <1>8. CASE UNCHANGED pipelineVars
    BY <1>8 DEF pipelineVars
  <1> QED
    BY <1>1, <1>2, <1>3, <1>4, <1>5, <1>6, <1>7, <1>8 DEF PipelineNext, NodeStep

\* The sensor inside the pipeline behaves as the driver of Ov5648 does with any
\* caller: every result about Spec holds of the pipeline.
THEOREM SensorInPipeline == PipelineSpec => Spec /\ [](dst \in Requests)
  <1>1. PipelineInit => Init /\ dst \in Requests
    BY DEF PipelineInit
  <1> QED BY <1>1, RequestStep, SensorPart, PTL DEF PipelineSpec, Spec

\* Every step keeps the flags of receiver and node Boolean.
LEMMA PipelineFlagsStep ==
    ASSUME dst \in Requests, PipelineFlags, [PipelineNext]_pipelineVars
    PROVE  PipelineFlags'
  <1> USE DEF PipelineFlags, pmVars, stateVars, hwVars, powerVars, csiVars, nodeVars, historyVars,
      Csi!pmVars,
      Csi!receiverVars
  <1>1. ASSUME NEW r \in Requests, AppOpen(r) PROVE PipelineFlags'
    BY <1>1, Zenon DEF AppOpen
  <1>2. ASSUME AppRelease PROVE PipelineFlags'
    BY <1>2, Zenon DEF AppRelease
  <1>3. ASSUME AppDies PROVE PipelineFlags'
    BY <1>3, Zenon DEF AppDies
  <1>4. ASSUME ConfigRefused PROVE PipelineFlags'
    BY <1>4, Zenon DEF ConfigRefused, SetFmt, FmtDeferred, FmtWritten, FmtFails
  <1>5. ASSUME ConfigSet PROVE PipelineFlags'
    BY <1>5, Zenon
       DEF ConfigSet, SensorAccepts, SetFmt, FmtDeferred, FmtWritten, FmtFails, Csi!TakeFormat
  <1>6. ASSUME ConfigGet PROVE PipelineFlags'
    BY <1>6, Zenon DEF ConfigGet, Csi!SeeFormat
  <1>7. ASSUME CallSensor PROVE PipelineFlags'
    BY <1>7, Zenon DEF CallSensor, CallStream
  <1>8. ASSUME SensorStep, GetSync PROVE PipelineFlags'
    BY <1>8, Zenon DEF SensorStep, AfterSensor, GetSync, RpmReady, RpmBeginResume, RpmRefuse
  <1>9. ASSUME SensorStep, Resume PROVE PipelineFlags'
    BY <1>9, Zenon
       DEF SensorStep, AfterSensor, Resume, SensorPowerOn, SensorInit, SupplyFails, InitFails
  <1>10. ASSUME SensorStep, ResumeDone PROVE PipelineFlags'
    BY <1>10, Zenon DEF SensorStep, AfterSensor, ResumeDone, RpmEndResume
  <1>11. ASSUME SensorStep, PutNoidle PROVE PipelineFlags'
    BY <1>11, Zenon DEF SensorStep, AfterSensor, PutNoidle, RpmPutNoidle
  <1>12. ASSUME SensorStep, SwStandby PROVE PipelineFlags'
    BY <1>12, Zenon DEF SensorStep, AfterSensor, SwStandby
  <1>13. ASSUME SensorStep, SetStreaming PROVE PipelineFlags'
    BY <1>13, Zenon DEF SensorStep, AfterSensor, SetStreaming
  <1>14. ASSUME SensorStep, PutStream PROVE PipelineFlags'
    BY <1>14, Zenon DEF SensorStep, AfterSensor, PutStream, RpmPut
  <1>15. ASSUME CallReceiver PROVE PipelineFlags'
    BY <1>15, Zenon DEF CallReceiver, Csi!CallStart
  <1>16. ASSUME ReceiverStep, Csi!GetSync PROVE PipelineFlags'
    BY <1>16, Zenon DEF ReceiverStep, Csi!GetSync, Csi!RpmReady, Csi!RpmRefuse, Csi!RpmBeginResume
  <1>17. ASSUME ReceiverStep, Csi!Resume PROVE PipelineFlags'
    BY <1>17, Zenon DEF ReceiverStep, Csi!Resume, Csi!ResumeFails, Csi!RpmEndResume
  <1>18. ASSUME ReceiverStep, Csi!StartStream PROVE PipelineFlags'
    BY <1>18, Zenon DEF ReceiverStep, Csi!StartStream
  <1>19. ASSUME StopReceiver PROVE PipelineFlags'
    BY <1>19, Zenon DEF StopReceiver, Csi!StopStream, Csi!RpmPut
  <1>20. ASSUME OffChannel PROVE PipelineFlags'
    BY <1>20, Zenon DEF OffChannel
  <1>21. ASSUME NEW f \in Formats, SubdevSetFmt(f) PROVE PipelineFlags'
    BY <1>21, Zenon DEF SubdevSetFmt, SetFmt, FmtDeferred, FmtWritten, FmtFails
  <1>22. ASSUME NEW c \in Ctrls, NEW v \in Vals, SubdevSetCtrl(c, v) PROVE PipelineFlags'
    BY <1>22, Zenon DEF SubdevSetCtrl, SetCtrl, CtrlDeferred, CtrlWritten, CtrlFails
  <1>23. ASSUME SensorWorker, ServeIdle PROVE PipelineFlags'
    BY <1>23, Zenon DEF SensorWorker, ServeIdle, RpmBeginSuspend, SuspendAllowed
  <1>24. ASSUME SensorWorker, Suspend PROVE PipelineFlags'
    BY <1>24, Zenon DEF SensorWorker, Suspend, SensorPowerOff
  <1>25. ASSUME SensorWorker, SuspendDone PROVE PipelineFlags'
    BY <1>25, Zenon DEF SensorWorker, SuspendDone, RpmEndSuspend
  <1>26. ASSUME ReceiverWorker, Csi!ServeIdle PROVE PipelineFlags'
    BY <1>26, Zenon DEF ReceiverWorker, Csi!ServeIdle, Csi!RpmBeginSuspend, Csi!SuspendAllowed
  <1>27. ASSUME ReceiverWorker, Csi!Suspend PROVE PipelineFlags'
    BY <1>27, Zenon DEF ReceiverWorker, Csi!Suspend, Csi!RpmEndSuspend
  <1>28. CASE UNCHANGED pipelineVars
    BY <1>28, Zenon DEF pipelineVars, vars
  <1> QED
    BY <1>1, <1>2, <1>3, <1>4, <1>5, <1>6, <1>7, <1>8, <1>9, <1>10, <1>11, <1>12, <1>13,
       <1>14, <1>15, <1>16, <1>17, <1>18, <1>19, <1>20, <1>21, <1>22, <1>23, <1>24,
       <1>25, <1>26, <1>27, <1>28
       DEF PipelineNext, NodeStep, SensorStep, ReceiverStep, SensorWorker, ReceiverWorker, ThreadStep,
           WorkerStep, Csi!CallStep, Csi!WorkerStep

\* Every step keeps counts and program counters well typed.
LEMMA PipelineValuesStep ==
    ASSUME PipelineFlags, PipelineValues, WalkInv, [PipelineNext]_pipelineVars
    PROVE  PipelineValues'
  <1> USE DEF PipelineValues, WalkInv, RpmStatus, ReceiverPc, NodePc, pmVars, stateVars, hwVars,
      powerVars, csiVars, nodeVars, historyVars, Csi!pmVars, Csi!receiverVars
  <1>1. ASSUME NEW r \in Requests, AppOpen(r) PROVE PipelineValues'
    BY <1>1 DEF AppOpen
  <1>2. ASSUME AppRelease PROVE PipelineValues'
    BY <1>2 DEF AppRelease
  <1>3. ASSUME AppDies PROVE PipelineValues'
    BY <1>3 DEF AppDies
  <1>4. ASSUME ConfigRefused PROVE PipelineValues'
    BY <1>4 DEF ConfigRefused, SetFmt, FmtDeferred, FmtWritten, FmtFails
  <1>5. ASSUME ConfigSet PROVE PipelineValues'
    BY <1>5
       DEF ConfigSet, SensorAccepts, SetFmt, FmtDeferred, FmtWritten, FmtFails, Csi!TakeFormat
  <1>6. ASSUME ConfigGet PROVE PipelineValues'
    BY <1>6 DEF ConfigGet, Csi!SeeFormat
  <1>7. ASSUME CallSensor PROVE PipelineValues'
    BY <1>7 DEF CallSensor, CallStream
  <1>8. ASSUME SensorStep, GetSync PROVE PipelineValues'
    BY <1>8 DEF SensorStep, AfterSensor, GetSync, RpmReady, RpmBeginResume, RpmRefuse
  <1>9. ASSUME SensorStep, Resume PROVE PipelineValues'
    BY <1>9 DEF SensorStep, AfterSensor, Resume, SensorPowerOn, SensorInit, SupplyFails, InitFails
  <1>10. ASSUME SensorStep, ResumeDone PROVE PipelineValues'
    BY <1>10 DEF SensorStep, AfterSensor, ResumeDone, RpmEndResume
  <1>11. ASSUME SensorStep, PutNoidle PROVE PipelineValues'
    BY <1>11 DEF SensorStep, AfterSensor, PutNoidle, RpmPutNoidle
  <1>12. ASSUME SensorStep, SwStandby PROVE PipelineValues'
    BY <1>12 DEF SensorStep, AfterSensor, SwStandby
  <1>13. ASSUME SensorStep, SetStreaming PROVE PipelineValues'
    BY <1>13 DEF SensorStep, AfterSensor, SetStreaming
  <1>14. ASSUME SensorStep, PutStream PROVE PipelineValues'
    BY <1>14 DEF SensorStep, AfterSensor, PutStream, RpmPut
  <1>15. ASSUME CallReceiver PROVE PipelineValues'
    BY <1>15 DEF CallReceiver, Csi!CallStart
  <1>16. ASSUME ReceiverStep, Csi!GetSync PROVE PipelineValues'
    BY <1>16 DEF ReceiverStep, Csi!GetSync, Csi!RpmReady, Csi!RpmRefuse, Csi!RpmBeginResume
  <1>17. ASSUME ReceiverStep, Csi!Resume PROVE PipelineValues'
    BY <1>17 DEF ReceiverStep, Csi!Resume, Csi!ResumeFails, Csi!RpmEndResume
  <1>18. ASSUME ReceiverStep, Csi!StartStream PROVE PipelineValues'
    BY <1>18 DEF ReceiverStep, Csi!StartStream
  <1>19. ASSUME StopReceiver PROVE PipelineValues'
    BY <1>19 DEF StopReceiver, Csi!StopStream, Csi!RpmPut
  <1>20. ASSUME OffChannel PROVE PipelineValues'
    BY <1>20 DEF OffChannel
  <1>21. ASSUME NEW f \in Formats, SubdevSetFmt(f) PROVE PipelineValues'
    BY <1>21 DEF SubdevSetFmt, SetFmt, FmtDeferred, FmtWritten, FmtFails
  <1>22. ASSUME NEW c \in Ctrls, NEW v \in Vals, SubdevSetCtrl(c, v) PROVE PipelineValues'
    BY <1>22 DEF SubdevSetCtrl, SetCtrl, CtrlDeferred, CtrlWritten, CtrlFails
  <1>23. ASSUME SensorWorker, ServeIdle PROVE PipelineValues'
    BY <1>23 DEF SensorWorker, ServeIdle, RpmBeginSuspend, SuspendAllowed
  <1>24. ASSUME SensorWorker, Suspend PROVE PipelineValues'
    BY <1>24 DEF SensorWorker, Suspend, SensorPowerOff
  <1>25. ASSUME SensorWorker, SuspendDone PROVE PipelineValues'
    BY <1>25 DEF SensorWorker, SuspendDone, RpmEndSuspend
  <1>26. ASSUME ReceiverWorker, Csi!ServeIdle PROVE PipelineValues'
    BY <1>26 DEF ReceiverWorker, Csi!ServeIdle, Csi!RpmBeginSuspend, Csi!SuspendAllowed
  <1>27. ASSUME ReceiverWorker, Csi!Suspend PROVE PipelineValues'
    <2>1. csiStatus = "suspending" /\ UNCHANGED <<vars, cpc, running, csiUsage, ipc, dst, surplus>>
      BY <1>27 DEF ReceiverWorker, Csi!Suspend, Csi!RpmEndSuspend
    <2>2. \/ csiStatus' = "suspended" /\ clks' = clks - 1
          \/ csiStatus' = "active" /\ UNCHANGED <<phy, clks>>
      BY <1>27 DEF Csi!Suspend, Csi!RpmEndSuspend
    <2> QED BY <2>1, <2>2
  <1>28. CASE UNCHANGED pipelineVars
    BY <1>28 DEF pipelineVars, vars
  <1> QED
    BY <1>1, <1>2, <1>3, <1>4, <1>5, <1>6, <1>7, <1>8, <1>9, <1>10, <1>11, <1>12, <1>13,
       <1>14, <1>15, <1>16, <1>17, <1>18, <1>19, <1>20, <1>21, <1>22, <1>23, <1>24,
       <1>25, <1>26, <1>27, <1>28
       DEF PipelineNext, NodeStep, SensorStep, ReceiverStep, SensorWorker, ReceiverWorker, ThreadStep,
           WorkerStep, Csi!CallStep, Csi!WorkerStep

\* Every step keeps the threads of control together.
LEMMA WalkStep ==
    ASSUME TypeOK, PipelineFlags, PipelineValues, WalkInv, [PipelineNext]_pipelineVars
    PROVE  WalkInv'
  <1> USE DEF vars, TypeOK, RpmTypeOK, RpmStatus, StreamPc, WorkerPc, ReceiverPc, NodePc,
      PipelineFlags, PipelineValues, WalkInv, pmVars, stateVars, hwVars, powerVars, csiVars,
      nodeVars, historyVars, Csi!pmVars, Csi!receiverVars
  <1>1. ASSUME NEW r \in Requests, AppOpen(r) PROVE WalkInv'
    BY <1>1 DEF AppOpen
  <1>2. ASSUME AppRelease PROVE WalkInv'
    BY <1>2 DEF AppRelease
  <1>3. ASSUME AppDies PROVE WalkInv'
    BY <1>3 DEF AppDies
  <1>4. ASSUME ConfigRefused PROVE WalkInv'
    BY <1>4 DEF ConfigRefused, SetFmt, FmtDeferred, FmtWritten, FmtFails
  <1>5. ASSUME ConfigSet PROVE WalkInv'
    BY <1>5
       DEF ConfigSet, SensorAccepts, SetFmt, FmtDeferred, FmtWritten, FmtFails, Csi!TakeFormat
  <1>6. ASSUME ConfigGet PROVE WalkInv'
    BY <1>6 DEF ConfigGet, Csi!SeeFormat
  <1>7. ASSUME CallSensor PROVE WalkInv'
    BY <1>7 DEF CallSensor, CallStream
  <1>8. ASSUME SensorStep, GetSync PROVE WalkInv'
    BY <1>8 DEF SensorStep, AfterSensor, GetSync, RpmReady, RpmBeginResume, RpmRefuse
  <1>9. ASSUME SensorStep, Resume PROVE WalkInv'
    BY <1>9 DEF SensorStep, AfterSensor, Resume, SensorPowerOn, SensorInit, SupplyFails, InitFails
  <1>10. ASSUME SensorStep, ResumeDone PROVE WalkInv'
    BY <1>10 DEF SensorStep, AfterSensor, ResumeDone, RpmEndResume
  <1>11. ASSUME SensorStep, PutNoidle PROVE WalkInv'
    BY <1>11 DEF SensorStep, AfterSensor, PutNoidle, RpmPutNoidle
  <1>12. ASSUME SensorStep, SwStandby PROVE WalkInv'
    BY <1>12 DEF SensorStep, AfterSensor, SwStandby
  <1>13. ASSUME SensorStep, SetStreaming PROVE WalkInv'
    BY <1>13 DEF SensorStep, AfterSensor, SetStreaming
  <1>14. ASSUME SensorStep, PutStream PROVE WalkInv'
    BY <1>14 DEF SensorStep, AfterSensor, PutStream, RpmPut
  <1>15. ASSUME CallReceiver PROVE WalkInv'
    BY <1>15 DEF CallReceiver, Csi!CallStart
  <1>16. ASSUME ReceiverStep, Csi!GetSync PROVE WalkInv'
    BY <1>16 DEF ReceiverStep, Csi!GetSync, Csi!RpmReady, Csi!RpmRefuse, Csi!RpmBeginResume
  <1>17. ASSUME ReceiverStep, Csi!Resume PROVE WalkInv'
    BY <1>17 DEF ReceiverStep, Csi!Resume, Csi!ResumeFails, Csi!RpmEndResume
  <1>18. ASSUME ReceiverStep, Csi!StartStream PROVE WalkInv'
    BY <1>18 DEF ReceiverStep, Csi!StartStream
  <1>19. ASSUME StopReceiver PROVE WalkInv'
    BY <1>19 DEF StopReceiver, Csi!StopStream, Csi!RpmPut
  <1>20. ASSUME OffChannel PROVE WalkInv'
    BY <1>20 DEF OffChannel
  <1>21. ASSUME NEW f \in Formats, SubdevSetFmt(f) PROVE WalkInv'
    BY <1>21 DEF SubdevSetFmt, SetFmt, FmtDeferred, FmtWritten, FmtFails
  <1>22. ASSUME NEW c \in Ctrls, NEW v \in Vals, SubdevSetCtrl(c, v) PROVE WalkInv'
    BY <1>22 DEF SubdevSetCtrl, SetCtrl, CtrlDeferred, CtrlWritten, CtrlFails
  <1>23. ASSUME SensorWorker, ServeIdle PROVE WalkInv'
    BY <1>23 DEF SensorWorker, ServeIdle, RpmBeginSuspend, SuspendAllowed
  <1>24. ASSUME SensorWorker, Suspend PROVE WalkInv'
    BY <1>24 DEF SensorWorker, Suspend, SensorPowerOff
  <1>25. ASSUME SensorWorker, SuspendDone PROVE WalkInv'
    BY <1>25 DEF SensorWorker, SuspendDone, RpmEndSuspend
  <1>26. ASSUME ReceiverWorker, Csi!ServeIdle PROVE WalkInv'
    BY <1>26 DEF ReceiverWorker, Csi!ServeIdle, Csi!RpmBeginSuspend, Csi!SuspendAllowed
  <1>27. ASSUME ReceiverWorker, Csi!Suspend PROVE WalkInv'
    BY <1>27 DEF ReceiverWorker, Csi!Suspend, Csi!RpmEndSuspend
  <1>28. CASE UNCHANGED pipelineVars
    BY <1>28 DEF pipelineVars, vars
  <1> QED
    BY <1>1, <1>2, <1>3, <1>4, <1>5, <1>6, <1>7, <1>8, <1>9, <1>10, <1>11, <1>12, <1>13,
       <1>14, <1>15, <1>16, <1>17, <1>18, <1>19, <1>20, <1>21, <1>22, <1>23, <1>24,
       <1>25, <1>26, <1>27, <1>28
       DEF PipelineNext, NodeStep, SensorStep, ReceiverStep, SensorWorker, ReceiverWorker, ThreadStep,
           WorkerStep, Csi!CallStep, Csi!WorkerStep

\* Every step keeps the sensor's reference and its power with the walk.
LEMMA SensorPhaseStep ==
    ASSUME Switched, TypeOK, TypeOK', PowerInv, PowerInv', PipelineFlags, PipelineValues, WalkInv,
           SensorInv, ReadBack, [PipelineNext]_pipelineVars
    PROVE  SensorInv'
  <1> USE DEF vars, TypeOK, RpmTypeOK, RpmStatus, StreamPc, WorkerPc, ReceiverPc, NodePc,
      PipelineFlags, PipelineValues, PowerInv, PowerMatchesStatus, WalkInv, SensorInv, SensorHeld, Silent,
      Switched, IoResults, pmVars, stateVars, hwVars, powerVars, csiVars, nodeVars, historyVars, Csi!pmVars,
      Csi!receiverVars
  <1>1. ASSUME NEW r \in Requests, AppOpen(r) PROVE SensorInv'
    BY <1>1 DEF AppOpen
  <1>2. ASSUME AppRelease PROVE SensorInv'
    BY <1>2 DEF AppRelease
  <1>3. ASSUME AppDies PROVE SensorInv'
    BY <1>3 DEF AppDies
  <1>4. ASSUME ConfigRefused PROVE SensorInv'
    BY <1>4 DEF ConfigRefused, SetFmt, FmtDeferred, FmtWritten, FmtFails
  <1>5. ASSUME ConfigSet PROVE SensorInv'
    BY <1>5
       DEF ConfigSet, SensorAccepts, SetFmt, FmtDeferred, FmtWritten, FmtFails, Csi!TakeFormat
  <1>6. ASSUME ConfigGet PROVE SensorInv'
    <2>1. UNCHANGED <<vars, opened, raced, surplus>> /\ ipc = "on_get"
      BY <1>6 DEF ConfigGet
    <2>2. \/ ipc' = "idle" /\ dst.size > src'.size
          \/ ipc' = "on_sensor"
      BY <1>6 DEF ConfigGet
    <2>3. ipc' = "idle" => raced = "get"
      BY <1>6, <2>2, RefusedIfRaced
    <2> QED BY <2>1, <2>2, <2>3
  <1>7. ASSUME CallSensor PROVE SensorInv'
    <2>1. CASE ipc = "on_sensor" /\ CallStream(TRUE) /\ ipc' = "on_sensor_wait"
      <3>1. spc' = "rpm_resume" /\ (~surplus => usage' = 1)
        BY <2>1 DEF CallStream
      <3>2. UNCHANGED <<status, pmError, wpc, streaming, powered, opened, raced, surplus>>
        BY <1>7, <2>1 DEF CallSensor, CallStream
      <3> QED BY <2>1, <3>1, <3>2
    <2>2. CASE ipc = "off_sensor" /\ CallStream(FALSE) /\ ipc' = "off_sensor_wait"
      <3>1. UNCHANGED usage /\ spc' = "standby"
        BY <2>2 DEF CallStream
      <3>2. UNCHANGED <<status, pmError, wpc, streaming, powered, opened, raced, surplus>>
        BY <1>7, <2>2 DEF CallSensor, CallStream
      <3> QED BY <2>2, <3>1, <3>2
    <2> QED BY <1>7, <2>1, <2>2 DEF CallSensor
  <1>8. ASSUME SensorStep, GetSync PROVE SensorInv'
    BY <1>8 DEF SensorStep, AfterSensor, GetSync, RpmReady, RpmBeginResume, RpmRefuse
  <1>9. ASSUME SensorStep, Resume PROVE SensorInv'
    BY <1>9 DEF SensorStep, AfterSensor, Resume, SensorPowerOn, SensorInit, SupplyFails, InitFails
  <1>10. ASSUME SensorStep, ResumeDone PROVE SensorInv'
    BY <1>10 DEF SensorStep, AfterSensor, ResumeDone, RpmEndResume
  <1>11. ASSUME SensorStep, PutNoidle PROVE SensorInv'
    BY <1>11 DEF SensorStep, AfterSensor, PutNoidle, RpmPutNoidle
  <1>12. ASSUME SensorStep, SwStandby PROVE SensorInv'
    BY <1>12 DEF SensorStep, AfterSensor, SwStandby
  <1>13. ASSUME SensorStep, SetStreaming PROVE SensorInv'
    BY <1>13 DEF SensorStep, AfterSensor, SetStreaming
  <1>14. ASSUME SensorStep, PutStream PROVE SensorInv'
    BY <1>14 DEF SensorStep, AfterSensor, PutStream, RpmPut
  <1>15. ASSUME CallReceiver PROVE SensorInv'
    BY <1>15 DEF CallReceiver, Csi!CallStart
  <1>16. ASSUME ReceiverStep, Csi!GetSync PROVE SensorInv'
    BY <1>16 DEF ReceiverStep, Csi!GetSync, Csi!RpmReady, Csi!RpmRefuse, Csi!RpmBeginResume
  <1>17. ASSUME ReceiverStep, Csi!Resume PROVE SensorInv'
    BY <1>17 DEF ReceiverStep, Csi!Resume, Csi!ResumeFails, Csi!RpmEndResume
  <1>18. ASSUME ReceiverStep, Csi!StartStream PROVE SensorInv'
    BY <1>18 DEF ReceiverStep, Csi!StartStream
  <1>19. ASSUME StopReceiver PROVE SensorInv'
    BY <1>19 DEF StopReceiver, Csi!StopStream, Csi!RpmPut
  <1>20. ASSUME OffChannel PROVE SensorInv'
    BY <1>20 DEF OffChannel
  <1>21. ASSUME NEW f \in Formats, SubdevSetFmt(f) PROVE SensorInv'
    BY <1>21 DEF SubdevSetFmt, SetFmt, FmtDeferred, FmtWritten, FmtFails
  <1>22. ASSUME NEW c \in Ctrls, NEW v \in Vals, SubdevSetCtrl(c, v) PROVE SensorInv'
    BY <1>22 DEF SubdevSetCtrl, SetCtrl, CtrlDeferred, CtrlWritten, CtrlFails
  <1>23. ASSUME SensorWorker, ServeIdle PROVE SensorInv'
    BY <1>23 DEF SensorWorker, ServeIdle, RpmBeginSuspend, SuspendAllowed
  <1>24. ASSUME SensorWorker, Suspend PROVE SensorInv'
    BY <1>24 DEF SensorWorker, Suspend, SensorPowerOff
  <1>25. ASSUME SensorWorker, SuspendDone PROVE SensorInv'
    BY <1>25 DEF SensorWorker, SuspendDone, RpmEndSuspend
  <1>26. ASSUME ReceiverWorker, Csi!ServeIdle PROVE SensorInv'
    BY <1>26 DEF ReceiverWorker, Csi!ServeIdle, Csi!RpmBeginSuspend, Csi!SuspendAllowed
  <1>27. ASSUME ReceiverWorker, Csi!Suspend PROVE SensorInv'
    BY <1>27 DEF ReceiverWorker, Csi!Suspend, Csi!RpmEndSuspend
  <1>28. CASE UNCHANGED pipelineVars
    BY <1>28 DEF pipelineVars, vars
  <1> QED
    BY <1>1, <1>2, <1>3, <1>4, <1>5, <1>6, <1>7, <1>8, <1>9, <1>10, <1>11, <1>12, <1>13,
       <1>14, <1>15, <1>16, <1>17, <1>18, <1>19, <1>20, <1>21, <1>22, <1>23, <1>24,
       <1>25, <1>26, <1>27, <1>28
       DEF PipelineNext, NodeStep, SensorStep, ReceiverStep, SensorWorker, ReceiverWorker, ThreadStep,
           WorkerStep, Csi!CallStep, Csi!WorkerStep

\* Only another program comes between a set_fmt and its get_fmt.
LEMMA ReadBackStep ==
    ASSUME WalkInv, ReadBack, [PipelineNext]_pipelineVars
    PROVE  ReadBack'
  <1> USE DEF ReadBack, WalkInv
  <1>1. CASE ConfigSet
    BY <1>1 DEF ConfigSet, SensorAccepts, vars, stateVars
  <1>2. ASSUME NEW f \in Formats, SubdevSetFmt(f) PROVE ReadBack'
    BY <1>2 DEF SubdevSetFmt, RaceAt
  <1>3. CASE \/ \E r \in Requests : AppOpen(r)
             \/ AppRelease \/ AppDies \/ ConfigRefused \/ ConfigGet \/ CallSensor \/ CallReceiver
             \/ StopReceiver \/ OffChannel
    BY <1>3
       DEF AppOpen, AppRelease, AppDies, ConfigRefused, ConfigGet, CallSensor, CallReceiver,
           StopReceiver, OffChannel
  <1>4. CASE SensorStep
    <2>1. ipc \in {"on_sensor_wait", "off_sensor_wait"}
      BY <1>4
         DEF SensorStep, ThreadStep, GetSync, Resume, ResumeDone, PutNoidle, SwStandby,
             SetStreaming, PutStream
    <2> QED BY <1>4, <2>1 DEF SensorStep, AfterSensor
  <1>5. CASE ReceiverStep
    <2>1. ipc = "on_csi_wait"
      BY <1>5 DEF ReceiverStep, Csi!CallStep, Csi!GetSync, Csi!Resume, Csi!StartStream
    <2> QED BY <1>5, <2>1 DEF ReceiverStep
  <1>6. ASSUME \/ \E c \in Ctrls, v \in Vals : SubdevSetCtrl(c, v)
               \/ SensorWorker \/ ReceiverWorker
               \/ UNCHANGED pipelineVars
        PROVE  ReadBack'
    <2>1. UNCHANGED <<ipc, dst, raced, format>>
      BY <1>6
         DEF SubdevSetCtrl, SetCtrl, SensorWorker, WorkerStep, ServeIdle, Suspend, SuspendDone,
             ReceiverWorker, pipelineVars, vars, stateVars, nodeVars, historyVars
    <2> QED BY <2>1
  <1> QED BY <1>1, <1>2, <1>3, <1>4, <1>5, <1>6 DEF PipelineNext, NodeStep

\* Every step keeps the receiver's reference with the walk.
LEMMA ReceiverPhaseStep ==
    ASSUME Switched, TypeOK, TypeOK', PowerInv, PipelineFlags, PipelineFlags', PipelineValues,
           WalkInv, SensorInv, ReceiverInv, [PipelineNext]_pipelineVars
    PROVE  ReceiverInv'
  <1> USE DEF vars, TypeOK, RpmTypeOK, RpmStatus, StreamPc, WorkerPc, ReceiverPc, NodePc,
      PipelineFlags, PipelineValues, PowerInv, PowerMatchesStatus, WalkInv, SensorInv, SensorHeld, Silent,
      ReceiverInv, Switched, IoResults, pmVars, stateVars, hwVars, powerVars, csiVars, nodeVars, historyVars,
      Csi!pmVars, Csi!receiverVars
  <1>1. ASSUME NEW r \in Requests, AppOpen(r) PROVE ReceiverInv'
    BY <1>1 DEF AppOpen
  <1>2. ASSUME AppRelease PROVE ReceiverInv'
    BY <1>2 DEF AppRelease
  <1>3. ASSUME AppDies PROVE ReceiverInv'
    BY <1>3 DEF AppDies
  <1>4. ASSUME ConfigRefused PROVE ReceiverInv'
    BY <1>4 DEF ConfigRefused, SetFmt, FmtDeferred, FmtWritten, FmtFails
  <1>5. ASSUME ConfigSet PROVE ReceiverInv'
    BY <1>5
       DEF ConfigSet, SensorAccepts, SetFmt, FmtDeferred, FmtWritten, FmtFails, Csi!TakeFormat
  <1>6. ASSUME ConfigGet PROVE ReceiverInv'
    BY <1>6 DEF ConfigGet, Csi!SeeFormat
  <1>7. ASSUME CallSensor PROVE ReceiverInv'
    BY <1>7 DEF CallSensor, CallStream
  <1>8. ASSUME SensorStep, GetSync PROVE ReceiverInv'
    BY <1>8 DEF SensorStep, AfterSensor, GetSync, RpmReady, RpmBeginResume, RpmRefuse
  <1>9. ASSUME SensorStep, Resume PROVE ReceiverInv'
    BY <1>9 DEF SensorStep, AfterSensor, Resume, SensorPowerOn, SensorInit, SupplyFails, InitFails
  <1>10. ASSUME SensorStep, ResumeDone PROVE ReceiverInv'
    BY <1>10 DEF SensorStep, AfterSensor, ResumeDone, RpmEndResume
  <1>11. ASSUME SensorStep, PutNoidle PROVE ReceiverInv'
    BY <1>11 DEF SensorStep, AfterSensor, PutNoidle, RpmPutNoidle
  <1>12. ASSUME SensorStep, SwStandby PROVE ReceiverInv'
    BY <1>12 DEF SensorStep, AfterSensor, SwStandby
  <1>13. ASSUME SensorStep, SetStreaming PROVE ReceiverInv'
    BY <1>13 DEF SensorStep, AfterSensor, SetStreaming
  <1>14. ASSUME SensorStep, PutStream PROVE ReceiverInv'
    BY <1>14 DEF SensorStep, AfterSensor, PutStream, RpmPut
  <1>15. ASSUME CallReceiver PROVE ReceiverInv'
    BY <1>15 DEF CallReceiver, Csi!CallStart
  <1>16. ASSUME ReceiverStep, Csi!GetSync PROVE ReceiverInv'
    BY <1>16 DEF ReceiverStep, Csi!GetSync, Csi!RpmReady, Csi!RpmRefuse, Csi!RpmBeginResume
  <1>17. ASSUME ReceiverStep, Csi!Resume PROVE ReceiverInv'
    BY <1>17 DEF ReceiverStep, Csi!Resume, Csi!ResumeFails, Csi!RpmEndResume
  <1>18. ASSUME ReceiverStep, Csi!StartStream PROVE ReceiverInv'
    BY <1>18 DEF ReceiverStep, Csi!StartStream
  <1>19. ASSUME StopReceiver PROVE ReceiverInv'
    BY <1>19 DEF StopReceiver, Csi!StopStream, Csi!RpmPut
  <1>20. ASSUME OffChannel PROVE ReceiverInv'
    BY <1>20 DEF OffChannel
  <1>21. ASSUME NEW f \in Formats, SubdevSetFmt(f) PROVE ReceiverInv'
    BY <1>21 DEF SubdevSetFmt, SetFmt, FmtDeferred, FmtWritten, FmtFails
  <1>22. ASSUME NEW c \in Ctrls, NEW v \in Vals, SubdevSetCtrl(c, v) PROVE ReceiverInv'
    BY <1>22 DEF SubdevSetCtrl, SetCtrl, CtrlDeferred, CtrlWritten, CtrlFails
  <1>23. ASSUME SensorWorker, ServeIdle PROVE ReceiverInv'
    BY <1>23 DEF SensorWorker, ServeIdle, RpmBeginSuspend, SuspendAllowed
  <1>24. ASSUME SensorWorker, Suspend PROVE ReceiverInv'
    BY <1>24 DEF SensorWorker, Suspend, SensorPowerOff
  <1>25. ASSUME SensorWorker, SuspendDone PROVE ReceiverInv'
    BY <1>25 DEF SensorWorker, SuspendDone, RpmEndSuspend
  <1>26. ASSUME ReceiverWorker, Csi!ServeIdle PROVE ReceiverInv'
    BY <1>26 DEF ReceiverWorker, Csi!ServeIdle, Csi!RpmBeginSuspend, Csi!SuspendAllowed
  <1>27. ASSUME ReceiverWorker, Csi!Suspend PROVE ReceiverInv'
    BY <1>27 DEF ReceiverWorker, Csi!Suspend, Csi!RpmEndSuspend
  <1>28. CASE UNCHANGED pipelineVars
    BY <1>28 DEF pipelineVars, vars
  <1> QED
    BY <1>1, <1>2, <1>3, <1>4, <1>5, <1>6, <1>7, <1>8, <1>9, <1>10, <1>11, <1>12, <1>13,
       <1>14, <1>15, <1>16, <1>17, <1>18, <1>19, <1>20, <1>21, <1>22, <1>23, <1>24,
       <1>25, <1>26, <1>27, <1>28
       DEF PipelineNext, NodeStep, SensorStep, ReceiverStep, SensorWorker, ReceiverWorker, ThreadStep,
           WorkerStep, Csi!CallStep, Csi!WorkerStep

\* Every step keeps the receiver's supplies with its status.
LEMMA SupplyStep ==
    ASSUME TypeOK, PipelineFlags, PipelineFlags', PipelineValues, PipelineValues', WalkInv,
           WalkInv', ReceiverInv, SupplyInv, [PipelineNext]_pipelineVars
    PROVE  SupplyInv'
  <1> USE DEF vars, TypeOK, RpmTypeOK, RpmStatus, StreamPc, WorkerPc, ReceiverPc, NodePc,
      PipelineFlags, PipelineValues, WalkInv, ReceiverInv, SupplyInv, pmVars, stateVars, hwVars,
      powerVars, csiVars, nodeVars, historyVars, Csi!pmVars, Csi!receiverVars
  <1>1. ASSUME NEW r \in Requests, AppOpen(r) PROVE SupplyInv'
    BY <1>1 DEF AppOpen
  <1>2. ASSUME AppRelease PROVE SupplyInv'
    BY <1>2 DEF AppRelease
  <1>3. ASSUME AppDies PROVE SupplyInv'
    BY <1>3 DEF AppDies
  <1>4. ASSUME ConfigRefused PROVE SupplyInv'
    BY <1>4 DEF ConfigRefused, SetFmt, FmtDeferred, FmtWritten, FmtFails
  <1>5. ASSUME ConfigSet PROVE SupplyInv'
    BY <1>5
       DEF ConfigSet, SensorAccepts, SetFmt, FmtDeferred, FmtWritten, FmtFails, Csi!TakeFormat
  <1>6. ASSUME ConfigGet PROVE SupplyInv'
    BY <1>6 DEF ConfigGet, Csi!SeeFormat
  <1>7. ASSUME CallSensor PROVE SupplyInv'
    BY <1>7 DEF CallSensor, CallStream
  <1>8. ASSUME SensorStep, GetSync PROVE SupplyInv'
    BY <1>8 DEF SensorStep, AfterSensor, GetSync, RpmReady, RpmBeginResume, RpmRefuse
  <1>9. ASSUME SensorStep, Resume PROVE SupplyInv'
    BY <1>9 DEF SensorStep, AfterSensor, Resume, SensorPowerOn, SensorInit, SupplyFails, InitFails
  <1>10. ASSUME SensorStep, ResumeDone PROVE SupplyInv'
    BY <1>10 DEF SensorStep, AfterSensor, ResumeDone, RpmEndResume
  <1>11. ASSUME SensorStep, PutNoidle PROVE SupplyInv'
    BY <1>11 DEF SensorStep, AfterSensor, PutNoidle, RpmPutNoidle
  <1>12. ASSUME SensorStep, SwStandby PROVE SupplyInv'
    BY <1>12 DEF SensorStep, AfterSensor, SwStandby
  <1>13. ASSUME SensorStep, SetStreaming PROVE SupplyInv'
    BY <1>13 DEF SensorStep, AfterSensor, SetStreaming
  <1>14. ASSUME SensorStep, PutStream PROVE SupplyInv'
    BY <1>14 DEF SensorStep, AfterSensor, PutStream, RpmPut
  <1>15. ASSUME CallReceiver PROVE SupplyInv'
    BY <1>15 DEF CallReceiver, Csi!CallStart
  <1>16. ASSUME ReceiverStep, Csi!GetSync PROVE SupplyInv'
    BY <1>16 DEF ReceiverStep, Csi!GetSync, Csi!RpmReady, Csi!RpmRefuse, Csi!RpmBeginResume
  <1>17. ASSUME ReceiverStep, Csi!Resume PROVE SupplyInv'
    BY <1>17 DEF ReceiverStep, Csi!Resume, Csi!ResumeFails, Csi!RpmEndResume
  <1>18. ASSUME ReceiverStep, Csi!StartStream PROVE SupplyInv'
    BY <1>18 DEF ReceiverStep, Csi!StartStream
  <1>19. ASSUME StopReceiver PROVE SupplyInv'
    BY <1>19 DEF StopReceiver, Csi!StopStream, Csi!RpmPut
  <1>20. ASSUME OffChannel PROVE SupplyInv'
    BY <1>20 DEF OffChannel
  <1>21. ASSUME NEW f \in Formats, SubdevSetFmt(f) PROVE SupplyInv'
    BY <1>21 DEF SubdevSetFmt, SetFmt, FmtDeferred, FmtWritten, FmtFails
  <1>22. ASSUME NEW c \in Ctrls, NEW v \in Vals, SubdevSetCtrl(c, v) PROVE SupplyInv'
    BY <1>22 DEF SubdevSetCtrl, SetCtrl, CtrlDeferred, CtrlWritten, CtrlFails
  <1>23. ASSUME SensorWorker, ServeIdle PROVE SupplyInv'
    BY <1>23 DEF SensorWorker, ServeIdle, RpmBeginSuspend, SuspendAllowed
  <1>24. ASSUME SensorWorker, Suspend PROVE SupplyInv'
    BY <1>24 DEF SensorWorker, Suspend, SensorPowerOff
  <1>25. ASSUME SensorWorker, SuspendDone PROVE SupplyInv'
    BY <1>25 DEF SensorWorker, SuspendDone, RpmEndSuspend
  <1>26. ASSUME ReceiverWorker, Csi!ServeIdle PROVE SupplyInv'
    BY <1>26 DEF ReceiverWorker, Csi!ServeIdle, Csi!RpmBeginSuspend, Csi!SuspendAllowed
  <1>27. ASSUME ReceiverWorker, Csi!Suspend PROVE SupplyInv'
    <2>1. csiStatus = "suspending" /\ UNCHANGED <<cpc, running, surplus>>
      BY <1>27 DEF ReceiverWorker, Csi!Suspend, Csi!RpmEndSuspend
    <2>2. phy /\ clks >= 2 /\ ~csiError /\ cpc # "resume" /\ (running \/ cpc = "start" => surplus)
      BY <2>1
    <2>3. \/ csiStatus' = "suspended" /\ clks' = clks - 1
          \/ csiStatus' = "active" /\ UNCHANGED <<phy, clks>>
      BY <1>27 DEF Csi!Suspend, Csi!RpmEndSuspend
    <2>4. clks' >= 1 /\ (csiStatus' = "active" => clks' >= 2)
      <3>1. CASE csiStatus' = "suspended" /\ clks' = clks - 1
        BY <2>2, <3>1
      <3>2. CASE csiStatus' = "active" /\ clks' = clks
        BY <2>2, <3>2
      <3> QED BY <2>3, <3>1, <3>2
    <2>5. csiStatus' = "active" => phy'
      BY <2>2, <2>3, Zenon
    <2>6. csiStatus' \in {"suspended", "active"}
      BY <2>3
    <2>7. cpc' # "resume"
      BY <2>1, <2>2
    <2>8. running' \/ cpc' = "start" => surplus'
      BY <2>1, <2>2
    <2> QED BY <2>4, <2>5, <2>6, <2>7, <2>8
  <1>28. CASE UNCHANGED pipelineVars
    BY <1>28 DEF pipelineVars, vars
  <1> QED
    BY <1>1, <1>2, <1>3, <1>4, <1>5, <1>6, <1>7, <1>8, <1>9, <1>10, <1>11, <1>12, <1>13,
       <1>14, <1>15, <1>16, <1>17, <1>18, <1>19, <1>20, <1>21, <1>22, <1>23, <1>24,
       <1>25, <1>26, <1>27, <1>28
       DEF PipelineNext, NodeStep, SensorStep, ReceiverStep, SensorWorker, ReceiverWorker, ThreadStep,
           WorkerStep, Csi!CallStep, Csi!WorkerStep

\* Every step keeps the types and the pipeline's invariant.
LEMMA PipelineStep ==
    ASSUME Switched, TypeOK, TypeOK', PowerInv, PowerInv', PipelineFlags, PipelineValues,
           PipelineInv,
           [PipelineNext]_pipelineVars
    PROVE  PipelineFlags' /\ PipelineValues' /\ PipelineInv'
  <1>1. dst \in Requests /\ WalkInv /\ SensorInv /\ ReadBack /\ ReceiverInv /\ SupplyInv
    BY DEF PipelineValues, PipelineInv
  <1>2. PipelineFlags'
    BY <1>1, PipelineFlagsStep
  <1>3. PipelineValues'
    BY <1>1, PipelineValuesStep
  <1>4. WalkInv'
    BY <1>1, WalkStep
  <1>5. SensorInv'
    BY <1>1, SensorPhaseStep
  <1>6. ReadBack'
    BY <1>1, ReadBackStep
  <1>7. ReceiverInv'
    BY <1>1, <1>2, ReceiverPhaseStep
  <1>8. SupplyInv'
    BY <1>1, <1>2, <1>3, <1>4, SupplyStep
  <1> QED BY <1>2, <1>3, <1>4, <1>5, <1>6, <1>7, <1>8 DEF PipelineInv

\* What probe leaves satisfies it.
LEMMA PipelineStart == PipelineInit => PipelineFlags /\ PipelineValues /\ PipelineInv
  <1> SUFFICES ASSUME PipelineInit PROVE PipelineFlags /\ PipelineValues /\ PipelineInv
    OBVIOUS
  <1>1. PipelineFlags
    BY Zenon DEF PipelineInit, Csi!InitReceiver, PipelineFlags
  <1>2. PipelineValues
    BY DEF PipelineInit, Csi!InitReceiver, PipelineValues, RpmStatus, ReceiverPc, NodePc
  <1>3. PipelineInv
    BY DEF PipelineInit, Init, Csi!InitReceiver, PipelineInv, WalkInv, SensorInv, SensorHeld,
       Silent,
       ReadBack, ReceiverInv, SupplyInv
  <1> QED BY <1>1, <1>2, <1>3

\* The invariant of the pipeline, with what is known of the sensor.
LEMMA PipelineInvariant ==
    ASSUME Switched
    PROVE  PipelineSpec => [](TypeOK /\ PowerInv /\ CleanInv /\ PipelineFlags /\ PipelineValues /\ PipelineInv)
  <1>1. Switched /\ "i2c" \notin Faults
    BY DEF Switched
  <1>2. Spec => [](PowerInv /\ CleanInv)
    BY <1>1, CleanInvariant
  <1>3. TypeOK /\ TypeOK' /\ PowerInv /\ PowerInv' /\ PipelineFlags /\ PipelineValues /\ PipelineInv
        /\ [PipelineNext]_pipelineVars => (PipelineFlags /\ PipelineValues /\ PipelineInv)'
    BY <1>1, PipelineStep
  <1> QED BY <1>2, <1>3, PipelineStart, SensorInPipeline, TypeCorrect, PTL DEF PipelineSpec

\* A STREAMOFF gets through to a sensor nobody has started only after a STREAMON
\* that was refused because of a format set between its set_fmt and its get_fmt:
\* whichever supply fails and whichever application dies, every other sensor that
\* is open and not streaming is silent.
THEOREM OnlyTheReadBackRaces == ASSUME Switched PROVE PipelineSpec => SurplusNeedsRace
  <1> DEFINE Known == TypeOK /\ PowerInv /\ CleanInv /\ PipelineFlags /\ PipelineValues /\ PipelineInv
  <1>1. PipelineSpec => []Known
    BY PipelineInvariant
  <1>2. Known /\ [PipelineNext]_pipelineVars
        => [~surplus /\ surplus' => raced = "get"]_pipelineVars
    <2> SUFFICES ASSUME Known, PipelineNext, ~surplus, surplus'
                 PROVE  raced = "get"
      BY DEF pipelineVars, nodeVars, historyVars
    <2>1. SensorStep
      BY DEF PipelineNext, NodeStep, AppOpen, AppRelease, AppDies, ConfigRefused, ConfigSet,
             ConfigGet, CallSensor, CallReceiver, ReceiverStep, StopReceiver, OffChannel,
             SubdevSetFmt, SubdevSetCtrl, SensorWorker, ReceiverWorker, nodeVars, historyVars
    <2>2. spc = "standby" /\ spc' = "flag" /\ ~enable /\ ~streaming
      BY <2>1 DEF SensorStep
    <2>3. ipc = "off_sensor_wait" /\ opened
      BY <2>2 DEF PipelineInv, WalkInv
    <2>4. Silent \/ raced = "get"
      BY <2>2, <2>3 DEF PipelineInv, SensorInv
    <2>5. SwStandby
      BY <2>1, <2>2
         DEF SensorStep, ThreadStep, GetSync, Resume, ResumeDone, PutNoidle, SetStreaming, PutStream
    <2>6. ~Silent
      BY <2>2, <2>5 DEF SwStandby, IoResults, Silent
    <2> QED BY <2>4, <2>6
  <1> QED BY <1>1, <1>2, PTL DEF PipelineSpec, SurplusNeedsRace

\* With no call under way the receiver runs exactly when the sensor streams and
\* each holds one reference then and none otherwise, whichever supply fails,
\* whichever application dies and whatever other programs set on the subdev, as
\* long as no STREAMOFF too many has got through.
THEOREM WalkBalances == ASSUME Switched PROVE PipelineSpec => []ReferencesBalanced
  <1>1. PipelineInv => ReferencesBalanced
    BY DEF PipelineInv, WalkInv, SensorInv, SensorHeld, Silent, ReceiverInv, ReferencesBalanced
  <1> QED BY <1>1, PipelineInvariant, PTL

\* A running receiver that has resumed has its PHY supply, whichever of its
\* suspends and resumes fail, and its registers are touched only with the clocks
\* on, whether or not the resume failed or a reference is missing.
THEOREM ReceiverHasPower == ASSUME Switched PROVE PipelineSpec => []ReceiverPowered
  <1>1. PipelineInv => ReceiverPowered
    BY DEF PipelineInv, SupplyInv, ReceiverPowered
  <1> QED BY <1>1, PipelineInvariant, PTL

\* In the pipeline a streaming sensor is powered: the walk calls s_stream(0) when
\* nothing streams, and it does not need the alternating caller of Ov5648Proofs,
\* up to the first STREAMOFF that gets through to a sensor nobody has started.
THEOREM PipelineStreamSafety == ASSUME Switched PROVE PipelineSpec => []StreamKeepsPower
  <1>1. TypeOK /\ PowerInv /\ PipelineInv => StreamKeepsPower
    BY DEF PowerInv, PowerMatchesStatus, PipelineInv, SensorInv, SensorHeld, Silent,
       StreamHoldsPower,
           StreamKeepsPower
  <1> QED BY <1>1, PipelineInvariant, PTL

-----------------------------------------------------------------------------
\* Every step keeps what STREAMON has settled.
LEMMA FormatStep ==
    ASSUME SensorCodes \subseteq CsisCodes, TypeOK, PipelineFlags, PipelineValues, WalkInv,
           SensorInv, ReadBack, ReceiverInv, FormatInv, [PipelineNext]_pipelineVars
    PROVE  FormatInv'
  <1> USE DEF vars, NodePc, ReceiverPc, StreamPc, PipelineFlags, PipelineValues, WalkInv,
      SensorInv, SensorHeld, Silent, ReceiverInv, FormatInv, Settling, Served, pmVars, stateVars, hwVars,
      powerVars, csiVars, nodeVars, historyVars, Csi!pmVars, Csi!receiverVars
  <1>1. ASSUME NEW r \in Requests, AppOpen(r) PROVE FormatInv'
    BY <1>1 DEF AppOpen
  <1>2. ASSUME AppRelease PROVE FormatInv'
    BY <1>2 DEF AppRelease
  <1>3. ASSUME AppDies PROVE FormatInv'
    BY <1>3 DEF AppDies
  <1>4. ASSUME ConfigRefused PROVE FormatInv'
    BY <1>4 DEF ConfigRefused, SetFmt, FmtDeferred, FmtWritten, FmtFails
  <1>5. ASSUME ConfigSet PROVE FormatInv'
    <2>1. format' = Settled(dst)
      BY <1>5 DEF ConfigSet, SensorAccepts
    <2>2. Settled(dst).code \in CsisCodes
      BY SettledIsFormat, RequestsAssumption
    <2>3. csisFmt' = Settled(dst).code
      BY <1>5, <2>1, <2>2 DEF ConfigSet, Csi!TakeFormat, Csi!FoundCode
    <2>4. ipc = "on_config" /\ ipc' = "on_get" /\ UNCHANGED <<dst, streamOk, surplus>>
      BY <1>5 DEF ConfigSet
    <2> QED BY <2>3, <2>4
  <1>6. ASSUME ConfigGet PROVE FormatInv'
    <2>1. ipc = "on_get" /\ UNCHANGED <<dst, format, csisFmt, streamOk, raced, surplus>>
      BY <1>6 DEF ConfigGet
    <2>2. seenFmt' = format /\ src' = SourceFrame(format)
      BY <1>6 DEF ConfigGet, Csi!SeeFormat
    <2>3. \/ ipc' = "idle"
          \/ ipc' = "on_sensor" /\ dst.size <= src'.size
      BY <1>6 DEF ConfigGet
    <2>4. raced = "no" => format = Settled(dst)
      BY <2>1 DEF ReadBack
    <2> QED BY <2>1, <2>2, <2>3, <2>4
  <1>7. ASSUME CallSensor PROVE FormatInv'
    BY <1>7 DEF CallSensor, CallStream
  <1>8. ASSUME SensorStep, GetSync PROVE FormatInv'
    BY <1>8 DEF SensorStep, AfterSensor, GetSync, RpmReady, RpmBeginResume, RpmRefuse
  <1>9. ASSUME SensorStep, Resume PROVE FormatInv'
    BY <1>9 DEF SensorStep, AfterSensor, Resume, SensorPowerOn, SensorInit, SupplyFails, InitFails
  <1>10. ASSUME SensorStep, ResumeDone PROVE FormatInv'
    BY <1>10 DEF SensorStep, AfterSensor, ResumeDone, RpmEndResume
  <1>11. ASSUME SensorStep, PutNoidle PROVE FormatInv'
    BY <1>11 DEF SensorStep, AfterSensor, PutNoidle, RpmPutNoidle
  <1>12. ASSUME SensorStep, SwStandby PROVE FormatInv'
    BY <1>12 DEF SensorStep, AfterSensor, SwStandby
  <1>13. ASSUME SensorStep, SetStreaming PROVE FormatInv'
    BY <1>13 DEF SensorStep, AfterSensor, SetStreaming
  <1>14. ASSUME SensorStep, PutStream PROVE FormatInv'
    BY <1>14 DEF SensorStep, AfterSensor, PutStream, RpmPut
  <1>15. ASSUME CallReceiver PROVE FormatInv'
    BY <1>15 DEF CallReceiver, Csi!CallStart
  <1>16. ASSUME ReceiverStep, Csi!GetSync PROVE FormatInv'
    BY <1>16 DEF ReceiverStep, Csi!GetSync, Csi!RpmReady, Csi!RpmRefuse, Csi!RpmBeginResume
  <1>17. ASSUME ReceiverStep, Csi!Resume PROVE FormatInv'
    BY <1>17 DEF ReceiverStep, Csi!Resume, Csi!ResumeFails, Csi!RpmEndResume
  <1>18. ASSUME ReceiverStep, Csi!StartStream PROVE FormatInv'
    <2>1. ipc = "on_csi_wait" /\ ipc' = "idle"
          /\ UNCHANGED <<opened, dst, src, raced, surplus, format, streaming, csisFmt, seenFmt>>
      BY <1>18 DEF ReceiverStep, Csi!StartStream
    <2>2. isp' = [code |-> csisFmt, size |-> seenFmt.size] /\ csisFmt \in types'
      BY <1>18 DEF Csi!StartStream
    <2>3. csisFmt = Settled(dst).code /\ seenFmt = Settled(dst) => isp' = Settled(dst)
      BY <2>2 DEF Settled
    <2> QED BY <2>1, <2>2, <2>3
  <1>19. ASSUME StopReceiver PROVE FormatInv'
    BY <1>19 DEF StopReceiver, Csi!StopStream, Csi!RpmPut
  <1>20. ASSUME OffChannel PROVE FormatInv'
    BY <1>20 DEF OffChannel
  <1>21. ASSUME NEW f \in Formats, SubdevSetFmt(f) PROVE FormatInv'
    BY <1>21 DEF SubdevSetFmt, RaceAt, SetFmt, FmtDeferred, FmtWritten, FmtFails
  <1>22. ASSUME NEW c \in Ctrls, NEW v \in Vals, SubdevSetCtrl(c, v) PROVE FormatInv'
    BY <1>22 DEF SubdevSetCtrl, SetCtrl, CtrlDeferred, CtrlWritten, CtrlFails
  <1>23. ASSUME SensorWorker, ServeIdle PROVE FormatInv'
    BY <1>23 DEF SensorWorker, ServeIdle, RpmBeginSuspend, SuspendAllowed
  <1>24. ASSUME SensorWorker, Suspend PROVE FormatInv'
    BY <1>24 DEF SensorWorker, Suspend, SensorPowerOff
  <1>25. ASSUME SensorWorker, SuspendDone PROVE FormatInv'
    BY <1>25 DEF SensorWorker, SuspendDone, RpmEndSuspend
  <1>26. ASSUME ReceiverWorker, Csi!ServeIdle PROVE FormatInv'
    BY <1>26 DEF ReceiverWorker, Csi!ServeIdle, Csi!RpmBeginSuspend, Csi!SuspendAllowed
  <1>27. ASSUME ReceiverWorker, Csi!Suspend PROVE FormatInv'
    BY <1>27 DEF ReceiverWorker, Csi!Suspend, Csi!RpmEndSuspend
  <1>28. CASE UNCHANGED pipelineVars
    BY <1>28 DEF pipelineVars, vars
  <1> QED
    BY <1>1, <1>2, <1>3, <1>4, <1>5, <1>6, <1>7, <1>8, <1>9, <1>10, <1>11, <1>12, <1>13,
       <1>14, <1>15, <1>16, <1>17, <1>18, <1>19, <1>20, <1>21, <1>22, <1>23, <1>24,
       <1>25, <1>26, <1>27, <1>28
       DEF PipelineNext, NodeStep, SensorStep, ReceiverStep, SensorWorker, ReceiverWorker, ThreadStep,
           WorkerStep, Csi!CallStep, Csi!WorkerStep

\* Sensor, receiver and channel work with one format while an application's
\* stream runs, unless another program set the sensor's during the STREAMON; the
\* receiver has to know the sensor's codes, or it takes the first of its own.
THEOREM OneFormat ==
    ASSUME Switched, SensorCodes \subseteq CsisCodes
    PROVE  PipelineSpec => []FormatsAgree
  <1> DEFINE Known == TypeOK /\ PowerInv /\ CleanInv /\ PipelineFlags /\ PipelineValues /\ PipelineInv
  <1>1. PipelineSpec => []Known
    BY PipelineInvariant
  <1>2. PipelineInit => FormatInv
    BY DEF PipelineInit, FormatInv, Settling, Served
  <1>3. Known /\ FormatInv /\ [PipelineNext]_pipelineVars => FormatInv'
    BY FormatStep DEF PipelineInv
  <1>4. Known /\ FormatInv => FormatsAgree
    <2> SUFFICES ASSUME Known, FormatInv, Served, raced = "no", ~surplus
                 PROVE  /\ src = SourceFrame(hwFormat)
                        /\ isp = hwFormat
                        /\ hwFormat.code \in types
                        /\ dst.size <= src.size
      BY DEF FormatsAgree, Served
    <2>1. /\ streaming /\ format = Settled(dst) /\ isp = format /\ format.code \in types
          /\ src = SourceFrame(format) /\ dst.size <= src.size
      BY DEF FormatInv
    <2>2. powered
      BY <2>1 DEF PipelineInv, SensorInv, PowerInv, PowerMatchesStatus
    <2>3. hwFormat = format
      BY <2>2 DEF CleanInv
    <2> QED BY <2>1, <2>3
  <1> QED BY <1>1, <1>2, <1>3, <1>4, PTL DEF PipelineSpec
=============================================================================
