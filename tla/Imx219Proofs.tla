---------------------------- MODULE Imx219Proofs ----------------------------
(***************************************************************************)
(* Proofs about the IMX219 driver, for every table of modes, every range   *)
(* of blanking and exposure, every bound on the usage count and every      *)
(* combination of faults a theorem's hypothesis allows.                    *)
(***************************************************************************)
EXTENDS Imx219, TLAPS

\* What the program counters say about phase, status and power.  Runtime PM is
\* enabled only while the driver is bound: before, the status is the core's
\* initial one whatever the supplies are.
PowerInv ==
    /\ lock <=> spc # "idle"
    /\ asleep => phase = "bound" /\ spc = "idle" /\ wpc = "idle"
    /\ phase # "bound" => status = "suspended" /\ wpc = "idle"
    /\ phase = "unbound" => spc = "idle" /\ ~powered
    /\ phase = "probing" => powered /\ spc \in {"idle", "rpm_resume", "put_noidle"}
    /\ status = "resuming" <=> spc \in {"resume_cb", "resume_ok", "resume_err"}
    /\ status = "suspending" <=> wpc # "idle"
    /\ phase = "bound" => /\ status = "active" => powered
                          /\ status = "suspended" => ~powered
    /\ spc \in {"resume_cb", "resume_err"} => ~powered
    /\ spc = "resume_ok" => powered
    /\ wpc = "suspend_cb" => powered
    /\ wpc = "suspend_ok" => ~powered
    /\ clk = OtherClkUsers + (IF powered THEN 1 ELSE 0)

\* The references of imx219_set_stream and of the system sleep code: at least
\* the ones that are held, since a failed system resume and an unbind in the
\* middle of a stream leave one behind.
RefInv ==
    /\ usage >= (IF streaming \/ spc # "idle" THEN 1 ELSE 0) + (IF asleep THEN 1 ELSE 0)
    /\ streaming => phase = "bound" /\ spc = "idle" /\ status = "active"
    /\ spc # "idle" => phase = "bound"
    /\ spc = "start" => status = "active"

\* The flips of a running sensor are grabbed and in its register.
FlipInv == streaming => grabbed /\ hwFlip = flip

\* With nothing left behind, nobody holds a reference but the stream, the call
\* in progress and the system sleep code.
ExactInv ==
    usage = (IF streaming \/ spc # "idle" THEN 1 ELSE 0) + (IF asleep THEN 1 ELSE 0)

\* What the registers of a running sensor hold, asleep or not.
ReportedInv ==
    streaming =>
        /\ ~asleep => hwStream
        /\ hwMode = mode /\ hwDepth = code.depth /\ hwFlip = flip
        /\ tim.vts = Height[mode] + tim.vblank
        /\ tim.hwExposure = tim.exposure

-----------------------------------------------------------------------------
(* The control operators *)

Timing == [vblank : Nat, exposure : Nat, expMax : Nat, hblank : Nat, vts : Nat, hwExposure : Nat]

\* A work record: the timing so far and the number of control writes.
Work == [t : Timing, n : Nat]

\* The largest blanking of a mode, and the range of frame lengths around it.
LEMMA ModeFacts ==
    ASSUME NEW m \in Modes
    PROVE  /\ Height[m] \in Nat /\ Width[m] \in Nat /\ VtsDef[m] \in Nat
           /\ VtsDef[m] - Height[m] \in VblankMin..(VtsMax - Height[m])
           /\ Ppl - Width[m] \in Nat
           /\ VtsDef[m] - 4 \in Nat /\ VtsDef[m] - 4 >= ExposureMin
           /\ \A v \in Nat : v >= VblankMin =>
                 Height[m] + v - 4 \in Nat /\ Height[m] + v - 4 >= ExposureMin
  BY ModesAssumption, LimitsAssumption

\* Clamp gives a value of the range, and leaves one that was in it alone.
LEMMA ClampRange ==
    ASSUME NEW x \in Int, NEW lo \in Int, NEW hi \in Int, lo <= hi
    PROVE  Clamp(x, lo, hi) \in lo..hi /\ (x \in lo..hi => Clamp(x, lo, hi) = x)
  BY DEF Clamp

\* __v4l2_ctrl_modify_range on the exposure sets the upper end and touches only
\* the exposure and its register; with the sensor off, or a write that
\* succeeds, the exposure ends up in the new range and the register follows.
ExposureModified(w, max, ok, r) ==
    /\ r \in Work
    /\ r.t.vblank = w.t.vblank /\ r.t.hblank = w.t.hblank /\ r.t.vts = w.t.vts
    /\ r.t.expMax = max
    /\ ok \/ ~InUse => r.t.exposure \in ExposureMin..max
    /\ ok /\ InUse /\ w.t.hwExposure = w.t.exposure => r.t.hwExposure = r.t.exposure

\* So the framework's part of a range change does what is written above.
LEMMA ModifyExposure ==
    ASSUME NEW w \in Work, NEW max \in Nat, max >= ExposureMin, NEW ok \in BOOLEAN
    PROVE  ExposureModified(w, max, ok, ModifyExposureRange(w, max, ok))
  <1> DEFINE x == Clamp(w.t.exposure, ExposureMin, max)
             t == [w.t EXCEPT !.expMax = max]
  <1>1. w.t \in Timing /\ w.n \in Nat
    BY DEF Work
  <1>2. x \in ExposureMin..max /\ x \in Nat /\ (w.t.exposure \in ExposureMin..max => x = w.t.exposure)
    <2>1. w.t.exposure \in Int /\ ExposureMin \in Int /\ max \in Int
      BY <1>1, LimitsAssumption DEF Timing
    <2>2. x \in ExposureMin..max /\ (w.t.exposure \in ExposureMin..max => x = w.t.exposure)
      BY <2>1, ClampRange
    <2> QED BY <2>2, LimitsAssumption
  <1>3. t \in Timing /\ t.expMax = max /\ t.vblank = w.t.vblank /\ t.hblank = w.t.hblank
        /\ t.vts = w.t.vts /\ t.exposure = w.t.exposure /\ t.hwExposure = w.t.hwExposure
    BY <1>1 DEF Timing
  <1> HIDE DEF x, t
  <1>4. CASE x = t.exposure
    <2>1. ModifyExposureRange(w, max, ok) = [w EXCEPT !.t = t]
      BY <1>4 DEF ModifyExposureRange, x, t
    <2>2. [w EXCEPT !.t = t] \in Work /\ [w EXCEPT !.t = t].t = t /\ [w EXCEPT !.t = t].n = w.n
      BY <1>3 DEF Work
    <2> QED BY <1>2, <1>3, <1>4, <2>1, <2>2 DEF ExposureModified
  <1>5. CASE x # t.exposure
    <2> DEFINE s == IF ~InUse THEN [t EXCEPT !.exposure = x]
                    ELSE IF ok THEN [t EXCEPT !.exposure = x, !.hwExposure = x]
                    ELSE t
    <2>1. ModifyExposureRange(w, max, ok) = [n |-> w.n + 1, t |-> s]
      BY <1>5 DEF ModifyExposureRange, x, t
    <2>2. s \in Timing /\ s.expMax = max /\ s.vblank = w.t.vblank /\ s.hblank = w.t.hblank
          /\ s.vts = w.t.vts
      BY <1>2, <1>3 DEF Timing
    <2>3. /\ ok \/ ~InUse => s.exposure = x
          /\ ok /\ InUse => s.hwExposure = x
      BY <1>2, <1>3 DEF Timing
    <2> HIDE DEF s
    <2>4. [n |-> w.n + 1, t |-> s] \in Work
      BY <1>1, <2>2 DEF Work
    <2> QED BY <1>2, <2>1, <2>2, <2>3, <2>4 DEF ExposureModified
  <1> QED BY <1>4, <1>5

\* imx219_set_ctrl for the vertical blanking: the exposure range follows the
\* blanking, and the blanking is committed unless the write failed.
VblankSet(w, m, v, ok, r) ==
    /\ r \in Work
    /\ r.t.vblank >= VblankMin
    /\ r.t.hblank = w.t.hblank
    /\ ok \/ ~InUse => /\ r.t.vblank = v
                       /\ r.t.expMax = Height[m] + v - 4
                       /\ r.t.exposure \in ExposureMin..r.t.expMax
    /\ ok /\ InUse => r.t.vts = Height[m] + v
    /\ ok /\ InUse /\ w.t.hwExposure = w.t.exposure => r.t.hwExposure = r.t.exposure

\* So the handler does what is written above.
LEMMA SetVblankOp ==
    ASSUME NEW w \in Work, w.t.vblank >= VblankMin, NEW m \in Modes, NEW v \in Nat, v >= VblankMin,
           NEW ok \in BOOLEAN
    PROVE  VblankSet(w, m, v, ok, SetVblankCtrl(w, m, v, ok))
  <1> DEFINE max == Height[m] + v - 4
             r == ModifyExposureRange(w, max, ok)
             s == IF ~InUse THEN [r.t EXCEPT !.vblank = v]
                  ELSE IF ok THEN [r.t EXCEPT !.vblank = v, !.vts = Height[m] + v]
                  ELSE r.t
  <1>1. max \in Nat /\ max >= ExposureMin /\ Height[m] + v \in Nat
    BY ModeFacts
  <1> HIDE DEF max
  <1>2. ExposureModified(w, max, ok, r)
    BY <1>1, ModifyExposure
  <1> HIDE DEF r
  <1>3. r.t \in Timing /\ r.n + 1 \in Nat
    BY <1>2 DEF ExposureModified, Work
  <1>4. SetVblankCtrl(w, m, v, ok) = [n |-> r.n + 1, t |-> s]
    BY DEF SetVblankCtrl, r, max
  <1>5. /\ s \in Timing
        /\ s.vblank = v \/ s.vblank = w.t.vblank
        /\ s.hblank = w.t.hblank /\ s.expMax = max /\ s.exposure = r.t.exposure
        /\ s.hwExposure = r.t.hwExposure
    BY <1>1, <1>2, <1>3 DEF ExposureModified, Timing
  <1>6. /\ ok \/ ~InUse => s.vblank = v
        /\ ok /\ InUse => s.vts = Height[m] + v
    BY <1>3 DEF Timing
  <1> HIDE DEF s
  <1>7. [n |-> r.n + 1, t |-> s] \in Work
    BY <1>3, <1>5 DEF Work
  <1> QED BY <1>2, <1>4, <1>5, <1>6, <1>7 DEF max, ExposureModified, VblankSet

\* Timing controls that fit together in mode m.
TimingFits(t, m) ==
    /\ t.exposure \in ExposureMin..t.expMax
    /\ t.expMax = Height[m] + t.vblank - 4
    /\ t.vblank \in VblankMin..(VtsMax - Height[m])
    /\ t.hblank = Ppl - Width[m]

\* A timing record the driver can hold, writes that failed included.
TimingOK(t) == t \in Timing /\ t.vblank >= VblankMin

\* The control updates of imx219_set_pad_format leave a well-formed record and,
\* with the sensor off, controls that fit the new mode whatever they were before.
LEMMA SetModeOp ==
    ASSUME TimingOK(tim), NEW m \in Modes, NEW ok \in BOOLEAN
    PROVE  LET r == SetModeCtrls(m, ok) IN
           /\ r.t \in Timing /\ r.n \in Nat /\ TimingOK(r.t)
           /\ ~InUse => TimingFits(r.t, m)
  <1> DEFINE w0 == [t |-> tim, n |-> 0]
             vb == Clamp(tim.vblank, VblankMin, VtsMax - Height[m])
             w1 == IF vb = tim.vblank THEN w0 ELSE SetVblankCtrl(w0, m, vb, ok)
             vd == VtsDef[m] - Height[m]
             w2 == IF vd = w1.t.vblank THEN w1 ELSE SetVblankCtrl(w1, m, vd, ok)
             w3 == ModifyExposureRange(w2, VtsDef[m] - 4, ok)
             h == Ppl - Width[m]
             r == ModifyHblankRange(w3, h)
  <1>1. w0 \in Work /\ w0.t.vblank >= VblankMin /\ tim.vblank \in Nat
    BY DEF Work, TimingOK, Timing
  <1>2. vb \in Nat /\ vb >= VblankMin
    <2>1. /\ tim.vblank \in Int /\ VblankMin \in Int /\ VtsMax - Height[m] \in Int
          /\ VblankMin <= VtsMax - Height[m] /\ VblankMin \in Nat
      BY <1>1, ModeFacts, LimitsAssumption
    <2>2. vb \in VblankMin..(VtsMax - Height[m])
      BY <2>1, ClampRange
    <2> QED BY <2>1, <2>2
  <1> HIDE DEF vb, w0
  <1>3. w1 \in Work /\ w1.t.vblank >= VblankMin
    <2>1. CASE vb = tim.vblank
      BY <1>1, <2>1
    <2>2. CASE vb # tim.vblank
      <3>1. VblankSet(w0, m, vb, ok, SetVblankCtrl(w0, m, vb, ok))
        BY <1>1, <1>2, SetVblankOp
      <3> QED BY <2>2, <3>1 DEF VblankSet
    <2> QED BY <2>1, <2>2
  <1>4. vd \in Nat /\ vd >= VblankMin /\ vd <= VtsMax - Height[m] /\ VtsDef[m] - 4 = Height[m] + vd - 4
        /\ VtsDef[m] - 4 \in Nat /\ VtsDef[m] - 4 >= ExposureMin /\ h \in Nat
    BY ModeFacts, LimitsAssumption
  <1> HIDE DEF w1, vd, h
  <1>5. w2 \in Work /\ w2.t.vblank >= VblankMin /\ (~InUse => w2.t.vblank = vd)
    <2>1. CASE vd = w1.t.vblank
      BY <1>3, <2>1
    <2>2. CASE vd # w1.t.vblank
      <3>1. VblankSet(w1, m, vd, ok, SetVblankCtrl(w1, m, vd, ok))
        BY <1>3, <1>4, SetVblankOp
      <3> QED BY <2>2, <3>1 DEF VblankSet
    <2> QED BY <2>1, <2>2
  <1> HIDE DEF w2
  <1>6. ExposureModified(w2, VtsDef[m] - 4, ok, w3)
    BY <1>4, <1>5, ModifyExposure
  <1> HIDE DEF w3
  <1>7. w3 \in Work /\ w3.t.vblank >= VblankMin
        /\ (~InUse => /\ w3.t.vblank = vd /\ w3.t.expMax = VtsDef[m] - 4
                      /\ w3.t.exposure \in ExposureMin..w3.t.expMax)
    BY <1>5, <1>6 DEF ExposureModified
  <1>8. w3.t \in Timing /\ w3.n \in Nat
    BY <1>7 DEF Work
  <1>9. /\ r.t \in Timing /\ r.n \in Nat
        /\ r.t.vblank = w3.t.vblank /\ r.t.expMax = w3.t.expMax /\ r.t.exposure = w3.t.exposure
        /\ ~InUse => r.t.hblank = h
    <2>1. CASE w3.t.hblank = h
      BY <1>8, <2>1 DEF ModifyHblankRange
    <2>2. CASE w3.t.hblank # h
      <3>1. r = [n |-> w3.n + 1, t |-> IF InUse THEN w3.t ELSE [w3.t EXCEPT !.hblank = h]]
        BY <2>2 DEF ModifyHblankRange
      <3> QED BY <1>4, <1>8, <3>1 DEF Timing
    <2> QED BY <2>1, <2>2
  <1>10. SetModeCtrls(m, ok) = r
    BY DEF SetModeCtrls, w0, vb, w1, vd, w2, w3, h
  <1> HIDE DEF r
  <1>11. TimingOK(r.t)
    BY <1>7, <1>9 DEF TimingOK
  <1>12. ~InUse => TimingFits(r.t, m)
    BY <1>4, <1>7, <1>9, LimitsAssumption DEF TimingFits, vd, h
  <1> QED BY <1>9, <1>10, <1>11, <1>12

\* Replaying the controls keeps the blanking, and a set of controls that fit
\* still fit; a sensor in use then holds the reported frame length and exposure.
LEMMA ReplayOp ==
    ASSUME TimingOK(tim), mode \in Modes
    PROVE  /\ TimingOK(ReplayCtrls)
           /\ TimingFits(tim, mode) => TimingFits(ReplayCtrls, mode)
           /\ InUse => /\ ReplayCtrls.vts = Height[mode] + ReplayCtrls.vblank
                       /\ ReplayCtrls.hwExposure = ReplayCtrls.exposure
  <1> DEFINE w0 == [t |-> tim, n |-> 0]
             w == SetVblankCtrl(w0, mode, tim.vblank, TRUE)
  <1>1. w0 \in Work /\ w0.t = tim /\ tim.vblank \in Nat /\ tim.vblank >= VblankMin
    BY DEF Work, TimingOK, Timing
  <1> HIDE DEF w0
  <1>2. VblankSet(w0, mode, tim.vblank, TRUE, w)
    BY <1>1, SetVblankOp
  <1> HIDE DEF w
  <1>3. /\ w.t \in Timing /\ w.t.vblank = tim.vblank /\ w.t.hblank = tim.hblank
        /\ w.t.expMax = Height[mode] + tim.vblank - 4
        /\ w.t.exposure \in ExposureMin..w.t.expMax
        /\ InUse => w.t.vts = Height[mode] + tim.vblank
    BY <1>1, <1>2 DEF VblankSet, Work
  <1>4. ReplayCtrls = IF InUse THEN [w.t EXCEPT !.hwExposure = w.t.exposure] ELSE w.t
    BY DEF ReplayCtrls, w, w0
  <1>5. /\ ReplayCtrls \in Timing /\ ReplayCtrls.vblank = tim.vblank
        /\ ReplayCtrls.hblank = tim.hblank /\ ReplayCtrls.expMax = w.t.expMax
        /\ ReplayCtrls.exposure = w.t.exposure
        /\ InUse => /\ ReplayCtrls.vts = w.t.vts
                    /\ ReplayCtrls.hwExposure = w.t.exposure
    BY <1>3, <1>4 DEF Timing
  <1> QED BY <1>1, <1>3, <1>5 DEF TimingOK, TimingFits

-----------------------------------------------------------------------------
\* TypeOK in parts, for the two provers: the Boolean variables, counts and
\* positions, and orientations.  The timing record has TimingOK, the clock
\* count follows from PowerInv.
Flags ==
    /\ pmError \in BOOLEAN /\ request \in BOOLEAN /\ asleep \in BOOLEAN /\ lock \in BOOLEAN
    /\ streaming \in BOOLEAN /\ grabbed \in BOOLEAN /\ powered \in BOOLEAN /\ hwStream \in BOOLEAN

Positions ==
    /\ usage \in Int
    /\ status \in RpmStatus
    /\ phase \in {"unbound", "probing", "bound"}
    /\ spc \in {"idle", "rpm_resume", "resume_cb", "resume_ok", "resume_err", "put_noidle", "start"}
    /\ wpc \in {"idle", "suspend_cb", "suspend_ok"}
    /\ mode \in Modes
    /\ hwMode \in Modes \cup {Reset}

Images ==
    /\ code \in [depth : Depths, flip : Orientation]
    /\ flip \in Orientation /\ flipVal \in Orientation /\ hwFlip \in Orientation
    /\ hwDepth \in Depths \cup {Reset}

\* What is inductive about the types: the clock count stays a natural number
\* only because the driver gives back what it took, and the exposure range only
\* because the blanking never falls below its minimum.
TypeInv == Flags /\ Positions /\ Images /\ TimingOK(tim) /\ PowerInv

\* The inductive type invariant gives the one of the module.
LEMMA TypeInvOK == TypeInv => TypeOK
  <1> SUFFICES ASSUME TypeInv PROVE TypeOK
    OBVIOUS
  <1>1. clk \in Nat
    BY EnvironmentAssumption DEF TypeInv, PowerInv
  <1> QED BY <1>1 DEF TypeInv, TypeOK, RpmTypeOK, Flags, Positions, Images, TimingOK, Timing

\* The orientation of a sensor whose flips are off.
LEMMA NoFlipType == NoFlip \in Orientation
  BY Zenon DEF NoFlip, Orientation

\* The timing the controls are created with fits the default mode.
LEMMA InitTimingOK == TimingOK(InitTiming) /\ TimingFits(InitTiming, DefaultMode)
  <1> DEFINE x == Clamp(ExposureDefault, ExposureMin, VtsDef[DefaultMode] - 4)
  <1>1. /\ VtsDef[DefaultMode] - Height[DefaultMode] \in VblankMin..(VtsMax - Height[DefaultMode])
        /\ VtsDef[DefaultMode] - 4 \in Nat /\ VtsDef[DefaultMode] - 4 >= ExposureMin
        /\ Ppl - Width[DefaultMode] \in Nat
        /\ Height[DefaultMode] \in Nat /\ VtsDef[DefaultMode] \in Nat
    BY ModesAssumption, ModeFacts
  <1>2. x \in ExposureMin..(VtsDef[DefaultMode] - 4)
    BY <1>1, LimitsAssumption DEF Clamp
  <1> HIDE DEF x
  <1>3. InitTiming = [vblank |-> VtsDef[DefaultMode] - Height[DefaultMode], exposure |-> x,
                      expMax |-> VtsDef[DefaultMode] - 4, hblank |-> Ppl - Width[DefaultMode],
                      vts |-> 0, hwExposure |-> 0]
    BY DEF InitTiming, x
  <1> QED BY <1>1, <1>2, <1>3, LimitsAssumption DEF TimingOK, TimingFits, Timing

\* Before imx219_probe everything is well typed and unpowered.
LEMMA TypeInit == Init => TypeInv
  <1> SUFFICES ASSUME Init PROVE TypeInv
    OBVIOUS
  <1>1. Flags
    BY Zenon DEF Init, Flags
  <1>2. Positions
    BY ModesAssumption DEF Init, Positions, RpmStatus
  <1>3. Images
    BY NoFlipType, ModesAssumption DEF Init, Images
  <1>4. TimingOK(tim)
    BY InitTimingOK DEF Init
  <1>5. PowerInv
    BY EnvironmentAssumption DEF Init, PowerInv
  <1> QED BY <1>1, <1>2, <1>3, <1>4, <1>5 DEF TypeInv

\* Every step keeps the flags Boolean.
LEMMA FlagsStep == Flags /\ [Next]_vars => Flags'
  <1> SUFFICES ASSUME Flags, [Next]_vars PROVE Flags'
    OBVIOUS
  <1> USE DEF Flags, pmVars, threadVars, stateVars, hwVars, powerVars, CallerVars
  <1>1. CASE Probe
    BY <1>1, Zenon DEF Probe
  <1>2. CASE ProbeDone
    BY <1>2, Zenon DEF ProbeDone
  <1>3. CASE Remove
    BY <1>3, Zenon DEF Remove, RegistersReset
  <1>4. CASE StreamOn
    BY <1>4, Zenon DEF StreamOn, MutexFree
  <1>5. CASE GetSync
    BY <1>5, Zenon DEF GetSync, RpmReady, RpmBeginResume
  <1>6. CASE PowerOn
    BY <1>6, Zenon DEF PowerOn
  <1>7. CASE ResumeDone
    BY <1>7, Zenon DEF ResumeDone, RpmEndResume
  <1>8. CASE PutNoidle
    BY <1>8, Zenon DEF PutNoidle, RpmPutNoidle
  <1>9. CASE StreamOnDone
    BY <1>9, Zenon DEF StreamOnDone, RpmPut, StartStreaming, StartStreamingFails
  <1>10. CASE StreamOff
    BY <1>10, Zenon DEF StreamOff, RpmPut, StopStreaming, MutexFree
  <1>11. CASE ServeIdle
    BY <1>11, Zenon DEF ServeIdle, RpmBeginSuspend, SuspendAllowed
  <1>12. CASE PowerOff
    BY <1>12, Zenon DEF PowerOff, RegistersReset
  <1>13. CASE SuspendDone
    BY <1>13, Zenon DEF SuspendDone, RpmEndSuspend
  <1>14. CASE SystemSuspend
    BY <1>14, Zenon DEF SystemSuspend, StopStreaming
  <1>15. CASE SystemResume
    BY <1>15, Zenon DEF SystemResume, RpmPut, StartStreaming, StartStreamingFails, StopStreaming
  <1>16. ASSUME NEW m \in Modes, NEW d \in Depths, SetPadFormat(m, d) PROVE Flags'
    BY <1>16, Zenon DEF SetPadFormat, PutAfterCtrl, MutexFree
  <1>17. ASSUME NEW v \in VblankMin..(VtsMax - Height[mode]), SetVblank(v) PROVE Flags'
    BY <1>17, Zenon DEF SetVblank, PutAfterCtrl, MutexFree
  <1>18. ASSUME NEW x \in ExposureMin..tim.expMax, SetExposure(x) PROVE Flags'
    BY <1>18, Zenon DEF SetExposure, PutAfterCtrl, MutexFree
  <1>19. ASSUME NEW c \in FlipCtrls, NEW b \in BOOLEAN, SetFlip(c, b) PROVE Flags'
    BY <1>19, Zenon DEF SetFlip, PutAfterCtrl, MutexFree
  <1>20. CASE UNCHANGED vars
    BY <1>20, Zenon DEF vars
  <1> QED
    BY <1>1, <1>2, <1>3, <1>4, <1>5, <1>6, <1>7, <1>8, <1>9, <1>10, <1>11, <1>12, <1>13, <1>14, <1>15, <1>16, <1>17, <1>18, <1>19, <1>20 DEF Next, ThreadStep, WorkerStep

\* A caller's s_ctrl calls change the usage count by an integer.
LEMMA CtrlUsage ==
    ASSUME TimingOK(tim), mode \in Modes, usage \in Int, Next
    PROVE  /\ \A m \in Modes, d \in Depths : SetPadFormat(m, d) => usage' \in Int
           /\ \A v \in VblankMin..(VtsMax - Height[mode]) : SetVblank(v) => usage' \in Int
  <1>1. ASSUME NEW m \in Modes, NEW d \in Depths, SetPadFormat(m, d) PROVE usage' \in Int
    <2>1. PICK ok \in BOOLEAN : PutAfterCtrl(SetModeCtrls(m, ok).n)
      BY <1>1 DEF SetPadFormat, IoResults
    <2>2. SetModeCtrls(m, ok).n \in Nat
      BY SetModeOp
    <2> QED BY <2>1, <2>2 DEF PutAfterCtrl
  <1>2. ASSUME NEW v \in VblankMin..(VtsMax - Height[mode]), SetVblank(v) PROVE usage' \in Int
    <2> DEFINE w0 == [t |-> tim, n |-> 0]
    <2>1. PICK ok \in BOOLEAN : PutAfterCtrl(SetVblankCtrl(w0, mode, v, ok).n)
      BY <1>2 DEF SetVblank, IoResults
    <2>2. w0 \in Work /\ w0.t.vblank >= VblankMin /\ v \in Nat /\ v >= VblankMin
      BY LimitsAssumption DEF Work, TimingOK
    <2> HIDE DEF w0
    <2>3. VblankSet(w0, mode, v, ok, SetVblankCtrl(w0, mode, v, ok))
      BY <2>2, SetVblankOp
    <2> QED BY <2>1, <2>3 DEF PutAfterCtrl, VblankSet, Work
  <1> QED BY <1>1, <1>2

\* Every step keeps counts, positions and modes well typed.
LEMMA PositionsStep == TimingOK(tim) /\ Flags /\ Positions /\ [Next]_vars => Positions'
  <1> SUFFICES ASSUME TimingOK(tim), Flags, Positions, [Next]_vars PROVE Positions'
    OBVIOUS
  <1> USE DEF Positions, RpmStatus, pmVars, threadVars, stateVars, hwVars, powerVars, CallerVars
  <1>1. CASE Probe
    BY <1>1, ModesAssumption DEF Probe
  <1>2. CASE ProbeDone
    BY <1>2 DEF ProbeDone
  <1>3. CASE Remove
    BY <1>3 DEF Remove, RegistersReset
  <1>4. CASE StreamOn
    BY <1>4 DEF StreamOn, MutexFree
  <1>5. CASE GetSync
    BY <1>5 DEF GetSync, RpmReady, RpmBeginResume
  <1>6. CASE PowerOn
    BY <1>6 DEF PowerOn
  <1>7. CASE ResumeDone
    BY <1>7 DEF ResumeDone, RpmEndResume
  <1>8. CASE PutNoidle
    BY <1>8 DEF PutNoidle, RpmPutNoidle
  <1>9. CASE StreamOnDone
    <2>1. usage' \in Int /\ UNCHANGED status
      BY <1>9 DEF StreamOnDone, RpmPut
    <2>2. hwMode' \in {hwMode, mode}
      BY <1>9 DEF StreamOnDone, StartStreaming, StartStreamingFails
    <2> QED BY <1>9, <2>1, <2>2 DEF StreamOnDone
  <1>10. CASE StreamOff
    BY <1>10 DEF StreamOff, RpmPut, StopStreaming, MutexFree
  <1>11. CASE ServeIdle
    BY <1>11 DEF ServeIdle, RpmBeginSuspend, SuspendAllowed
  <1>12. CASE PowerOff
    BY <1>12 DEF PowerOff, RegistersReset
  <1>13. CASE SuspendDone
    BY <1>13 DEF SuspendDone, RpmEndSuspend
  <1>14. CASE SystemSuspend
    BY <1>14 DEF SystemSuspend, StopStreaming
  <1>15. CASE SystemResume
    <2>1. usage' \in Int /\ UNCHANGED status
      BY <1>15 DEF SystemResume, RpmPut
    <2>2. hwMode' \in {hwMode, mode}
      BY <1>15 DEF SystemResume, StartStreaming, StartStreamingFails
    <2> QED BY <1>15, <2>1, <2>2 DEF SystemResume
  <1>16. ASSUME NEW m \in Modes, NEW d \in Depths, SetPadFormat(m, d) PROVE Positions'
    <2>1. usage' \in Int
      BY <1>16, CtrlUsage DEF Next
    <2> QED BY <1>16, <2>1 DEF SetPadFormat, PutAfterCtrl
  <1>17. ASSUME NEW v \in VblankMin..(VtsMax - Height[mode]), SetVblank(v) PROVE Positions'
    <2>1. usage' \in Int
      BY <1>17, CtrlUsage DEF Next
    <2> QED BY <1>17, <2>1 DEF SetVblank, PutAfterCtrl
  <1>18. ASSUME NEW x \in ExposureMin..tim.expMax, SetExposure(x) PROVE Positions'
    BY <1>18 DEF SetExposure, PutAfterCtrl, MutexFree
  <1>19. ASSUME NEW c \in FlipCtrls, NEW b \in BOOLEAN, SetFlip(c, b) PROVE Positions'
    <2>1. (usage' = usage \/ usage' = usage - 1) /\ status' = status
      BY <1>19, Zenon DEF SetFlip, PutAfterCtrl
    <2>2. UNCHANGED <<phase, spc, wpc, mode, hwMode>>
      BY <1>19, Zenon DEF SetFlip
    <2> QED BY <2>1, <2>2
  <1>20. CASE UNCHANGED vars
    BY <1>20 DEF vars
  <1> QED
    BY <1>1, <1>2, <1>3, <1>4, <1>5, <1>6, <1>7, <1>8, <1>9, <1>10, <1>11, <1>12, <1>13, <1>14, <1>15, <1>16, <1>17, <1>18, <1>19, <1>20 DEF Next, ThreadStep, WorkerStep

\* Every step keeps codes, flips and depths well typed.
LEMMA ImagesStep == Images /\ [Next]_vars => Images'
  <1> SUFFICES ASSUME Images, [Next]_vars PROVE Images'
    OBVIOUS
  <1> USE DEF Images, pmVars, threadVars, stateVars, hwVars, powerVars, CallerVars
  <1>1. CASE Probe
    BY <1>1, NoFlipType, ModesAssumption DEF Probe
  <1>2. CASE ProbeDone
    BY <1>2 DEF ProbeDone
  <1>3. CASE Remove
    BY <1>3, NoFlipType DEF Remove, RegistersReset
  <1>4. CASE StreamOn
    BY <1>4 DEF StreamOn, MutexFree
  <1>5. CASE GetSync
    BY <1>5 DEF GetSync, RpmReady, RpmBeginResume
  <1>6. CASE PowerOn
    BY <1>6 DEF PowerOn
  <1>7. CASE ResumeDone
    BY <1>7 DEF ResumeDone, RpmEndResume
  <1>8. CASE PutNoidle
    BY <1>8 DEF PutNoidle, RpmPutNoidle
  <1>9. CASE StreamOnDone
    BY <1>9 DEF StreamOnDone, RpmPut, StartStreaming, StartStreamingFails
  <1>10. CASE StreamOff
    BY <1>10 DEF StreamOff, RpmPut, StopStreaming, MutexFree
  <1>11. CASE ServeIdle
    BY <1>11 DEF ServeIdle, RpmBeginSuspend, SuspendAllowed
  <1>12. CASE PowerOff
    BY <1>12, NoFlipType DEF PowerOff, RegistersReset
  <1>13. CASE SuspendDone
    BY <1>13 DEF SuspendDone, RpmEndSuspend
  <1>14. CASE SystemSuspend
    BY <1>14 DEF SystemSuspend, StopStreaming
  <1>15. CASE SystemResume
    BY <1>15 DEF SystemResume, RpmPut, StartStreaming, StartStreamingFails, StopStreaming
  <1>16. ASSUME NEW m \in Modes, NEW d \in Depths, SetPadFormat(m, d) PROVE Images'
    BY <1>16 DEF SetPadFormat, GetFormatCode
  <1>17. ASSUME NEW v \in VblankMin..(VtsMax - Height[mode]), SetVblank(v) PROVE Images'
    BY <1>17 DEF SetVblank, PutAfterCtrl, MutexFree
  <1>18. ASSUME NEW x \in ExposureMin..tim.expMax, SetExposure(x) PROVE Images'
    BY <1>18 DEF SetExposure, PutAfterCtrl, MutexFree
  <1>19. ASSUME NEW c \in FlipCtrls, NEW b \in BOOLEAN, SetFlip(c, b) PROVE Images'
    BY <1>19 DEF SetFlip, Orientation
  <1>20. CASE UNCHANGED vars
    BY <1>20 DEF vars
  <1> QED
    BY <1>1, <1>2, <1>3, <1>4, <1>5, <1>6, <1>7, <1>8, <1>9, <1>10, <1>11, <1>12, <1>13, <1>14, <1>15, <1>16, <1>17, <1>18, <1>19, <1>20 DEF Next, ThreadStep, WorkerStep

\* Every step keeps the blanking at or above its minimum and the rest natural.
LEMMA TimingStep == Positions /\ TimingOK(tim) /\ [Next]_vars => TimingOK(tim')
  <1> SUFFICES ASSUME Positions, TimingOK(tim), [Next]_vars PROVE TimingOK(tim')
    OBVIOUS
  <1> USE DEF pmVars, threadVars, stateVars, hwVars, powerVars, CallerVars
  <1>0. TimingOK(TimingReset(tim)) /\ TimingOK(ReplayCtrls) /\ mode \in Modes
    BY ReplayOp DEF TimingOK, TimingReset, Timing, Positions
  <1>1. CASE Probe
    BY <1>1, InitTimingOK DEF Probe
  <1>2. CASE ProbeDone
    BY <1>2 DEF ProbeDone
  <1>3. CASE Remove
    BY <1>3, <1>0 DEF Remove
  <1>4. CASE StreamOn
    BY <1>4 DEF StreamOn
  <1>5. CASE GetSync
    BY <1>5 DEF GetSync
  <1>6. CASE PowerOn
    BY <1>6 DEF PowerOn
  <1>7. CASE ResumeDone
    BY <1>7 DEF ResumeDone
  <1>8. CASE PutNoidle
    BY <1>8 DEF PutNoidle
  <1>9. CASE StreamOnDone
    BY <1>9, <1>0 DEF StreamOnDone, StartStreaming, StartStreamingFails
  <1>10. CASE StreamOff
    BY <1>10 DEF StreamOff
  <1>11. CASE ServeIdle
    BY <1>11 DEF ServeIdle
  <1>12. CASE PowerOff
    BY <1>12, <1>0 DEF PowerOff
  <1>13. CASE SuspendDone
    BY <1>13 DEF SuspendDone
  <1>14. CASE SystemSuspend
    BY <1>14 DEF SystemSuspend
  <1>15. CASE SystemResume
    BY <1>15, <1>0 DEF SystemResume, StartStreaming, StartStreamingFails
  <1>16. ASSUME NEW m \in Modes, NEW d \in Depths, SetPadFormat(m, d) PROVE TimingOK(tim')
    <2>1. PICK ok \in BOOLEAN : tim' = SetModeCtrls(m, ok).t
      BY <1>16 DEF SetPadFormat, IoResults
    <2> QED BY <2>1, SetModeOp
  <1>17. ASSUME NEW v \in VblankMin..(VtsMax - Height[mode]), SetVblank(v) PROVE TimingOK(tim')
    <2> DEFINE w0 == [t |-> tim, n |-> 0]
    <2>1. PICK ok \in BOOLEAN : tim' = SetVblankCtrl(w0, mode, v, ok).t
      BY <1>17 DEF SetVblank, IoResults
    <2>2. w0 \in Work /\ w0.t.vblank >= VblankMin /\ v \in Nat /\ v >= VblankMin
      BY LimitsAssumption DEF Work, TimingOK
    <2> HIDE DEF w0
    <2>3. VblankSet(w0, mode, v, ok, SetVblankCtrl(w0, mode, v, ok))
      BY <1>0, <2>2, SetVblankOp
    <2> QED BY <2>1, <2>3 DEF VblankSet, Work, TimingOK
  <1>18. ASSUME NEW x \in ExposureMin..tim.expMax, SetExposure(x) PROVE TimingOK(tim')
    <2>1. x \in Nat
      BY LimitsAssumption DEF TimingOK, Timing
    <2> QED BY <1>18, <2>1 DEF SetExposure, TimingOK, Timing
  <1>19. ASSUME NEW c \in FlipCtrls, NEW b \in BOOLEAN, SetFlip(c, b) PROVE TimingOK(tim')
    BY <1>19 DEF SetFlip
  <1>20. CASE UNCHANGED vars
    BY <1>20 DEF vars
  <1> QED
    BY <1>1, <1>2, <1>3, <1>4, <1>5, <1>6, <1>7, <1>8, <1>9, <1>10, <1>11, <1>12, <1>13, <1>14, <1>15, <1>16, <1>17, <1>18, <1>19, <1>20 DEF Next, ThreadStep, WorkerStep

\* Every step keeps phase, status, program counters and supplies in step.
LEMMA PowerStep == Flags /\ Positions /\ PowerInv /\ [Next]_vars => PowerInv'
  <1> SUFFICES ASSUME Flags, Positions, PowerInv, [Next]_vars PROVE PowerInv'
    OBVIOUS
  <1> USE EnvironmentAssumption DEF Flags, Positions, RpmStatus, PowerInv, pmVars, threadVars, stateVars, hwVars, powerVars, CallerVars
  <1>1. CASE Probe
    BY <1>1 DEF Probe
  <1>2. CASE ProbeDone
    BY <1>2 DEF ProbeDone
  <1>3. CASE Remove
    BY <1>3 DEF Remove
  <1>4. CASE StreamOn
    BY <1>4 DEF StreamOn, MutexFree
  <1>5. CASE GetSync
    BY <1>5 DEF GetSync, RpmReady, RpmBeginResume
  <1>6. CASE PowerOn
    BY <1>6 DEF PowerOn
  <1>7. CASE ResumeDone
    BY <1>7 DEF ResumeDone, RpmEndResume
  <1>8. CASE PutNoidle
    BY <1>8 DEF PutNoidle, RpmPutNoidle
  <1>9. CASE StreamOnDone
    BY <1>9 DEF StreamOnDone, RpmPut
  <1>10. CASE StreamOff
    BY <1>10 DEF StreamOff, RpmPut
  <1>11. CASE ServeIdle
    BY <1>11 DEF ServeIdle, RpmBeginSuspend, SuspendAllowed
  <1>12. CASE PowerOff
    BY <1>12 DEF PowerOff
  <1>13. CASE SuspendDone
    BY <1>13 DEF SuspendDone, RpmEndSuspend
  <1>14. CASE SystemSuspend
    BY <1>14 DEF SystemSuspend
  <1>15. CASE SystemResume
    BY <1>15 DEF SystemResume, RpmPut
  <1>16. ASSUME NEW m \in Modes, NEW d \in Depths, SetPadFormat(m, d) PROVE PowerInv'
    BY <1>16 DEF SetPadFormat, PutAfterCtrl
  <1>17. ASSUME NEW v \in VblankMin..(VtsMax - Height[mode]), SetVblank(v) PROVE PowerInv'
    BY <1>17 DEF SetVblank, PutAfterCtrl
  <1>18. ASSUME NEW x \in ExposureMin..tim.expMax, SetExposure(x) PROVE PowerInv'
    BY <1>18 DEF SetExposure, PutAfterCtrl
  <1>19. ASSUME NEW c \in FlipCtrls, NEW b \in BOOLEAN, SetFlip(c, b) PROVE PowerInv'
    BY <1>19 DEF SetFlip, PutAfterCtrl
  <1>20. CASE UNCHANGED vars
    BY <1>20 DEF vars
  <1> QED
    BY <1>1, <1>2, <1>3, <1>4, <1>5, <1>6, <1>7, <1>8, <1>9, <1>10, <1>11, <1>12, <1>13, <1>14, <1>15, <1>16, <1>17, <1>18, <1>19, <1>20 DEF Next, ThreadStep, WorkerStep

\* The inductive type invariant holds in every state.
LEMMA TypeInvariant == Spec => []TypeInv
  <1>1. TypeInv /\ [Next]_vars => TypeInv'
    BY FlagsStep, PositionsStep, ImagesStep, TimingStep, PowerStep DEF TypeInv
  <1> QED BY TypeInit, <1>1, PTL DEF Spec

\* Every state of the driver has its type, also with callers that arrive before
\* runtime PM is enabled: the usage count is an integer, the clock count and the
\* upper end of the exposure range never go below zero.
THEOREM TypeCorrect == Spec => []TypeOK
  BY TypeInvariant, TypeInvOK, PTL

\* From probe to remove, under every fault and for callers of every kind,
\* status and supplies agree and the shared clock carries exactly the
\* driver's own reference.
THEOREM PowerBalanced == Spec => []PowerAccounted
  <1>1. TypeInv => PowerAccounted
    BY DEF TypeInv, PowerInv, PowerAccounted
  <1> QED BY <1>1, TypeInvariant, PTL

-----------------------------------------------------------------------------
\* When calls arrive only after probe, every step of a caller, the worker and
\* the system sleep code keeps the references that are held.
LEMMA RefStep == ~ProbeCallers /\ TypeInv /\ RefInv /\ [Next]_vars => RefInv'
  <1> SUFFICES ASSUME ~ProbeCallers, Flags, Positions, PowerInv, RefInv, [Next]_vars PROVE RefInv'
    BY DEF TypeInv
  <1> USE DEF Flags, Positions, RpmStatus, PowerInv, RefInv, pmVars, threadVars, stateVars, hwVars, powerVars, CallerVars
  <1>1. CASE Probe
    BY <1>1 DEF Probe
  <1>2. CASE ProbeDone
    BY <1>2 DEF ProbeDone
  <1>3. CASE Remove
    BY <1>3 DEF Remove
  <1>4. CASE StreamOn
    BY <1>4 DEF StreamOn, MutexFree
  <1>5. CASE GetSync
    BY <1>5 DEF GetSync, RpmReady, RpmBeginResume
  <1>6. CASE PowerOn
    BY <1>6 DEF PowerOn
  <1>7. CASE ResumeDone
    BY <1>7 DEF ResumeDone, RpmEndResume
  <1>8. CASE PutNoidle
    BY <1>8 DEF PutNoidle, RpmPutNoidle
  <1>9. CASE StreamOnDone
    BY <1>9 DEF StreamOnDone, RpmPut
  <1>10. CASE StreamOff
    BY <1>10 DEF StreamOff, RpmPut, MutexFree
  <1>11. CASE ServeIdle
    BY <1>11 DEF ServeIdle, RpmBeginSuspend, SuspendAllowed
  <1>12. CASE PowerOff
    BY <1>12 DEF PowerOff
  <1>13. CASE SuspendDone
    BY <1>13 DEF SuspendDone, RpmEndSuspend
  <1>14. CASE SystemSuspend
    BY <1>14 DEF SystemSuspend
  <1>15. CASE SystemResume
    BY <1>15 DEF SystemResume, RpmPut
  <1>16. ASSUME NEW m \in Modes, NEW d \in Depths, SetPadFormat(m, d) PROVE RefInv'
    BY <1>16 DEF SetPadFormat, PutAfterCtrl, MutexFree
  <1>17. ASSUME NEW v \in VblankMin..(VtsMax - Height[mode]), SetVblank(v) PROVE RefInv'
    BY <1>17 DEF SetVblank, PutAfterCtrl, MutexFree
  <1>18. ASSUME NEW x \in ExposureMin..tim.expMax, SetExposure(x) PROVE RefInv'
    BY <1>18 DEF SetExposure, PutAfterCtrl, MutexFree
  <1>19. ASSUME NEW c \in FlipCtrls, NEW b \in BOOLEAN, SetFlip(c, b) PROVE RefInv'
    <2>1. UNCHANGED <<usage, status>>
      BY <1>19, Zenon DEF SetFlip, PutAfterCtrl, MutexFree
    <2> QED BY <1>19, <2>1 DEF SetFlip
  <1>20. CASE UNCHANGED vars
    BY <1>20 DEF vars
  <1> QED
    BY <1>1, <1>2, <1>3, <1>4, <1>5, <1>6, <1>7, <1>8, <1>9, <1>10, <1>11, <1>12, <1>13, <1>14, <1>15, <1>16, <1>17, <1>18, <1>19, <1>20 DEF Next, ThreadStep, WorkerStep

\* When calls arrive only after probe, the references are held in every state.
LEMMA RefInvariant == ASSUME ~ProbeCallers PROVE Spec => [](TypeInv /\ RefInv)
  <1>1. Init => RefInv
    BY DEF Init, RefInv
  <1>2. ~ProbeCallers
    OBVIOUS
  <1>3. TypeInv /\ RefInv /\ [Next]_vars => RefInv'
    BY <1>2, RefStep
  <1> QED BY <1>1, <1>3, TypeInvariant, PTL DEF Spec

\* When calls arrive only after probe, a sensor marked streaming has a
\* reference, an active device and its supplies: across failed starts, system
\* sleep with a failed restart, formats set and drivers unbound in the middle of
\* a stream.
THEOREM StreamSafety == ASSUME ~ProbeCallers PROVE Spec => []StreamHoldsPower
  <1>1. TypeInv /\ RefInv => StreamHoldsPower
    BY DEF TypeInv, Positions, Flags, PowerInv, RefInv, StreamHoldsPower
  <1> QED BY <1>1, RefInvariant, PTL

-----------------------------------------------------------------------------
\* A start with the reference held writes the committed flips.
LEMMA FlipStep == TypeInv /\ RefInv /\ FlipInv /\ [Next]_vars => FlipInv'
  <1> SUFFICES ASSUME Flags, Positions, PowerInv, RefInv, FlipInv, [Next]_vars PROVE FlipInv'
    BY DEF TypeInv
  <1> USE DEF FlipInv, pmVars, threadVars, stateVars, hwVars, powerVars, CallerVars
  <1>1. CASE Probe
    BY <1>1 DEF Probe
  <1>2. CASE ProbeDone
    BY <1>2 DEF ProbeDone
  <1>3. CASE Remove
    BY <1>3 DEF Remove
  <1>4. CASE StreamOn
    BY <1>4 DEF StreamOn
  <1>5. CASE GetSync
    BY <1>5 DEF GetSync
  <1>6. CASE PowerOn
    BY <1>6 DEF PowerOn
  <1>7. CASE ResumeDone
    BY <1>7 DEF ResumeDone
  <1>8. CASE PutNoidle
    BY <1>8 DEF PutNoidle
  <1>9. CASE StreamOnDone
    <2>1. CASE StartStreaming /\ grabbed'
      <3>1. InUse
        BY <1>9 DEF StreamOnDone, RefInv, InUse, Positions
      <3> QED BY <1>9, <2>1, <3>1 DEF StreamOnDone, StartStreaming
    <2>2. CASE StartStreamingFails /\ UNCHANGED <<streaming, grabbed>>
      BY <1>9, <2>2 DEF StreamOnDone, StartStreamingFails
    <2> QED BY <1>9, <2>1, <2>2 DEF StreamOnDone
  <1>10. CASE StreamOff
    BY <1>10 DEF StreamOff
  <1>11. CASE ServeIdle
    BY <1>11 DEF ServeIdle
  <1>12. CASE PowerOff
    <2>1. ~streaming
      BY <1>12 DEF PowerOff, RefInv, PowerInv
    <2> QED BY <1>12, <2>1 DEF PowerOff
  <1>13. CASE SuspendDone
    BY <1>13 DEF SuspendDone
  <1>14. CASE SystemSuspend
    BY <1>14 DEF SystemSuspend
  <1>15. CASE SystemResume
    <2>1. CASE ~streaming
      BY <1>15, <2>1, Zenon DEF SystemResume
    <2>2. CASE streaming /\ StartStreaming
      BY <1>15, <2>2 DEF SystemResume, StartStreaming
    <2>3. CASE ~streaming'
      BY <2>3
    <2> QED BY <1>15, <2>1, <2>2, <2>3, Zenon DEF SystemResume
  <1>16. ASSUME NEW m \in Modes, NEW d \in Depths, SetPadFormat(m, d) PROVE FlipInv'
    BY <1>16 DEF SetPadFormat
  <1>17. ASSUME NEW v \in VblankMin..(VtsMax - Height[mode]), SetVblank(v) PROVE FlipInv'
    BY <1>17 DEF SetVblank
  <1>18. ASSUME NEW x \in ExposureMin..tim.expMax, SetExposure(x) PROVE FlipInv'
    BY <1>18 DEF SetExposure
  <1>19. ASSUME NEW c \in FlipCtrls, NEW b \in BOOLEAN, SetFlip(c, b) PROVE FlipInv'
    <2>1. UNCHANGED <<streaming, grabbed>> /\ (grabbed => UNCHANGED <<flip, hwFlip>>)
      BY <1>19, Zenon DEF SetFlip
    <2> QED BY <2>1
  <1>20. CASE UNCHANGED vars
    BY <1>20 DEF vars
  <1> QED
    BY <1>1, <1>2, <1>3, <1>4, <1>5, <1>6, <1>7, <1>8, <1>9, <1>10, <1>11, <1>12, <1>13, <1>14, <1>15, <1>16, <1>17, <1>18, <1>19, <1>20 DEF Next, ThreadStep, WorkerStep

\* When calls arrive only after probe, a running sensor's committed flips and its
\* orientation register never change, whatever write fails: the controls are
\* grabbed from the successful start to the stop, and the replay after a system
\* sleep writes the value that was there.
THEOREM FlipsStayPut == ASSUME ~ProbeCallers PROVE Spec => FlipsFrozen
  <1>1. Init => FlipInv
    BY DEF Init, FlipInv
  <1>2. TypeInv /\ RefInv /\ FlipInv /\ [Next]_vars
          => [streaming /\ streaming' => flip' = flip /\ (hwFlip' = hwFlip)]_vars
    <2> SUFFICES ASSUME TypeInv, RefInv, FlipInv, Next, streaming, streaming'
                 PROVE  flip' = flip /\ hwFlip' = hwFlip
      OBVIOUS
    <2>1. FlipInv'
      BY FlipStep
    <2>2. flip' = flip
      <3>1. grabbed /\ phase = "bound"
        BY DEF FlipInv, RefInv
      <3>2. ASSUME NEW c \in FlipCtrls, NEW b \in BOOLEAN, SetFlip(c, b) PROVE flip' = flip
        BY <3>1, <3>2, Zenon DEF SetFlip
      <3> QED
        BY <3>1, <3>2
           DEF Next, ThreadStep, WorkerStep, Probe, ProbeDone, Remove, StreamOn, GetSync, PowerOn,
               ResumeDone, PutNoidle, StreamOnDone, StreamOff, ServeIdle, PowerOff, SuspendDone,
               SystemSuspend, SystemResume, SetPadFormat, SetVblank, SetExposure, stateVars
    <2> QED BY <2>1, <2>2 DEF FlipInv
  <1> QED BY <1>1, <1>2, FlipStep, RefInvariant, PTL DEF Spec, FlipsFrozen

-----------------------------------------------------------------------------
\* No lost transfer, calls only after probe, no format set on a streaming sensor
\* and no unbind in the middle of a stream.  Supplies may fail.
Calm ==
    /\ "i2c" \notin Faults /\ ~ProbeCallers
    /\ ~FormatWhileStreaming /\ ~RemoveWhileStreaming

\* Without lost transfers a write to a powered sensor succeeds: a caller that finds
\* the device in use writes, and only one that finds it unused defers.
LEMMA WritesSucceed ==
    ASSUME Calm, TypeInv, RefInv
    PROVE  /\ powered => IoResults = {TRUE}
           /\ MutexFree => phase = "bound"
           /\ MutexFree /\ InUse => IoResults = {TRUE}
           /\ spc = "start" => InUse /\ IoResults = {TRUE}
           /\ streaming => InUse /\ IoResults = {TRUE}
  <1>1. powered => IoResults = {TRUE}
    BY Zenon DEF IoResults, Calm, TypeInv, Flags
  <1>2. MutexFree => phase = "bound"
    BY DEF Calm, MutexFree
  <1>3. spc = "start" => InUse /\ powered
    BY DEF TypeInv, Positions, PowerInv, RefInv, InUse
  <1>4. streaming => InUse /\ powered
    BY DEF TypeInv, Positions, PowerInv, RefInv, InUse
  <1>5. phase = "bound" /\ InUse => powered
    BY DEF TypeInv, PowerInv, InUse
  <1> QED BY <1>1, <1>2, <1>3, <1>4, <1>5

\* Every step keeps the usage count exact.
LEMMA ExactStep == Calm /\ TypeInv /\ RefInv /\ ExactInv /\ [Next]_vars => ExactInv'
  <1> SUFFICES ASSUME Calm, TypeInv, RefInv, ExactInv, [Next]_vars PROVE ExactInv'
    OBVIOUS
  <1>0. /\ spc = "start" => FALSE \notin IoResults
        /\ streaming => FALSE \notin IoResults
        /\ Flags /\ Positions /\ PowerInv
    BY WritesSucceed DEF TypeInv
  <1> USE DEF Flags, Positions, RpmStatus, PowerInv, RefInv, ExactInv, pmVars, threadVars, stateVars, hwVars, powerVars, CallerVars
  <1>1. CASE Probe
    BY <1>0, <1>1 DEF Probe
  <1>2. CASE ProbeDone
    BY <1>0, <1>2 DEF ProbeDone
  <1>3. CASE Remove
    BY <1>0, <1>3 DEF Remove, Calm
  <1>4. CASE StreamOn
    BY <1>0, <1>4 DEF StreamOn, MutexFree
  <1>5. CASE GetSync
    BY <1>0, <1>5 DEF GetSync, RpmReady, RpmBeginResume
  <1>6. CASE PowerOn
    BY <1>0, <1>6 DEF PowerOn
  <1>7. CASE ResumeDone
    BY <1>0, <1>7 DEF ResumeDone, RpmEndResume
  <1>8. CASE PutNoidle
    BY <1>0, <1>8 DEF PutNoidle, RpmPutNoidle
  <1>9. CASE StreamOnDone
    BY <1>0, <1>9 DEF StreamOnDone, StartStreamingFails
  <1>10. CASE StreamOff
    BY <1>0, <1>10 DEF StreamOff, RpmPut, MutexFree
  <1>11. CASE ServeIdle
    BY <1>0, <1>11 DEF ServeIdle, RpmBeginSuspend, SuspendAllowed
  <1>12. CASE PowerOff
    BY <1>0, <1>12 DEF PowerOff
  <1>13. CASE SuspendDone
    BY <1>0, <1>13 DEF SuspendDone, RpmEndSuspend
  <1>14. CASE SystemSuspend
    BY <1>0, <1>14 DEF SystemSuspend
  <1>15. CASE SystemResume
    <2>1. UNCHANGED <<streaming, spc>> /\ ~asleep' /\ usage' = usage - 1
      BY <1>0, <1>15 DEF SystemResume, RpmPut, StartStreamingFails
    <2> QED BY <1>0, <1>15, <2>1 DEF SystemResume
  <1>16. ASSUME NEW m \in Modes, NEW d \in Depths, SetPadFormat(m, d) PROVE ExactInv'
    BY <1>0, <1>16 DEF SetPadFormat, PutAfterCtrl, MutexFree, Calm
  <1>17. ASSUME NEW v \in VblankMin..(VtsMax - Height[mode]), SetVblank(v) PROVE ExactInv'
    BY <1>0, <1>17 DEF SetVblank, PutAfterCtrl, MutexFree, Calm
  <1>18. ASSUME NEW x \in ExposureMin..tim.expMax, SetExposure(x) PROVE ExactInv'
    BY <1>0, <1>18 DEF SetExposure, PutAfterCtrl, MutexFree, Calm
  <1>19. ASSUME NEW c \in FlipCtrls, NEW b \in BOOLEAN, SetFlip(c, b) PROVE ExactInv'
    <2>1. UNCHANGED <<usage, status, streaming, spc, asleep>>
      BY <1>19, Zenon DEF SetFlip, PutAfterCtrl, MutexFree, Calm
    <2> QED BY <2>1
  <1>20. CASE UNCHANGED vars
    BY <1>20 DEF vars
  <1> QED
    BY <1>1, <1>2, <1>3, <1>4, <1>5, <1>6, <1>7, <1>8, <1>9, <1>10, <1>11, <1>12, <1>13, <1>14, <1>15, <1>16, <1>17, <1>18, <1>19, <1>20 DEF Next, ThreadStep, WorkerStep

\* Every step keeps the timing controls consistent: a mode change finds the
\* sensor unused, so each of its control updates is committed.
LEMMA FitsStep ==
    Calm /\ TypeInv /\ RefInv /\ ExactInv /\ TimingFits(tim, mode) /\ [Next]_vars
      => TimingFits(tim', mode')
  <1> SUFFICES ASSUME Calm, TypeInv, RefInv, ExactInv, TimingFits(tim, mode), [Next]_vars
               PROVE  TimingFits(tim', mode')
    OBVIOUS
  <1> USE DEF pmVars, threadVars, stateVars, hwVars, powerVars, CallerVars
  <1>0. TimingOK(tim) /\ mode \in Modes /\ Positions /\ TimingFits(TimingReset(tim), mode)
        /\ TimingFits(ReplayCtrls, mode)
    <2>1. TimingOK(tim) /\ mode \in Modes /\ Positions
      BY DEF TypeInv, Positions
    <2> QED BY <2>1, ReplayOp DEF TimingFits, TimingReset, TimingOK, Timing
  <1>1. CASE Probe
    BY <1>1, InitTimingOK DEF Probe
  <1>2. CASE ProbeDone
    BY <1>2 DEF ProbeDone
  <1>3. CASE Remove
    BY <1>3, <1>0 DEF Remove
  <1>4. CASE StreamOn
    BY <1>4 DEF StreamOn
  <1>5. CASE GetSync
    BY <1>5 DEF GetSync
  <1>6. CASE PowerOn
    BY <1>6 DEF PowerOn
  <1>7. CASE ResumeDone
    BY <1>7 DEF ResumeDone
  <1>8. CASE PutNoidle
    BY <1>8 DEF PutNoidle
  <1>9. CASE StreamOnDone
    BY <1>9, <1>0 DEF StreamOnDone, StartStreaming, StartStreamingFails
  <1>10. CASE StreamOff
    BY <1>10 DEF StreamOff
  <1>11. CASE ServeIdle
    BY <1>11 DEF ServeIdle
  <1>12. CASE PowerOff
    BY <1>12, <1>0 DEF PowerOff
  <1>13. CASE SuspendDone
    BY <1>13 DEF SuspendDone
  <1>14. CASE SystemSuspend
    BY <1>14 DEF SystemSuspend
  <1>15. CASE SystemResume
    BY <1>15, <1>0 DEF SystemResume, StartStreaming, StartStreamingFails
  <1>16. ASSUME NEW m \in Modes, NEW d \in Depths, SetPadFormat(m, d) PROVE TimingFits(tim', mode')
    <2>1. PICK ok \in BOOLEAN : tim' = SetModeCtrls(m, ok).t
      BY <1>16 DEF SetPadFormat, IoResults
    <2>2. MutexFree /\ ~streaming /\ mode' = m
      BY <1>16 DEF SetPadFormat, Calm
    <2>3. ~InUse
      <3>1. phase = "bound"
        BY <2>2, WritesSucceed
      <3>2. usage = 0
        BY <2>2 DEF MutexFree, ExactInv, TypeInv, PowerInv
      <3> QED BY <3>1, <3>2 DEF InUse
    <2> QED BY <1>0, <2>1, <2>2, <2>3, SetModeOp
  <1>17. ASSUME NEW v \in VblankMin..(VtsMax - Height[mode]), SetVblank(v) PROVE TimingFits(tim', mode')
    <2> DEFINE w0 == [t |-> tim, n |-> 0]
    <2>1. PICK ok \in BOOLEAN : /\ tim' = SetVblankCtrl(w0, mode, v, ok).t
                                /\ InUse => ok \in IoResults
      BY <1>17 DEF SetVblank, IoResults
    <2>2. w0 \in Work /\ w0.t.vblank >= VblankMin /\ w0.t.hblank = tim.hblank /\ v \in Nat
          /\ v >= VblankMin
      BY <1>0, LimitsAssumption DEF Work, TimingOK
    <2> HIDE DEF w0
    <2>3. VblankSet(w0, mode, v, ok, SetVblankCtrl(w0, mode, v, ok))
      BY <1>0, <2>2, SetVblankOp
    <2>4. ok \/ ~InUse
      BY <1>17, <2>1, WritesSucceed DEF SetVblank
    <2> QED BY <1>17, <2>1, <2>2, <2>3, <2>4 DEF SetVblank, VblankSet, TimingFits
  <1>18. ASSUME NEW x \in ExposureMin..tim.expMax, SetExposure(x) PROVE TimingFits(tim', mode')
    BY <1>18, <1>0 DEF SetExposure, TimingFits, TimingOK, Timing
  <1>19. ASSUME NEW c \in FlipCtrls, NEW b \in BOOLEAN, SetFlip(c, b) PROVE TimingFits(tim', mode')
    BY <1>19 DEF SetFlip
  <1>20. CASE UNCHANGED vars
    BY <1>20 DEF vars
  <1> QED
    BY <1>1, <1>2, <1>3, <1>4, <1>5, <1>6, <1>7, <1>8, <1>9, <1>10, <1>11, <1>12, <1>13, <1>14, <1>15, <1>16, <1>17, <1>18, <1>19, <1>20 DEF Next, ThreadStep, WorkerStep

\* Every step keeps the registers of a running sensor on what is reported.
LEMMA ReportedStep ==
    Calm /\ TypeInv /\ RefInv /\ FlipInv /\ TimingFits(tim, mode) /\ ReportedInv /\ [Next]_vars
      => ReportedInv'
  <1> SUFFICES ASSUME Calm, TypeInv, RefInv, FlipInv, TimingFits(tim, mode), ReportedInv, [Next]_vars
               PROVE  ReportedInv'
    OBVIOUS
  <1> USE DEF ReportedInv, pmVars, threadVars, stateVars, hwVars, powerVars, CallerVars
  <1>0. TimingOK(tim) /\ mode \in Modes /\ Positions /\ Flags
    BY DEF TypeInv, Positions
  <1>1. CASE Probe
    BY <1>1 DEF Probe
  <1>2. CASE ProbeDone
    BY <1>2 DEF ProbeDone
  <1>3. CASE Remove
    BY <1>3 DEF Remove
  <1>4. CASE StreamOn
    BY <1>4 DEF StreamOn
  <1>5. CASE GetSync
    BY <1>5 DEF GetSync
  <1>6. CASE PowerOn
    BY <1>6 DEF PowerOn
  <1>7. CASE ResumeDone
    BY <1>7 DEF ResumeDone
  <1>8. CASE PutNoidle
    BY <1>8 DEF PutNoidle
  <1>9. CASE StreamOnDone
    <2>1. InUse /\ FALSE \notin IoResults /\ ~asleep
      BY <1>9, WritesSucceed DEF StreamOnDone, TypeInv, PowerInv
    <2>2. StartStreaming /\ UNCHANGED <<asleep, mode, code, flip>>
      BY <1>9, <2>1 DEF StreamOnDone, StartStreamingFails
    <2>3. hwStream' /\ hwMode' = mode /\ hwDepth' = code.depth /\ hwFlip' = flip /\ tim' = ReplayCtrls
      BY <2>1, <2>2, Zenon DEF StartStreaming
    <2>4. /\ ReplayCtrls.vts = Height[mode] + ReplayCtrls.vblank
          /\ ReplayCtrls.hwExposure = ReplayCtrls.exposure
      BY <1>0, <2>1, ReplayOp
    <2> QED BY <2>2, <2>3, <2>4
  <1>10. CASE StreamOff
    BY <1>10 DEF StreamOff
  <1>11. CASE ServeIdle
    BY <1>11 DEF ServeIdle
  <1>12. CASE PowerOff
    <2>1. ~streaming'
      BY <1>12 DEF PowerOff, RefInv, TypeInv, PowerInv
    <2> QED BY <2>1
  <1>13. CASE SuspendDone
    BY <1>13 DEF SuspendDone
  <1>14. CASE SystemSuspend
    BY <1>14 DEF SystemSuspend
  <1>15. CASE SystemResume
    <2>1. CASE ~streaming
      BY <1>15, <2>1, Zenon DEF SystemResume
    <2>2. CASE streaming
      <3>1. InUse /\ FALSE \notin IoResults
        BY <2>2, WritesSucceed
      <3>2. StartStreaming /\ UNCHANGED <<mode, code, flip>>
        BY <1>15, <2>2, <3>1 DEF SystemResume, StartStreamingFails
      <3>3. hwStream' /\ hwMode' = mode /\ hwDepth' = code.depth /\ hwFlip' = flip
            /\ tim' = ReplayCtrls
        BY <3>1, <3>2, Zenon DEF StartStreaming
      <3>4. /\ ReplayCtrls.vts = Height[mode] + ReplayCtrls.vblank
            /\ ReplayCtrls.hwExposure = ReplayCtrls.exposure
        BY <1>0, <3>1, ReplayOp
      <3> QED BY <3>2, <3>3, <3>4
    <2> QED BY <2>1, <2>2
  <1>16. ASSUME NEW m \in Modes, NEW d \in Depths, SetPadFormat(m, d) PROVE ReportedInv'
    BY <1>16 DEF SetPadFormat, Calm
  <1>17. ASSUME NEW v \in VblankMin..(VtsMax - Height[mode]), SetVblank(v) PROVE ReportedInv'
    <2> SUFFICES ASSUME streaming PROVE ReportedInv'
      BY <1>17 DEF SetVblank
    <2> DEFINE w0 == [t |-> tim, n |-> 0]
    <2>1. PICK ok \in BOOLEAN : /\ tim' = SetVblankCtrl(w0, mode, v, ok).t
                                /\ InUse => ok \in IoResults
      BY <1>17 DEF SetVblank, IoResults
    <2>2. w0 \in Work /\ w0.t.vblank >= VblankMin /\ w0.t.hwExposure = w0.t.exposure /\ v \in Nat
          /\ v >= VblankMin
      BY <1>0, LimitsAssumption DEF Work, TimingOK
    <2> HIDE DEF w0
    <2>3. VblankSet(w0, mode, v, ok, SetVblankCtrl(w0, mode, v, ok))
      BY <1>0, <2>2, SetVblankOp
    <2>4. ok /\ InUse
      BY <2>1, WritesSucceed
    <2> QED BY <1>17, <2>1, <2>2, <2>3, <2>4 DEF SetVblank, VblankSet
  <1>18. ASSUME NEW x \in ExposureMin..tim.expMax, SetExposure(x) PROVE ReportedInv'
    <2> SUFFICES ASSUME streaming PROVE ReportedInv'
      BY <1>18 DEF SetExposure
    <2>1. InUse /\ IoResults = {TRUE}
      BY WritesSucceed
    <2>2. tim' = [tim EXCEPT !.exposure = x, !.hwExposure = x]
      BY <1>18, <2>1, Zenon DEF SetExposure
    <2> QED BY <1>18, <1>0, <2>2 DEF SetExposure, TimingOK, Timing
  <1>19. ASSUME NEW c \in FlipCtrls, NEW b \in BOOLEAN, SetFlip(c, b) PROVE ReportedInv'
    <2>1. /\ UNCHANGED <<streaming, asleep, hwStream, hwMode, hwDepth, mode, code, tim>>
          /\ streaming => UNCHANGED <<flip, hwFlip>>
      BY <1>19, Zenon DEF SetFlip, FlipInv
    <2> QED BY <2>1
  <1>20. CASE UNCHANGED vars
    BY <1>20 DEF vars
  <1> QED
    BY <1>1, <1>2, <1>3, <1>4, <1>5, <1>6, <1>7, <1>8, <1>9, <1>10, <1>11, <1>12, <1>13, <1>14, <1>15, <1>16, <1>17, <1>18, <1>19, <1>20 DEF Next, ThreadStep, WorkerStep

\* In a calm environment the usage count is exact, the timing controls fit and
\* the registers of a running sensor hold what is reported.
LEMMA CalmInvariant ==
    ASSUME Calm
    PROVE  Spec => [](TypeInv /\ RefInv /\ ExactInv /\ TimingFits(tim, mode) /\ FlipInv /\ ReportedInv)
  <1> DEFINE Fits == TimingFits(tim, mode)
  <1>1. Init => ExactInv /\ Fits /\ FlipInv /\ ReportedInv
    BY InitTimingOK DEF Init, ExactInv, FlipInv, ReportedInv
  <1>2. Calm /\ ~ProbeCallers
    BY DEF Calm
  <1>3. TypeInv /\ RefInv /\ ExactInv /\ [Next]_vars => ExactInv'
    BY <1>2, ExactStep
  <1>4. TypeInv /\ RefInv /\ ExactInv /\ Fits /\ [Next]_vars => Fits'
    BY <1>2, FitsStep
  <1>5. TypeInv /\ RefInv /\ FlipInv /\ Fits /\ ReportedInv /\ [Next]_vars => ReportedInv'
    BY <1>2, ReportedStep
  <1>6. Spec => [](TypeInv /\ RefInv)
    BY <1>2, RefInvariant
  <1> HIDE DEF Fits
  <1>7. Spec => [](TypeInv /\ RefInv /\ ExactInv /\ Fits /\ FlipInv /\ ReportedInv)
    BY <1>1, <1>3, <1>4, <1>5, <1>6, FlipStep, PTL DEF Spec
  <1> QED BY <1>7 DEF Fits

\* In a calm environment the timing controls a caller reads fit together: the
\* blanking lies in the range of the mode, the exposure within the frame, and
\* the horizontal blanking depends on the mode's width only.
THEOREM TimingFitsMode == ASSUME Calm PROVE Spec => []TimingConsistent
  <1>1. TypeInv /\ RefInv /\ ExactInv /\ TimingFits(tim, mode) /\ FlipInv /\ ReportedInv
          => TimingConsistent
    BY DEF TimingFits, TimingConsistent
  <1> QED BY <1>1, CalmInvariant, PTL

\* In a calm environment a running sensor's registers hold the reported mode,
\* depth, orientation, frame length and exposure, also after a system sleep, and
\* the exposure ends before the frame does.
THEOREM RegistersFollowReport == ASSUME Calm PROVE Spec => []SensorRunsReported
  <1>1. TypeInv /\ RefInv /\ ExactInv /\ TimingFits(tim, mode) /\ FlipInv /\ ReportedInv
          => SensorRunsReported
    <2> SUFFICES ASSUME TypeInv, TimingFits(tim, mode), ReportedInv, streaming, ~asleep
                 PROVE  /\ hwStream
                        /\ hwMode = GetPadFormat.mode /\ hwDepth = GetPadFormat.code.depth
                        /\ hwFlip = flip
                        /\ tim.vts = Height[mode] + tim.vblank
                        /\ tim.hwExposure = tim.exposure
                        /\ tim.hwExposure <= tim.vts - 4
      BY DEF SensorRunsReported
    <2>1. GetPadFormat.mode = mode /\ GetPadFormat.code.depth = code.depth
      BY DEF GetPadFormat, GetFormatCode
    <2>2. tim \in Timing /\ Height[mode] \in Nat
      BY ModeFacts DEF TypeInv, TimingOK, Positions
    <2>3. tim.exposure <= Height[mode] + tim.vblank - 4
      BY <2>2 DEF TimingFits, Timing
    <2>4. tim.vts = Height[mode] + tim.vblank /\ tim.hwExposure = tim.exposure
      BY DEF ReportedInv
    <2>5. hwStream /\ hwMode = mode /\ hwDepth = code.depth /\ hwFlip = flip
      BY Zenon DEF ReportedInv
    <2>6. tim.hwExposure <= tim.vts - 4
      BY <2>2, <2>3, <2>4 DEF Timing
    <2> QED BY <2>1, <2>4, <2>5, <2>6, Zenon
  <1> QED BY <1>1, CalmInvariant, PTL
=============================================================================
