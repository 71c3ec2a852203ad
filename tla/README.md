# Verification of the camera stack

TLA+ models, TLC runs and TLAPS proofs for the camera stack of this repository:
the two image sensor drivers that are ported to an i.MX8MP board (kernel 5.4.70),
the MIPI CSI-2 receiver and the i.MX8 ISI driver they feed, and the application
that uses them.  Paths are relative to `src/`; `ISI/`
stands for `exercise-09-dec-21/camera/staging/media/imx/`.

## 1. Inventory

The repository is a course on porting cameras.  Most of its 2056 files are
board logs, device trees, images, scripts and a vendored copy of the kernel's
`drivers/staging`.  The logic of its own, and the part of the vendored tree that
carries the frames, is this:

| component | source | state it keeps | operations |
|---|---|---|---|
| OV5648 sensor driver | `imx219/exercise-02/ov5648.c` | `state` (mode, mbus code, streaming), control values, runtime PM count and status, supplies, chip registers | `s_stream`, `set_fmt`/`get_fmt`, `s_ctrl`, runtime `suspend`/`resume`, probe/remove |
| IMX219 sensor driver | `imx219/exercise-02/imx219.c` | mode, fmt, control values and ranges, grabbed flips, streaming, PM count, supplies | `set_stream`, `set_pad_format`, `set_ctrl`, runtime `power_on`/`power_off`, system `suspend`/`resume`, probe/remove |
| ISI capture channel | `ISI/imx8-isi-cap.c`, `imx8-isi-hw.c`, `imx8-isi-core.c` | pending, active and discard lists, two address registers, frame count, `is_streaming` | open/release, `s_fmt`, QBUF/DQBUF, STREAMON/STREAMOFF, frame interrupt, vb2 `start_streaming`/`stop_streaming`, system sleep |
| ISI memory to memory path | `ISI/imx8-isi-m2m.c`, `imx8-isi-hw.c`, `imx8-isi-core.c` | formats, two ready queues, `out_active`, frame count, `aborting`, `usage_count` and `m2m_enabled` shared with the capture node | open/release, `s_fmt`, REQBUFS, QBUF, STREAMON/STREAMOFF, `device_run`, `job_ready`, `job_abort`, frame interrupt |
| MIPI CSI-2 receiver | `ISI/imx8-mipi-csi2-sam.c` | selected code, last format seen, PM count and status, PHY supply, clocks, registers | `s_stream`, `set_fmt`, `get_fmt` (the last two forwarded to the sensor), runtime `suspend`/`resume` |
| V4L2 capture class | `exercise-16/v4l2.cpp` | fd, three mapped buffers, `isCamOpen` | `open`, `read`, `release` |
| media graph set-up | `ISI/imx8-media-dev.c` | links | built once at probe |
| mode tables, PLL arithmetic | both sensor drivers | constants | nearest size, Bayer code, clock rates |
| scripts, device trees, logs | `exercise-*` | none | configuration and experiments |

How they interact: the application's ioctls reach the ISI video node, which runs
them under one lock (`isi_cap->lock`) and calls the sensor's subdev operations
through the CSI-2 receiver; other programs reach the sensor directly through its
subdev node (formats and controls), without that lock; the runtime PM core calls
the sensor's power callbacks from whichever thread resumes it and from its own
workqueue; the frame interrupt runs concurrently with all of this.

What is hard to test: the PM status changes outside the driver's mutex; the
streaming flag of the OV5648 is written outside it; I2C transfers and supplies
fail half way; a caller repeats a stop; interrupts are served a frame late, the
frame counter wraps; the interrupt handler and QBUF take different spinlocks; an
application dies without STREAMOFF; a walk over the media graph fails half way and
nobody remembers who was started; a format is set and read back in two calls, and
another program sets it in between; two nodes compete for one channel; an abort waits
for the interrupt of the job it aborts.  `PROJECT.json` lists each hazard at its line
with the properties that would catch it.

What makes each component correct: a streaming sensor keeps its reference, its
power and its configuration, and a stopped one is powered off; what the driver
reports is what the registers hold; supplies and the clock shared by both
cameras stay balanced; the ISI never writes memory it does not own, never runs
out of buffers, returns buffers in order and returns every one of them; a converted
frame is returned with the source it was made from; sensor, receiver and channel
start, stop and power down together and run one format.

## 2. Modules

| module | models | lines of source |
|---|---|---|
| `RuntimePm` | the kernel's runtime PM core as both drivers use it (external code) | – |
| `Ov5648` | OV5648 driver after probe | `ov5648.c` |
| `Ov5648Proofs` | its theorems | |
| `Imx219` | IMX219 driver from probe to remove | `imx219.c` |
| `Imx219Proofs` | its theorems | |
| `DriverLists` | what linked lists of buffers hold and when one is linked twice | – |
| `DriverListTheorems` | lemmas about such lists: taking, joining, concatenating | |
| `BufferFifo` | what a capture queue promises an application | abstract |
| `IsiCapture` | one ISI channel with its video node, vb2 queue and interrupt | `imx8-isi-{cap,hw,core}.c` |
| `IsiCaptureProofs` | its theorems | |
| `Csi2Receiver` | the CSI-2 receiver after probe | `imx8-mipi-csi2-sam.c` |
| `CapturePipeline` | application, capture node, receiver and OV5648 composed | `v4l2.cpp`, `imx8-isi-cap.c` |
| `CapturePipelineProofs` | its theorems | |
| `IsiM2m` | one ISI channel converting from memory to memory, and its exclusion with the capture node | `imx8-isi-{m2m,hw,core,cap}.c` |
| `IsiM2mProofs` | its theorems | |
| `MCOv5648`, `MCImx219`, `MCIsiCapture`, `MCCapturePipeline`, `MCIsiM2m` | instances for TLC | |

`Ov5648`, `Imx219` and `Csi2Receiver` extend `RuntimePm`; `CapturePipeline` extends
`Ov5648` and instantiates `Csi2Receiver` with runtime PM variables of its own;
`IsiCapture` instantiates `BufferFifo` under a refinement mapping.  The modules with
lists of buffers (`BufferFifo`, `IsiCapture`, `IsiM2m`) extend `DriverLists`, and
`CapturePipelineProofs` extends `Ov5648Proofs`.

### RuntimePm
Usage count, status, latched error and pending idle request.  The two halves of
a resume and of a suspend are separate, because the drivers' callbacks run
between them and because the status is visible to other threads in between.  The
usage count is an integer: nothing in the kernel keeps a surplus put from making
it negative.

### Ov5648
`spc` is the program counter of the one thread that can be in `ov5648_s_stream`
(the video node serialises it), `wpc` that of the PM worker.  `CallStream`,
`GetSync`, `Resume`, `ResumeDone`, `PutNoidle`, `SwStandby`, `SetStreaming` and
`PutStream` are the steps of `ov5648_s_stream`, cut where the mutex is taken and
released; `ServeIdle`, `Suspend`, `SuspendDone` those of the worker.  `SetFmt` and
`SetCtrl` run wholly under the mutex and are one action each.  Registers are three
values: the stream bit, the format and one value per control cluster; `Torn` is a
group whose write sequence was cut short, `Reset` one that has never been
written.  `Faults` selects lost I2C transfers and failing supplies, `Disciplined`
a caller that alternates start and stop, `ExternalPower` a board on which the
chip stays powered whatever the driver's regulators do.

### Imx219
`imx219_set_stream` keeps the mutex all along, the wait in `pm_runtime_get_sync`
included: `lock` says so, and formats and controls wait.  `tim` is the record of
the controls that depend on one another (vertical blanking, exposure and its
maximum, horizontal blanking) and the two registers they reach.  `SetModeCtrls`
and `SetVblankCtrl` follow the cascade of `__v4l2_ctrl_modify_range` and
`__v4l2_ctrl_s_ctrl` calls in the order the driver makes them.  `flip` is what the
control framework has committed and `flipVal` the `val` fields the driver reads;
the two differ after a refused request.  Probe has two steps, since the subdev is
registered before runtime PM is enabled.

### IsiCapture
The lists `queued` (vb2), `pending`, `active`, `discard` and `done` (vb2), the two
address registers `slot`, and the slot the hardware is writing.  `FrameEnd` is the
hardware; `IrqEnter` and `FrameWriteDone` are the two parts of the handler (the
status is read, then the lists are changed), and any number of frames may end
before `IrqEnter`.  STREAMON, STREAMOFF and close are cut where they sleep or wait
(`call`).  `pixSet` says that an S_FMT has filled `isi_cap->pix`: buffers can be
requested, queued and streamed without one, from the default `dst_f` of probe, but
the discard memory is allocated per plane of `pix`, so that there is none and
`discardSize` is 0 (`StartStreaming`).  `Exchange` is `mxc_isi_cap_frame_write_done`, `OutSlot`
`mxc_isi_channel_set_outbuf`.  `broken` is set where the code damages a list (a
buffer linked twice, memory freed while linked, two processors in one list);
nothing is claimed of what follows.

Assumed of the surroundings: the handler takes less than a frame and less than
the 5 ms of the channel reset (it may *start* arbitrarily late); the address
registers survive a software reset; a configuration step that fails changes
nothing; one application, links already set up.

### Csi2Receiver
`csisFmt` and `seenFmt` are what `mipi_csis_set_fmt` and `mipi_csis_get_fmt`
remember; `isp` and `types` the registers of receiver and gasket.  `CallStart`,
`GetSync`, `Resume` and `StartStream` are the steps of `mipi_csis_s_stream(1)`: the
result of `pm_runtime_get_sync` is ignored, so a failed resume goes on to
`StartStream`.  `StopStream` is `mipi_csis_s_stream(0)`.  `Suspend` fails when the
PHY regulator cannot be disabled; the receiver then stays on and, depending on
the error, its runtime PM refuses whatever comes later.  `clks` starts at 1 because
probe enables the clocks and leaves them on.

### CapturePipeline
The application is `V4L2::open` and `V4L2::release`, one program after another; it
may die (`AppDies`), which closes the node and nothing else.  `ipc` is the video
node's thread.  STREAMON first configures the path in two calls to the receiver,
which forwards each to the sensor: `set_fmt` (`ConfigSet`, or `ConfigRefused`) and
`get_fmt` (`ConfigGet`).  Each takes and releases the sensor's mutex, so they are two
actions.  The code the receiver is set up for comes from the first; the size it is
set up for, the input of the channel (`SourceFrame`: `mxc_isi_get_src_fmt` knows two
formats on the pixel link) and the test for upscaling come from the second.  After
the 300 ms sleep of the channel `mxc_isi_pipeline_enable` calls the sensor
(`CallSensor`, `SensorStep`: the steps of `Ov5648`) and the receiver (`CallReceiver`,
`ReceiverStep`), the sensor first in both directions because the depth-first walk
of the media graph returns the farthest entity first.  `AfterSensor` says where a
result of the sensor leads.  Other programs use the sensor's own node at any time
(`SubdevSetFmt`, `SubdevSetCtrl`).  The sensor is not told to be `Disciplined`: that
starts and stops alternate is what `ReferencesBalanced` shows.  Sizes of a frame are
one number.  The buffers are left to `IsiCapture`.

Four history variables name what the properties except; no guard reads one but that
of `AppOpen` (`surplus`):

| variable | says |
|---|---|
| `orphan` | an application has died and nobody has stopped its stream |
| `raced` | another program has set the sensor's format since the last STREAMON set it: before that STREAMON read it back (`"get"`), or after that and before the sensor had started (`"start"`) |
| `surplus` | a STREAMOFF has got through to a sensor nobody had started |
| `stuck` | the last suspend of the receiver has failed |

A format set before the read-back can make it smaller than the request.  STREAMON is
then refused as upscaling, before the sensor is called; if the sensor is still powered
from an earlier stream, the STREAMOFF of `release` gets through to it, and sensor and
receiver give back a reference nobody has taken.  With a usage count of -1 the next
stream runs at 0 and may be suspended at any moment.  The code has nothing against
this.  `SurplusNeedsRace` says that it is the only way there, the other properties
hold until it has happened, and the model ends there: after a surplus STREAMOFF has
returned, the node is not opened again.

### IsiM2m
`ready` are the two queues of v4l2-mem2mem, `active` is `out_active`, `slot` the two
output addresses, `inAddr` and `inPitch` the input registers.  `job` is the state of
the one job context; `JobWork`, `TrySchedule`, `Runnable` and `JobFinish` are
v4l2-mem2mem as the driver depends on it.  `FrameStored` is the hardware, `IrqEnter`
and `FrameWriteDone` the handler, cut after the status and `aborting` have been
read.  STREAMOFF and close are cut where they wait for the job (`call`,
`CancelJob`), open where it tests before it locks (`OpenTest`, `OpenEnd`;
`CaptureOpenTest`, `CaptureOpenEnd` for the capture node).  `memory` is a history
variable: the source of the frame a target holds.

`Rules` is what the application must do by itself; the driver enforces none of it:

| rule | the application | without it TLC refutes | why |
|---|---|---|---|
| `order` | starts and stops the output queue before the capture queue | `CallsEnd` | capture STREAMOFF disables the interrupt (`m2m.c:902`) and then waits for the running job, which only that interrupt ends |
| | | `TargetOwned`, `PairedResult`, `ConversionProceeds` | output STREAMOFF alone drains `out_active` and leaves `aborting` set; only a start of the capture queue clears it (`m2m.c:209`, `363`, `386`) |
| | | `FrameFits`, with two source sizes | the source format may change after the capture queue has configured the channel |
| `once` | does not repeat STREAMON | `TargetOwned`, `PairedResult` | `frame_count = 0` before vb2 finds the queue streaming (`m2m.c:885`) |
| `two` | queues two targets before STREAMON | `TargetOwned`, `PairedResult` | a refused start leaves its buffer on the ready queue (`m2m.c:327`) |
| `format` | sets the source format after each open | `FrameFits` | open and close reset registers only S_FMT writes (`hw.c:787`) |
| `alone` | does not open one node while the other is being opened | `ExclusiveUse` | `usage_count` and `m2m_enabled` are tested without a common lock (`m2m.c:451`, `cap.c:808`) |

`Rewinds` is an assumption on the hardware: a channel that has been disabled
starts again with BUF1.  The capture path resets the channel at each STREAMON, the
memory to memory path does not; without the assumption `PairedResult` fails on the
second STREAMON.

### Mutants
A definition named `X_Something` is the definition `X` with one plausible
programming error: a dropped guard, a missing reset, a swapped order.  No
specification uses it.  For each property of each passing run `PROJECT.json` names
one such error that makes TLC refute the property under the same configuration.

## 3. Runs

| run | shows | bounds and environment |
|---|---|---|
| `ov5648_core` | `ControlsApplied`, `FormatApplied`, `ClockNotStolen`, `ReconfigureWindow`, `StoppedSensorSuspends` | 3 formats, 2 control clusters with 2 values, no fault, alternating caller |
| `ov5648_faults` | `TypeOK`, `PowerMatchesStatus`, `StreamHoldsPower`, `FlagMatchesSensor`, `NoWrongConfiguration` | lost transfers, failing supplies |
| `ov5648_ctrl_off` | violation, finding 1 | no fault |
| `imx219_core` | `TimingConsistent`, `SensorRunsReported`, `StoppedSensorSuspends` | 2 modes, 2 depths, 1 flip, no fault |
| `imx219_faults` | `TypeOK`, `StreamHoldsPower`, `PowerAccounted`, `FlipsFrozen` | all faults, format changes and unbinding during a stream |
| `imx219_bayer` | violation, finding 2 | 2 flips |
| `imx219_probe_ctrl` | violation, finding 3 | calls during probe |
| `isi_core` | `DmaTargetOwned`, `NeverStarved`, `FrameFits`, `AsleepIsIdle`, `IdleSlotLoaded`, `ImplementsFifo`, `BuffersReturn` | 3 buffers, 2 frame sizes, with and without S_FMT, frame counter modulo 4, application queues two buffers first |
| `isi_adverse` | `TypeOK`, `IdleSlotLoaded` | 2 buffers, every fault, careless application, subdev callers, two processors |
| `isi_refused` | violation, finding 4 | |
| `pipeline` | `SurplusNeedsRace`, `StreamKeepsPower`, `ReferencesBalanced`, `ReceiverPowered`, `FormatsAgree`, `PipelinePowersDown`, `RetryStreams` | 2 codes × 2 sizes in the sensor, a third code in the receiver, 2 requests, 1 control; deaths, foreign format changes at any point, failing supplies of the receiver; ends after a surplus STREAMOFF; 395 000 states |
| `m2m` | `TypeOK`, `TargetOwned`, `FrameFits`, `ExclusiveUse`, `PairedResult`, `CallsEnd`, `ConversionProceeds` | 2 sources, 4 targets, target sizes 1 and 2 for a source of 2 (3 is refused), frame counter modulo 4, 1 user of the capture node, all rules; 700 000 states |

Why the bounds are enough.  *Formats and controls*: the OV5648 driver compares
them only for equality; three formats let one change overtake another.  *Usage
count*: one thread takes references, so 2 is one more than a correct caller can
reach; callers that are not correct are covered by the theorems of section 4.  *IMX219 numbers*: the two
modes have blanking and exposure ranges that overlap in part, so a mode change
clamps in both directions.  *Buffers*: two slots and one waiting is the smallest
queue in which order can go wrong; the theorems of section 4 lift this.  *Frame
counter*: only 0, 1 and the parity matter, and modulo 4 the counter passes both
special values and wraps several times within a run.  *Pipeline*: one request is a
mode of the sensor that is not its default, the other names a code the sensor does
not have and a size between its two, so that code and size are both replaced.  With
two sizes a foreign format is below the request or not, which is all STREAMON looks
at; a size that rounds *down* is excluded by `RequestsAssumption` (see section 5).  *Memory to
memory*: four targets are two in the slots, one ready for this job and one for the
next, the least with which the handler finds the next job runnable by itself; two
sources let one be queued during the conversion of the other.  The rule `index`
(buffers are queued by index before STREAMON) only removes renamings: the driver
never looks at an index.

Fairness.  `Ov5648` and `Imx219`: weak fairness of a thread inside a call and of the
PM worker (a runnable kernel thread and a queued work item are eventually run),
and of the system resume; callers owe nothing.  `IsiCapture`: weak fairness of the
sensor's frames, of the handler's end and of the rest of a call, and strong
fairness of an interrupt that is in time: interrupts may be late any number of
times but not for ever, which is what `BuffersReturn` needs, because a handler that
is always a frame late skips every frame.  `CapturePipeline`: weak fairness of an
ioctl under way (`NodeStep`) and of the two PM workers; nobody has to open, release
or retry, and `RetryStreams` assumes the retries in its antecedent, that the races
and the dead applications end at some point, and that no STREAMOFF was surplus.  `IsiM2m`: weak
fairness of calls under way, of the work item, of a conversion's end and of the
handler; here an interrupt cannot be overtaken by the next frame, because the next
job starts only after the handler.

The refinement.  `ImplementsFifo` maps the lists to one line of buffers (done, then
active, then pending, then queued) of which a prefix is ready.  Skipped frames,
discard buffers and the exchange of slots are stutters or `BufferFifo` steps.

## 4. Proofs

All theorems hold for every value of the constants that meets the named
assumptions.  A theorem with a hypothesis on the constants says so with
`ASSUME ... PROVE`; the hypotheses are choices of the environment (which faults, which
callers), the ones the runs of section 3 make too, and where a hypothesis is dropped
TLC refutes the property or section 5 says what happens.

| module | theorem | property | hypothesis |
|---|---|---|---|
| `Ov5648Proofs` | `TypeCorrect` | `TypeOK` | – |
| | `PowerTracksStatus` | `PowerMatchesStatus` | – |
| | `ConfigurationSafety` | `NoWrongConfiguration` | – |
| | `StreamSafety`, `FlagTruthful`, `ReconfigureOnlyInWindow` | `StreamHoldsPower`, `FlagMatchesSensor`, `ReconfigureWindow` | `Disciplined` |
| | `ControlsReachSensor`, `FormatReachesSensor` | `ControlsApplied`, `FormatApplied` | no lost transfer |
| | `ClockBalanced` | `ClockNotStolen` | no failing supply |
| `Imx219Proofs` | `TypeCorrect`, `PowerBalanced` | `TypeOK`, `PowerAccounted` | – |
| | `StreamSafety`, `FlipsStayPut` | `StreamHoldsPower`, `FlipsFrozen` | no caller during probe |
| | `TimingFitsMode`, `RegistersFollowReport` | `TimingConsistent`, `SensorRunsReported` | `Calm` |
| `IsiCaptureProofs` | `TypeCorrect`, `ChannelNeverStarved`, `SlotInUseKept` | `TypeOK`, `NeverStarved`, `IdleSlotLoaded` | – |
| | `DmaSafe` | `DmaTargetOwned` | `Disciplined` |
| | `FramesFit` | `FrameFits` | `Disciplined`, no foreign subdev caller |
| | `CaptureIsFifo` | `ImplementsFifo` | `Disciplined` |
| | `SleepsIdle` | `AsleepIsIdle` | no failing subdev |
| `IsiM2mProofs` | `TypeCorrect` | `TypeOK` | – |
| | `OneOwner` | `ExclusiveUse` | rule `alone` |
| | `TargetsOwned`, `FramesFit`, `ResultsPaired` | `TargetOwned`, `FrameFits`, `PairedResult` | `Obedient` |
| `CapturePipelineProofs` | `SensorInPipeline` | the sensor's `Spec` | – |
| | `OnlyTheReadBackRaces` | `SurplusNeedsRace` | `Switched` |
| | `WalkBalances`, `ReceiverHasPower`, `PipelineStreamSafety` | `ReferencesBalanced`, `ReceiverPowered`, `StreamKeepsPower` | `Switched` |
| | `OneFormat` | `FormatsAgree` | `Switched`, the receiver knows the sensor's codes |

Every inductive invariant below was checked by TLC on the instance of its run before
it was proved.

`Ov5648Proofs`: `PowerMatchesStatus` is not inductive, since it says nothing of
the states in transition.  `PowerInv` adds what each program counter knows of
status and supplies; with the types it gives `PowerTracksStatus` for every caller
and fault.  `RefInv` adds the reference protocol (each step between get and put
holds a reference and the flag is the complement of `enable` until it is written);
it needs `Disciplined` and gives `StreamSafety`, `FlagTruthful` and
`ReconfigureOnlyInWindow`.  `ConfigInv` (a powered sensor holds the reported or a
torn configuration) gives `ConfigurationSafety`; `CleanInv`, without lost
transfers, `ControlsReachSensor` and `FormatReachesSensor`; and `ClockBalanced` needs
supplies that do not fail, since the code loses a clock reference when one does.

`Imx219Proofs`: here even the types need the power invariant, since the clock count
stays a natural number only because the driver gives back what it took; `PowerInv`
covers probe (powered before runtime PM is enabled), unbinding and system sleep.
`RefInv` bounds the usage count from below by the references of the stream, of the
call and of system sleep: equality fails after a failed system resume or an unbind
during a stream, and the bound is enough for `StreamSafety`.  `FlipInv` (a running
sensor's flips are grabbed and in its register) gives `FlipsStayPut`.  The timing
results follow from lemmas about the cascade: what `SetModeCtrls` and
`SetVblankCtrl` leave fits the mode whatever they start from.  They hold under
`Calm` (no lost transfer, no caller during probe, no format change and no unbinding
during a stream; supplies may fail), where the usage count is exact (`ExactInv`):
`pm_runtime_get_if_in_use` then tells a powered sensor from an unpowered one, so a
control is either written or replayed at the next start (`ReportedInv`).

`IsiCaptureProofs`: `NeverStarved` rests on counting the discard buffers, and
`IdleSlotLoaded` on the parity of the frame counter.  `ActiveInv` says both: a
started channel has two active buffers in the two slots, the older one in the slot
the parity tells, the registers hold their addresses, and a discard buffer is
either active or spare.  It is inductive for every caller and fault, and across the
wrap, because the modulus is even (`ChannelNeverStarved`, `SlotInUseKept`).
`DmaSafe` adds `Unique` (a buffer is on one list, once) and `RunsStarted` (the
channel runs only after a successful start and is off before the lists are
drained); these hold when the application queues two buffers before STREAMON and
the discard memory can be allocated (`Disciplined`).  `MemoryInv` follows the
discard memory: a channel that was started after an S_FMT has it.
`FitInv` (formats are frozen from REQBUFS on, and the channel and, with an S_FMT, the
discard memory were set up for them) gives `FramesFit`; `SleepInv` (`is_streaming` covers the time the channel runs, but for the
calls that switch it) gives `SleepsIdle`.

`CaptureIsFifo` is the whole refinement: Init maps to the abstract Init and each
step to an abstract step or a stutter.  The mapping concatenates done, the front
buffers of the channel, pending and queued.  A frame that ends with the buffer in
front is the step that makes the next element of the line ready; a skipped frame, a
discard buffer and the exchange of a slot leave the line as it is; STREAMOFF drops
what is not ready.  What each step does to the concatenation is stated with the list
lemmas of `DriverListTheorems`; that no buffer moves twice is `Unique`, and that the
start hands over every queued buffer is `NoneHeld`.

`IsiM2mProofs`: `CountInv` (`usage_count` counts the users) makes the types
inductive, `OwnerInv` adds that tests and locks of the two opens do not overlap.
For the rest: `ConfigInv` (a queue with buffers keeps its format; the later STREAMON
configured the channel for both), `JobInv` (a running job is in exactly one of:
converting, stored, in the handler), `RestInv` (what a stopped queue holds), `SlotInv`
(the two active targets are in the two slots in the order of the channel, the parity
of the frame count says which is in front, and a stored frame is in the target in
front and was made from the source in front) and `DistinctInv` (no target is in two
places).  `PairedResult` is an action property: the handler's step returns the heads
of both queues, which `SlotInv` relates.

`CapturePipelineProofs`: `SensorInPipeline` shows that each step of the pipeline is,
for the sensor, a step of `Ov5648` or none, so what is proved of the sensor holds in
the composition.  It needs that the format `Settled` computes is one the sensor has,
and so that a nearest size exists (`NearestInTable`): a non-empty set of natural
distances has a least one, by well-foundedness.  `PipelineInv` then replaces
`Disciplined`, which the walk does not obey: `WalkInv` (who waits for whom),
`SensorInv` (one reference while held; and a sensor that is open but not started is
silent, so that the STREAMOFF that comes anyway fails at its first register and
gives nothing back, or its STREAMON lost the race of the read-back), `ReadBack`
(between `set_fmt` and `get_fmt` the sensor has the format that was set, or `raced` is
`"get"`), `ReceiverInv` (the receiver is started after and stopped after the sensor)
and `SupplyInv`.  `SensorInv` and `ReceiverInv` are claimed until a surplus STREAMOFF;
that the clocks are on when the receiver's registers are written holds after it as
well.  `RefusedIfRaced` is where `RequestsAssumption` and `ReadBack` meet: a STREAMON
refused as upscaling has lost the race, which is what `OnlyTheReadBackRaces` needs.
`FormatInv` follows the format from STREAMON's configuration to the served stream
and gives `OneFormat`.  `Switched` says that no transfer is lost and that supplies
that may fail really switch the chip.  TLC refutes `SurplusNeedsRace` without either
half of it, since the STREAMOFF after a failed STREAMON then reaches the chip, and
`ReferencesBalanced` and `FormatsAgree` when transfers are lost.

Only model-checked: liveness (`StoppedSensorSuspends` of both sensors,
`BuffersReturn`, `PipelinePowersDown`, `RetryStreams`, `CallsEnd`,
`ConversionProceeds`), since fairness is outside the prover's reach, and the four
findings.  Every invariant and action property of the passing runs is a theorem.

## 5. Findings

Each is a run in which TLC refutes what a comment or message of the code says.

1. `ov5648.c:2081` "Wait for the sensor to be on before setting controls": the
   test is `pm_runtime_suspended()`, which is false while resuming and suspending.
2. `imx219.c:1007` "vflip and hflip cannot change during streaming": a refused
   request still changes the `val` fields from which the Bayer order is computed.
3. `imx219.c:693` "Applying V4L2 control value only happens when power is up for
   streaming": between registration and `pm_runtime_enable` it happens too, and a
   reference is put that was never taken.
4. `ISI/imx8-isi-core.c:555` "running, prevent entering suspend.": after a close
   without STREAMOFF nothing runs and suspend is still refused.

Seen while modelling, without a line that says otherwise; the runs named exclude
them through a constant:

- `ov5648.c:2032`: a failing supply disables a clock that was not enabled; the
  other camera loses its reference (`"rail" \notin Faults` in `ov5648_core`).
- `ov5648.c:2305`: a lost standby write in `s_stream(1)` leaks a PM reference.
- `ov5648.c:1838`: a resume that fails because the flag is set latches the error.
- `imx219.c:744`, `879`: a mode change during a stream changes the reported timing
  only (`FormatWhileStreaming`).
- `imx219.c:1465`: unbinding during a stream leaves the usage count raised.
- `imx219.c:771`, `784`: the enumeration calls reach `imx219_get_format_code`
  without the mutex it asserts.
- `ISI/imx8-isi-cap.c:506`: `isi_cap->slock` and `mxc_isi->slock` do not exclude
  each other (`Smp`).
- `ISI/imx8-isi-cap.c:532` with `454-463` and `1144`: without an S_FMT a stream can be
  started in the default format; `pix` has no planes then, no discard memory is
  allocated, and the slots of the discard buffers are loaded with address 0
  (`DmaTargetOwned` and `FrameFits` claim nothing of that memory before the first S_FMT).
- `ISI/imx8-isi-cap.c:523`: a failed start leaves vb2's buffers linked (`Careful`,
  `"nomem"`).
- `ISI/imx8-isi-cap.c:1205`: the result of vb2's STREAMON is overwritten; a refused one
  still starts the channel, and its interrupts find the active list empty (`Careful`).
- `ISI/imx8-isi-cap.c:1208`: a pipeline that fails to start leaves the channel on
  with `is_streaming` clear, so sleep is allowed (`"remote"`).
- `ISI/imx8-isi-cap.c:1567`: the subdev format can grow past the allocated buffers
  (`SubdevCallers`).
- `ISI/imx8-isi-cap.c:1039` and `1048`: a format set on the sensor between these two
  calls leaves the receiver with the code of one format and the size of another, or
  has STREAMON refused and leads to a STREAMOFF too many (section 2; `raced`,
  `surplus`).
- `ISI/imx8-isi-cap.c:1059` with `exercise-16/v4l2.cpp:94`, `349`: a request above the
  nearest mode is refused as upscaling before any subdev is called; the STREAMOFF
  of `release` then stops a sensor and a receiver nobody has started, and their
  usage counts fall below zero (`RequestsAssumption`).
- `ISI/imx8-mipi-csi2-sam.c:1051`: after one failed resume the receiver runs without
  its PHY supply and STREAMON still succeeds (`ReceiverPowered` says what is left);
  `1709`: after one failed suspend it may stay on for good (`stuck`).
- `ISI/imx8-mipi-csi2-sam.c:943`: data type bits of the gasket accumulate.
- `ISI/imx8-isi-m2m.c`: the rows of the table of rules in section 2, and
  `m2m.c:510-514`: a process that opens between the two steps of another's close
  has its `m2m_enabled` cleared (not in the model); `m2m.c:878`: STREAMON before any
  S_FMT passes the test 0 > 0 and reads a null format (`MayScale` leaves it out).

## 6. Not modelled

OV5648: probe failures and remove, read-back of automatic exposure and gain.
IMX219: gains and test pattern, try formats.  ISI capture: cropping, alpha, flips,
scaler and colour conversion registers, several planes, link set-up, probe and
remove.  ISI memory to memory: flip and alpha controls, DQBUF, runtime PM, sizes of
user-supplied buffers, a second process during close.  CSI-2 receiver: private
ioctls, HDR, system sleep, interrupts (they only count).  Capture class: the frames
themselves.  The pipeline has no type
invariant of its own among the runs: the types of its variables are part of
`PipelineInvariant`.  Scripts, device
trees and the rest of the vendored tree (about 1400 of the 1491 C files: drivers for
other hardware, unchanged, which no program of the repository uses).  Reasons are
in `PROJECT.json`.

## 7. Plan

1. Pure algorithms: OV5648 mode table, PLL and link rate arithmetic
   (`ov5648.c:560-1028`, `1283-1384`, `1562-1590`, `1764-1830`), Bayer codes, ISI scaler
   factors (`imx8-isi-hw.c:527-608`), each against a reference definition.
2. An abstract sensor (off, standby, streaming) refined by both drivers, with the
   refinement proved from `PowerInv` and `RefInv`.
3. Weaker hypotheses: which of the rules of `IsiM2m` each theorem really needs.
4. Remainder of the sensors: gains, automatic modes, probe failures, remove.
