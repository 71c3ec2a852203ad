---------------------------- MODULE IsiM2mProofs ----------------------------
(***************************************************************************)
(* Proofs about the memory to memory path of an ISI channel, for any       *)
(* numbers of buffers, any frame sizes, any even modulus of the frame      *)
(* counter and any number of users of the capture node.                    *)
(***************************************************************************)
EXTENDS IsiM2m, DriverListTheorems, TLAPS

\* An application that keeps the rules of IsiM2m, on a channel that starts with
\* BUF1 after it was disabled.  The bound "index" is no part of it.
Obedient == Rewinds /\ {"order", "once", "two", "format", "alone"} \subseteq Rules

\* usage_count counts the users of both nodes, whoever opens while another
\* opens.
CountInv ==
    /\ usage = captureUsers + (IF opened /\ call # "closed" THEN 1 ELSE 0)
    /\ captureOpening => captureUsers < MaxCaptureUsers
    /\ call \in {"out", "cap", "close", "closed"} => opened
    /\ call = "open" => ~opened

\* When no node is opened while the other one is being opened, there is one
\* owner, from the test in open to the end of close.
OwnerInv ==
    /\ m2mEnabled = opened
    /\ opened \/ call = "open" => captureUsers = 0 /\ ~captureOpening

BothStream == streaming["out"] /\ streaming["cap"]

\* Formats, buffers and configuration: a queue with buffers keeps its format,
\* and the last of the two STREAMONs configured the channel for both.
ConfigInv ==
    /\ \A q \in Queues : alloc[q] # 0 => alloc[q] = fmt[q]
    /\ \A q \in Queues : streaming[q] => alloc[q] # 0 /\ opened /\ call # "closed"
    /\ BothStream => hwSize = fmt /\ inPitch = fmt["out"] /\ fmt["cap"] <= fmt["out"]

\* Where a job is: the channel reads, a stored frame waits for its interrupt, or
\* the handler is running, and only one of them.
JobInv ==
    /\ cancelled => call \in {"out", "cap", "close"}
    /\ call = "cap" => ~streaming["out"]
    /\ job # "none" => BothStream /\ ready["out"] # <<>> /\ ready["cap"] # <<>>
    /\ job = "queued" => ~cancelled
    /\ aborting /\ BothStream => cancelled
    /\ irqAborts => aborting /\ irq # 0
    /\ reading => job = "running" /\ ~irqPending /\ irq = 0
    /\ irqPending => job = "running" /\ irq = 0
    /\ irq # 0 => job = "running" /\ irq = hwActive

\* What a queue that is not started holds, and where the channel starts.
RestInv ==
    /\ \A q \in Queues : IF streaming[q] THEN queued[q] = <<>> ELSE ready[q] = <<>>
    /\ ~streaming["cap"] => active = <<>>
    /\ ~streaming["cap"] \/ call = "cap" => hwActive = 1

Stored == irqPending \/ irq # 0

\* The slot of the target that goes back first: a frame that is stored has
\* moved the channel on to the other slot.
FrontSlot == IF Stored THEN 3 - hwActive ELSE hwActive

\* The two targets of out_active are in the two slots, in the order of the
\* channel, and the parity of frame_count says which one is in front.
Aligned ==
    /\ Len(active) = 2 /\ active[1] = slot[FrontSlot] /\ active[2] = slot[3 - FrontSlot]
    /\ (frameCount % 2 = 1) <=> (FrontSlot = 1)

SlotInv ==
    /\ BothStream /\ ~(cancelled /\ job = "none") => Aligned
    /\ reading => inAddr = Head(ready["out"])
    /\ Stored => memory[active[1]] = Head(ready["out"])

\* No target is in two places of the driver's lists.
DistinctInv ==
    /\ NoRepeat(active) /\ NoRepeat(ready["cap"]) /\ NoRepeat(queued["cap"])
    /\ Range(active) \cap Range(ready["cap"]) = {}

-----------------------------------------------------------------------------
\* TypeOK in parts: the Boolean variables, counts and positions, frame sizes,
\* and addresses and lists.
Flags ==
    /\ opened \in BOOLEAN /\ cancelled \in BOOLEAN /\ m2mEnabled \in BOOLEAN
    /\ captureOpening \in BOOLEAN /\ aborting \in BOOLEAN
    /\ channel \in BOOLEAN /\ reading \in BOOLEAN /\ irqPending \in BOOLEAN
    /\ irqAborts \in BOOLEAN
    /\ streaming \in [Queues -> BOOLEAN]

Positions ==
    /\ call \in {"none", "open", "out", "cap", "close", "closed"}
    /\ usage \in Nat /\ captureUsers \in 0..MaxCaptureUsers
    /\ frameCount \in 0..(CountMod - 1)
    /\ job \in {"none", "queued", "running"}
    /\ hwActive \in Slots /\ irq \in {0} \cup Slots

FrameSizes ==
    /\ fmt \in [Queues -> AnySize] /\ alloc \in [Queues -> AnySize]
    /\ hwSize \in [Queues -> AnySize] /\ inPitch \in AnySize

\* One list for each queue, of that queue's buffers.
ListsOK(f) ==
    /\ f = [q \in Queues |-> f[q]]
    /\ f["out"] \in Seq(Sources) /\ f["cap"] \in Seq(Targets)

Addresses ==
    /\ active \in Seq(Targets)
    /\ slot \in [Slots -> Targets \cup {NoAddr}]
    /\ inAddr \in Sources \cup {NoAddr}
    /\ memory \in [Targets -> Sources \cup {NoAddr}]

Lists == ListsOK(queued) /\ ListsOK(ready)

\* What is inductive about the types: usage_count stays a natural number because
\* it counts the users.
TypeInv == Flags /\ Positions /\ FrameSizes /\ Lists /\ Addresses /\ CountInv

\* The inductive type invariant gives the one of the module.
LEMMA TypeInvOK == TypeInv => TypeOK
  <1> SUFFICES ASSUME TypeInv PROVE TypeOK
    OBVIOUS
  <1>1. \A q \in Queues : queued[q] \in Seq(Buffers(q)) /\ ready[q] \in Seq(Buffers(q))
    BY DEF TypeInv, Lists, ListsOK, Queues, Buffers
  <1> QED BY <1>1 DEF TypeInv, TypeOK, Flags, Positions, FrameSizes, Addresses

-----------------------------------------------------------------------------
(* Sequences and lists *)

\* Both queues.
LEMMA QueueNames == "out" \in Queues /\ "cap" \in Queues /\ "out" # "cap"
  BY DEF Queues

\* A list replaced by another one of the same queue's buffers.
LEMMA ListsExcept ==
    ASSUME NEW f, ListsOK(f), NEW q \in Queues, NEW s \in Seq(Buffers(q))
    PROVE  /\ ListsOK([f EXCEPT ![q] = s])
           /\ [f EXCEPT ![q] = s][q] = s
           /\ \A r \in Queues : r # q => [f EXCEPT ![q] = s][r] = f[r]
  BY DEF ListsOK, Queues, Buffers

\* Empty lists.
LEMMA NoLists == ListsOK([q \in Queues |-> <<>>])
  <1>1. <<>> \in Seq(Sources) /\ <<>> \in Seq(Targets)
    OBVIOUS
  <1> QED BY <1>1, QueueNames DEF ListsOK

\* The oldest entry of a list is its first one.
LEMMA FirstEntry ==
    ASSUME NEW S, NEW s \in Seq(S), s # <<>>
    PROVE  Len(s) >= 1 /\ Head(s) = s[1]
  OBVIOUS

\* What capture STREAMON does to the ready list p: its first two buffers, and
\* the rest.
LEMMA SplitTwo ==
    ASSUME NEW S, NEW s \in Seq(S), NEW t \in Seq(S), Len(t) >= 2
    PROVE  /\ s \o t \in Seq(S)
           /\ Len(s \o t) >= 2 /\ (s \o t)[1] \in S /\ (s \o t)[2] \in S
           /\ SubSeq(s \o t, 3, Len(s \o t)) \in Seq(S)
           /\ \A u \in Seq(S) : u \o <<(s \o t)[1], (s \o t)[2]>> \in Seq(S)
  <1> DEFINE p == s \o t
  <1>1. p \in Seq(S) /\ Len(p) = Len(s) + Len(t) /\ Len(s) \in Nat /\ Len(t) \in Nat
    OBVIOUS
  <1> HIDE DEF p
  <1>2. Len(p) >= 2 /\ p[1] \in S /\ p[2] \in S
    BY <1>1
  <1>3. SubSeq(p, 3, Len(p)) \in Seq(S)
    BY <1>1, <1>2
  <1>4. <<p[1], p[2]>> \in Seq(S)
    BY <1>2
  <1>5. \A u \in Seq(S) : u \o <<p[1], p[2]>> \in Seq(S)
    BY <1>4
  <1> QED BY <1>1, <1>2, <1>3, <1>5 DEF p

-----------------------------------------------------------------------------
(* Type correctness *)

\* No size chosen yet, no address loaded.
LEMMA Zeros ==
    /\ 0 \in AnySize
    /\ [q \in Queues |-> 0] \in [Queues -> AnySize]
    /\ [s \in Slots |-> NoAddr] \in [Slots -> Targets \cup {NoAddr}]
    /\ [t \in Targets |-> NoAddr] \in [Targets -> Sources \cup {NoAddr}]
    /\ \A q \in Queues : Sizes[q] \subseteq AnySize
    /\ <<>> \in Seq(Targets)
  BY DEF AnySize

\* Before the first open everything is well typed.
LEMMA TypeInit == Init => TypeInv
  <1> SUFFICES ASSUME Init PROVE TypeInv
    OBVIOUS
  <1>1. Flags
    BY Zenon DEF Init, Flags
  <1>2. Positions
    BY UsersAssumption, CountAssumption DEF Init, Positions, Slots
  <1>3. FrameSizes
    BY Zeros DEF Init, FrameSizes
  <1>4. Lists
    BY NoLists DEF Init, Lists
  <1>5. Addresses
    BY Zeros DEF Init, Addresses
  <1>6. CountInv
    BY DEF Init, CountInv
  <1> QED BY <1>1, <1>2, <1>3, <1>4, <1>5, <1>6 DEF TypeInv

\* Every step keeps the flags Boolean.
LEMMA FlagsStep == Flags /\ [Next]_vars => Flags'
  <1> SUFFICES ASSUME Flags, [Next]_vars PROVE Flags'
    OBVIOUS
  <1> USE DEF Flags, nodeVars, shareVars, queueVars, setupVars, engineVars, startVars, irqVars
  <1>1. CASE OpenTest \/ Close \/ (\E q \in Queues : \E s \in Sizes[q] : SetFormat(q, s))
            \/ (\E q \in Queues : RequestBuffers(q)) \/ UNCHANGED vars
    BY <1>1
       DEF OpenTest, Close, SetFormat, RequestBuffers, vars
  <1>2. CASE OpenEnd
    BY <1>2, Zenon DEF OpenEnd, ResetChannel, StopChannel, ChannelUntouched
  <1>3. CASE CloseQueues
    BY <1>3, Zenon DEF CloseQueues, ResetChannel, StopChannel, ChannelUntouched
  <1>4. CASE CloseEnd
    BY <1>4, Zenon DEF CloseEnd
  <1>5. CASE CaptureOpenTest
    BY <1>5, Zenon DEF CaptureOpenTest
  <1>6. CASE CaptureOpenEnd
    BY <1>6, Zenon DEF CaptureOpenEnd
  <1>7. CASE CaptureClose
    BY <1>7, Zenon DEF CaptureClose, ResetChannel, StopChannel, ChannelUntouched
  <1>8. ASSUME NEW q \in Queues, NEW b \in Buffers(q), QueueBuffer(q, b) PROVE Flags'
    BY <1>8, Zenon DEF QueueBuffer, TrySchedule, DeviceRun, EnableChannel
  <1>9. CASE StreamOnOut
    <2>1. UNCHANGED <<opened, cancelled, m2mEnabled, captureOpening, aborting, irqAborts>>
      BY <1>9, Zenon DEF StreamOnOut
    <2>2. channel' \in BOOLEAN /\ reading' \in BOOLEAN /\ irqPending' \in BOOLEAN
      BY <1>9, Zenon DEF StreamOnOut, TrySchedule, DeviceRun, EnableChannel
    <2>3. streaming' \in [Queues -> BOOLEAN]
      BY <1>9 DEF StreamOnOut
    <2> QED BY <2>1, <2>2, <2>3
  <1>10. CASE StreamOnCap
    <2>1. UNCHANGED <<opened, cancelled, m2mEnabled, captureOpening, irqAborts>>
      BY <1>10, Zenon DEF StreamOnCap
    <2>2. channel' \in BOOLEAN /\ reading' \in BOOLEAN /\ irqPending' \in BOOLEAN
      BY <1>10, Zenon DEF StreamOnCap, TrySchedule, DeviceRun, EnableChannel
    <2>3. streaming' \in [Queues -> BOOLEAN]
      BY <1>10 DEF StreamOnCap, StartStreaming
    <2>4. aborting' \in BOOLEAN
      BY <1>10, Zenon DEF StreamOnCap, StartStreaming
    <2> QED BY <2>1, <2>2, <2>3, <2>4
  <1>11. ASSUME NEW q \in Queues, StreamOff(q) PROVE Flags'
    BY <1>11, Zenon DEF StreamOff, DisableChannel, StopChannel
  <1>12. CASE CancelJob
    BY <1>12, Zenon DEF CancelJob
  <1>13. ASSUME NEW q \in Queues, StreamOffEnd(q) PROVE Flags'
    <2>1. UNCHANGED <<opened, m2mEnabled, captureOpening, aborting, channel, reading, irqPending, irqAborts>>
          /\ cancelled' \in BOOLEAN
      BY <1>13, Zenon DEF StreamOffEnd
    <2>2. streaming' \in [Queues -> BOOLEAN]
      BY <1>13 DEF StreamOffEnd
    <2> QED BY <2>1, <2>2
  <1>14. CASE JobWork
    BY <1>14, Zenon DEF JobWork, DeviceRun, EnableChannel
  <1>15. CASE FrameStored
    BY <1>15, Zenon DEF FrameStored
  <1>16. CASE IrqEnter
    BY <1>16, Zenon DEF IrqEnter
  <1>17. CASE FrameWriteDone
    BY <1>17, Zenon DEF FrameWriteDone, DisableChannel, StopChannel
  <1> QED
    BY <1>1, <1>2, <1>3, <1>4, <1>5, <1>6, <1>7, <1>8, <1>9, <1>10, <1>11, <1>12, <1>13, <1>14, <1>15, <1>16, <1>17
       DEF Next, UserStep, CallStep

\* Capture STREAMON with the ready buffers p: the queue starts, the call is
\* refused, or the queue was streaming already.
CapStarts(p) ==
    /\ ~streaming["cap"] /\ alloc["cap"] # 0 /\ ~(Len(queued["cap"]) < 2)
    /\ StartStreaming(p) /\ TrySchedule

CapRefused(p) ==
    /\ ~streaming["cap"] /\ (alloc["cap"] = 0 \/ Len(queued["cap"]) < 2)
    /\ ready' = IF alloc["cap"] = 0 THEN ready ELSE [ready EXCEPT !["cap"] = p]
    /\ frameCount' = 0
    /\ UNCHANGED <<slot, active, queued, streaming, aborting, startVars>>

CapRepeated ==
    /\ streaming["cap"] /\ frameCount' = 0 /\ TrySchedule
    /\ UNCHANGED <<slot, active, ready, queued, streaming, aborting>>

\* One of the three happens.
LEMMA StreamOnCapCases ==
    ASSUME StreamOnCap
    PROVE  \/ CapStarts(ready["cap"] \o queued["cap"])
           \/ CapRefused(ready["cap"] \o queued["cap"])
           \/ CapRepeated
  BY DEF StreamOnCap, CapStarts, CapRefused, CapRepeated

\* Every step keeps the count of users exact, whoever opens while another opens.
LEMMA CountStep == Flags /\ Positions /\ CountInv /\ [Next]_vars => CountInv'
  <1> SUFFICES ASSUME Flags, Positions, CountInv, [Next]_vars PROVE CountInv'
    OBVIOUS
  <1> USE DEF Flags, Positions, CountInv, nodeVars, shareVars, queueVars, setupVars, engineVars, startVars, irqVars
  <1>1. CASE (\E q \in Queues : \E s \in Sizes[q] : SetFormat(q, s))
            \/ (\E q \in Queues : RequestBuffers(q))
            \/ (\E q \in Queues : \E b \in Buffers(q) : QueueBuffer(q, b)) \/ StreamOnOut
            \/ StreamOnCap \/ CancelJob \/ JobWork \/ FrameStored \/ IrqEnter \/ FrameWriteDone
            \/ UNCHANGED vars
    <2>1. UNCHANGED <<usage, captureUsers, opened, call, captureOpening>>
      BY <1>1
         DEF SetFormat, RequestBuffers, QueueBuffer, StreamOnOut, StreamOnCap, CancelJob,
             JobWork, FrameStored, IrqEnter, FrameWriteDone, vars
    <2> QED BY <2>1
  <1>2. CASE OpenTest
    BY <1>2 DEF OpenTest
  <1>3. CASE OpenEnd
    BY <1>3 DEF OpenEnd
  <1>4. CASE Close
    BY <1>4 DEF Close, MayCall
  <1>5. CASE CloseQueues
    BY <1>5 DEF CloseQueues
  <1>6. CASE CloseEnd
    BY <1>6 DEF CloseEnd
  <1>7. CASE CaptureOpenTest
    BY <1>7 DEF CaptureOpenTest
  <1>8. CASE CaptureOpenEnd
    BY <1>8, UsersAssumption DEF CaptureOpenEnd
  <1>9. CASE CaptureClose
    BY <1>9, UsersAssumption DEF CaptureClose
  <1>10. ASSUME NEW q \in Queues, StreamOff(q) PROVE CountInv'
    BY <1>10 DEF StreamOff, MayCall, Queues
  <1>11. ASSUME NEW q \in Queues, StreamOffEnd(q) PROVE CountInv'
    BY <1>11 DEF StreamOffEnd, Queues
  <1> QED
    BY <1>1, <1>2, <1>3, <1>4, <1>5, <1>6, <1>7, <1>8, <1>9, <1>10, <1>11
       DEF Next, UserStep, CallStep

\* Every step keeps counts and positions in their ranges.
LEMMA PositionsStep == Flags /\ Positions /\ CountInv /\ [Next]_vars => Positions'
  <1> SUFFICES ASSUME Flags, Positions, CountInv, [Next]_vars PROVE Positions'
    OBVIOUS
  <1>0. 1 \in 0..(CountMod - 1) /\ 0 \in 0..(CountMod - 1) /\ NextCount \in 0..(CountMod - 1)
    BY CountAssumption DEF NextCount, Positions
  <1> USE DEF Positions, Slots, nodeVars, shareVars, queueVars, setupVars, engineVars, startVars, irqVars
  <1>1. CASE (\E q \in Queues : \E s \in Sizes[q] : SetFormat(q, s))
            \/ (\E q \in Queues : RequestBuffers(q)) \/ UNCHANGED vars
    BY <1>1
       DEF SetFormat, RequestBuffers, vars
  <1>2. CASE OpenTest
    BY <1>2 DEF OpenTest
  <1>3. CASE OpenEnd
    BY <1>3 DEF OpenEnd, ResetChannel, StopChannel, ChannelUntouched
  <1>4. CASE Close
    BY <1>4 DEF Close
  <1>5. CASE CloseQueues
    BY <1>5 DEF CloseQueues, CountInv, ResetChannel, StopChannel, ChannelUntouched
  <1>6. CASE CloseEnd
    BY <1>6 DEF CloseEnd
  <1>7. CASE CaptureOpenTest
    BY <1>7 DEF CaptureOpenTest
  <1>8. CASE CaptureOpenEnd
    BY <1>8, UsersAssumption DEF CaptureOpenEnd, CountInv
  <1>9. CASE CaptureClose
    BY <1>9, UsersAssumption DEF CaptureClose, ResetChannel, StopChannel, ChannelUntouched
  <1>10. ASSUME NEW q \in Queues, NEW b \in Buffers(q), QueueBuffer(q, b) PROVE Positions'
    <2>1. job' \in {"none", "queued", "running"} /\ UNCHANGED hwActive
      BY <1>10 DEF QueueBuffer, TrySchedule, DeviceRun, EnableChannel
    <2> QED BY <1>10, <2>1 DEF QueueBuffer
  <1>11. CASE StreamOnOut
    <2>1. job' \in {"none", "queued", "running"} /\ UNCHANGED hwActive
      BY <1>11 DEF StreamOnOut, TrySchedule, DeviceRun, EnableChannel
    <2> QED BY <1>11, <2>1 DEF StreamOnOut
  <1>12. CASE StreamOnCap
    <2>1. job' \in {"none", "queued", "running"} /\ UNCHANGED hwActive
      BY <1>12 DEF StreamOnCap, TrySchedule, DeviceRun, EnableChannel
    <2>2. frameCount' \in 0..(CountMod - 1)
      BY <1>12, <1>0 DEF StreamOnCap, StartStreaming
    <2> QED BY <1>12, <2>1, <2>2 DEF StreamOnCap
  <1>13. ASSUME NEW q \in Queues, StreamOff(q) PROVE Positions'
    BY <1>13 DEF StreamOff, DisableChannel, StopChannel, Queues
  <1>14. CASE CancelJob
    BY <1>14 DEF CancelJob
  <1>15. ASSUME NEW q \in Queues, StreamOffEnd(q) PROVE Positions'
    BY <1>15 DEF StreamOffEnd
  <1>16. CASE JobWork
    BY <1>16 DEF JobWork, DeviceRun
  <1>17. CASE FrameStored
    BY <1>17 DEF FrameStored
  <1>18. CASE IrqEnter
    BY <1>18 DEF IrqEnter
  <1>19. CASE FrameWriteDone
    <2>1. frameCount' \in 0..(CountMod - 1)
      BY <1>19, <1>0 DEF FrameWriteDone, Convert
    <2>2. hwActive' \in Slots /\ irq' = 0
      BY <1>19 DEF FrameWriteDone, DisableChannel, StopChannel
    <2>3. job' \in {"none", "queued", "running"} /\ UNCHANGED <<call, usage, captureUsers>>
      BY <1>19 DEF FrameWriteDone, JobFinish
    <2> QED BY <2>1, <2>2, <2>3
  <1> QED
    BY <1>1, <1>2, <1>3, <1>4, <1>5, <1>6, <1>7, <1>8, <1>9, <1>10, <1>11, <1>12, <1>13, <1>14, <1>15, <1>16, <1>17, <1>18, <1>19
       DEF Next, UserStep, CallStep

\* Every step keeps the frame sizes among those S_FMT may choose.
LEMMA FrameSizesStep == FrameSizes /\ [Next]_vars => FrameSizes'
  <1> SUFFICES ASSUME FrameSizes, [Next]_vars PROVE FrameSizes'
    OBVIOUS
  <1> USE DEF FrameSizes, nodeVars, shareVars, queueVars, setupVars, engineVars, startVars, irqVars
  <1>1. CASE OpenTest \/ Close \/ CloseEnd \/ CaptureOpenTest \/ CaptureOpenEnd
            \/ (\E q \in Queues : \E b \in Buffers(q) : QueueBuffer(q, b)) \/ StreamOnOut
            \/ StreamOnCap \/ (\E q \in Queues : StreamOff(q)) \/ CancelJob
            \/ (\E q \in Queues : StreamOffEnd(q)) \/ JobWork \/ FrameStored \/ IrqEnter
            \/ FrameWriteDone \/ UNCHANGED vars
    BY <1>1
       DEF OpenTest, Close, CloseEnd, CaptureOpenTest, CaptureOpenEnd, QueueBuffer, StreamOnOut,
           StreamOnCap, StreamOff, CancelJob, StreamOffEnd, JobWork, FrameStored, IrqEnter,
           FrameWriteDone, vars
  <1>2. CASE OpenEnd
    BY <1>2, Zeros DEF OpenEnd, ResetChannel, StopChannel, ChannelUntouched
  <1>3. CASE CloseQueues
    BY <1>3, Zeros DEF CloseQueues, ResetChannel, StopChannel, ChannelUntouched
  <1>4. CASE CaptureClose
    BY <1>4, Zeros DEF CaptureClose, ResetChannel, StopChannel, ChannelUntouched
  <1>5. ASSUME NEW q \in Queues, NEW s \in Sizes[q], SetFormat(q, s) PROVE FrameSizes'
    BY <1>5, Zeros DEF SetFormat
  <1>6. ASSUME NEW q \in Queues, RequestBuffers(q) PROVE FrameSizes'
    BY <1>6, Zeros DEF RequestBuffers
  <1> QED
    BY <1>1, <1>2, <1>3, <1>4, <1>5, <1>6
       DEF Next, UserStep, CallStep

\* Every step keeps each queue's lists to the buffers of that queue.
LEMMA ListsStep == Lists /\ [Next]_vars => Lists'
  <1> SUFFICES ASSUME Lists, [Next]_vars PROVE Lists'
    OBVIOUS
  <1>0. /\ \A q \in Queues : queued[q] \in Seq(Buffers(q)) /\ ready[q] \in Seq(Buffers(q))
        /\ \A q \in Queues : <<>> \in Seq(Buffers(q))
        /\ Buffers("out") = Sources /\ Buffers("cap") = Targets
    BY DEF Lists, ListsOK, Queues, Buffers
  <1> USE DEF Lists, nodeVars, shareVars, queueVars, setupVars, engineVars, startVars, irqVars
  <1>1. CASE OpenTest \/ OpenEnd \/ Close \/ CloseEnd \/ CaptureOpenTest \/ CaptureOpenEnd
            \/ CaptureClose \/ (\E q \in Queues : \E s \in Sizes[q] : SetFormat(q, s))
            \/ (\E q \in Queues : StreamOff(q)) \/ CancelJob \/ JobWork \/ FrameStored
            \/ IrqEnter \/ UNCHANGED vars
    BY <1>1
       DEF OpenTest, OpenEnd, Close, CloseEnd, CaptureOpenTest, CaptureOpenEnd, CaptureClose,
           SetFormat, StreamOff, CancelJob, JobWork, FrameStored, IrqEnter, vars
  <1>2. CASE CloseQueues
    BY <1>2, NoLists DEF CloseQueues, StopStreaming
  <1>3. ASSUME NEW q \in Queues, RequestBuffers(q) PROVE Lists'
    BY <1>3, <1>0, ListsExcept DEF RequestBuffers
  <1>4. ASSUME NEW q \in Queues, NEW b \in Buffers(q), QueueBuffer(q, b) PROVE Lists'
    <2>1. Append(ready[q], b) \in Seq(Buffers(q)) /\ Append(queued[q], b) \in Seq(Buffers(q))
      BY <1>0
    <2>2. /\ ListsOK([ready EXCEPT ![q] = Append(ready[q], b)])
          /\ ListsOK([queued EXCEPT ![q] = Append(queued[q], b)])
      BY <2>1, ListsExcept
    <2> QED BY <1>4, <2>2 DEF QueueBuffer
  <1>5. CASE StreamOnOut
    <2>1. ready["out"] \o queued["out"] \in Seq(Buffers("out"))
      BY <1>0, QueueNames
    <2>2. /\ ListsOK([ready EXCEPT !["out"] = ready["out"] \o queued["out"]])
          /\ ListsOK([queued EXCEPT !["out"] = <<>>])
      BY <1>0, <2>1, QueueNames, ListsExcept
    <2> QED BY <1>5, <2>2 DEF StreamOnOut
  <1>6. CASE StreamOnCap
    <2> DEFINE p == ready["cap"] \o queued["cap"]
    <2>1. p \in Seq(Buffers("cap"))
      BY <1>0, QueueNames
    <2>2. ~(Len(queued["cap"]) < 2) => SubSeq(p, 3, Len(p)) \in Seq(Buffers("cap"))
      <3>1. ~(Len(queued["cap"]) < 2) => Len(queued["cap"]) >= 2
        BY <1>0, QueueNames
      <3> QED BY <1>0, <3>1, QueueNames, SplitTwo
    <2>3. CapStarts(p) \/ CapRefused(p) \/ CapRepeated
      BY <1>6, StreamOnCapCases
    <2> HIDE DEF p
    <2>4. CASE CapStarts(p)
      <3>1. ListsOK([ready EXCEPT !["cap"] = SubSeq(p, 3, Len(p))]) /\ ListsOK([queued EXCEPT !["cap"] = <<>>])
        BY <1>0, <2>2, <2>4, QueueNames, ListsExcept DEF CapStarts
      <3> QED BY <2>4, <3>1 DEF CapStarts, StartStreaming
    <2>5. CASE CapRefused(p)
      <3>1. ListsOK([ready EXCEPT !["cap"] = p])
        BY <2>1, QueueNames, ListsExcept
      <3> QED BY <2>5, <3>1 DEF CapRefused
    <2>6. CASE CapRepeated
      BY <2>6 DEF CapRepeated
    <2> QED BY <2>3, <2>4, <2>5, <2>6
  <1>7. ASSUME NEW q \in Queues, StreamOffEnd(q) PROVE Lists'
    <2>1. ListsOK([ready EXCEPT ![q] = <<>>]) /\ ListsOK([queued EXCEPT ![q] = <<>>])
      BY <1>0, ListsExcept
    <2>2. ListsOK(ready')
      BY <1>7, <2>1, NoLists DEF StreamOffEnd, StopStreaming
    <2>3. ListsOK(queued')
      BY <1>7, <2>1 DEF StreamOffEnd
    <2> QED BY <2>2, <2>3
  <1>8. CASE FrameWriteDone
    <2>1. CASE UNCHANGED ready
      BY <1>8, <2>1 DEF FrameWriteDone
    <2>2. CASE Convert
      <3> DEFINE shorter(q) == IF ready[q] = <<>> THEN <<>> ELSE Tail(ready[q])
      <3>1. ready' = [q \in Queues |-> shorter(q)]
        BY <2>2 DEF Convert
      <3>2. \A q \in Queues : shorter(q) \in Seq(Buffers(q))
        BY <1>0, HeadTail
      <3> HIDE DEF shorter
      <3>3. ListsOK(ready')
        BY <1>0, <3>1, <3>2, QueueNames DEF ListsOK
      <3> QED BY <1>8, <3>3 DEF FrameWriteDone
    <2> QED BY <1>8, <2>1, <2>2 DEF FrameWriteDone
  <1> QED
    BY <1>1, <1>2, <1>3, <1>4, <1>5, <1>6, <1>7, <1>8
       DEF Next, UserStep, CallStep

\* Every step keeps addresses to the buffers of their queue.
LEMMA AddressesStep == Positions /\ Lists /\ Addresses /\ [Next]_vars => Addresses'
  <1> SUFFICES ASSUME Positions, Lists, Lists', Addresses, [Next]_vars PROVE Addresses'
    BY ListsStep
  <1>0. /\ ready["out"] \in Seq(Sources) /\ ready'["out"] \in Seq(Sources)
        /\ ready["cap"] \in Seq(Targets) /\ queued["cap"] \in Seq(Targets)
    BY DEF Lists, ListsOK
  <1>a. TrySchedule => inAddr' \in Sources \cup {NoAddr}
    BY <1>0, HeadTail DEF TrySchedule, DeviceRun, Addresses, startVars
  <1>b. \A T \in SUBSET Targets :
           [t \in Targets |-> IF t \in T THEN memory[t] ELSE NoAddr] \in [Targets -> Sources \cup {NoAddr}]
    BY DEF Addresses
  <1> USE DEF Addresses, nodeVars, shareVars, queueVars, setupVars, engineVars, startVars, irqVars
  <1>1. CASE OpenTest \/ Close \/ CloseEnd \/ CaptureOpenTest \/ CaptureOpenEnd
            \/ (\E q \in Queues : \E s \in Sizes[q] : SetFormat(q, s))
            \/ (\E q \in Queues : RequestBuffers(q)) \/ (\E q \in Queues : StreamOff(q))
            \/ CancelJob \/ IrqEnter \/ UNCHANGED vars
    BY <1>1
       DEF OpenTest, Close, CloseEnd, CaptureOpenTest, CaptureOpenEnd, SetFormat,
           RequestBuffers, StreamOff, CancelJob, IrqEnter, vars
  <1>2. CASE OpenEnd
    BY <1>2, Zeros DEF OpenEnd, ResetChannel, StopChannel, ChannelUntouched, StopStreaming
  <1>3. CASE CloseQueues
    <2>1. (active' = active \/ active' = <<>>) /\ (memory' = memory \/ memory' = [t \in Targets |-> NoAddr])
      BY <1>3, Zenon DEF CloseQueues, StopStreaming
    <2>2. active' \in Seq(Targets) /\ memory' \in [Targets -> Sources \cup {NoAddr}]
      BY <2>1, Zeros
    <2> QED BY <1>3, <2>2, Zeros DEF CloseQueues, ResetChannel, StopChannel, ChannelUntouched
  <1>4. CASE CaptureClose
    BY <1>4, Zeros DEF CaptureClose, ResetChannel, StopChannel, ChannelUntouched, StopStreaming
  <1>5. ASSUME NEW q \in Queues, NEW b \in Buffers(q), QueueBuffer(q, b) PROVE Addresses'
    BY <1>5, <1>a DEF QueueBuffer
  <1>6. CASE StreamOnOut
    BY <1>6, <1>a DEF StreamOnOut
  <1>7. CASE StreamOnCap
    <2> DEFINE p == ready["cap"] \o queued["cap"]
    <2>1. CapStarts(p) \/ CapRefused(p) \/ CapRepeated
      BY <1>7, StreamOnCapCases
    <2>2. CASE CapStarts(p)
      <3>1. Len(queued["cap"]) >= 2
        BY <1>0, <2>2 DEF CapStarts
      <3>2. p[1] \in Targets /\ p[2] \in Targets /\ active \o <<p[1], p[2]>> \in Seq(Targets)
        BY <1>0, <3>1, SplitTwo
      <3> HIDE DEF p
      <3>3. active' = active \o <<p[1], p[2]>> /\ slot' = [s \in Slots |-> p[s]]
        BY <2>2 DEF CapStarts, StartStreaming
      <3>4. slot' \in [Slots -> Targets \cup {NoAddr}]
        BY <3>2, <3>3 DEF Slots
      <3> QED BY <1>7, <1>a, <2>2, <3>2, <3>3, <3>4 DEF StreamOnCap, CapStarts
    <2>3. CASE CapRefused(p)
      BY <1>7, <2>3 DEF StreamOnCap, CapRefused
    <2>4. CASE CapRepeated
      BY <1>7, <1>a, <2>4 DEF StreamOnCap, CapRepeated
    <2> QED BY <2>1, <2>2, <2>3, <2>4
  <1>8. ASSUME NEW q \in Queues, StreamOffEnd(q) PROVE Addresses'
    <2>1. (active' = active \/ active' = <<>>) /\ (memory' = memory \/ memory' = [t \in Targets |-> NoAddr])
      BY <1>8, Zenon DEF StreamOffEnd, StopStreaming
    <2>2. active' \in Seq(Targets) /\ memory' \in [Targets -> Sources \cup {NoAddr}]
      BY <2>1, Zeros
    <2> QED BY <1>8, <2>2, Zeros DEF StreamOffEnd, ResetChannel, StopChannel, ChannelUntouched
  <1>9. CASE JobWork
    BY <1>9, <1>0, HeadTail DEF JobWork, DeviceRun
  <1>10. CASE FrameStored
    BY <1>10 DEF FrameStored, Positions
  <1>11. CASE FrameWriteDone
    <2>1. CASE UNCHANGED <<active, slot, memory>>
      BY <1>11, <2>1 DEF FrameWriteDone
    <2>2. CASE Convert
      <3> DEFINE rest == IF active = <<>> THEN <<>> ELSE Tail(active)
      <3>1. rest \in Seq(Targets)
        BY HeadTail
      <3>2. active' \in Seq(Targets) /\ slot' \in [Slots -> Targets \cup {NoAddr}]
        <4>1. CASE ready["cap"] = <<>>
          BY <2>2, <3>1, <4>1 DEF Convert
        <4>2. CASE ready["cap"] # <<>>
          <5>1. Head(ready["cap"]) \in Targets
            BY <1>0, <4>2, HeadTail
          <5> HIDE DEF rest
          <5>2. active' = Append(rest, Head(ready["cap"]))
            BY <2>2, <4>2 DEF Convert, rest
          <5>3. slot' = [slot EXCEPT ![OutSlot(NextCount)] = Head(ready["cap"])]
            BY <2>2, <4>2 DEF Convert
          <5>4. active' \in Seq(Targets)
            BY <3>1, <5>1, <5>2
          <5> QED BY <5>1, <5>3, <5>4
        <4> QED BY <4>1, <4>2
      <3> DEFINE T == Range(active') \cap Targets
      <3>3. memory' = [t \in Targets |-> IF t \in T THEN memory[t] ELSE NoAddr]
        BY <2>2 DEF Convert
      <3> HIDE DEF T
      <3>4. T \subseteq Targets
        BY DEF T
      <3> QED BY <1>11, <1>b, <3>2, <3>3, <3>4 DEF FrameWriteDone
    <2> QED BY <1>11, <2>1, <2>2 DEF FrameWriteDone
  <1> QED
    BY <1>1, <1>2, <1>3, <1>4, <1>5, <1>6, <1>7, <1>8, <1>9, <1>10, <1>11
       DEF Next, UserStep, CallStep

\* Every step keeps the types.
LEMMA TypeStep == TypeInv /\ [Next]_vars => TypeInv'
  BY FlagsStep, PositionsStep, FrameSizesStep, ListsStep, AddressesStep, CountStep DEF TypeInv

\* The inductive type invariant holds in every state.
LEMMA TypeInvariant == Spec => []TypeInv
  BY TypeInit, TypeStep, PTL DEF Spec

\* Every state of the path has its type, for applications that keep no rule at
\* all: usage_count never goes below zero, the lists hold buffers of their own
\* queue, frame_count stays a u32.
THEOREM TypeCorrect == Spec => []TypeOK
  BY TypeInvariant, TypeInvOK, PTL

-----------------------------------------------------------------------------
\* When no node is opened while the other one is being opened, every step keeps
\* one owner of the channel.
LEMMA OwnerStep == "alone" \in Rules /\ TypeInv /\ OwnerInv /\ [Next]_vars => OwnerInv'
  <1> SUFFICES ASSUME "alone" \in Rules, Flags, Positions, CountInv, OwnerInv, [Next]_vars PROVE OwnerInv'
    BY DEF TypeInv
  <1> USE DEF Flags, Positions, CountInv, OwnerInv, nodeVars, shareVars, queueVars, setupVars, engineVars, startVars, irqVars
  <1>1. CASE (\E q \in Queues : \E s \in Sizes[q] : SetFormat(q, s))
            \/ (\E q \in Queues : RequestBuffers(q))
            \/ (\E q \in Queues : \E b \in Buffers(q) : QueueBuffer(q, b)) \/ StreamOnOut
            \/ StreamOnCap \/ CancelJob \/ JobWork \/ FrameStored \/ IrqEnter \/ FrameWriteDone
            \/ UNCHANGED vars
    <2>1. UNCHANGED <<m2mEnabled, opened, call, captureUsers, captureOpening>>
      BY <1>1
         DEF SetFormat, RequestBuffers, QueueBuffer, StreamOnOut, StreamOnCap, CancelJob,
             JobWork, FrameStored, IrqEnter, FrameWriteDone, vars
    <2> QED BY <2>1
  <1>2. CASE OpenTest
    BY <1>2 DEF OpenTest
  <1>3. CASE OpenEnd
    BY <1>3 DEF OpenEnd
  <1>4. CASE Close
    BY <1>4 DEF Close
  <1>5. CASE CloseQueues
    BY <1>5 DEF CloseQueues
  <1>6. CASE CloseEnd
    BY <1>6 DEF CloseEnd
  <1>7. CASE CaptureOpenTest
    BY <1>7 DEF CaptureOpenTest
  <1>8. CASE CaptureOpenEnd
    BY <1>8 DEF CaptureOpenEnd
  <1>9. CASE CaptureClose
    BY <1>9 DEF CaptureClose
  <1>10. ASSUME NEW q \in Queues, StreamOff(q) PROVE OwnerInv'
    BY <1>10 DEF StreamOff, MayCall, Queues
  <1>11. ASSUME NEW q \in Queues, StreamOffEnd(q) PROVE OwnerInv'
    BY <1>11 DEF StreamOffEnd, Queues
  <1> QED
    BY <1>1, <1>2, <1>3, <1>4, <1>5, <1>6, <1>7, <1>8, <1>9, <1>10, <1>11
       DEF Next, UserStep, CallStep

\* Under the same rule there is one owner in every state.
LEMMA OwnerInvariant == ASSUME "alone" \in Rules PROVE Spec => [](TypeInv /\ OwnerInv)
  <1>1. Init => OwnerInv
    BY DEF Init, OwnerInv
  <1>2. "alone" \in Rules
    OBVIOUS
  <1>3. TypeInv /\ OwnerInv /\ [Next]_vars => OwnerInv'
    BY <1>2, OwnerStep
  <1> QED BY <1>1, <1>3, TypeInvariant, PTL DEF Spec

\* When no node is opened while the other one is being opened, the m2m node and
\* the capture node are never open together, m2m_enabled says which of them owns
\* the channel and usage_count counts its users: the two tests without a lock
\* are enough.
THEOREM OneOwner == ASSUME "alone" \in Rules PROVE Spec => []ExclusiveUse
  <1>1. TypeInv /\ OwnerInv => ExclusiveUse
    BY DEF TypeInv, CountInv, OwnerInv, ExclusiveUse
  <1> QED BY <1>1, OwnerInvariant, PTL

-----------------------------------------------------------------------------
(* An application that keeps the rules *)

\* What the rules say about a STREAMON or STREAMOFF that is allowed.
LEMMA RulesKept ==
    ASSUME Obedient
    PROVE  /\ MayStart("out") => ~streaming["cap"] /\ ~streaming["out"] /\ inPitch = fmt["out"]
           /\ MayStart("cap") => /\ ~streaming["cap"] /\ Len(queued["cap"]) >= 2
                                 /\ inPitch = fmt["out"]
           /\ MayStop("cap") => ~streaming["out"]
           /\ "alone" \in Rules /\ Rewinds
  BY DEF Obedient, MayStart, MayStop

\* Every step keeps formats, buffers and configuration together.
LEMMA ConfigStep ==
    Obedient /\ TypeInv /\ OwnerInv /\ ConfigInv /\ [Next]_vars => ConfigInv'
  <1> SUFFICES ASSUME Obedient, TypeInv, OwnerInv, ConfigInv, [Next]_vars PROVE ConfigInv'
    OBVIOUS
  <1>0. Flags /\ FrameSizes /\ CountInv
    BY DEF TypeInv
  <1> USE DEF ConfigInv, BothStream, nodeVars, shareVars, queueVars, setupVars, engineVars, startVars, irqVars
  <1>1. CASE CaptureOpenTest \/ CaptureOpenEnd
            \/ (\E q \in Queues : \E b \in Buffers(q) : QueueBuffer(q, b)) \/ CancelJob
            \/ JobWork \/ FrameStored \/ IrqEnter \/ FrameWriteDone \/ UNCHANGED vars
    <2>1. UNCHANGED <<alloc, fmt, streaming, opened, call, hwSize, inPitch>>
      BY <1>1
         DEF CaptureOpenTest, CaptureOpenEnd, QueueBuffer, CancelJob, JobWork, FrameStored,
             IrqEnter, FrameWriteDone, vars
    <2> QED BY <2>1
  <1>2. CASE OpenTest
    BY <1>2, <1>0 DEF OpenTest
  <1>3. CASE OpenEnd
    <2>1. ~streaming["out"] /\ ~streaming["cap"]
      BY <1>3, <1>0, QueueNames DEF OpenEnd, CountInv
    <2>2. UNCHANGED <<streaming, alloc, fmt>> /\ \A q \in Queues : ~streaming[q]
      BY <1>3, <2>1 DEF OpenEnd, Queues
    <2> QED BY <2>1, <2>2
  <1>4. CASE Close
    BY <1>4 DEF Close
  <1>5. CASE CloseQueues
    <2>1. /\ \A q \in Queues : ~streaming'[q] /\ alloc'[q] = 0
          /\ ~streaming'["out"]
      BY <1>5, QueueNames DEF CloseQueues
    <2> QED BY <2>1
  <1>6. CASE CloseEnd
    <2>1. UNCHANGED <<streaming, alloc, fmt, hwSize, inPitch>> /\ \A q \in Queues : ~streaming[q]
      BY <1>6 DEF CloseEnd
    <2> QED BY <2>1, QueueNames
  <1>7. CASE CaptureClose
    <2>1. ~opened
      BY <1>7 DEF CaptureClose, OwnerInv
    <2>2. UNCHANGED <<streaming, alloc, fmt>> /\ \A q \in Queues : ~streaming[q]
      BY <1>7, <2>1 DEF CaptureClose
    <2> QED BY <2>2, QueueNames
  <1>8. ASSUME NEW q \in Queues, NEW s \in Sizes[q], SetFormat(q, s) PROVE ConfigInv'
    <2>1. ~streaming[q] /\ alloc[q] = 0
      BY <1>8 DEF SetFormat
    <2>2. UNCHANGED <<streaming, alloc, opened, call>> /\ fmt' = [fmt EXCEPT ![q] = s]
      BY <1>8 DEF SetFormat
    <2>3. ~BothStream
      BY <2>1 DEF Queues
    <2> QED BY <1>0, <2>1, <2>2, <2>3 DEF FrameSizes
  <1>9. ASSUME NEW q \in Queues, RequestBuffers(q) PROVE ConfigInv'
    <2>1. ~streaming[q] /\ UNCHANGED <<streaming, fmt, opened, call, hwSize, inPitch>>
      BY <1>9 DEF RequestBuffers
    <2>2. PICK size \in {0, fmt[q]} : alloc' = [alloc EXCEPT ![q] = size]
      BY <1>9 DEF RequestBuffers
    <2> QED BY <1>0, <2>1, <2>2 DEF FrameSizes
  <1>10. CASE StreamOnOut
    <2>1. alloc["out"] # 0 /\ ~streaming["cap"] /\ opened /\ call = "none"
      BY <1>10, RulesKept DEF StreamOnOut, MayCall
    <2>2. UNCHANGED <<alloc, fmt, opened, call, hwSize, inPitch>>
      BY <1>10 DEF StreamOnOut
    <2>3. streaming' = [streaming EXCEPT !["out"] = TRUE]
      BY <1>10 DEF StreamOnOut
    <2> QED BY <1>0, <2>1, <2>2, <2>3 DEF Flags, Queues
  <1>11. CASE StreamOnCap
    <2> DEFINE p == ready["cap"] \o queued["cap"]
    <2>1. /\ opened /\ call = "none" /\ inPitch = fmt["out"] /\ fmt["cap"] <= fmt["out"]
          /\ ~streaming["cap"]
      BY <1>11, RulesKept DEF StreamOnCap, MayCall, MayScale
    <2>2. UNCHANGED <<alloc, fmt, opened, call, inPitch>> /\ hwSize' = fmt
      BY <1>11 DEF StreamOnCap
    <2>3. \/ alloc["cap"] # 0 /\ streaming' = [streaming EXCEPT !["cap"] = TRUE]
          \/ UNCHANGED streaming
      BY <1>11, StreamOnCapCases DEF CapStarts, CapRefused, CapRepeated, StartStreaming
    <2> QED BY <1>0, <2>1, <2>2, <2>3 DEF Flags, Queues
  <1>12. ASSUME NEW q \in Queues, StreamOff(q) PROVE ConfigInv'
    <2>1. call' # "closed" /\ UNCHANGED <<alloc, fmt, streaming, opened, hwSize, inPitch>>
      BY <1>12 DEF StreamOff, Queues
    <2> QED BY <2>1
  <1>13. ASSUME NEW q \in Queues, StreamOffEnd(q) PROVE ConfigInv'
    <2>1. call' = "none" /\ UNCHANGED <<alloc, fmt, opened, hwSize, inPitch>>
          /\ streaming' = [streaming EXCEPT ![q] = FALSE]
      BY <1>13 DEF StreamOffEnd
    <2> QED BY <1>0, <2>1 DEF Flags, Queues
  <1> QED
    BY <1>1, <1>2, <1>3, <1>4, <1>5, <1>6, <1>7, <1>8, <1>9, <1>10, <1>11, <1>12, <1>13
       DEF Next, UserStep, CallStep

\* Every step keeps a job in one place.
LEMMA JobStep ==
    Obedient /\ TypeInv /\ OwnerInv /\ ConfigInv /\ JobInv /\ [Next]_vars => JobInv'
  <1> SUFFICES ASSUME Obedient, TypeInv, OwnerInv, ConfigInv, JobInv, [Next]_vars PROVE JobInv'
    OBVIOUS
  <1>0. Flags /\ Positions /\ Lists /\ CountInv
    BY DEF TypeInv
  <1>a. job # "none" => BothStream /\ opened /\ call # "closed" /\ m2mEnabled
    BY QueueNames DEF JobInv, BothStream, ConfigInv, OwnerInv
  <1>b. job # "running" => ~reading /\ ~irqPending /\ irq = 0 /\ ~irqAborts
    BY DEF JobInv
  <1>c. \A q \in Queues : ready[q] \in Seq(Buffers(q)) /\ queued[q] \in Seq(Buffers(q))
    BY <1>0 DEF Lists, ListsOK, Queues, Buffers
  <1> USE DEF JobInv, nodeVars, shareVars, queueVars, setupVars, engineVars, startVars, irqVars
  <1>1. CASE CaptureOpenTest \/ CaptureOpenEnd
            \/ (\E q \in Queues : \E s \in Sizes[q] : SetFormat(q, s))
            \/ (\E q \in Queues : RequestBuffers(q)) \/ UNCHANGED vars
    <2>1. UNCHANGED <<call, cancelled, streaming, ready, job, aborting, irqAborts, irq, reading,
                     irqPending, hwActive>>
      BY <1>1
         DEF CaptureOpenTest, CaptureOpenEnd, SetFormat, RequestBuffers, vars
    <2> QED BY <2>1 DEF BothStream
  <1>2. CASE OpenTest
    BY <1>2, <1>0 DEF OpenTest, BothStream, MayCall, CountInv
  <1>3. CASE OpenEnd
    <2>1. job = "none"
      BY <1>3, <1>a, <1>0 DEF OpenEnd, CountInv
    <2>2. UNCHANGED <<cancelled, streaming, ready, job, aborting, irqAborts, irq>> /\ call' = "none"
          /\ ~cancelled
      BY <1>3 DEF OpenEnd
    <2>3. ~reading' /\ ~irqPending'
      BY <1>3, <1>b, <2>1 DEF OpenEnd, ResetChannel, StopChannel, ChannelUntouched
    <2> QED BY <1>b, <2>1, <2>2, <2>3 DEF BothStream
  <1>4. CASE Close
    BY <1>4, <1>0 DEF Close, BothStream, MayCall, CountInv
  <1>5. CASE CloseQueues
    <2>1. job = "none" /\ job' = "none" /\ ~cancelled' /\ call' = "closed"
      BY <1>5, <1>0 DEF CloseQueues, Cancelled, Positions
    <2>2. ~BothStream'
      BY <1>5, QueueNames DEF CloseQueues, BothStream
    <2>3. ~reading' /\ ~irqPending' /\ UNCHANGED <<irq, irqAborts>>
      BY <1>5, <1>b, <2>1 DEF CloseQueues, ResetChannel, StopChannel, ChannelUntouched
    <2> QED BY <1>b, <2>1, <2>2, <2>3
  <1>6. CASE CloseEnd
    <2>1. UNCHANGED <<cancelled, streaming, ready, job, aborting, irqAborts, irq, reading,
                      irqPending, hwActive>> /\ call' = "none" /\ ~cancelled
      BY <1>6 DEF CloseEnd
    <2> QED BY <2>1 DEF BothStream
  <1>7. CASE CaptureClose
    <2>1. job = "none"
      BY <1>7, <1>a DEF CaptureClose, OwnerInv
    <2>2. UNCHANGED <<call, cancelled, streaming, ready, job, aborting, irqAborts, irq>>
      BY <1>7 DEF CaptureClose
    <2>3. ~reading' /\ ~irqPending'
      BY <1>7, <1>b, <2>1 DEF CaptureClose, ResetChannel, StopChannel, ChannelUntouched
    <2> QED BY <1>b, <2>1, <2>2, <2>3 DEF BothStream
  <1>8. ASSUME NEW q \in Queues, NEW b \in Buffers(q), QueueBuffer(q, b) PROVE JobInv'
    <2>1. Append(ready[q], b) # <<>>
      BY <1>c
    <2>2. \A r \in Queues : ready[r] # <<>> => ready'[r] # <<>>
      BY <1>8, <1>0, <2>1, Zenon DEF QueueBuffer, Lists, ListsOK
    <2>3. call = "none" /\ ~cancelled /\ UNCHANGED <<call, cancelled, streaming, aborting, irqAborts, irq, hwActive>>
      BY <1>8 DEF QueueBuffer, MayCall, TrySchedule, DeviceRun, EnableChannel
    <2>4. CASE UNCHANGED startVars
      BY <2>2, <2>3, <2>4, QueueNames DEF BothStream
    <2>5. CASE (job = "queued" \/ (job = "none" /\ Runnable(streaming', ready'))) /\ DeviceRun(ready')
      <3>1. job' = "running" /\ BothStream' /\ ready'["out"] # <<>> /\ ready'["cap"] # <<>>
        BY <1>a, <2>2, <2>3, <2>5, QueueNames DEF DeviceRun, Runnable, BothStream
      <3>2. ~irqPending' /\ irq = 0 /\ ~irqAborts
        BY <1>b, <2>5, <3>1 DEF DeviceRun, EnableChannel
      <3> QED BY <2>3, <3>1, <3>2 DEF BothStream
    <2> QED BY <1>8, <2>4, <2>5 DEF QueueBuffer, TrySchedule
  <1>9. CASE StreamOnOut
    <2>1. call = "none" /\ ~streaming["cap"] /\ job = "none" /\ ~cancelled
      BY <1>9, <1>a, RulesKept DEF StreamOnOut, MayCall, BothStream
    <2>2. ~streaming'["cap"] /\ UNCHANGED <<call, cancelled, aborting, irqAborts, irq>>
      BY <1>9, <1>0, <2>1, QueueNames DEF StreamOnOut, Flags
    <2>3. UNCHANGED startVars
      BY <1>9, <2>1, <2>2, QueueNames DEF StreamOnOut, TrySchedule, Runnable
    <2> QED BY <1>b, <2>1, <2>2, <2>3 DEF BothStream
  <1>10. CASE StreamOnCap
    <2> DEFINE p == ready["cap"] \o queued["cap"]
    <2>1. call = "none" /\ ~streaming["cap"] /\ job = "none" /\ ~cancelled
      BY <1>10, <1>a, RulesKept DEF StreamOnCap, MayCall, BothStream
    <2>2. UNCHANGED <<call, cancelled, irqAborts, irq>>
      BY <1>10 DEF StreamOnCap
    <2> HIDE DEF p
    <2>3. CASE CapStarts(p)
      <3>1. ~aborting'
        BY <2>3 DEF CapStarts, StartStreaming
      <3>2. CASE UNCHANGED startVars
        BY <1>b, <2>1, <2>2, <3>1, <3>2
      <3>3. CASE Runnable(streaming', ready') /\ DeviceRun(ready')
        <4>1. job' = "running" /\ BothStream' /\ ready'["out"] # <<>> /\ ready'["cap"] # <<>>
          BY <3>3, QueueNames DEF DeviceRun, Runnable, BothStream
        <4>2. ~irqPending' /\ irq = 0 /\ ~irqAborts
          BY <1>b, <2>1, <3>3, <4>1 DEF DeviceRun, EnableChannel
        <4> QED BY <2>1, <2>2, <3>1, <4>1, <4>2
      <3> QED BY <2>1, <2>3, <3>2, <3>3 DEF CapStarts, TrySchedule
    <2>4. CASE CapRefused(p)
      BY <1>b, <2>1, <2>2, <2>4 DEF CapRefused, BothStream
    <2> QED BY <1>10, <2>1, <2>3, <2>4, StreamOnCapCases DEF CapRepeated, p
  <1>11. ASSUME NEW q \in Queues, StreamOff(q) PROVE JobInv'
    <2>1. call = "none" /\ ~cancelled
      BY <1>11 DEF StreamOff, MayCall
    <2>2. UNCHANGED <<cancelled, streaming, ready, job, aborting, irqAborts, irq>> /\ call' = q
      BY <1>11 DEF StreamOff
    <2>3. CASE q = "out"
      BY <1>11, <2>1, <2>2, <2>3 DEF StreamOff, BothStream
    <2>4. CASE q = "cap"
      <3>1. ~streaming["out"] /\ job = "none"
        BY <1>11, <1>a, <2>4, RulesKept DEF StreamOff, BothStream
      <3>2. ~reading' /\ ~irqPending'
        BY <1>11, <2>4 DEF StreamOff, DisableChannel, StopChannel
      <3> QED BY <1>b, <2>1, <2>2, <3>1, <3>2 DEF BothStream
    <2> QED BY <2>3, <2>4 DEF Queues
  <1>12. CASE CancelJob
    BY <1>12, <1>0 DEF CancelJob, BothStream, Flags
  <1>13. ASSUME NEW q \in Queues, StreamOffEnd(q) PROVE JobInv'
    <2>1. job = "none" /\ job' = "none" /\ ~cancelled' /\ call' = "none"
      BY <1>13, <1>0 DEF StreamOffEnd, Cancelled, Positions
    <2>2. ~BothStream'
      BY <1>13, <1>0 DEF StreamOffEnd, BothStream, Queues, Flags
    <2>3. UNCHANGED <<irq, irqAborts, reading, irqPending, aborting>>
      BY <1>13 DEF StreamOffEnd
    <2> QED BY <1>b, <2>1, <2>2, <2>3
  <1>14. CASE JobWork
    <2>1. job = "queued" /\ job' = "running"
          /\ UNCHANGED <<call, cancelled, streaming, ready, aborting, irqAborts, irq>>
      BY <1>14 DEF JobWork, DeviceRun
    <2>2. ~irqPending'
      BY <1>14, <1>b, <2>1 DEF JobWork, DeviceRun, EnableChannel
    <2> QED BY <1>b, <2>1, <2>2 DEF BothStream
  <1>15. CASE FrameStored
    BY <1>15 DEF FrameStored, BothStream
  <1>16. CASE IrqEnter
    BY <1>16 DEF IrqEnter, BothStream
  <1>17. CASE FrameWriteDone
    <2>1. job = "running" /\ ~reading /\ ~irqPending
      BY <1>17 DEF FrameWriteDone
    <2>2. UNCHANGED <<call, cancelled, streaming, aborting>> /\ irq' = 0 /\ ~irqAborts'
      BY <1>17 DEF FrameWriteDone
    <2>3. ~reading' /\ ~irqPending'
      BY <1>17, <2>1 DEF FrameWriteDone, DisableChannel, StopChannel
    <2>4. job' = IF ~cancelled /\ Runnable(streaming, ready') THEN "queued" ELSE "none"
      BY <1>17 DEF FrameWriteDone, JobFinish
    <2>5. Runnable(streaming, ready') => ready'["out"] # <<>> /\ ready'["cap"] # <<>>
      BY QueueNames DEF Runnable
    <2> QED BY <2>1, <2>2, <2>3, <2>4, <2>5 DEF BothStream
  <1> QED
    BY <1>1, <1>2, <1>3, <1>4, <1>5, <1>6, <1>7, <1>8, <1>9, <1>10, <1>11, <1>12, <1>13, <1>14, <1>15, <1>16, <1>17
       DEF Next, UserStep, CallStep

\* Every step keeps the lists of a stopped queue empty and the channel of a
\* stopped capture queue at BUF1.
LEMMA RestStep ==
    Obedient /\ TypeInv /\ OwnerInv /\ ConfigInv /\ JobInv /\ RestInv /\ [Next]_vars => RestInv'
  <1> SUFFICES ASSUME Obedient, TypeInv, OwnerInv, ConfigInv, JobInv, RestInv, [Next]_vars
               PROVE  RestInv'
    OBVIOUS
  <1>0. Flags /\ Positions /\ Lists /\ CountInv
    BY DEF TypeInv
  <1>a. /\ queued = [q \in Queues |-> queued[q]] /\ ready = [q \in Queues |-> ready[q]]
        /\ streaming \in [Queues -> BOOLEAN]
        /\ ready["out"] \in Seq(Sources) /\ ready["cap"] \in Seq(Targets)
        /\ queued["out"] \in Seq(Sources) /\ queued["cap"] \in Seq(Targets)
    BY <1>0 DEF Lists, ListsOK, Flags
  <1>b. job # "none" => BothStream /\ opened /\ call # "closed"
    BY QueueNames DEF JobInv, BothStream, ConfigInv
  <1> USE DEF RestInv, nodeVars, shareVars, queueVars, setupVars, engineVars, startVars, irqVars
  <1>1. CASE CaptureOpenTest \/ CaptureOpenEnd
            \/ (\E q \in Queues : \E s \in Sizes[q] : SetFormat(q, s)) \/ CancelJob \/ IrqEnter
            \/ UNCHANGED vars
    <2>1. UNCHANGED <<queued, ready, streaming, active, call, hwActive>>
      BY <1>1
         DEF CaptureOpenTest, CaptureOpenEnd, SetFormat, CancelJob, IrqEnter, vars
    <2> QED BY <2>1
  <1>2. CASE OpenTest
    BY <1>2 DEF OpenTest
  <1>3. CASE OpenEnd
    <2>1. UNCHANGED <<queued, ready, streaming, active>> /\ call' = "none" /\ hwActive' \in {hwActive, 1}
      BY <1>3 DEF OpenEnd, ResetChannel, StopChannel, ChannelUntouched
    <2> QED BY <2>1
  <1>4. CASE Close
    BY <1>4 DEF Close
  <1>5. CASE CloseQueues
    <2>1. usage = 1
      BY <1>5, <1>0 DEF CloseQueues, CountInv, OwnerInv
    <2>2. hwActive' = 1
      BY <1>5, <2>1 DEF CloseQueues, ResetChannel, StopChannel
    <2>3. \A q \in Queues : ~streaming'[q] /\ ready'[q] = <<>>
      BY <1>5 DEF CloseQueues, StopStreaming
    <2>4. active' = <<>>
      BY <1>5 DEF CloseQueues, StopStreaming
    <2> QED BY <2>2, <2>3, <2>4
  <1>6. CASE CloseEnd
    BY <1>6 DEF CloseEnd
  <1>7. CASE CaptureClose
    <2>1. UNCHANGED <<queued, ready, streaming, active, call>> /\ hwActive' \in {hwActive, 1}
      BY <1>7 DEF CaptureClose, ResetChannel, StopChannel, ChannelUntouched
    <2> QED BY <2>1
  <1>8. ASSUME NEW q \in Queues, RequestBuffers(q) PROVE RestInv'
    <2>1. ~streaming[q] /\ queued' = [queued EXCEPT ![q] = <<>>]
          /\ UNCHANGED <<ready, streaming, active, call, hwActive>>
      BY <1>8 DEF RequestBuffers
    <2> QED BY <1>a, <2>1
  <1>9. ASSUME NEW q \in Queues, NEW b \in Buffers(q), QueueBuffer(q, b) PROVE RestInv'
    <2>1. UNCHANGED <<streaming, active, call, hwActive>>
      BY <1>9 DEF QueueBuffer, TrySchedule, DeviceRun, EnableChannel
    <2>2. CASE streaming[q] /\ ready' = [ready EXCEPT ![q] = Append(ready[q], b)] /\ UNCHANGED queued
      BY <1>a, <2>1, <2>2
    <2>3. CASE ~streaming[q] /\ queued' = [queued EXCEPT ![q] = Append(queued[q], b)] /\ UNCHANGED ready
      BY <1>a, <2>1, <2>3
    <2> QED BY <1>9, <2>2, <2>3, Zenon DEF QueueBuffer
  <1>10. CASE StreamOnOut
    <2>1. ~streaming["out"] /\ UNCHANGED <<active, call, hwActive>>
      BY <1>10, RulesKept DEF StreamOnOut, TrySchedule, DeviceRun, EnableChannel
    <2>2. /\ ready' = [ready EXCEPT !["out"] = ready["out"] \o queued["out"]]
          /\ queued' = [queued EXCEPT !["out"] = <<>>]
          /\ streaming' = [streaming EXCEPT !["out"] = TRUE]
      BY <1>10, <2>1 DEF StreamOnOut
    <2> QED BY <1>a, <2>1, <2>2, QueueNames
  <1>11. CASE StreamOnCap
    <2> DEFINE p == ready["cap"] \o queued["cap"]
    <2>1. ~streaming["cap"] /\ Len(queued["cap"]) >= 2 /\ call = "none"
      BY <1>11, RulesKept DEF StreamOnCap, MayCall
    <2> HIDE DEF p
    <2>2. CASE CapStarts(p)
      <3>1. /\ ready' = [ready EXCEPT !["cap"] = SubSeq(p, 3, Len(p))]
            /\ queued' = [queued EXCEPT !["cap"] = <<>>]
            /\ streaming' = [streaming EXCEPT !["cap"] = TRUE]
        BY <2>2 DEF CapStarts, StartStreaming
      <3>2. UNCHANGED call
        BY <1>11 DEF StreamOnCap
      <3> QED BY <1>a, <2>1, <3>1, <3>2, QueueNames
    <2>3. CASE CapRefused(p)
      <3>1. alloc["cap"] = 0
        BY <1>a, <2>1, <2>3 DEF CapRefused
      <3> QED BY <1>11, <2>3, <3>1 DEF CapRefused, StreamOnCap
    <2> QED BY <1>11, <2>1, <2>2, <2>3, StreamOnCapCases DEF CapRepeated, p
  <1>12. ASSUME NEW q \in Queues, StreamOff(q) PROVE RestInv'
    <2>1. UNCHANGED <<queued, ready, streaming, active>> /\ call' = q
      BY <1>12 DEF StreamOff
    <2>2. CASE q = "cap"
      <3>1. hwActive' = 1
        BY <1>12, <2>2, RulesKept DEF StreamOff, DisableChannel, StopChannel
      <3> QED BY <2>1, <3>1
    <2>3. CASE q # "cap"
      BY <1>12, <2>1, <2>3 DEF StreamOff
    <2> QED BY <2>2, <2>3
  <1>13. ASSUME NEW q \in Queues, StreamOffEnd(q) PROVE RestInv'
    <2>1. /\ streaming' = [streaming EXCEPT ![q] = FALSE]
          /\ queued' = [queued EXCEPT ![q] = <<>>]
          /\ UNCHANGED hwActive /\ call = q /\ call' = "none"
      BY <1>13 DEF StreamOffEnd
    <2>2. CASE streaming[q] /\ StopStreaming
      BY <1>a, <2>1, <2>2 DEF StopStreaming
    <2>3. CASE ~streaming[q] /\ ready' = [ready EXCEPT ![q] = <<>>] /\ UNCHANGED active
      BY <1>a, <2>1, <2>3
    <2> QED BY <1>13, <2>2, <2>3, Zenon DEF StreamOffEnd
  <1>14. CASE JobWork
    BY <1>14 DEF JobWork, DeviceRun
  <1>15. CASE FrameStored
    <2>1. BothStream /\ call # "cap"
      BY <1>15, <1>b DEF FrameStored, JobInv, BothStream
    <2>2. UNCHANGED <<queued, ready, streaming, active, call>>
      BY <1>15 DEF FrameStored
    <2> QED BY <2>1, <2>2 DEF BothStream
  <1>16. CASE FrameWriteDone
    <2>1. BothStream /\ call # "cap"
      BY <1>16, <1>b DEF FrameWriteDone, JobInv, BothStream
    <2>2. UNCHANGED <<queued, streaming, call>>
      BY <1>16 DEF FrameWriteDone
    <2>3. \A q \in Queues : streaming[q]
      BY <2>1 DEF BothStream, Queues
    <2> QED BY <2>1, <2>2, <2>3 DEF BothStream
  <1> QED
    BY <1>1, <1>2, <1>3, <1>4, <1>5, <1>6, <1>7, <1>8, <1>9, <1>10, <1>11, <1>12, <1>13, <1>14, <1>15, <1>16
       DEF Next, UserStep, CallStep

\* Of a list that is not empty an append keeps the head.
LEMMA AppendHead ==
    ASSUME NEW S, NEW s \in Seq(S), s # <<>>, NEW b \in S
    PROVE  Head(Append(s, b)) = Head(s) /\ Append(s, b) # <<>>
  OBVIOUS

\* The handler loads the slot that has just been freed, also for the two frame
\* numbers that mxc_isi_channel_set_outbuf treats apart and when frame_count
\* wraps: the parity of the counter survives the wrap because 2^32 is even.
LEMMA FreedSlot ==
    ASSUME Positions, irq # 0, irq = hwActive,
           (frameCount % 2 = 1) <=> (3 - hwActive = 1)
    PROVE  /\ OutSlot(NextCount) = 3 - hwActive
           /\ (NextCount % 2 = 1) <=> (hwActive = 1)
  <1>1. hwActive \in {1, 2} /\ frameCount \in Nat /\ frameCount < CountMod
    BY CountAssumption DEF Positions, Slots
  <1>2. CASE frameCount + 1 = CountMod
    BY <1>1, <1>2, CountAssumption DEF NextCount, OutSlot
  <1>3. CASE frameCount + 1 # CountMod
    BY <1>1, <1>3, CountAssumption DEF NextCount, OutSlot
  <1> QED BY <1>2, <1>3

\* The two slots.
LEMMA OtherSlot ==
    ASSUME NEW h \in Slots
    PROVE  3 - h \in Slots /\ 3 - (3 - h) = h /\ h # 3 - h /\ h # 0
  BY DEF Slots

\* A job that starts leaves the slots alone, forgets an old status and reads the
\* head of the output queue.
LEMMA JobStarts ==
    ASSUME JobInv, job # "running", NEW rdy, rdy["out"] # <<>>, DeviceRun(rdy)
    PROVE  ~Stored /\ ~irqPending' /\ irq = 0 /\ UNCHANGED hwActive /\ inAddr' = Head(rdy["out"])
  BY DEF JobInv, DeviceRun, EnableChannel, Stored

\* The frame is stored in the slot in front, for the source at the head.
LEMMA StoredInFront ==
    ASSUME NEW t \in Targets, NEW src, Addresses,
           memory' = IF t = NoAddr THEN memory ELSE [memory EXCEPT ![t] = src]
    PROVE  memory'[t] = src
  BY BuffersAssumption DEF Addresses

\* Every step keeps the list of active targets and the slots of the channel in
\* step with each other.
LEMMA SlotStep ==
    /\ Obedient /\ TypeInv /\ OwnerInv /\ ConfigInv /\ JobInv /\ RestInv /\ SlotInv
    /\ [Next]_vars /\ TypeInv' /\ JobInv'
    => SlotInv'
  <1> SUFFICES ASSUME Obedient, TypeInv, OwnerInv, ConfigInv, JobInv, RestInv, SlotInv,
                      [Next]_vars, TypeInv', JobInv'
               PROVE  SlotInv'
    OBVIOUS
  <1>0. Flags /\ Positions /\ Lists /\ CountInv /\ Addresses
    BY DEF TypeInv
  <1>a. /\ ready["out"] \in Seq(Sources) /\ ready["cap"] \in Seq(Targets)
        /\ queued["cap"] \in Seq(Targets) /\ active \in Seq(Targets)
        /\ ready = [q \in Queues |-> ready[q]] /\ streaming \in [Queues -> BOOLEAN]
        /\ hwActive \in Slots /\ slot \in [Slots -> Targets \cup {NoAddr}]
    BY <1>0 DEF Lists, ListsOK, Addresses, Positions, Flags
  <1>b. job # "none" => BothStream /\ opened /\ call # "closed" /\ m2mEnabled
    BY QueueNames DEF JobInv, BothStream, ConfigInv, OwnerInv
  <1>c. ~BothStream' => SlotInv'
    BY DEF SlotInv, JobInv, Stored
  <1>d. job = "running" => Aligned /\ ready["out"] # <<>> /\ ready["cap"] # <<>>
    BY DEF SlotInv, JobInv
  <1> USE DEF nodeVars, shareVars, queueVars, setupVars, engineVars, startVars, irqVars
  <1>1. CASE OpenTest \/ Close \/ CloseEnd \/ CaptureOpenTest \/ CaptureOpenEnd
            \/ (\E q \in Queues : \E s \in Sizes[q] : SetFormat(q, s))
            \/ (\E q \in Queues : RequestBuffers(q)) \/ UNCHANGED vars
    <2>1. UNCHANGED <<streaming, cancelled, job, active, slot, irqPending, irq, hwActive,
                     frameCount, reading, inAddr, ready, memory>>
      BY <1>1
         DEF OpenTest, Close, CloseEnd, CaptureOpenTest, CaptureOpenEnd, SetFormat,
             RequestBuffers, vars
    <2> QED BY <2>1 DEF SlotInv, Aligned, FrontSlot, Stored, BothStream
  <1>2. CASE OpenEnd
    <2>1. ~BothStream'
      BY <1>2, <1>0, QueueNames DEF OpenEnd, BothStream, ConfigInv, CountInv
    <2> QED BY <1>c, <2>1
  <1>3. CASE CloseQueues
    <2>1. ~BothStream'
      BY <1>3, QueueNames DEF CloseQueues, BothStream
    <2> QED BY <1>c, <2>1
  <1>4. CASE CaptureClose
    <2>1. ~BothStream'
      BY <1>4, QueueNames DEF CaptureClose, BothStream, ConfigInv, OwnerInv
    <2> QED BY <1>c, <2>1
  <1>5. ASSUME NEW q \in Queues, NEW b \in Buffers(q), QueueBuffer(q, b) PROVE SlotInv'
    <2>1. UNCHANGED <<streaming, cancelled, active, slot, irq, frameCount, memory>>
          /\ ~cancelled
      BY <1>5 DEF QueueBuffer, MayCall, JobInv
    <2>2. ready["out"] # <<>> => ready'["out"] # <<>> /\ Head(ready'["out"]) = Head(ready["out"])
      <3>1. CASE q = "out" /\ ready' = [ready EXCEPT !["out"] = Append(ready["out"], b)]
        BY <1>a, <3>1, AppendHead, QueueNames DEF Buffers
      <3>2. CASE ready'["out"] = ready["out"]
        BY <3>2
      <3> QED BY <1>5, <1>a, <3>1, <3>2, QueueNames DEF QueueBuffer, Queues
    <2>3. CASE UNCHANGED startVars
      <3>1. UNCHANGED <<job, irqPending, hwActive, reading, inAddr>>
        BY <2>3
      <3>2. Stored \/ reading => ready["out"] # <<>>
        BY DEF JobInv, Stored
      <3> QED BY <2>1, <2>2, <3>1, <3>2 DEF SlotInv, Aligned, FrontSlot, Stored, BothStream
    <2>4. CASE job # "running" /\ DeviceRun(ready')
      <3>1. job' = "running" /\ ready'["out"] # <<>>
        BY <2>4 DEF DeviceRun, JobInv
      <3>2. ~Stored /\ ~irqPending' /\ irq = 0 /\ UNCHANGED hwActive /\ inAddr' = Head(ready'["out"])
        BY <2>4, <3>1, JobStarts
      <3> QED BY <2>1, <3>1, <3>2 DEF SlotInv, Aligned, FrontSlot, Stored, BothStream
    <2> QED BY <1>5, <2>3, <2>4 DEF QueueBuffer, TrySchedule
  <1>6. CASE StreamOnOut
    <2>1. ~BothStream'
      BY <1>6, <1>a, RulesKept, QueueNames DEF StreamOnOut, BothStream
    <2> QED BY <1>c, <2>1
  <1>7. CASE StreamOnCap
    <2> DEFINE p == ready["cap"] \o queued["cap"]
    <2>1. /\ ~streaming["cap"] /\ Len(queued["cap"]) >= 2 /\ job = "none"
          /\ active = <<>> /\ hwActive = 1 /\ ~irqPending /\ irq = 0 /\ ~reading
      BY <1>7, <1>b, RulesKept DEF StreamOnCap, BothStream, RestInv, JobInv
    <2>p. p[1] \in Targets /\ p[2] \in Targets
      BY <1>a, <2>1, SplitTwo
    <2> HIDE DEF p
    <2>2. CASE CapStarts(p)
      <3>1. slot' = [s \in Slots |-> p[s]] /\ active' = active \o <<p[1], p[2]>> /\ frameCount' = 1
        BY <2>2 DEF CapStarts, StartStreaming
      <3>2. Len(active') = 2 /\ active'[1] = p[1] /\ active'[2] = p[2]
        BY <2>1, <2>p, <3>1
      <3>3. slot'[1] = p[1] /\ slot'[2] = p[2]
        BY <3>1 DEF Slots
      <3>4. /\ ~irqPending' /\ irq' = 0 /\ hwActive' = 1
            /\ reading' => inAddr' = Head(ready'["out"])
        <4>1. UNCHANGED irq
          BY <1>7 DEF StreamOnCap
        <4>2. CASE UNCHANGED startVars
          BY <2>1, <4>1, <4>2
        <4>3. CASE DeviceRun(ready')
          <5>1. ready'["out"] # <<>>
            BY <4>3 DEF DeviceRun, JobInv
          <5> QED BY <2>1, <4>1, <4>3, <5>1, JobStarts
        <4> QED BY <2>2, <4>2, <4>3 DEF CapStarts, TrySchedule
      <3>5. ~Stored' /\ FrontSlot' = 1 /\ 3 - 1 = 2
        BY <3>4 DEF Stored, FrontSlot
      <3>6. Aligned'
        BY <3>1, <3>2, <3>3, <3>5 DEF Aligned
      <3> QED BY <3>4, <3>5, <3>6 DEF SlotInv
    <2>3. CASE CapRefused(p)
      <3>1. ~BothStream'
        BY <2>1, <2>3 DEF CapRefused, BothStream
      <3> QED BY <1>c, <3>1
    <2> QED BY <1>7, <2>1, <2>2, <2>3, StreamOnCapCases DEF CapRepeated, p
  <1>8. ASSUME NEW q \in Queues, StreamOff(q) PROVE SlotInv'
    <2>1. CASE q = "cap"
      <3>1. ~BothStream'
        BY <1>8, <2>1, RulesKept DEF StreamOff, BothStream
      <3> QED BY <1>c, <3>1
    <2>2. CASE q # "cap"
      <3>1. UNCHANGED <<streaming, cancelled, job, active, slot, irqPending, irq, hwActive,
                        frameCount, reading, inAddr, ready, memory>>
        BY <1>8, <2>2 DEF StreamOff
      <3> QED BY <3>1 DEF SlotInv, Aligned, FrontSlot, Stored, BothStream
    <2> QED BY <2>1, <2>2
  <1>9. CASE CancelJob
    <2>1. /\ UNCHANGED <<streaming, active, slot, irqPending, irq, hwActive, frameCount, reading,
                         inAddr, ready, memory>>
          /\ cancelled' /\ ~cancelled /\ job' \in {job, "none"}
      BY <1>9 DEF CancelJob
    <2> QED BY <2>1 DEF SlotInv, Aligned, FrontSlot, Stored, BothStream
  <1>10. ASSUME NEW q \in Queues, StreamOffEnd(q) PROVE SlotInv'
    <2>1. ~BothStream'
      BY <1>10, <1>a DEF StreamOffEnd, BothStream, Queues
    <2> QED BY <1>c, <2>1
  <1>11. CASE JobWork
    <2>1. UNCHANGED <<streaming, cancelled, active, slot, irq, frameCount, memory>>
          /\ UNCHANGED ready /\ job = "queued" /\ DeviceRun(ready)
      BY <1>11 DEF JobWork
    <2>2. job' = "running" /\ ready["out"] # <<>> /\ ~cancelled
      BY <2>1 DEF DeviceRun, JobInv
    <2>3. ~Stored /\ ~irqPending' /\ irq = 0 /\ UNCHANGED hwActive /\ inAddr' = Head(ready["out"])
      BY <2>1, <2>2, JobStarts
    <2> QED BY <2>1, <2>2, <2>3 DEF SlotInv, Aligned, FrontSlot, Stored, BothStream
  <1>12. CASE FrameStored
    <2>1. /\ reading /\ job = "running" /\ ~irqPending /\ irq = 0
          /\ UNCHANGED <<streaming, active, slot, frameCount, irq, ready, cancelled, job>>
          /\ irqPending' = TRUE /\ reading' = FALSE /\ hwActive' = 3 - hwActive
      BY <1>12 DEF FrameStored, JobInv
    <2>2. Stored' /\ FrontSlot' = FrontSlot /\ FrontSlot = hwActive
      BY <1>a, <2>1, OtherSlot DEF Stored, FrontSlot
    <2>3. Aligned'
      BY <1>d, <2>1, <2>2 DEF Aligned
    <2>4. active[1] \in Targets /\ active[1] = slot[hwActive]
      BY <1>a, <1>d, <2>1, <2>2, TwoMembers DEF Aligned
    <2>5. memory'[active[1]] = inAddr
      <3>1. memory' = IF active[1] = NoAddr THEN memory ELSE [memory EXCEPT ![active[1]] = inAddr]
        BY <1>12, <2>4 DEF FrameStored
      <3> QED BY <1>0, <2>4, <3>1, StoredInFront
    <2>6. inAddr = Head(ready["out"])
      BY <2>1 DEF SlotInv
    <2> QED BY <2>1, <2>3, <2>5, <2>6 DEF SlotInv
  <1>13. CASE IrqEnter
    <2>1. /\ irqPending /\ irq = 0 /\ job = "running" /\ m2mEnabled /\ ~reading
          /\ UNCHANGED <<streaming, active, slot, frameCount, ready, cancelled, job, hwActive,
                         memory, reading>>
      BY <1>13, <1>b DEF IrqEnter, JobInv
    <2>2. irq' = hwActive /\ irq' # 0
      BY <1>13, <1>a, <2>1, OtherSlot DEF IrqEnter
    <2>3. Stored /\ Stored' /\ FrontSlot' = FrontSlot
      BY <2>1, <2>2 DEF Stored, FrontSlot
    <2> QED BY <1>d, <2>1, <2>3 DEF SlotInv, Aligned
  <1>14. CASE FrameWriteDone
    <2>1. /\ irq # 0 /\ irq = hwActive /\ job = "running" /\ ~irqPending /\ irq' = 0 /\ ~reading
          /\ UNCHANGED <<streaming, cancelled>>
      BY <1>14 DEF FrameWriteDone, JobInv
    <2>2. ~reading' /\ ~Stored'
      <3>1. ~irqPending' /\ ~reading'
        BY <1>14, <2>1 DEF FrameWriteDone, DisableChannel, StopChannel
      <3> QED BY <2>1, <3>1 DEF Stored
    <2>3. CASE irqAborts
      <3>1. cancelled /\ job' = "none"
        BY <1>14, <1>b, <2>1, <2>3 DEF FrameWriteDone, JobFinish, JobInv
      <3> QED BY <2>1, <2>2, <3>1 DEF SlotInv
    <2>4. CASE ~irqAborts
      <3>1. Convert /\ UNCHANGED hwActive
        BY <1>14, <1>d, <2>1, <2>4 DEF FrameWriteDone
      <3> DEFINE e == Head(ready["cap"])
      <3>2. e \in Targets /\ active # <<>> /\ Len(active) = 2
        BY <1>a, <1>d, <2>1, HeadTail, TwoIsNotEmpty DEF Aligned
      <3> HIDE DEF e
      <3>3. /\ active' = Append(Tail(active), e)
            /\ slot' = [slot EXCEPT ![OutSlot(NextCount)] = e] /\ frameCount' = NextCount
        BY <1>d, <2>1, <3>1, <3>2 DEF Convert, e
      <3>4. /\ FrontSlot = 3 - hwActive /\ 3 - FrontSlot = hwActive /\ FrontSlot' = hwActive
            /\ 3 - hwActive \in Slots /\ 3 - hwActive # hwActive
        BY <1>a, <2>1, <2>2, <3>1, OtherSlot DEF FrontSlot, Stored
      <3>5. /\ OutSlot(NextCount) = 3 - hwActive
            /\ (NextCount % 2 = 1) <=> (hwActive = 1)
        BY <1>0, <1>d, <2>1, <3>4, FreedSlot DEF Aligned
      <3>6. Len(active') = 2 /\ active'[1] = active[2] /\ active'[2] = e
        <4>1. active \in Seq(Targets)
          BY <1>a
        <4> QED BY <3>2, <3>3, <4>1, Rotate
      <3>7. slot'[3 - hwActive] = e /\ slot'[hwActive] = slot[hwActive]
        BY <1>a, <3>3, <3>4, <3>5
      <3>8. active[2] = slot[hwActive]
        BY <1>d, <2>1, <3>4 DEF Aligned
      <3>9. Aligned'
        BY <3>1, <3>3, <3>4, <3>5, <3>6, <3>7, <3>8 DEF Aligned
      <3> QED BY <2>2, <3>9 DEF SlotInv
    <2> QED BY <2>3, <2>4
  <1> QED
    BY <1>1, <1>2, <1>3, <1>4, <1>5, <1>6, <1>7, <1>8, <1>9, <1>10, <1>11, <1>12, <1>13, <1>14
       DEF Next, UserStep, CallStep

-----------------------------------------------------------------------------
(* The lists of targets *)

\* What the handler makes of the lists s of active and t of ready targets.
Returned(s, t, s1, t1) ==
    /\ NoRepeat(s1) /\ NoRepeat(t1) /\ Range(s1) \cap Range(t1) = {}
    /\ s # <<>> /\ Head(s) \notin Range(s1)

\* The oldest active target leaves the driver, the oldest ready one replaces it,
\* and the lists stay apart.
LEMMA ConvertLists ==
    ASSUME active \in Seq(Targets), ready["cap"] \in Seq(Targets), Len(active) = 2,
           ready["cap"] # <<>>, NoRepeat(active), NoRepeat(ready["cap"]),
           Range(active) \cap Range(ready["cap"]) = {}, Convert
    PROVE  Returned(active, ready["cap"], active', ready'["cap"])
  <1> DEFINE e == Head(ready["cap"])
             a == Tail(active)
  <1>1. active # <<>>
    BY TwoIsNotEmpty
  <1>2. e \in Targets /\ a \in Seq(Targets)
    BY <1>1, HeadTail
  <1>3. /\ e \in Range(ready["cap"]) /\ Head(active) \in Range(active)
        /\ Range(Tail(ready["cap"])) = Range(ready["cap"]) \ {e} /\ NoRepeat(Tail(ready["cap"]))
        /\ Range(a) = Range(active) \ {Head(active)} /\ NoRepeat(a)
    BY <1>1, TakeFromList
  <1>4. active' = Append(a, e) /\ ready'["cap"] = Tail(ready["cap"])
    BY <1>1, QueueNames DEF Convert
  <1> HIDE DEF e, a
  <1>5. e \notin Range(a)
    BY <1>3
  <1>6. Range(Append(a, e)) = Range(a) \cup {e} /\ NoRepeat(Append(a, e))
    BY <1>2, <1>3, <1>5, AddToList
  <1> QED BY <1>1, <1>3, <1>4, <1>6 DEF Returned

\* Every step keeps the lists of targets apart.
LEMMA DistinctStep ==
    /\ Obedient /\ TypeInv /\ ConfigInv /\ JobInv /\ RestInv /\ SlotInv /\ DistinctInv
    /\ [Next]_vars
    => DistinctInv'
  <1> SUFFICES ASSUME Obedient, TypeInv, ConfigInv, JobInv, RestInv, SlotInv, DistinctInv,
                      [Next]_vars
               PROVE  DistinctInv'
    OBVIOUS
  <1>a. /\ ready["cap"] \in Seq(Targets) /\ queued["cap"] \in Seq(Targets)
        /\ active \in Seq(Targets) /\ ready["out"] \in Seq(Sources)
        /\ ready = [q \in Queues |-> ready[q]] /\ queued = [q \in Queues |-> queued[q]]
    BY DEF TypeInv, Lists, ListsOK, Addresses
  <1>b. \A q \in Queues : q = "out" \/ q = "cap"
    BY DEF Queues
  <1>c. \A S : Range(<<>>) = {} /\ NoRepeat(<<>>) /\ S \cap Range(<<>>) = {} /\ Range(<<>>) \cap S = {}
    BY EmptyList
  <1> USE DEF nodeVars, shareVars, queueVars, setupVars, engineVars, startVars, irqVars
  <1>1. CASE OpenTest \/ OpenEnd \/ Close \/ CloseEnd \/ CaptureOpenTest \/ CaptureOpenEnd
            \/ CaptureClose \/ (\E q \in Queues : \E s \in Sizes[q] : SetFormat(q, s))
            \/ (\E q \in Queues : StreamOff(q)) \/ CancelJob \/ JobWork \/ FrameStored
            \/ IrqEnter \/ UNCHANGED vars
    <2>1. UNCHANGED <<active, ready, queued>>
      BY <1>1
         DEF OpenTest, OpenEnd, Close, CloseEnd, CaptureOpenTest, CaptureOpenEnd, CaptureClose,
             SetFormat, StreamOff, CancelJob, JobWork, FrameStored, IrqEnter, vars
    <2> QED BY <2>1 DEF DistinctInv
  <1>2. CASE CloseQueues
    <2>1. ready'["cap"] = <<>> /\ queued'["cap"] = <<>>
      BY <1>2, QueueNames DEF CloseQueues, StopStreaming
    <2>2. active' = <<>>
      BY <1>2 DEF CloseQueues, StopStreaming, RestInv
    <2> QED BY <1>c, <2>1, <2>2 DEF DistinctInv
  <1>3. ASSUME NEW q \in Queues, RequestBuffers(q) PROVE DistinctInv'
    <2>1. UNCHANGED <<active, ready>> /\ queued' = [queued EXCEPT ![q] = <<>>]
      BY <1>3 DEF RequestBuffers
    <2>2. queued'["cap"] \in {queued["cap"], <<>>}
      BY <1>a, <1>b, <2>1, QueueNames
    <2> QED BY <1>c, <2>1, <2>2 DEF DistinctInv
  <1>4. ASSUME NEW q \in Queues, NEW b \in Buffers(q), QueueBuffer(q, b) PROVE DistinctInv'
    <2>1. UNCHANGED active /\ b \notin Owned(q)
      BY <1>4 DEF QueueBuffer
    <2>2. CASE q = "out"
      <3>1. UNCHANGED <<ready["cap"], queued["cap"]>>
        BY <1>4, <1>a, <2>2, QueueNames DEF QueueBuffer
      <3> QED BY <2>1, <3>1 DEF DistinctInv
    <2>3. CASE q = "cap"
      <3>1. /\ b \in Targets /\ b \notin Range(queued["cap"]) /\ b \notin Range(ready["cap"])
            /\ b \notin Range(active)
        BY <2>1, <2>3 DEF Owned, Buffers
      <3>2. CASE ready'["cap"] = Append(ready["cap"], b) /\ UNCHANGED queued["cap"]
        <4>1. /\ Range(ready'["cap"]) = Range(ready["cap"]) \cup {b}
              /\ NoRepeat(ready'["cap"])
          BY <1>a, <3>1, <3>2, AddToList DEF DistinctInv
        <4> QED BY <2>1, <3>1, <3>2, <4>1 DEF DistinctInv
      <3>3. CASE queued'["cap"] = Append(queued["cap"], b) /\ UNCHANGED ready["cap"]
        <4>1. NoRepeat(queued'["cap"])
          BY <1>a, <3>1, <3>3, AddToList DEF DistinctInv
        <4> QED BY <2>1, <3>3, <4>1 DEF DistinctInv
      <3> QED BY <1>4, <1>a, <2>3, <3>2, <3>3, QueueNames DEF QueueBuffer
    <2> QED BY <1>b, <2>2, <2>3
  <1>5. CASE StreamOnOut
    <2>1. UNCHANGED <<active, ready["cap"], queued["cap"]>>
      BY <1>5, <1>a, QueueNames DEF StreamOnOut
    <2> QED BY <2>1 DEF DistinctInv
  <1>6. CASE StreamOnCap
    <2> DEFINE p == ready["cap"] \o queued["cap"]
    <2>1. /\ ~streaming["cap"] /\ Len(queued["cap"]) >= 2
          /\ active = <<>> /\ ready["cap"] = <<>>
      BY <1>6, RulesKept, QueueNames DEF StreamOnCap, RestInv
    <2>p. p = queued["cap"]
      BY <1>a, <2>1, NothingBefore
    <2> HIDE DEF p
    <2>2. CASE CapStarts(p)
      <3>1. /\ active' = active \o <<p[1], p[2]>>
            /\ ready' = [ready EXCEPT !["cap"] = SubSeq(p, 3, Len(p))]
            /\ queued' = [queued EXCEPT !["cap"] = <<>>]
        BY <2>2 DEF CapStarts, StartStreaming
      <3>2. active' = <<p[1], p[2]>>
        BY <2>1, <3>1
      <3>3. ready'["cap"] = SubSeq(p, 3, Len(p)) /\ queued'["cap"] = <<>>
        BY <1>a, <3>1, QueueNames
      <3>4. /\ NoRepeat(<<p[1], p[2]>>) /\ NoRepeat(SubSeq(p, 3, Len(p)))
            /\ Range(<<p[1], p[2]>>) \cap Range(SubSeq(p, 3, Len(p))) = {}
        BY <1>a, <2>1, <2>p, TakeTwo DEF DistinctInv
      <3> QED BY <1>c, <3>2, <3>3, <3>4 DEF DistinctInv
    <2>3. CASE CapRefused(p)
      <3>1. alloc["cap"] = 0
        BY <1>a, <2>1, <2>3 DEF CapRefused
      <3> QED BY <2>3, <3>1 DEF CapRefused, DistinctInv
    <2> QED BY <1>6, <2>1, <2>2, <2>3, StreamOnCapCases DEF CapRepeated, p
  <1>7. ASSUME NEW q \in Queues, StreamOffEnd(q) PROVE DistinctInv'
    <2>1. queued' = [queued EXCEPT ![q] = <<>>]
      BY <1>7 DEF StreamOffEnd
    <2>2. queued'["cap"] \in {queued["cap"], <<>>}
      BY <1>a, <1>b, <2>1, QueueNames
    <2>3. CASE StopStreaming
      <3>1. active' = <<>> /\ ready'["cap"] = <<>>
        BY <2>3, QueueNames DEF StopStreaming
      <3> QED BY <1>c, <2>2, <3>1 DEF DistinctInv
    <2>4. CASE ready' = [ready EXCEPT ![q] = <<>>] /\ UNCHANGED active
      <3>1. ready'["cap"] \in {ready["cap"], <<>>}
        BY <1>a, <1>b, <2>4, QueueNames
      <3> QED BY <1>c, <2>2, <2>4, <3>1 DEF DistinctInv
    <2> QED BY <1>7, <2>3, <2>4, Zenon DEF StreamOffEnd
  <1>8. CASE FrameWriteDone
    <2>1. job = "running" /\ ready["out"] # <<>> /\ ready["cap"] # <<>> /\ UNCHANGED queued
      BY <1>8 DEF FrameWriteDone, JobInv
    <2>2. Len(active) = 2
      BY <2>1 DEF JobInv, SlotInv, Aligned
    <2>3. CASE irqAborts
      <3>1. UNCHANGED <<active, ready, queued>>
        BY <1>8, <2>3 DEF FrameWriteDone
      <3> QED BY <3>1 DEF DistinctInv
    <2>4. CASE ~irqAborts
      <3>1. Convert
        BY <1>8, <2>1, <2>4 DEF FrameWriteDone
      <3>2. Returned(active, ready["cap"], active', ready'["cap"])
        BY <1>a, <2>1, <2>2, <3>1, ConvertLists DEF DistinctInv
      <3> QED BY <2>1, <3>2 DEF DistinctInv, Returned
    <2> QED BY <2>3, <2>4
  <1> QED
    BY <1>1, <1>2, <1>3, <1>4, <1>5, <1>6, <1>7, <1>8
       DEF Next, UserStep, CallStep

-----------------------------------------------------------------------------
(* What the rules give *)

\* The conjunction that is inductive.
M2mInv ==
    TypeInv /\ OwnerInv /\ ConfigInv /\ JobInv /\ RestInv /\ SlotInv /\ DistinctInv

\* Before the first open.
LEMMA M2mInit == Init => M2mInv
  <1> SUFFICES ASSUME Init PROVE M2mInv
    OBVIOUS
  <1>1. TypeInv
    BY TypeInit
  <1>2. /\ \A q \in Queues : ~streaming[q] /\ ready[q] = <<>> /\ queued[q] = <<>> /\ alloc[q] = 0
        /\ ~BothStream
    BY QueueNames DEF Init, BothStream
  <1>3. OwnerInv /\ ConfigInv /\ JobInv
    BY <1>2, QueueNames DEF Init, OwnerInv, ConfigInv, JobInv
  <1>4. RestInv
    BY <1>2 DEF Init, RestInv
  <1>5. SlotInv
    BY <1>2 DEF Init, SlotInv, Stored
  <1>6. DistinctInv
    BY <1>2, QueueNames, EmptyList DEF Init, DistinctInv
  <1> QED BY <1>1, <1>3, <1>4, <1>5, <1>6 DEF M2mInv

\* Every step keeps it.
LEMMA M2mStep == ASSUME Obedient PROVE M2mInv /\ [Next]_vars => M2mInv'
  <1> SUFFICES ASSUME M2mInv, [Next]_vars PROVE M2mInv'
    OBVIOUS
  <1>0. TypeInv /\ OwnerInv /\ ConfigInv /\ JobInv /\ RestInv /\ SlotInv /\ DistinctInv
    BY DEF M2mInv
  <1>1. TypeInv'
    BY <1>0, TypeStep
  <1>2. OwnerInv'
    BY <1>0, OwnerStep, RulesKept
  <1>3. ConfigInv'
    BY <1>0, ConfigStep
  <1>4. JobInv'
    BY <1>0, JobStep
  <1>5. RestInv'
    BY <1>0, RestStep
  <1>6. SlotInv'
    BY <1>0, <1>1, <1>4, SlotStep
  <1>7. DistinctInv'
    BY <1>0, DistinctStep
  <1> QED BY <1>1, <1>2, <1>3, <1>4, <1>5, <1>6, <1>7 DEF M2mInv

\* It holds of every behaviour with an application that keeps the rules.
LEMMA M2mInvariant == ASSUME Obedient PROVE Spec => []M2mInv
  <1>0. Obedient
    OBVIOUS
  <1>1. M2mInv /\ [Next]_vars => M2mInv'
    BY <1>0, M2mStep
  <1> QED BY <1>1, M2mInit, PTL DEF Spec

\* A list of two, written out.
LEMMA TwoEntries ==
    ASSUME NEW S, NEW s \in Seq(S), Len(s) = 2 PROVE s = <<s[1], s[2]>>
  OBVIOUS

\* A conversion writes a target the driver owns: for an application that keeps the
\* rules, while the channel converts it reads the source that the interrupt will
\* return and writes the target that the interrupt will return, whatever buffers
\* are queued and however often frame_count has wrapped.
THEOREM TargetsOwned == ASSUME Obedient PROVE Spec => []TargetOwned
  <1>0. Obedient
    OBVIOUS
  <1>1. M2mInv => TargetOwned
    <2> SUFFICES ASSUME M2mInv PROVE TargetOwned
      OBVIOUS
    <2>0. TypeInv /\ JobInv /\ RestInv /\ SlotInv /\ DistinctInv
      BY DEF M2mInv
    <2>a. /\ ready["cap"] \in Seq(Targets) /\ queued["cap"] \in Seq(Targets)
          /\ active \in Seq(Targets) /\ hwActive \in Slots
      BY <2>0 DEF TypeInv, Lists, ListsOK, Addresses, Positions
    <2>1. ASSUME reading
          PROVE  /\ ready["out"] # <<>> /\ inAddr = Head(ready["out"]) /\ ready["cap"] # <<>>
                 /\ active = <<slot[hwActive], slot[3 - hwActive]>>
      <3>1. job = "running" /\ ~Stored /\ Aligned
        BY <2>0, <2>1 DEF JobInv, SlotInv, Stored
      <3>2. Len(active) = 2 /\ active[1] = slot[hwActive] /\ active[2] = slot[3 - hwActive]
        BY <3>1 DEF Aligned, FrontSlot
      <3>3. active = <<active[1], active[2]>>
        BY <2>a, <3>2, TwoEntries
      <3> QED BY <2>0, <2>1, <3>1, <3>2, <3>3 DEF JobInv, SlotInv
    <2>2. NoRepeat(active \o ready["cap"] \o queued["cap"])
      <3>1. CASE streaming["cap"]
        <4>1. NoRepeat(active \o ready["cap"])
          BY <2>0, <2>a, JoinLists DEF DistinctInv
        <4>2. queued["cap"] = <<>>
          BY <2>0, <3>1, QueueNames DEF RestInv
        <4>3. active \o ready["cap"] \o queued["cap"] = active \o ready["cap"]
          BY <2>a, <4>2
        <4> QED BY <4>1, <4>3
      <3>2. CASE ~streaming["cap"]
        <4>1. active = <<>> /\ ready["cap"] = <<>>
          BY <2>0, <3>2, QueueNames DEF RestInv
        <4>2. active \o ready["cap"] \o queued["cap"] = queued["cap"]
          BY <2>a, <4>1
        <4> QED BY <2>0, <4>2 DEF DistinctInv
      <3> QED BY <3>1, <3>2
    <2> QED BY <2>1, <2>2 DEF TargetOwned
  <1> QED BY <1>0, <1>1, M2mInvariant, PTL

\* A conversion stays inside its buffers: for an application that keeps the rules
\* the channel is configured for the formats of both queues while it converts,
\* whatever S_FMT, REQBUFS and STREAMON calls came before.
THEOREM FramesFit == ASSUME Obedient PROVE Spec => []FrameFits
  <1>0. Obedient
    OBVIOUS
  <1>1. M2mInv => FrameFits
    <2> SUFFICES ASSUME M2mInv, reading PROVE FrameFits
      BY DEF FrameFits
    <2>1. BothStream
      BY DEF M2mInv, JobInv
    <2>2. hwSize = fmt /\ inPitch = fmt["out"] /\ fmt["cap"] <= fmt["out"]
      BY <2>1 DEF M2mInv, ConfigInv
    <2>3. \A q \in Queues : alloc[q] = fmt[q]
      BY <2>1 DEF M2mInv, ConfigInv, BothStream, Queues
    <2>4. \A q \in Queues : fmt[q] \in Nat
      BY SizesAssumption DEF M2mInv, TypeInv, FrameSizes, AnySize, Queues
    <2> QED BY <2>2, <2>3, <2>4 DEF FrameFits
  <1> QED BY <1>0, <1>1, M2mInvariant, PTL

\* A target goes back with the frame converted from the source that goes back
\* with it: for an application that keeps the rules, in every interrupt, also when
\* frame_count wraps.
THEOREM ResultsPaired == ASSUME Obedient PROVE Spec => PairedResult
  <1>0. Obedient
    OBVIOUS
  <1> DEFINE Paired == FrameWriteDone /\ Len(ready["out"]) > Len(ready'["out"])
                         => /\ active # <<>>
                            /\ Head(active) \notin Range(active')
                            /\ memory[Head(active)] = Head(ready["out"])
  <1>1. M2mInv /\ [Next]_vars => [Paired]_vars
    <2> SUFFICES ASSUME M2mInv, FrameWriteDone, Len(ready["out"]) > Len(ready'["out"])
                 PROVE  /\ active # <<>>
                        /\ Head(active) \notin Range(active')
                        /\ memory[Head(active)] = Head(ready["out"])
      OBVIOUS
    <2>0. TypeInv /\ JobInv /\ SlotInv /\ DistinctInv
      BY DEF M2mInv
    <2>a. /\ ready["cap"] \in Seq(Targets) /\ active \in Seq(Targets)
          /\ ready["out"] \in Seq(Sources)
      BY <2>0 DEF TypeInv, Lists, ListsOK, Addresses
    <2>1. /\ irq # 0 /\ job = "running" /\ ready["out"] # <<>> /\ ready["cap"] # <<>> /\ Stored
          /\ Aligned
      BY <2>0 DEF FrameWriteDone, JobInv, SlotInv, Stored
    <2>2. Len(active) = 2 /\ Head(active) = active[1]
      BY <2>a, <2>1, TwoMembers DEF Aligned
    <2>3. ready' # ready
      BY <2>a
    <2>4. Convert
      BY <2>1, <2>3 DEF FrameWriteDone
    <2>5. Returned(active, ready["cap"], active', ready'["cap"])
      BY <2>0, <2>a, <2>1, <2>2, <2>4, ConvertLists DEF DistinctInv
    <2> QED BY <2>0, <2>1, <2>2, <2>5 DEF SlotInv, Returned
  <1>2. Spec => []M2mInv
    BY <1>0, M2mInvariant
  <1> QED BY <1>1, <1>2, PTL DEF Spec, PairedResult
=============================================================================
