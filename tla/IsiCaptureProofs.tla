--------------------------- MODULE IsiCaptureProofs ---------------------------
(***************************************************************************)
(* Proofs about IsiCapture, for any number of buffers, any frame sizes and *)
(* any even modulus of the frame counter. The argument rests on five       *)
(* invariants: Values, the types of the data; ActiveInv, which ties the    *)
(* active list to the two address registers, the frame counter and the     *)
(* discard buffers; Unique, by which a buffer is in one place; MemoryInv,  *)
(* by which a started channel has discard memory once a format was set; and*)
(* RunsStarted, by which a running channel has been started. Unique and    *)
(* RunsStarted need the assumption Disciplined. On the five rest the       *)
(* refinement of BufferFifo and the frame sizes; system sleep needs        *)
(* SleepInv alone.                                                         *)
(***************************************************************************)
EXTENDS IsiCapture, DriverListTheorems, TLAPS

-----------------------------------------------------------------------------
(* Types *)

Values ==
    /\ irq \in {0} \cup Slots
    /\ dst \in Sizes /\ alloc \in Sizes \cup {0}
    /\ hwSize \in Sizes \cup {0} /\ discardSize \in Sizes \cup {0}
    /\ queued \in Seq(Buffers) /\ pending \in Seq(Buffers) /\ done \in Seq(Buffers)
    /\ active \in Seq(Entries) /\ discard \in Seq(Discards)
    /\ slot \in [Slots -> Buffers \cup {DiscardMem, NoAddr}]
    /\ hwActive \in Slots
    /\ frameCount \in 0..(CountMod - 1)

Flags ==
    /\ opened \in BOOLEAN /\ started \in BOOLEAN /\ isStreaming \in BOOLEAN
    /\ channel \in BOOLEAN /\ remote \in BOOLEAN /\ irqPending \in BOOLEAN
    /\ asleep \in BOOLEAN /\ broken \in BOOLEAN /\ pixSet \in BOOLEAN
    /\ call \in {"none", "on_pipeline", "off_channel", "off_drain", "release"}

\* The frame counter stays in its range and changes its parity, also when it
\* wraps.
LEMMA CountStep ==
    ASSUME frameCount \in 0..(CountMod - 1)
    PROVE  /\ NextCount \in 0..(CountMod - 1)
           /\ NextCount % 2 = 1 - (frameCount % 2)
BY CountAssumption DEF NextCount

\* set_outbuf picks one of the two slots.
LEMMA OutSlotType ==
    ASSUME NEW n PROVE OutSlot(n) \in Slots
BY DEF OutSlot, Slots

\* A buffer has an address.
LEMMA AddrType ==
    ASSUME NEW b \in Buffers \cup Discards
    PROVE  Addr(b) \in Buffers \cup {DiscardMem, NoAddr}
BY DEF Addr

\* The type of what the handler does to the lists.
LEMMA ExchangeValues ==
    ASSUME Values, Exchange, active # <<>>
    PROVE  /\ queued' \in Seq(Buffers) /\ pending' \in Seq(Buffers) /\ done' \in Seq(Buffers)
           /\ active' \in Seq(Entries)
           /\ discard' \in Seq(Discards)
           /\ slot' \in [Slots -> Buffers \cup {DiscardMem, NoAddr}]
           /\ frameCount' \in 0..(CountMod - 1)
  <1> DEFINE h == Head(active).buf
             sp == Spare(h)
  <1>1. h \in Buffers \cup Discards /\ Tail(active) \in Seq(Entries)
    <2>1. active \in Seq(Entries)
      BY DEF Values
    <2>2. /\ Head(active) \in Entries
          /\ Tail(active) \in Seq(Entries)
      BY <2>1, HeadTail
    <2> QED
      BY <2>2 DEF Entries
  <1>2. sp \in Seq(Discards)
    BY <1>1 DEF Values, Spare
  <1>3. Delivered(h) \in Seq(Buffers)
    BY <1>1 DEF Values, Delivered
  <1>4. frameCount' \in 0..(CountMod - 1)
    BY CountStep DEF Values, Exchange
  <1>5. ASSUME NEW b \in Buffers \cup Discards, Load(b)
        PROVE  /\ active' \in Seq(Entries)
               /\ slot' \in [Slots -> Buffers \cup {DiscardMem, NoAddr}]
    <2>1. Entry(b, OutSlot(NextCount)) \in Entries
      BY OutSlotType DEF Entry, Entries
    <2>2. active' \in Seq(Entries)
      BY <1>1, <1>5, <2>1 DEF Load
    <2>3. slot' \in [Slots -> Buffers \cup {DiscardMem, NoAddr}]
      BY <1>5, OutSlotType, AddrType DEF Load, Values
    <2> QED
      BY <2>2, <2>3
  <1>6. CASE UsePending /\ Load(Head(pending)) /\ pending' = Tail(pending) /\ discard' = sp
    <2>1. Head(pending) \in Buffers /\ Tail(pending) \in Seq(Buffers)
      BY <1>6 DEF UsePending, Values
    <2> QED
      BY <1>2, <1>3, <1>4, <1>5, <1>6, <2>1 DEF Exchange, Values
  <1>7. CASE ~UsePending /\ sp # <<>> /\ Load(Head(sp)) /\ discard' = Tail(sp) /\ UNCHANGED pending
    <2>1. Head(sp) \in Discards /\ Tail(sp) \in Seq(Discards)
      BY <1>2, <1>7
    <2> QED
      BY <1>3, <1>4, <1>5, <1>7, <2>1 DEF Exchange, Values
  <1>8. CASE /\ ~UsePending /\ sp = <<>>
             /\ active' = Tail(active)
             /\ UNCHANGED <<pending, discard, slot>>
    BY <1>1, <1>3, <1>4, <1>8 DEF Exchange, Values
  <1> QED
    BY <1>6, <1>7, <1>8 DEF Exchange

\* STREAMON hands vb2's queue to the driver, or leaves everything as it is.
LEMMA StreamOnValues ==
    ASSUME Values, StreamOn PROVE Values'
  <1> DEFINE p == pending \o queued
  <1>1. p \in Seq(Buffers)
    BY DEF Values
  <1>2. /\ hwSize' = dst /\ hwActive' = 1 /\ UNCHANGED <<irq, alloc, dst>>
    BY DEF StreamOn, ConfigureChannel
  <1>3. CASE UNCHANGED <<queueVars, slot, discardSize>>
    BY <1>2, <1>3 DEF Values, queueVars, Slots
  <1>4. CASE Len(queued) >= 2 /\ StartStreaming(p)
    <2>1. p # <<>>
      BY <1>4 DEF Values
    <2>2. Head(p) \in Buffers /\ Tail(p) \in Seq(Buffers)
      BY <1>1, <2>1, HeadTail
    <2>3. Entry(Discard1, 1) \in Entries /\ Entry(Head(p), 2) \in Entries
      BY <2>2 DEF Entry, Entries, Discards, Slots
    <2>4. active' \in Seq(Entries)
      <3>1. active' = <<Entry(Discard1, 1), Entry(Head(p), 2)>>
        BY <1>4 DEF StartStreaming
      <3> QED
        BY <2>3, <3>1, Pair
    <2>5. discard' \in Seq(Discards)
      BY <1>4 DEF StartStreaming, Discards
    <2>6. frameCount' \in 0..(CountMod - 1)
      BY <1>4, CountAssumption DEF StartStreaming
    <2>7. slot' \in [Slots -> Buffers \cup {DiscardMem, NoAddr}]
      BY <1>4, <2>2 DEF StartStreaming
    <2>8. queued' \in Seq(Buffers) /\ pending' \in Seq(Buffers) /\ done' \in Seq(Buffers)
      BY <1>4, <2>2 DEF StartStreaming, Values
    <2> QED
      BY <1>2, <1>4, <2>4, <2>5, <2>6, <2>7, <2>8 DEF StartStreaming, Values, Slots
  <1>5. CASE /\ pending' = p
             /\ UNCHANGED <<queued, active, discard, done, frameCount, slot, discardSize>>
    BY <1>1, <1>2, <1>5 DEF Values, Slots
  <1> QED
    BY <1>3, <1>4, <1>5 DEF StreamOn, Vb2StreamOn

\* Stopping empties the lists.
LEMMA CancelValues ==
    ASSUME Values, Cancel
    PROVE  /\ queued' \in Seq(Buffers) /\ pending' \in Seq(Buffers) /\ done' \in Seq(Buffers)
           /\ active' \in Seq(Entries) /\ discard' \in Seq(Discards)
           /\ frameCount' \in 0..(CountMod - 1)
           /\ discardSize' \in Sizes \cup {0}
  <1>1. CASE started
    BY <1>1 DEF Cancel, Values
  <1>2. CASE ~started
    BY <1>2 DEF Cancel, Values
  <1> QED
    BY <1>1, <1>2

\* Every step keeps the data well typed.
LEMMA ValuesStep ==
    ASSUME Values, [Next]_vars PROVE Values'
  <1>1. CASE Open
    BY <1>1 DEF Open, queueVars, hwVars, formatVars, flagVars, Values, Slots
  <1>2. CASE RequestBuffers
    BY <1>2 DEF RequestBuffers, queueVars, hwVars, formatVars, flagVars, Values, Slots
  <1>3. CASE DequeueBuffer
    BY <1>3, HeadTail DEF DequeueBuffer, queueVars, hwVars, formatVars, flagVars, Values
  <1>4. CASE StreamOn
    BY <1>4, StreamOnValues
  <1>5. CASE StreamOff
    BY <1>5 DEF StreamOff, queueVars, hwVars, formatVars, flagVars, Values, Slots
  <1>6. CASE Close
    BY <1>6 DEF Close, queueVars, hwVars, formatVars, flagVars, Values, Slots
  <1>7. ASSUME NEW s \in Sizes, SetFormat(s) PROVE Values'
    BY <1>7 DEF SetFormat, queueVars, hwVars, formatVars, flagVars, Values, Slots
  <1>8. ASSUME NEW s \in Sizes, SubdevSetFormat(s) PROVE Values'
    BY <1>8 DEF SubdevSetFormat, queueVars, hwVars, formatVars, flagVars, Values, Slots
  <1>9. ASSUME NEW b \in Buffers, QueueBuffer(b) PROVE Values'
    <2>0. Append(pending, b) \in Seq(Buffers) /\ Append(queued, b) \in Seq(Buffers)
      BY DEF Values
    <2>1. CASE started
      BY <1>9, <2>0, <2>1 DEF QueueBuffer, hwVars, formatVars, Values
    <2>2. CASE ~started
      BY <1>9, <2>0, <2>2 DEF QueueBuffer, hwVars, formatVars, Values
    <2> QED
      BY <2>1, <2>2
  <1>10. CASE OnPipeline
    BY <1>10 DEF OnPipeline, queueVars, hwVars, formatVars, flagVars, Values, Slots
  <1>11. CASE OffChannel
    BY <1>11 DEF OffChannel, queueVars, hwVars, formatVars, flagVars, Values, Slots
  <1>12. CASE OffDrain
    BY <1>12, CancelValues DEF OffDrain, hwVars, Values
  <1>13. CASE Release
    BY <1>13, CancelValues DEF Release, hwVars, Values
  <1>14. CASE FrameEnd
    BY <1>14 DEF FrameEnd, queueVars, hwVars, formatVars, flagVars, Values, Slots
  <1>15. CASE IrqEnter
    BY <1>15 DEF IrqEnter, queueVars, hwVars, formatVars, flagVars, Values, Slots
  <1>16. CASE FrameWriteDone
    <2>1. CASE Skip
      BY <1>16, <2>1 DEF FrameWriteDone, Values, queueVars, formatVars, Slots
    <2>2. CASE ~Skip
      BY <1>16, <2>2, ExchangeValues DEF FrameWriteDone, Skip, Values, formatVars, Slots
    <2> QED
      BY <2>1, <2>2
  <1>17. CASE SystemSuspend
    BY <1>17 DEF SystemSuspend, queueVars, hwVars, formatVars, flagVars, Values, Slots
  <1>18. CASE SystemResume
    BY <1>18 DEF SystemResume, queueVars, hwVars, formatVars, flagVars, Values, Slots
  <1>19. CASE UNCHANGED vars
    BY <1>19 DEF vars, queueVars, hwVars, formatVars, flagVars, Values
  <1> QED
    BY <1>1, <1>2, <1>3, <1>4, <1>5, <1>6, <1>7, <1>8, <1>9, <1>10, <1>11, <1>12, <1>13, <1>14, <1>15, <1>16, <1>17, <1>18, <1>19 DEF Next, UserStep, CallStep

\* Every step keeps the flags well typed.
LEMMA FlagsStep ==
    ASSUME Flags, [Next]_vars PROVE Flags'
  <1>1. CASE Open
    BY <1>1, Zenon DEF Open, queueVars, hwVars, formatVars, flagVars, Flags
  <1>2. CASE RequestBuffers
    BY <1>2, Zenon DEF RequestBuffers, queueVars, hwVars, formatVars, flagVars, Flags
  <1>3. CASE DequeueBuffer
    BY <1>3, Zenon DEF DequeueBuffer, queueVars, hwVars, formatVars, flagVars, Flags
  <1>4. CASE StreamOn
    BY <1>4, Zenon DEF StreamOn, EnableChannel, Vb2StreamOn, StartStreaming, queueVars, hwVars, formatVars, flagVars, Flags
  <1>5. CASE StreamOff
    BY <1>5, Zenon DEF StreamOff, queueVars, hwVars, formatVars, flagVars, Flags
  <1>6. CASE Close
    BY <1>6, Zenon DEF Close, queueVars, hwVars, formatVars, flagVars, Flags
  <1>7. ASSUME NEW s \in Sizes, SetFormat(s) PROVE Flags'
    BY <1>7, Zenon DEF SetFormat, queueVars, hwVars, formatVars, flagVars, Flags
  <1>8. ASSUME NEW s \in Sizes, SubdevSetFormat(s) PROVE Flags'
    BY <1>8, Zenon DEF SubdevSetFormat, queueVars, hwVars, formatVars, flagVars, Flags
  <1>9. ASSUME NEW b \in Buffers, QueueBuffer(b) PROVE Flags'
    BY <1>9, Zenon DEF QueueBuffer, Overlap, queueVars, hwVars, formatVars, flagVars, Flags
  <1>10. CASE OnPipeline
    BY <1>10, Zenon DEF OnPipeline, queueVars, hwVars, formatVars, flagVars, Flags
  <1>11. CASE OffChannel
    BY <1>11, Zenon DEF OffChannel, queueVars, hwVars, formatVars, flagVars, Flags
  <1>12. CASE OffDrain
    BY <1>12, Zenon DEF OffDrain, Cancel, Overlap, queueVars, hwVars, formatVars, flagVars, Flags
  <1>13. CASE Release
    BY <1>13, Zenon DEF Release, Cancel, Overlap, queueVars, hwVars, formatVars, flagVars, Flags
  <1>14. CASE FrameEnd
    BY <1>14, Zenon DEF FrameEnd, queueVars, hwVars, formatVars, flagVars, Flags
  <1>15. CASE IrqEnter
    BY <1>15, Zenon DEF IrqEnter, queueVars, hwVars, formatVars, flagVars, Flags
  <1>16. CASE FrameWriteDone
    BY <1>16, Zenon DEF FrameWriteDone, queueVars, hwVars, formatVars, flagVars, Flags
  <1>17. CASE SystemSuspend
    BY <1>17, Zenon DEF SystemSuspend, queueVars, hwVars, formatVars, flagVars, Flags
  <1>18. CASE SystemResume
    BY <1>18, Zenon DEF SystemResume, queueVars, hwVars, formatVars, flagVars, Flags
  <1>19. CASE UNCHANGED vars
    BY <1>19, Zenon DEF vars, queueVars, hwVars, formatVars, flagVars, Flags
  <1> QED
    BY <1>1, <1>2, <1>3, <1>4, <1>5, <1>6, <1>7, <1>8, <1>9, <1>10, <1>11, <1>12, <1>13, <1>14, <1>15, <1>16, <1>17, <1>18, <1>19 DEF Next, UserStep, CallStep

\* What mxc_isi_register_cap_device leaves behind is well typed.
LEMMA InitTyped == Init => Values /\ Flags
  <1> SUFFICES ASSUME Init PROVE Values /\ Flags
    OBVIOUS
  <1>1. Values
    BY SizesAssumption, CountAssumption DEF Init, Values, Slots
  <1>2. Flags
    BY Zenon DEF Init, Flags
  <1> QED
    BY <1>1, <1>2

\* Type correctness of the capture channel, for every caller and fault.
THEOREM TypeCorrect == Spec => []TypeOK
  <1>1. Values /\ Flags /\ [Next]_vars => Values' /\ Flags'
    BY ValuesStep, FlagsStep
  <1>2. Values /\ Flags => TypeOK
    BY DEF Values, Flags, TypeOK
  <1> QED
    BY <1>1, <1>2, InitTyped, PTL DEF Spec

-----------------------------------------------------------------------------
(* The active list, the address registers and the discard buffers *)

Spent(e) == IF e.buf \in Discards THEN 1 ELSE 0

\* The state of a started channel between two interrupts: one buffer per slot,
\* the older one in the slot the parity of the frame counter tells, and every
\* discard buffer either active or spare.
Loaded ==
    /\ Len(active) = 2
    /\ active[1].id = 2 - (frameCount % 2)
    /\ active[2].id = 1 + (frameCount % 2)
    /\ slot[active[1].id] = Addr(active[1].buf)
    /\ slot[active[2].id] = Addr(active[2].buf)
    /\ Len(discard) = 2 - Spent(active[1]) - Spent(active[2])

ActiveInv ==
    /\ started => Loaded
    /\ ~started => active = <<>>
    /\ irq # 0 => irq = hwActive

\* set_outbuf loads the slot of the oldest active buffer, the one the channel
\* has left: the special cases for the frame numbers 0 and 1 agree with it.
LEMMA FreeSlot ==
    ASSUME Values, Loaded, irq # 0, active[1].id # irq
    PROVE  OutSlot(NextCount) = active[1].id /\ active[2].id = irq
  <1>1. frameCount \in 0..(CountMod - 1) /\ irq \in {1, 2}
    BY DEF Values, Slots
  <1>2. NextCount \in Nat /\ NextCount % 2 = 1 - (frameCount % 2)
    BY <1>1, CountStep, CountAssumption
  <1>3. frameCount % 2 \in {0, 1}
    BY <1>1, CountAssumption
  <1>4. active[1].id = 2 - (frameCount % 2) /\ active[2].id = 1 + (frameCount % 2)
    BY DEF Loaded
  <1>5. CASE frameCount % 2 = 0
    <2>1. active[1].id = 2 /\ active[2].id = 1 /\ irq = 1 /\ NextCount # 0
      BY <1>1, <1>2, <1>4, <1>5
    <2> QED
      BY <2>1 DEF OutSlot
  <1>6. CASE frameCount % 2 = 1
    <2>1. active[1].id = 1 /\ active[2].id = 2 /\ irq = 2 /\ NextCount # 1
      BY <1>1, <1>2, <1>4, <1>6
    <2> QED
      BY <2>1 DEF OutSlot
  <1> QED
    BY <1>3, <1>5, <1>6

\* The handler finds a buffer for the slot that has become free, and leaves the
\* slot in use alone.
LEMMA ExchangeLoaded ==
    ASSUME Values, Loaded, irq # 0, active[1].id # irq, Exchange
    PROVE  Loaded' /\ slot'[irq] = slot[irq]
  <1> DEFINE a == active[1]
             b == active[2]
             sp == Spare(a.buf)
  <1>1. active \in Seq(Entries) /\ Len(active) = 2
    BY DEF Values, Loaded
  <1>2. Head(active) = a /\ a \in Entries /\ b \in Entries
    BY <1>1, TwoMembers
  <1>3. /\ a.buf \in Buffers \cup Discards /\ a.id \in Slots
        /\ b.buf \in Buffers \cup Discards /\ b.id \in Slots
    BY <1>2 DEF Entries
  <1>4. OutSlot(NextCount) = a.id /\ b.id = irq
    BY FreeSlot
  <1>5. frameCount' = NextCount /\ NextCount % 2 = 1 - (frameCount % 2) /\ frameCount % 2 \in {0, 1}
    BY CountStep, CountAssumption DEF Exchange, Values
  <1>6. Spent(a) \in {0, 1} /\ Spent(b) \in {0, 1} /\ Len(discard) = 2 - Spent(a) - Spent(b)
    BY DEF Spent, Loaded
  <1>7. sp \in Seq(Discards) /\ Len(sp) = 2 - Spent(b)
    <2>1. CASE a.buf \in Discards
      BY <1>6, <2>1 DEF Spare, Spent, Values
    <2>2. CASE a.buf \notin Discards
      BY <1>6, <2>2 DEF Spare, Spent, Values
    <2> QED
      BY <2>1, <2>2
  <1>8. ASSUME NEW x \in Buffers \cup Discards, Load(x)
        PROVE  /\ Len(active') = 2
               /\ active'[1] = b /\ active'[2] = Entry(x, a.id)
               /\ slot'[a.id] = Addr(x) /\ slot'[b.id] = slot[b.id]
    <2>1. active' = Append(Tail(active), Entry(x, a.id))
      BY <1>4, <1>8 DEF Load
    <2>2. slot' = [slot EXCEPT ![a.id] = Addr(x)]
      BY <1>4, <1>8 DEF Load
    <2>3. slot'[a.id] = Addr(x) /\ slot'[b.id] = slot[b.id]
      BY <1>3, <1>4, <2>2 DEF Values
    <2>5. Entry(x, a.id) \in Entries
      BY <1>3 DEF Entry, Entries
    <2>4. Len(active') = 2 /\ active'[1] = b /\ active'[2] = Entry(x, a.id)
      BY <1>1, <2>1, <2>5, Rotate
    <2> QED
      BY <2>3, <2>4
  <1>9. ASSUME NEW x \in Buffers \cup Discards, Load(x), Len(discard') = 2 - Spent(b) - Spent(Entry(x, a.id))
        PROVE  Loaded' /\ slot'[irq] = slot[irq]
    <2>1. /\ Len(active') = 2 /\ active'[1] = b /\ active'[2] = Entry(x, a.id)
          /\ slot'[a.id] = Addr(x) /\ slot'[b.id] = slot[b.id]
      BY <1>8, <1>9
    <2>2. Entry(x, a.id).id = a.id /\ Entry(x, a.id).buf = x
      BY DEF Entry
    <2>3. slot[b.id] = Addr(b.buf) /\ a.id = 2 - (frameCount % 2) /\ b.id = 1 + (frameCount % 2)
      BY DEF Loaded
    <2>4. active'[1].id = 2 - (frameCount' % 2) /\ active'[2].id = 1 + (frameCount' % 2)
      BY <1>5, <2>1, <2>2, <2>3
    <2>5. /\ slot'[active'[1].id] = Addr(active'[1].buf)
          /\ slot'[active'[2].id] = Addr(active'[2].buf)
      BY <2>1, <2>2, <2>3
    <2>6. Len(discard') = 2 - Spent(active'[1]) - Spent(active'[2])
      BY <1>9, <2>1
    <2>7. Loaded'
      BY <2>1, <2>4, <2>5, <2>6 DEF Loaded, Addr, Spent
    <2> QED
      BY <1>4, <2>1, <2>7
  <1>10. CASE UsePending /\ Load(Head(pending)) /\ discard' = sp
    <2>1. Head(pending) \in Buffers
      BY <1>10, HeadTail DEF UsePending, Values
    <2>2. Spent(Entry(Head(pending), a.id)) = 0
      BY <2>1, BuffersAssumption DEF Spent, Entry
    <2>3. Len(discard') = 2 - Spent(b) - Spent(Entry(Head(pending), a.id))
      BY <1>6, <1>7, <1>10, <2>2
    <2> QED
      BY <1>9, <1>10, <2>1, <2>3
  <1>11. CASE sp # <<>> /\ Load(Head(sp)) /\ discard' = Tail(sp)
    <2>1. Head(sp) \in Discards /\ Len(Tail(sp)) = Len(sp) - 1
      BY <1>7, <1>11, HeadTail
    <2>2. Spent(Entry(Head(sp), a.id)) = 1
      BY <2>1 DEF Spent, Entry
    <2>3. Len(discard') = 2 - Spent(b) - Spent(Entry(Head(sp), a.id))
      BY <1>6, <1>7, <1>11, <2>1, <2>2
    <2> QED
      BY <1>9, <1>11, <2>1, <2>3
  <1>12. sp # <<>>
    BY <1>6, <1>7
  <1> QED
    BY <1>2, <1>10, <1>11, <1>12 DEF Exchange

\* STREAMON starts with a discard buffer in BUF1 and the first buffer in BUF2.
LEMMA StreamOnActive ==
    ASSUME Values, ActiveInv, StreamOn PROVE ActiveInv'
  <1> DEFINE p == pending \o queued
  <1>1. irq' = 0
    BY DEF StreamOn
  <1>2. CASE UNCHANGED <<active, discard, frameCount, slot, started>>
    BY <1>1, <1>2 DEF ActiveInv, Loaded, Addr, Spent
  <1>3. CASE Len(queued) >= 2 /\ StartStreaming(p)
    <2>1. p \in Seq(Buffers) /\ p # <<>>
      BY <1>3 DEF Values
    <2>2. Head(p) \in Buffers
      BY <2>1, HeadTail
    <2> DEFINE q == Head(p)
    <2> HIDE DEF p, q
    <2>3. q \in Buffers
      BY <2>2 DEF q
    <2>4. /\ active' = <<Entry(Discard1, 1), Entry(q, 2)>>
          /\ discard' = <<Discard2>>
          /\ slot' = [s \in Slots |-> IF s = 1 THEN DiscardMem ELSE q]
          /\ frameCount' = 1
          /\ started' = TRUE
      BY <1>3 DEF StartStreaming, q
    <2>5. Addr(Discard1) = DiscardMem /\ Addr(q) = q /\ slot'[1] = DiscardMem /\ slot'[2] = q
      BY <2>3, <2>4, BuffersAssumption DEF Addr, Discards, Slots
    <2>6. Spent(Entry(Discard1, 1)) = 1 /\ Spent(Entry(q, 2)) = 0
      BY <2>3, BuffersAssumption DEF Spent, Entry, Discards
    <2>7. Len(active') = 2 /\ active'[1] = Entry(Discard1, 1) /\ active'[2] = Entry(q, 2)
      BY <2>4
    <2>8. Len(discard') = 2 - Spent(active'[1]) - Spent(active'[2])
      BY <2>4, <2>6, <2>7
    <2>9. /\ active'[1].id = 1 /\ active'[1].buf = Discard1
          /\ active'[2].id = 2 /\ active'[2].buf = q
      BY <2>7 DEF Entry
    <2>10. Loaded'
      BY <2>4, <2>5, <2>7, <2>8, <2>9 DEF Loaded, Addr, Spent
    <2> QED
      BY <1>1, <2>4, <2>10 DEF ActiveInv
  <1> QED
    BY <1>2, <1>3 DEF StreamOn, Vb2StreamOn, queueVars

\* Every step keeps ActiveInv.
LEMMA ActiveStep ==
    ASSUME Values, ActiveInv, [Next]_vars PROVE ActiveInv'
  <1>1. CASE Open
    BY <1>1 DEF Open, ActiveInv, Loaded, Addr, Spent, queueVars, hwVars, formatVars, flagVars
  <1>2. CASE RequestBuffers
    BY <1>2 DEF RequestBuffers, ActiveInv, Loaded, Addr, Spent, queueVars, hwVars, formatVars, flagVars
  <1>3. CASE DequeueBuffer
    BY <1>3 DEF DequeueBuffer, ActiveInv, Loaded, Addr, Spent, queueVars, hwVars, formatVars, flagVars
  <1>4. CASE StreamOn
    BY <1>4, StreamOnActive
  <1>5. CASE StreamOff
    BY <1>5 DEF StreamOff, ActiveInv, Loaded, Addr, Spent, queueVars, hwVars, formatVars, flagVars
  <1>6. CASE Close
    BY <1>6 DEF Close, ActiveInv, Loaded, Addr, Spent, queueVars, hwVars, formatVars, flagVars
  <1>7. ASSUME NEW s \in Sizes, SetFormat(s) PROVE ActiveInv'
    BY <1>7 DEF SetFormat, ActiveInv, Loaded, Addr, Spent, queueVars, hwVars, formatVars, flagVars
  <1>8. ASSUME NEW s \in Sizes, SubdevSetFormat(s) PROVE ActiveInv'
    BY <1>8 DEF SubdevSetFormat, ActiveInv, Loaded, Addr, Spent, queueVars, hwVars, formatVars, flagVars
  <1>9. ASSUME NEW b \in Buffers, QueueBuffer(b) PROVE ActiveInv'
    BY <1>9 DEF QueueBuffer, ActiveInv, Loaded, Addr, Spent, queueVars, hwVars, formatVars, flagVars
  <1>10. CASE OnPipeline
    BY <1>10 DEF OnPipeline, ActiveInv, Loaded, Addr, Spent, queueVars, hwVars, formatVars, flagVars
  <1>11. CASE OffChannel
    BY <1>11 DEF OffChannel, ActiveInv, Loaded, Addr, Spent, queueVars, hwVars, formatVars, flagVars
  <1>12. CASE OffDrain
    <2>1. active' = <<>> /\ started' = FALSE
      BY <1>12 DEF OffDrain, Cancel, ActiveInv
    <2> QED
      BY <1>12, <2>1 DEF OffDrain, ActiveInv, hwVars
  <1>13. CASE Release
    <2>1. active' = <<>> /\ started' = FALSE
      BY <1>13 DEF Release, Cancel, ActiveInv
    <2> QED
      BY <1>13, <2>1 DEF Release, ActiveInv, hwVars
  <1>14. CASE FrameEnd
    BY <1>14 DEF FrameEnd, ActiveInv, Loaded, Addr, Spent, queueVars, flagVars
  <1>15. CASE IrqEnter
    BY <1>15 DEF IrqEnter, ActiveInv, Loaded, Addr, Spent, queueVars, hwVars, formatVars, flagVars
  <1>16. CASE FrameWriteDone
    <2>1. irq' = 0 /\ UNCHANGED <<hwActive, started>>
      BY <1>16 DEF FrameWriteDone, flagVars
    <2>2. CASE Skip
      BY <1>16, <2>1, <2>2 DEF FrameWriteDone, ActiveInv, Loaded, Addr, Spent, queueVars
    <2>3. CASE ~Skip
      <3>1. started /\ Loaded /\ active # <<>> /\ Head(active).id # irq
        BY <2>3 DEF Skip, ActiveInv
      <3>2. Head(active) = active[1]
        BY <3>1, TwoMembers DEF Loaded, Values
      <3>3. Loaded'
        BY <1>16, <2>3, <3>1, <3>2, ExchangeLoaded DEF FrameWriteDone
      <3> QED
        BY <2>1, <3>1, <3>3 DEF ActiveInv
    <2> QED
      BY <2>2, <2>3
  <1>17. CASE SystemSuspend
    BY <1>17 DEF SystemSuspend, ActiveInv, Loaded, Addr, Spent, queueVars, hwVars, formatVars, flagVars
  <1>18. CASE SystemResume
    BY <1>18 DEF SystemResume, ActiveInv, Loaded, Addr, Spent, queueVars, hwVars, formatVars, flagVars
  <1>19. CASE UNCHANGED vars
    BY <1>19 DEF vars, ActiveInv, Loaded, Addr, Spent, queueVars, hwVars, formatVars, flagVars
  <1> QED
    BY <1>1, <1>2, <1>3, <1>4, <1>5, <1>6, <1>7, <1>8, <1>9, <1>10, <1>11, <1>12, <1>13, <1>14, <1>15, <1>16, <1>17, <1>18, <1>19 DEF Next, UserStep, CallStep

\* Both invariants together are inductive.
LEMMA ActiveInvariant == Spec => [](Values /\ ActiveInv)
  <1>1. Init => ActiveInv
    BY DEF Init, ActiveInv
  <1>2. Values /\ ActiveInv /\ [Next]_vars => Values' /\ ActiveInv'
    BY ValuesStep, ActiveStep
  <1> QED
    BY <1>1, <1>2, InitTyped, PTL DEF Spec

\* A started channel always has two buffers, for every caller, every fault and
\* interrupts however late: the warning about an empty discard list in
\* mxc_isi_cap_frame_write_done cannot be reached.
THEOREM ChannelNeverStarved == Spec => []NeverStarved
  <1>1. ActiveInv => NeverStarved
    BY DEF ActiveInv, Loaded, NeverStarved
  <1> QED
    BY <1>1, ActiveInvariant, PTL

\* No step reloads the slot the channel is writing.
LEMMA IdleSlotStep ==
    ASSUME Values, ActiveInv, [Next]_vars, started
    PROVE  slot'[hwActive] = slot[hwActive]
  <1>1. CASE Open
    BY <1>1 DEF Open, hwVars
  <1>2. CASE RequestBuffers
    BY <1>2 DEF RequestBuffers, hwVars
  <1>3. CASE DequeueBuffer
    BY <1>3 DEF DequeueBuffer, hwVars
  <1>4. CASE StreamOn
    BY <1>4 DEF StreamOn, Vb2StreamOn
  <1>5. CASE StreamOff
    BY <1>5 DEF StreamOff, hwVars
  <1>6. CASE Close
    BY <1>6 DEF Close, hwVars
  <1>7. ASSUME NEW s \in Sizes, SetFormat(s) PROVE slot'[hwActive] = slot[hwActive]
    BY <1>7 DEF SetFormat, hwVars
  <1>8. ASSUME NEW s \in Sizes, SubdevSetFormat(s) PROVE slot'[hwActive] = slot[hwActive]
    BY <1>8 DEF SubdevSetFormat, hwVars
  <1>9. ASSUME NEW b \in Buffers, QueueBuffer(b) PROVE slot'[hwActive] = slot[hwActive]
    BY <1>9 DEF QueueBuffer, hwVars
  <1>10. CASE OnPipeline
    BY <1>10 DEF OnPipeline, hwVars
  <1>11. CASE OffChannel
    BY <1>11 DEF OffChannel, hwVars
  <1>12. CASE OffDrain
    BY <1>12 DEF OffDrain, hwVars
  <1>13. CASE Release
    BY <1>13 DEF Release, hwVars
  <1>14. CASE FrameEnd
    BY <1>14 DEF FrameEnd, hwVars
  <1>15. CASE IrqEnter
    BY <1>15 DEF IrqEnter, hwVars
  <1>16. CASE FrameWriteDone
    <2>1. CASE Skip
      BY <1>16, <2>1 DEF FrameWriteDone
    <2>2. CASE ~Skip
      <3>1. started /\ Loaded /\ Head(active).id # irq /\ irq = hwActive
        BY <1>16, <2>2 DEF FrameWriteDone, Skip, ActiveInv
      <3>2. Head(active) = active[1]
        BY <3>1, TwoMembers DEF Loaded, Values
      <3> QED
        BY <1>16, <2>2, <3>1, <3>2, ExchangeLoaded DEF FrameWriteDone
    <2> QED
      BY <2>1, <2>2
  <1>17. CASE SystemSuspend
    BY <1>17 DEF SystemSuspend, hwVars
  <1>18. CASE SystemResume
    BY <1>18 DEF SystemResume, hwVars
  <1>19. CASE UNCHANGED vars
    BY <1>19 DEF vars, hwVars
  <1> QED
    BY <1>1, <1>2, <1>3, <1>4, <1>5, <1>6, <1>7, <1>8, <1>9, <1>10, <1>11, <1>12, <1>13, <1>14, <1>15, <1>16, <1>17, <1>18, <1>19 DEF Next, UserStep, CallStep

\* The slot being written is never reloaded, also when the frame counter wraps,
\* for every caller and fault.
THEOREM SlotInUseKept == Spec => IdleSlotLoaded
  <1>1. Values /\ ActiveInv /\ [Next]_vars
          => [started /\ channel /\ channel' => slot'[hwActive] = slot[hwActive]]_vars
    BY IdleSlotStep
  <1> QED
    BY <1>1, ActiveInvariant, PTL DEF Spec, IdleSlotLoaded

-----------------------------------------------------------------------------
(* Where the buffers are *)

\* An application that queues two buffers before STREAMON, and memory for the
\* discard buffers: the cases in which vb2_ioctl_streamon succeeds.
Disciplined == Careful /\ "nomem" \notin Faults

InAct == IF started THEN {active[1].buf, active[2].buf} ELSE {}

\* No buffer is in two places.
Unique ==
    /\ NoRepeat(queued) /\ NoRepeat(pending) /\ NoRepeat(discard) /\ NoRepeat(done)
    /\ started => active[1].buf # active[2].buf
    /\ ~started => pending = <<>> /\ discard = <<>>
    /\ Range(queued) \cap Range(pending) = {}
    /\ Range(queued) \cap Range(done) = {}
    /\ Range(pending) \cap Range(done) = {}
    /\ InAct \cap (Range(queued) \cup Range(pending) \cup Range(done) \cup Range(discard)) = {}

\* The channel runs only with the driver started: it is off before STREAMOFF
\* drains the lists.
RunsStarted ==
    /\ channel => started
    /\ call = "off_drain" => ~channel

\* VIDIOC_QBUF accepts only a buffer that is nowhere.
LEMMA QueueUnique ==
    ASSUME Values, ActiveInv, Unique, NEW b \in Buffers, QueueBuffer(b)
    PROVE  Unique'
  <1>1. b \notin Range(queued) /\ b \notin Range(done) /\ UNCHANGED <<active, discard, done, started>>
    BY DEF QueueBuffer, Owned
  <1>2. CASE started
    <2>1. active \in Seq(Entries) /\ Len(active) = 2 /\ DOMAIN active = 1..2
      BY <1>2 DEF Values, ActiveInv, Loaded
    <2>2. active[1].buf \in Range(Bufs(active)) /\ active[2].buf \in Range(Bufs(active))
      BY <2>1 DEF Range, Bufs
    <2>3. b \notin Range(pending) /\ b # active[1].buf /\ b # active[2].buf
      BY <1>2, <2>2 DEF QueueBuffer, Owned
    <2>4. pending' = Append(pending, b) /\ queued' = queued
      BY <1>2 DEF QueueBuffer
    <2>5. pending \in Seq(Buffers)
      BY DEF Values
    <2>6. Range(pending') = Range(pending) \cup {b} /\ NoRepeat(pending')
      BY <2>3, <2>4, <2>5, AddToList DEF Unique
    <2> QED
      BY <1>1, <1>2, <2>3, <2>4, <2>6 DEF Unique, InAct
  <1>3. CASE ~started
    <2>1. queued' = Append(queued, b) /\ pending' = pending /\ pending = <<>>
      BY <1>3 DEF QueueBuffer, Unique
    <2>2. queued \in Seq(Buffers)
      BY DEF Values
    <2>3. Range(queued') = Range(queued) \cup {b} /\ NoRepeat(queued')
      BY <1>1, <2>1, <2>2, AddToList DEF Unique
    <2> QED
      BY <1>1, <1>3, <2>1, <2>3, EmptyList DEF Unique, InAct
  <1> QED
    BY <1>2, <1>3

\* VIDIOC_DQBUF takes a buffer off the done list.
LEMMA DequeueUnique ==
    ASSUME Values, Unique, DequeueBuffer PROVE Unique'
  <1>1. done \in Seq(Buffers) /\ done # <<>> /\ done' = Tail(done)
    BY DEF Values, DequeueBuffer
  <1>2. Range(done') = Range(done) \ {Head(done)} /\ NoRepeat(done')
    BY <1>1, TakeFromList DEF Unique
  <1>3. UNCHANGED <<queued, pending, active, discard, started>>
    BY DEF DequeueBuffer, flagVars
  <1> QED
    BY <1>2, <1>3 DEF Unique, InAct

\* Stopping leaves no buffer anywhere.
LEMMA CancelUnique ==
    ASSUME Unique, Cancel PROVE Unique'
  <1>1. /\ queued' = <<>> /\ done' = <<>> /\ pending' = <<>> /\ discard' = <<>>
        /\ started' = FALSE
    BY DEF Cancel, Unique
  <1> QED
    BY <1>1, EmptyList DEF Unique, InAct

\* With an empty pending list STREAMON moves vb2's queue to the driver as it is.
LEMMA StreamOnUnique ==
    ASSUME Values, ActiveInv, Unique, Disciplined, StreamOn PROVE Unique'
  <1>1. CASE started
    BY <1>1 DEF StreamOn, Vb2StreamOn, queueVars, Unique, InAct
  <1>2. CASE ~started
    <2>1. pending = <<>> /\ alloc # 0 /\ Len(queued) >= 2
      BY <1>2 DEF Unique, StreamOn, Disciplined
    <2>2. queued \in Seq(Buffers) /\ queued # <<>>
      BY <2>1 DEF Values
    <2>3. pending \o queued = queued
      BY <2>1, <2>2
    <2>4. StartStreaming(queued)
      BY <1>2, <2>1, <2>3 DEF StreamOn, Vb2StreamOn, Disciplined
    <2> DEFINE h == Head(queued)
    <2>5. h \in Range(queued) /\ h \in Buffers
      BY <2>2, TakeFromList, HeadTail
    <2>6. Range(Tail(queued)) = Range(queued) \ {h} /\ NoRepeat(Tail(queued))
      BY <2>2, TakeFromList DEF Unique
    <2>7. Range(queued) \subseteq Buffers /\ Range(done) \subseteq Buffers
      BY DEF Values, Range
    <2>8. /\ started' = TRUE /\ pending' = Tail(queued) /\ discard' = <<Discard2>>
          /\ queued' = <<>> /\ done' = done
          /\ active' = <<Entry(Discard1, 1), Entry(h, 2)>>
      BY <2>4 DEF StartStreaming
    <2>9. active'[1].buf = Discard1 /\ active'[2].buf = h
      BY <2>8 DEF Entry
    <2>10. Range(<<Discard2>>) = {Discard2} /\ NoRepeat(<<Discard2>>)
      BY DEF Range, NoRepeat
    <2>11. Discard1 # Discard2 /\ Discard1 \notin Buffers /\ Discard2 \notin Buffers
      BY BuffersAssumption DEF Discards
    <2> HIDE DEF h
    <2>12. InAct' = {Discard1, h}
      BY <2>8, <2>9 DEF InAct
    <2>13. /\ Range(queued') = {} /\ NoRepeat(queued')
           /\ Range(pending') = Range(queued) \ {h} /\ NoRepeat(pending')
           /\ Range(discard') = {Discard2} /\ NoRepeat(discard')
           /\ Range(done') = Range(done) /\ NoRepeat(done')
           /\ Range(queued) \cap Range(done) = {}
      BY <2>6, <2>8, <2>10, EmptyList DEF Unique
    <2> QED
      BY <2>5, <2>7, <2>8, <2>9, <2>11, <2>12, <2>13 DEF Unique
  <1> QED
    BY <1>1, <1>2

\* The handler moves the oldest active buffer to done or to the spare discard
\* buffers, and one buffer from pending or from the spares into its place.
LEMMA ExchangeUnique ==
    ASSUME Values, Loaded, Unique, started, started', irq # 0, active[1].id # irq, Exchange
    PROVE  Unique'
  <1> DEFINE a == active[1].buf
             b == active[2].buf
             sp == Spare(a)
  <1>1. active \in Seq(Entries) /\ Len(active) = 2 /\ Head(active) = active[1]
    BY TwoMembers DEF Values, Loaded
  <1>2. a \in Buffers \cup Discards /\ b \in Buffers \cup Discards
    <2>1. active[1] \in Entries /\ active[2] \in Entries
      BY <1>1, TwoMembers
    <2> QED
      BY <2>1 DEF Entries
  <1>3. /\ a # b /\ InAct = {a, b}
        /\ NoRepeat(queued) /\ NoRepeat(pending) /\ NoRepeat(discard) /\ NoRepeat(done)
        /\ Range(queued) \cap Range(pending) = {}
        /\ Range(queued) \cap Range(done) = {}
        /\ Range(pending) \cap Range(done) = {}
        /\ {a, b} \cap (Range(queued) \cup Range(pending) \cup Range(done) \cup Range(discard)) = {}
    BY DEF Unique, InAct
  <1>4. /\ Range(queued) \subseteq Buffers /\ Range(pending) \subseteq Buffers
        /\ Range(done) \subseteq Buffers /\ Range(discard) \subseteq Discards
    BY DEF Values, Range
  <1>5. Buffers \cap Discards = {}
    BY BuffersAssumption
  <1>6. /\ sp \in Seq(Discards) /\ NoRepeat(sp)
        /\ Range(sp) = Range(discard) \cup (IF a \in Discards THEN {a} ELSE {})
    <2>1. CASE a \in Discards
      BY <1>3, <2>1, AddToList DEF Spare, Values
    <2>2. CASE a \notin Discards
      BY <1>3, <2>2 DEF Spare, Values
    <2> QED
      BY <2>1, <2>2
  <1>7. /\ NoRepeat(done')
        /\ Range(done') = Range(done) \cup (IF a \in Discards THEN {} ELSE {a})
    <2>1. done' = Delivered(a) /\ done \in Seq(Buffers)
      BY <1>1 DEF Exchange, Values
    <2>2. CASE a \in Discards
      BY <1>3, <2>1, <2>2 DEF Delivered
    <2>3. CASE a \notin Discards
      BY <1>2, <1>3, <2>1, <2>3, AddToList DEF Delivered
    <2> QED
      BY <2>2, <2>3
  <1>8. queued' = queued
    BY DEF Exchange
  <1>9. ASSUME NEW x \in Buffers \cup Discards, Load(x) PROVE InAct' = {b, x} /\ active'[1].buf = b /\ active'[2].buf = x
    <2>1. active' = Append(Tail(active), Entry(x, OutSlot(NextCount)))
      BY <1>9 DEF Load
    <2>2. Entry(x, OutSlot(NextCount)) \in Entries /\ Entry(x, OutSlot(NextCount)).buf = x
      BY OutSlotType DEF Entry, Entries
    <2>3. active'[1] = active[2] /\ active'[2] = Entry(x, OutSlot(NextCount))
      BY <1>1, <2>1, <2>2, Rotate
    <2> QED
      BY <2>2, <2>3 DEF InAct
  <1> HIDE DEF a, b, sp
  <1>10. CASE UsePending /\ Load(Head(pending)) /\ pending' = Tail(pending) /\ discard' = sp
    <2> DEFINE x == Head(pending)
    <2>1. /\ x \in Range(pending) /\ x \in Buffers
          /\ Range(pending') = Range(pending) \ {x} /\ NoRepeat(pending')
      BY <1>3, <1>10, TakeFromList, HeadTail DEF UsePending, Values
    <2>2. InAct' = {b, x} /\ active'[1].buf = b /\ active'[2].buf = x
      BY <1>9, <1>10, <2>1
    <2> HIDE DEF x
    <2> QED
      BY <1>2, <1>3, <1>4, <1>5, <1>6, <1>7, <1>8, <1>10, <2>1, <2>2 DEF Unique
  <1>11. CASE sp # <<>> /\ Load(Head(sp)) /\ discard' = Tail(sp) /\ UNCHANGED pending
    <2> DEFINE x == Head(sp)
    <2>1. /\ x \in Range(sp) /\ x \in Discards
          /\ Range(discard') = Range(sp) \ {x} /\ NoRepeat(discard')
      BY <1>6, <1>11, TakeFromList, HeadTail
    <2>2. InAct' = {b, x} /\ active'[1].buf = b /\ active'[2].buf = x
      BY <1>9, <1>11, <2>1
    <2> HIDE DEF x
    <2> QED
      BY <1>2, <1>3, <1>4, <1>5, <1>6, <1>7, <1>8, <1>11, <2>1, <2>2 DEF Unique
  <1>12. sp # <<>>
    <2>1. Spent(active[1]) \in {0, 1} /\ Spent(active[2]) \in {0, 1} /\ Len(discard) = 2 - Spent(active[1]) - Spent(active[2])
      BY DEF Spent, Loaded
    <2>2. CASE a \in Discards
      <3>1. a \in Range(sp)
        BY <1>6, <2>2
      <3> QED
        BY <3>1, EmptyList
    <2>3. CASE a \notin Discards
      <3>1. Len(discard) > 0 /\ sp = discard
        BY <2>1, <2>3 DEF Spare, sp, a, Spent
      <3> QED
        BY <3>1
    <2> QED
      BY <2>2, <2>3
  <1> QED
    BY <1>1, <1>10, <1>11, <1>12 DEF Exchange, sp, a

\* The frame interrupt, skipped or not, keeps each buffer in one place.
LEMMA HandlerUnique ==
    ASSUME Values, ActiveInv, Unique, FrameWriteDone PROVE Unique'
  <1>1. started' = started
    BY DEF FrameWriteDone, flagVars
  <1>2. CASE Skip
    BY <1>1, <1>2 DEF FrameWriteDone, queueVars, Unique, InAct
  <1>3. CASE ~Skip
    <2>1. started /\ Loaded /\ Head(active).id # irq
      BY <1>3 DEF Skip, ActiveInv
    <2>2. Head(active) = active[1]
      BY <2>1, TwoMembers DEF Loaded, Values
    <2> QED
      BY <1>1, <1>3, <2>1, <2>2, ExchangeUnique DEF FrameWriteDone
  <1> QED
    BY <1>2, <1>3

\* Every step keeps each buffer in one place.
LEMMA UniqueStep ==
    ASSUME Values, ActiveInv, Unique, Disciplined, [Next]_vars PROVE Unique'
  <1>1. CASE Open
    BY <1>1 DEF Open, queueVars, flagVars, Unique, InAct
  <1>2. CASE RequestBuffers
    BY <1>2, EmptyList DEF RequestBuffers, Unique, InAct
  <1>3. CASE DequeueBuffer
    BY <1>3, DequeueUnique
  <1>4. CASE StreamOn
    BY <1>4, StreamOnUnique DEF Disciplined
  <1>5. CASE StreamOff
    BY <1>5 DEF StreamOff, queueVars, flagVars, Unique, InAct
  <1>6. CASE Close
    BY <1>6 DEF Close, queueVars, flagVars, Unique, InAct
  <1>7. ASSUME NEW s \in Sizes, SetFormat(s) PROVE Unique'
    BY <1>7 DEF SetFormat, queueVars, flagVars, Unique, InAct
  <1>8. ASSUME NEW s \in Sizes, SubdevSetFormat(s) PROVE Unique'
    BY <1>8 DEF SubdevSetFormat, queueVars, flagVars, Unique, InAct
  <1>9. ASSUME NEW b \in Buffers, QueueBuffer(b) PROVE Unique'
    BY <1>9, QueueUnique
  <1>10. CASE OnPipeline
    BY <1>10 DEF OnPipeline, queueVars, flagVars, Unique, InAct
  <1>11. CASE OffChannel
    BY <1>11 DEF OffChannel, queueVars, flagVars, Unique, InAct
  <1>12. CASE OffDrain
    BY <1>12, CancelUnique DEF OffDrain
  <1>13. CASE Release
    BY <1>13, CancelUnique DEF Release
  <1>14. CASE FrameEnd
    BY <1>14 DEF FrameEnd, queueVars, flagVars, Unique, InAct
  <1>15. CASE IrqEnter
    BY <1>15 DEF IrqEnter, queueVars, flagVars, Unique, InAct
  <1>16. CASE FrameWriteDone
    BY <1>16, HandlerUnique
  <1>17. CASE SystemSuspend
    BY <1>17 DEF SystemSuspend, queueVars, flagVars, Unique, InAct
  <1>18. CASE SystemResume
    BY <1>18 DEF SystemResume, queueVars, flagVars, Unique, InAct
  <1>19. CASE UNCHANGED vars
    BY <1>19 DEF vars, queueVars, flagVars, Unique, InAct
  <1> QED
    BY <1>1, <1>2, <1>3, <1>4, <1>5, <1>6, <1>7, <1>8, <1>9, <1>10, <1>11, <1>12, <1>13, <1>14, <1>15, <1>16, <1>17, <1>18, <1>19 DEF Next, UserStep, CallStep

\* STREAMON enables the channel only after the driver has started, and every stop
\* disables it first.
LEMMA RunsStartedStep ==
    ASSUME RunsStarted, Disciplined, [Next]_vars PROVE RunsStarted'
  <1>1. CASE Open
    BY <1>1 DEF Open, hwVars, flagVars, RunsStarted
  <1>2. CASE RequestBuffers
    BY <1>2 DEF RequestBuffers, hwVars, flagVars, RunsStarted
  <1>3. CASE DequeueBuffer
    BY <1>3 DEF DequeueBuffer, hwVars, flagVars, RunsStarted
  <1>4. CASE StreamOn
    <2>1. started'
      <3>1. CASE started
        BY <1>4, <3>1 DEF StreamOn, Vb2StreamOn
      <3>2. CASE ~started
        BY <1>4, <3>2 DEF StreamOn, Vb2StreamOn, StartStreaming, Disciplined
      <3> QED
        BY <3>1, <3>2
    <2> QED
      BY <1>4, <2>1 DEF StreamOn, RunsStarted
  <1>5. CASE StreamOff
    BY <1>5 DEF StreamOff, hwVars, flagVars, RunsStarted
  <1>6. CASE Close
    BY <1>6 DEF Close, hwVars, flagVars, RunsStarted
  <1>7. ASSUME NEW s \in Sizes, SetFormat(s) PROVE RunsStarted'
    BY <1>7 DEF SetFormat, hwVars, flagVars, RunsStarted
  <1>8. ASSUME NEW s \in Sizes, SubdevSetFormat(s) PROVE RunsStarted'
    BY <1>8 DEF SubdevSetFormat, hwVars, flagVars, RunsStarted
  <1>9. ASSUME NEW b \in Buffers, QueueBuffer(b) PROVE RunsStarted'
    BY <1>9 DEF QueueBuffer, hwVars, flagVars, RunsStarted
  <1>10. CASE OnPipeline
    BY <1>10 DEF OnPipeline, hwVars, flagVars, RunsStarted
  <1>11. CASE OffChannel
    BY <1>11 DEF OffChannel, hwVars, flagVars, RunsStarted
  <1>12. CASE OffDrain
    BY <1>12 DEF OffDrain, Cancel, hwVars, flagVars, RunsStarted
  <1>13. CASE Release
    BY <1>13 DEF Release, Cancel, hwVars, flagVars, RunsStarted
  <1>14. CASE FrameEnd
    BY <1>14 DEF FrameEnd, hwVars, flagVars, RunsStarted
  <1>15. CASE IrqEnter
    BY <1>15 DEF IrqEnter, hwVars, flagVars, RunsStarted
  <1>16. CASE FrameWriteDone
    BY <1>16 DEF FrameWriteDone, hwVars, flagVars, RunsStarted
  <1>17. CASE SystemSuspend
    BY <1>17 DEF SystemSuspend, hwVars, flagVars, RunsStarted
  <1>18. CASE SystemResume
    BY <1>18 DEF SystemResume, hwVars, flagVars, RunsStarted
  <1>19. CASE UNCHANGED vars
    BY <1>19 DEF vars, hwVars, flagVars, RunsStarted
  <1> QED
    BY <1>1, <1>2, <1>3, <1>4, <1>5, <1>6, <1>7, <1>8, <1>9, <1>10, <1>11, <1>12, <1>13, <1>14, <1>15, <1>16, <1>17, <1>18, <1>19 DEF Next, UserStep, CallStep

\* Buffers, and with them the format, are there from REQBUFS until after the
\* stop; the discard memory has been allocated if there was a format.
MemoryInv == started => alloc # 0 /\ (pixSet => discardSize # 0)

\* Every step keeps it: S_FMT and REQBUFS are refused while the channel is
\* started, and formats set on the subdev do not touch pix.
LEMMA MemoryStep ==
    ASSUME Values, MemoryInv, [Next]_vars PROVE MemoryInv'
  <1>0. dst # 0
    BY SizesAssumption DEF Values
  <1>1. CASE Open \/ DequeueBuffer \/ StreamOff \/ (\E b \in Buffers : QueueBuffer(b))
            \/ OnPipeline \/ FrameEnd \/ IrqEnter \/ FrameWriteDone \/ SystemSuspend
            \/ SystemResume \/ Close \/ OffChannel
            \/ (\E s \in Sizes : SubdevSetFormat(s)) \/ UNCHANGED vars
    <2>1. UNCHANGED <<started, alloc, pixSet, discardSize>>
      BY <1>1
         DEF Open, DequeueBuffer, StreamOff, QueueBuffer, OnPipeline, FrameEnd, IrqEnter,
             FrameWriteDone, SystemSuspend, SystemResume, Close, OffChannel, SubdevSetFormat,
             queueVars, hwVars, formatVars, flagVars, vars
    <2> QED BY <2>1 DEF MemoryInv
  <1>2. CASE RequestBuffers
    BY <1>2 DEF RequestBuffers, MemoryInv
  <1>3. CASE StreamOn
    <2>1. \/ UNCHANGED <<started, alloc, pixSet, discardSize>>
          \/ alloc # 0 /\ discardSize' = (IF pixSet THEN dst ELSE 0) /\ UNCHANGED <<alloc, pixSet>>
      BY <1>3 DEF StreamOn, Vb2StreamOn, StartStreaming
    <2> QED BY <1>0, <2>1 DEF MemoryInv
  <1>4. ASSUME NEW s \in Sizes, SetFormat(s) PROVE MemoryInv'
    BY <1>4 DEF SetFormat, MemoryInv, flagVars
  <1>5. CASE OffDrain \/ Release
    BY <1>5 DEF OffDrain, Release, Cancel, MemoryInv
  <1> QED
    BY <1>1, <1>2, <1>3, <1>4, <1>5 DEF Next, UserStep, CallStep

\* The two entries of a started channel as lists see them.
LEMMA ActiveAsList ==
    ASSUME Values, ActiveInv
    PROVE  /\ Range(Bufs(active)) = InAct
           /\ Unique => NoRepeat(Bufs(active))
           /\ InAct \subseteq Buffers \cup Discards
  <1>1. CASE started
    <2>1. active \in Seq(Entries) /\ Len(active) = 2
      BY <1>1 DEF Values, ActiveInv, Loaded
    <2>2. active[1] \in Entries /\ active[2] \in Entries
      BY <2>1, TwoMembers
    <2>3. DOMAIN Bufs(active) = {1, 2}
      <3>1. DOMAIN active = 1..Len(active)
        BY <2>1
      <3>2. 1..2 = {1, 2}
        OBVIOUS
      <3> QED
        BY <2>1, <3>1, <3>2 DEF Bufs
    <2>4. Bufs(active)[1] = active[1].buf /\ Bufs(active)[2] = active[2].buf
      BY <2>3 DEF Bufs
    <2>5. Range(Bufs(active)) = InAct
      BY <1>1, <2>3, <2>4 DEF Range, InAct
    <2>6. Unique => NoRepeat(Bufs(active))
      BY <1>1, <2>3, <2>4 DEF Unique, NoRepeat
    <2>7. InAct \subseteq Buffers \cup Discards
      BY <1>1, <2>2 DEF InAct, Entries
    <2> QED
      BY <2>5, <2>6, <2>7
  <1>2. CASE ~started
    <2>1. DOMAIN Bufs(active) = {}
      BY <1>2 DEF ActiveInv, Bufs
    <2> QED
      BY <1>2, <2>1 DEF Range, NoRepeat, InAct
  <1> QED
    BY <1>1, <1>2

\* The five invariants give the property.
LEMMA OwnedFromInvariants ==
    ASSUME Values, ActiveInv, Unique, MemoryInv, RunsStarted PROVE DmaTargetOwned
  <1>1. ASSUME channel, NEW s \in Slots
        PROVE  \E i \in DOMAIN active : slot[s] = Addr(active[i].buf) /\ active[i].id = s
    <2>1. Loaded /\ active \in Seq(Entries)
      BY <1>1 DEF RunsStarted, ActiveInv, Values
    <2>2. 1 \in DOMAIN active /\ 2 \in DOMAIN active
      BY <2>1 DEF Loaded
    <2>3. frameCount % 2 \in {0, 1}
      BY CountAssumption DEF Values
    <2>4. s = active[1].id \/ s = active[2].id
      BY <2>1, <2>3 DEF Loaded, Slots
    <2> QED
      BY <2>1, <2>2, <2>4 DEF Loaded
  <1>2. /\ Range(Bufs(active)) = InAct /\ NoRepeat(Bufs(active))
    BY ActiveAsList
  <1>3. DOMAIN Lists = {1, 2, 3, 4, 5}
    BY DEF Lists
  <1>4. /\ Lists[1] = queued /\ Lists[2] = pending /\ Lists[3] = Bufs(active)
        /\ Lists[4] = discard /\ Lists[5] = done
    BY DEF Lists
  <1>5. ASSUME NEW k \in DOMAIN Lists PROVE NoRepeat(Lists[k])
    BY <1>2, <1>3, <1>4 DEF Unique
  <1>6. /\ Range(queued) \subseteq Buffers /\ Range(pending) \subseteq Buffers
        /\ Range(done) \subseteq Buffers /\ Range(discard) \subseteq Discards
        /\ Buffers \cap Discards = {}
    BY BuffersAssumption DEF Values, Range
  <1> DEFINE q == Range(queued)
             p == Range(pending)
             a == Range(Bufs(active))
             d == Range(discard)
             f == Range(done)
  <1>7. /\ q \cap p = {} /\ q \cap a = {} /\ q \cap d = {} /\ q \cap f = {}
        /\ p \cap a = {} /\ p \cap d = {} /\ p \cap f = {}
        /\ a \cap d = {} /\ a \cap f = {} /\ d \cap f = {}
    BY <1>2, <1>6 DEF Unique
  <1>8. /\ Range(Lists[1]) = q /\ Range(Lists[2]) = p /\ Range(Lists[3]) = a
        /\ Range(Lists[4]) = d /\ Range(Lists[5]) = f
    BY <1>4
  <1> HIDE DEF q, p, a, d, f
  <1>9. ASSUME NEW k \in DOMAIN Lists, NEW l \in DOMAIN Lists, k # l
        PROVE  Range(Lists[k]) \cap Range(Lists[l]) = {}
    BY <1>3, <1>7, <1>8, <1>9
  <1>10. channel /\ pixSet => discardSize # 0
    BY DEF MemoryInv, RunsStarted
  <1> QED
    BY <1>1, <1>5, <1>9, <1>10 DEF DmaTargetOwned

\* The five invariants together are inductive.
CaptureInv == Values /\ ActiveInv /\ Unique /\ MemoryInv /\ RunsStarted

\* They hold in every state when STREAMON succeeds.
LEMMA CaptureInvariant == ASSUME Disciplined PROVE Spec => []CaptureInv
  <1>0. Disciplined
    OBVIOUS
  <1>1. Init => CaptureInv
    <2> SUFFICES ASSUME Init PROVE CaptureInv
      OBVIOUS
    <2>1. Values
      BY InitTyped
    <2>2. ActiveInv
      BY DEF Init, ActiveInv
    <2>3. Unique
      BY EmptyList DEF Init, Unique, InAct
    <2>4. RunsStarted
      BY DEF Init, RunsStarted
    <2>5. MemoryInv
      BY DEF Init, MemoryInv
    <2> QED
      BY <2>1, <2>2, <2>3, <2>4, <2>5 DEF CaptureInv
  <1>2. CaptureInv /\ [Next]_vars => CaptureInv'
    BY <1>0, ValuesStep, ActiveStep, UniqueStep, MemoryStep, RunsStartedStep DEF CaptureInv
  <1> QED
    BY <1>1, <1>2, PTL DEF Spec

\* With an application that queues two buffers before STREAMON, and memory for
\* the discard buffers, the channel writes only to buffers the driver holds, and
\* no buffer is in two places, and after a first S_FMT the discard memory it is
\* given exists: whatever subdev callers, remote faults, late interrupts and a
\* second processor do, until the unlocked lists are damaged.
THEOREM DmaSafe == ASSUME Disciplined PROVE Spec => []DmaTargetOwned
  <1>0. Disciplined
    OBVIOUS
  <1>1. CaptureInv => DmaTargetOwned
    BY OwnedFromInvariants DEF CaptureInv
  <1> QED
    BY <1>0, <1>1, CaptureInvariant, PTL

-----------------------------------------------------------------------------
(* System sleep *)

\* is_streaming covers the time the channel runs, but for the calls that switch
\* it on and off, and user space is frozen only between calls.
SleepInv ==
    /\ asleep => ~channel /\ call = "none"
    /\ channel /\ call = "none" => isStreaming
    /\ call = "off_drain" => ~channel

\* Every step keeps it when no subdev of the pipeline fails.
LEMMA SleepStep ==
    ASSUME "remote" \notin Faults, SleepInv, [Next]_vars PROVE SleepInv'
  <1>1. CASE Open \/ RequestBuffers \/ DequeueBuffer
            \/ (\E s \in Sizes : SetFormat(s))
            \/ (\E s \in Sizes : SubdevSetFormat(s))
            \/ (\E b \in Buffers : QueueBuffer(b)) \/ FrameEnd \/ IrqEnter \/ FrameWriteDone
            \/ UNCHANGED vars
    <2>1. UNCHANGED <<asleep, channel, call, isStreaming>>
      BY <1>1
         DEF Open, RequestBuffers, DequeueBuffer, SetFormat, SubdevSetFormat, QueueBuffer,
             FrameEnd, IrqEnter, FrameWriteDone,
             queueVars, hwVars, formatVars, flagVars, vars
    <2> QED BY <2>1 DEF SleepInv
  <1>2. CASE StreamOn
    BY <1>2 DEF StreamOn, MayCall, SleepInv, Cancel, queueVars, hwVars, formatVars, flagVars
  <1>3. CASE StreamOff
    BY <1>3 DEF StreamOff, MayCall, SleepInv, Cancel, queueVars, hwVars, formatVars, flagVars
  <1>4. CASE Close
    BY <1>4 DEF Close, MayCall, SleepInv, Cancel, queueVars, hwVars, formatVars, flagVars
  <1>5. CASE OnPipeline
    BY <1>5 DEF OnPipeline, MayCall, SleepInv, Cancel, queueVars, hwVars, formatVars, flagVars
  <1>6. CASE OffChannel
    BY <1>6 DEF OffChannel, MayCall, SleepInv, Cancel, queueVars, hwVars, formatVars, flagVars
  <1>7. CASE OffDrain
    BY <1>7 DEF OffDrain, MayCall, SleepInv, Cancel, queueVars, hwVars, formatVars, flagVars
  <1>8. CASE Release
    BY <1>8 DEF Release, MayCall, SleepInv, Cancel, queueVars, hwVars, formatVars, flagVars
  <1>9. CASE SystemSuspend
    BY <1>9 DEF SystemSuspend, MayCall, SleepInv, Cancel, queueVars, hwVars, formatVars, flagVars
  <1>10. CASE SystemResume
    BY <1>10 DEF SystemResume, MayCall, SleepInv, Cancel, queueVars, hwVars, formatVars, flagVars
  <1> QED
    BY <1>1, <1>2, <1>3, <1>4, <1>5, <1>6, <1>7, <1>8, <1>9, <1>10
       DEF Next, UserStep, CallStep

\* "running, prevent entering suspend": as long as the sub-devices of the pipeline
\* do not fail, the channel never runs while the system sleeps, for every
\* application, every frame rate and a STREAMON that vb2 refuses.
THEOREM SleepsIdle == ASSUME "remote" \notin Faults PROVE Spec => []AsleepIsIdle
  <1>0. "remote" \notin Faults
    OBVIOUS
  <1>1. Init => SleepInv
    BY DEF Init, SleepInv
  <1>2. SleepInv /\ [Next]_vars => SleepInv'
    BY <1>0, SleepStep
  <1>3. SleepInv => AsleepIsIdle
    BY DEF SleepInv, AsleepIsIdle
  <1> QED
    BY <1>1, <1>2, <1>3, PTL DEF Spec

-----------------------------------------------------------------------------
(* Frame sizes *)

\* The format is frozen from REQBUFS on, and the channel and the discard memory
\* were set up for it.
FitInv ==
    /\ channel => hwSize = dst
    /\ started => alloc = dst /\ (pixSet => discardSize = dst)
    /\ alloc # 0 => alloc = dst

\* Every step keeps it when nobody sets formats behind the video node.
LEMMA FitStep ==
    ASSUME Disciplined, ~SubdevCallers, Values, RunsStarted, FitInv, [Next]_vars PROVE FitInv'
  <1>0. dst # 0
    BY SizesAssumption DEF Values
  <1>1. CASE Open \/ DequeueBuffer \/ StreamOff \/ (\E b \in Buffers : QueueBuffer(b))
            \/ OnPipeline \/ FrameEnd \/ IrqEnter \/ FrameWriteDone \/ SystemSuspend
            \/ SystemResume \/ UNCHANGED vars
    <2>1. UNCHANGED <<channel, hwSize, dst, started, alloc, pixSet, discardSize>>
      BY <1>1
         DEF Open, DequeueBuffer, StreamOff, QueueBuffer, OnPipeline, FrameEnd, IrqEnter,
             FrameWriteDone, SystemSuspend, SystemResume,
             queueVars, hwVars, formatVars, flagVars, vars
    <2> QED BY <2>1 DEF FitInv
  <1>2. CASE RequestBuffers
    BY <1>2 DEF RequestBuffers, RunsStarted, FitInv, queueVars, hwVars, formatVars, flagVars
  <1>3. CASE StreamOn
    <2>1. hwSize' = dst /\ UNCHANGED <<dst, alloc, pixSet>>
      BY <1>3 DEF StreamOn, ConfigureChannel
    <2>2. \/ UNCHANGED <<started, discardSize>>
          \/ alloc # 0 /\ discardSize' = IF pixSet THEN dst ELSE 0
      BY <1>3 DEF StreamOn, Vb2StreamOn, StartStreaming
    <2> QED BY <2>1, <2>2 DEF FitInv
  <1>4. CASE Close
    BY <1>4 DEF Close, Cancel, RunsStarted, FitInv, queueVars, hwVars, formatVars, flagVars
  <1>5. ASSUME NEW s \in Sizes, SetFormat(s) PROVE FitInv'
    BY <1>5, <1>0 DEF SetFormat, RunsStarted, FitInv, queueVars, hwVars, formatVars, flagVars
  <1>6. ASSUME NEW s \in Sizes, SubdevSetFormat(s) PROVE FitInv'
    BY <1>6 DEF SubdevSetFormat
  <1>7. CASE OffChannel
    BY <1>7 DEF OffChannel, Cancel, RunsStarted, FitInv, queueVars, hwVars, formatVars, flagVars
  <1>8. CASE OffDrain
    BY <1>8 DEF OffDrain, Cancel, RunsStarted, FitInv, queueVars, hwVars, formatVars, flagVars
  <1>9. CASE Release
    BY <1>9 DEF Release, Cancel, RunsStarted, FitInv, queueVars, hwVars, formatVars, flagVars
  <1> QED
    BY <1>1, <1>2, <1>3, <1>4, <1>5, <1>6, <1>7, <1>8, <1>9
       DEF Next, UserStep, CallStep

\* Frames fit the buffers of the application and, once it has set a format, the
\* discard memory, when the application queues two buffers before STREAMON, the
\* allocation does not fail and nobody sets formats on the source pad of the
\* sub-device: whatever S_FMT, REQBUFS and STREAMON calls are made, twice, in the
\* wrong order or without any S_FMT.
THEOREM FramesFit == ASSUME Disciplined, ~SubdevCallers PROVE Spec => []FrameFits
  <1>0. Disciplined /\ ~SubdevCallers
    OBVIOUS
  <1>1. Init => FitInv
    BY DEF Init, FitInv
  <1>2. CaptureInv /\ FitInv /\ [Next]_vars => FitInv'
    BY <1>0, FitStep DEF CaptureInv
  <1>3. CaptureInv /\ FitInv => FrameFits
    BY SizesAssumption DEF CaptureInv, Values, RunsStarted, FitInv, FrameFits
  <1>4. Spec => []CaptureInv
    BY <1>0, CaptureInvariant
  <1> QED
    BY <1>1, <1>2, <1>3, <1>4, PTL DEF Spec

-----------------------------------------------------------------------------
(* The lists as a FIFO *)

\* The line of the application: done, loaded, pending and queued buffers.
LineOf(d, l, p, q) == d \o l \o p \o q

Parts(d, l, p, q) ==
    /\ d \in Seq(Buffers) /\ l \in Seq(Buffers)
    /\ p \in Seq(Buffers) /\ q \in Seq(Buffers)

OneMore(t, s, b) == t = Append(s, b)

\* A buffer queued at the end of the line, before or after STREAMON.
LEMMA LineAppend ==
    ASSUME NEW d, NEW l, NEW p, NEW q, Parts(d, l, p, q), NEW b \in Buffers, NEW r
    PROVE  /\ OneMore(r, q, b) => OneMore(LineOf(d, l, p, r), LineOf(d, l, p, q), b)
           /\ q = <<>> /\ OneMore(r, p, b) => OneMore(LineOf(d, l, r, q), LineOf(d, l, p, q), b)
  <1> DEFINE S == Buffers
  <1>0. d \in Seq(S) /\ l \in Seq(S) /\ p \in Seq(S) /\ q \in Seq(S) /\ b \in S
    BY DEF Parts
  <1> HIDE DEF S
  <1> DEFINE f == d \o l
             g == f \o p
  <1>1. f \in Seq(S) /\ g \in Seq(S) /\ g \o q \in Seq(S)
    BY <1>0, Concat
  <1>2. <<b>> \in Seq(S) /\ Append(q, b) = q \o <<b>> /\ Append(p, b) = p \o <<b>> /\ Append(g \o q, b) = (g \o q) \o <<b>>
    BY <1>0, <1>1, AppendConcat
  <1>3. LineOf(d, l, p, Append(q, b)) = g \o (q \o <<b>>)
    BY <1>0, <1>2 DEF LineOf
  <1>4. g \o (q \o <<b>>) = Append(g \o q, b)
    <2> DEFINE u == <<b>>
    <2>1. g \in Seq(S) /\ q \in Seq(S) /\ u \in Seq(S)
      BY <1>0, <1>1, <1>2
    <2> HIDE DEF g, u
    <2>2. (g \o q) \o u = g \o (q \o u)
      BY <2>1, ConcatAssoc
    <2>3. (g \o q) \o <<b>> = g \o (q \o <<b>>)
      BY <2>2, Zenon DEF u
    <2> QED BY <1>2, <2>3, Zenon
  <1>5. ASSUME q = <<>> PROVE LineOf(d, l, Append(p, b), q) = Append(g \o q, b)
    <2>1. f \o (p \o <<b>>) \in Seq(S)
      BY <1>0, <1>1, <1>2, Concat
    <2>2. LineOf(d, l, Append(p, b), q) = f \o (p \o <<b>>)
      BY <1>0, <1>2, <1>5, <2>1, Concat DEF LineOf
    <2>3. f \o (p \o <<b>>) = (f \o p) \o <<b>>
      <3> DEFINE u == <<b>>
      <3>1. f \in Seq(S) /\ p \in Seq(S) /\ u \in Seq(S)
        BY <1>0, <1>1, <1>2
      <3> HIDE DEF f, u
      <3>2. (f \o p) \o u = f \o (p \o u)
        BY <3>1, ConcatAssoc
      <3> QED BY <3>2, Zenon DEF u
    <2>4. g \o q = g
      BY <1>0, <1>1, <1>5, Concat
    <2> QED BY <1>2, <2>2, <2>3, <2>4
  <1>6. LineOf(d, l, p, Append(q, b)) = Append(g \o q, b)
    BY <1>3, <1>4
  <1>7. LineOf(d, l, p, q) = g \o q
    BY DEF LineOf
  <1> HIDE DEF f, g
  <1> QED BY <1>5, <1>6, <1>7 DEF OneMore

\* DQBUF takes the buffer at the front.
LEMMA LineTail ==
    ASSUME NEW d, NEW l, NEW p, NEW q, Parts(d, l, p, q), d # <<>>
    PROVE  LineOf(Tail(d), l, p, q) = Tail(LineOf(d, l, p, q))
  <1> DEFINE S == Buffers
  <1>0. d \in Seq(S) /\ l \in Seq(S) /\ p \in Seq(S) /\ q \in Seq(S)
    BY DEF Parts
  <1> HIDE DEF S
  <1> DEFINE f == d \o l
             g == f \o p
  <1>1. f \in Seq(S) /\ g \in Seq(S)
    BY <1>0, Concat
  <1>2. Tail(f) = Tail(d) \o l /\ f # <<>>
    BY <1>0, TailConcat
  <1>3. Tail(g) = Tail(f) \o p /\ g # <<>>
    BY <1>0, <1>1, <1>2, TailConcat
  <1>4. Tail(g \o q) = Tail(g) \o q
    BY <1>0, <1>1, <1>3, TailConcat
  <1> QED BY <1>2, <1>3, <1>4 DEF LineOf

\* A buffer that moves from the pending list to a slot keeps its place.
LEMMA LineMoves ==
    ASSUME NEW d, NEW l, NEW p, NEW q, Parts(d, l, p, q), p # <<>>
    PROVE  LineOf(d, l \o <<Head(p)>>, Tail(p), q) = LineOf(d, l, p, q)
  <1> DEFINE S == Buffers
  <1>0. d \in Seq(S) /\ l \in Seq(S) /\ p \in Seq(S) /\ q \in Seq(S)
    BY DEF Parts
  <1> HIDE DEF S
  <1>1. <<Head(p)>> \in Seq(S) /\ Tail(p) \in Seq(S)
    BY <1>0, HeadTail, AppendConcat
  <1>2. d \o (l \o <<Head(p)>>) = (d \o l) \o <<Head(p)>>
    BY <1>0, <1>1, ConcatAssoc
  <1>3. ((d \o l) \o <<Head(p)>>) \o Tail(p) = (d \o l) \o (<<Head(p)>> \o Tail(p))
    <2> DEFINE f == d \o l
               u == <<Head(p)>>
               t == Tail(p)
    <2>1. f \in Seq(S) /\ u \in Seq(S) /\ t \in Seq(S)
      BY <1>0, <1>1, Concat
    <2> HIDE DEF f, u, t
    <2>2. (f \o u) \o t = f \o (u \o t)
      BY <2>1, ConcatAssoc
    <2> QED BY <2>2, Zenon DEF f, u, t
  <1>4. <<Head(p)>> \o Tail(p) = p
    BY <1>0, FirstAndRest
  <1> QED BY <1>2, <1>3, <1>4 DEF LineOf

\* A buffer that leaves its slot for the done list keeps its place.
LEMMA LineDelivers ==
    ASSUME NEW d, NEW l, NEW p, NEW q, Parts(d, l, p, q), NEW a \in Buffers
    PROVE  /\ LineOf(Append(d, a), l, p, q) = LineOf(d, <<a>> \o l, p, q)
           /\ Len(d) < Len(LineOf(d, <<a>> \o l, p, q))
           /\ Len(Append(d, a)) = Len(d) + 1
  <1> DEFINE S == Buffers
  <1>0. d \in Seq(S) /\ l \in Seq(S) /\ p \in Seq(S) /\ q \in Seq(S) /\ a \in S
    BY DEF Parts
  <1> HIDE DEF S
  <1>1. <<a>> \in Seq(S) /\ Append(d, a) = d \o <<a>> /\ Len(<<a>>) = 1
    BY <1>0, AppendConcat
  <1>2. (d \o <<a>>) \o l = d \o (<<a>> \o l)
    <2> DEFINE u == <<a>>
    <2>1. u \in Seq(S)
      BY <1>1
    <2> HIDE DEF u
    <2>2. (d \o u) \o l = d \o (u \o l)
      BY <1>0, <2>1, ConcatAssoc
    <2> QED BY <2>2, Zenon DEF u
  <1>3. LineOf(Append(d, a), l, p, q) = LineOf(d, <<a>> \o l, p, q)
    BY <1>0, <1>1, <1>2 DEF LineOf
  <1>4. Len(Append(d, a)) = Len(d) + 1 /\ Append(d, a) \in Seq(S)
    BY <1>0
  <1> DEFINE e == Append(d, a)
  <1>5. /\ e \o l \in Seq(S) /\ Len(e \o l) = Len(e) + Len(l)
        /\ Len((e \o l) \o p) = Len(e \o l) + Len(p) /\ (e \o l) \o p \in Seq(S)
        /\ Len(((e \o l) \o p) \o q) = Len((e \o l) \o p) + Len(q)
    BY <1>0, <1>4, Concat
  <1>6. Len(d) \in Nat /\ Len(l) \in Nat /\ Len(p) \in Nat /\ Len(q) \in Nat
    BY <1>0
  <1>7. Len(LineOf(e, l, p, q)) = Len(e) + Len(l) + Len(p) + Len(q)
    BY <1>0, <1>5 DEF LineOf
  <1> QED BY <1>3, <1>4, <1>6, <1>7

\* Who is in line.
LEMMA LineMembers ==
    ASSUME NEW d, NEW l, NEW p, NEW q, Parts(d, l, p, q)
    PROVE  Range(LineOf(d, l, p, q)) = Range(d) \cup Range(l) \cup Range(p) \cup Range(q)
  <1> DEFINE S == Buffers
  <1>0. d \in Seq(S) /\ l \in Seq(S) /\ p \in Seq(S) /\ q \in Seq(S)
    BY DEF Parts
  <1> HIDE DEF S
  <1> DEFINE f == d \o l
             g == f \o p
  <1>1. f \in Seq(S) /\ Range(f) = Range(d) \cup Range(l)
    BY <1>0, Concat, RangeConcat
  <1> HIDE DEF f
  <1>2. g \in Seq(S) /\ Range(g) = Range(f) \cup Range(p)
    BY <1>0, <1>1, Concat, RangeConcat
  <1> HIDE DEF g
  <1>3. Range(g \o q) = Range(g) \cup Range(q)
    BY <1>0, <1>2, RangeConcat
  <1>4. g \o q = LineOf(d, l, p, q)
    BY DEF f, g, LineOf
  <1> QED BY <1>1, <1>2, <1>3, <1>4

\* The buffers of the application that are in the two slots.
Front == IF started THEN InLine(active[1].buf) \o InLine(active[2].buf) ELSE <<>>

\* The four lists of the refinement mapping.
LEMMA LineParts == Line = LineOf(done, Front, pending, queued)
  BY DEF Line, LineOf, Front

\* vb2 hands all its buffers over when the driver starts, and keeps none back.
NoneHeld == started => queued = <<>>

\* Every step keeps it.
LEMMA NoneHeldStep ==
    ASSUME NoneHeld, [Next]_vars PROVE NoneHeld'
  <1>1. CASE Open \/ DequeueBuffer \/ StreamOff \/ Close
            \/ (\E s \in Sizes : SetFormat(s))
            \/ (\E s \in Sizes : SubdevSetFormat(s)) \/ OnPipeline \/ OffChannel
            \/ FrameEnd \/ IrqEnter \/ SystemSuspend \/ SystemResume \/ UNCHANGED vars
    <2>1. UNCHANGED <<started, queued>>
      BY <1>1
         DEF Open, DequeueBuffer, StreamOff, Close, SetFormat, SubdevSetFormat, OnPipeline,
             OffChannel, FrameEnd, IrqEnter, SystemSuspend, SystemResume,
             queueVars, hwVars, formatVars, flagVars, vars
    <2> QED BY <2>1 DEF NoneHeld
  <1>2. CASE RequestBuffers
    BY <1>2 DEF RequestBuffers, NoneHeld
  <1>3. CASE StreamOn
    BY <1>3 DEF StreamOn, Vb2StreamOn, StartStreaming, NoneHeld, queueVars
  <1>4. ASSUME NEW b \in Buffers, QueueBuffer(b) PROVE NoneHeld'
    BY <1>4 DEF QueueBuffer, NoneHeld
  <1>5. CASE OffDrain
    BY <1>5 DEF OffDrain, Cancel, NoneHeld
  <1>6. CASE Release
    BY <1>6 DEF Release, Cancel, NoneHeld
  <1>7. CASE FrameWriteDone
    BY <1>7 DEF FrameWriteDone, Exchange, NoneHeld, queueVars, flagVars
  <1> QED
    BY <1>1, <1>2, <1>3, <1>4, <1>5, <1>6, <1>7
       DEF Next, UserStep, CallStep

\* One buffer in a slot.
LEMMA InLineType ==
    ASSUME NEW b PROVE InLine(b) \in Seq(Buffers) /\ Range(InLine(b)) \subseteq {b}
  <1>1. CASE b \in Buffers
    BY <1>1 DEF InLine, Range
  <1>2. CASE b \notin Buffers
    BY <1>2, EmptyList DEF InLine
  <1> QED BY <1>1, <1>2

\* The slots hold buffers that vb2 has given to the driver.
LEMMA FrontType == Front \in Seq(Buffers) /\ Range(Front) \subseteq InAct
  <1>1. CASE started
    <2> DEFINE u == InLine(active[1].buf)
               v == InLine(active[2].buf)
    <2>1. /\ u \in Seq(Buffers) /\ v \in Seq(Buffers)
          /\ Range(u) \subseteq {active[1].buf} /\ Range(v) \subseteq {active[2].buf}
      BY InLineType
    <2> HIDE DEF u, v
    <2>2. u \o v \in Seq(Buffers) /\ Range(u \o v) = Range(u) \cup Range(v)
      BY <2>1, Concat, RangeConcat
    <2> QED BY <1>1, <2>1, <2>2 DEF Front, InAct, u, v
  <1>2. CASE ~started
    BY <1>2, EmptyList DEF Front, InAct
  <1> QED BY <1>1, <1>2

\* VIDIOC_QBUF is a step Queue.
LEMMA QueueFifo ==
    ASSUME CaptureInv, NoneHeld, NEW b \in Buffers, QueueBuffer(b) PROVE Fifo!Queue(b)
  <1>1. /\ done \in Seq(Buffers) /\ pending \in Seq(Buffers) /\ queued \in Seq(Buffers)
        /\ Parts(done, Front, pending, queued) /\ Range(Front) \subseteq InAct
    BY FrontType DEF CaptureInv, Values, Parts
  <1>2. b \notin Range(done) /\ b \notin Range(queued) /\ b \notin Range(pending) /\ b \notin InAct
    <2>1. CASE started
      BY <2>1, ActiveAsList DEF QueueBuffer, Owned, CaptureInv
    <2>2. CASE ~started
      BY <2>2, EmptyList DEF QueueBuffer, Owned, CaptureInv, Unique, InAct
    <2> QED BY <2>1, <2>2
  <1>3. b \notin Range(Line)
    BY <1>1, <1>2, LineParts, LineMembers
  <1>4. UNCHANGED <<done, Front>>
    BY DEF QueueBuffer, Front
  <1>5. Line' = LineOf(done', Front', pending', queued')
    BY DEF Line, LineOf, Front
  <1>6. CASE started
    <2>1. OneMore(pending', pending, b) /\ queued' = queued /\ queued = <<>>
      BY <1>6 DEF QueueBuffer, NoneHeld, OneMore
    <2>2. OneMore(LineOf(done, Front, pending', queued), LineOf(done, Front, pending, queued), b)
      <3>1. Parts(done, Front, pending, queued) /\ b \in Buffers
        BY <1>1
      <3> QED BY <2>1, <3>1, LineAppend, Zenon
    <2>3. OneMore(Line', Line, b)
      BY <1>4, <1>5, <2>1, <2>2, LineParts
    <2> QED BY <1>3, <1>4, <2>3 DEF OneMore, Fifo!Queue, Fifo!Range, Range
  <1>7. CASE ~started
    <2>1. OneMore(queued', queued, b) /\ pending' = pending
      BY <1>7 DEF QueueBuffer, OneMore
    <2>2. OneMore(LineOf(done, Front, pending, queued'), LineOf(done, Front, pending, queued), b)
      <3>1. Parts(done, Front, pending, queued) /\ b \in Buffers
        BY <1>1
      <3> QED BY <2>1, <3>1, LineAppend, Zenon
    <2>3. OneMore(Line', Line, b)
      BY <1>4, <1>5, <2>1, <2>2, LineParts
    <2> QED BY <1>3, <1>4, <2>3 DEF OneMore, Fifo!Queue, Fifo!Range, Range
  <1> QED BY <1>6, <1>7

\* VIDIOC_DQBUF is a step Dequeue.
LEMMA DequeueFifo ==
    ASSUME CaptureInv, DequeueBuffer PROVE Fifo!Dequeue
  <1>1. /\ done \in Seq(Buffers) /\ pending \in Seq(Buffers) /\ queued \in Seq(Buffers)
        /\ Parts(done, Front, pending, queued)
    BY FrontType DEF CaptureInv, Values, Parts
  <1>2. done # <<>> /\ done' = Tail(done) /\ UNCHANGED <<Front, pending, queued>>
    BY DEF DequeueBuffer, Front, flagVars
  <1>3. LineOf(Tail(done), Front, pending, queued) = Tail(LineOf(done, Front, pending, queued))
    BY <1>1, <1>2, LineTail
  <1>4. Line' = Tail(Line)
    <2>1. Line' = LineOf(done', Front', pending', queued')
      BY DEF Line, LineOf, Front
    <2> QED BY <1>2, <1>3, <2>1, LineParts
  <1>5. Len(done) > 0 /\ Len(done') = Len(done) - 1
    BY <1>1, <1>2
  <1> QED BY <1>4, <1>5 DEF Fifo!Dequeue

\* STREAMOFF, close and REQBUFS are steps Cancel.
LEMMA CancelFifo ==
    ASSUME started' = FALSE, done' = <<>>, pending' = <<>>, queued' = <<>> PROVE Fifo!Cancel
  <1>1. Line' = <<>> /\ Len(done') = 0
    BY DEF Line
  <1> QED BY <1>1 DEF Fifo!Cancel

\* STREAMON moves buffers without changing their order.
LEMMA StreamOnFifo ==
    ASSUME Disciplined, CaptureInv, StreamOn PROVE UNCHANGED <<Line, Len(done)>>
  <1>1. done \in Seq(Buffers) /\ queued \in Seq(Buffers)
    BY DEF CaptureInv, Values
  <1>2. CASE started
    BY <1>2 DEF StreamOn, Vb2StreamOn, queueVars, Line
  <1>3. CASE ~started
    <2>1. pending = <<>> /\ Len(queued) >= 2 /\ Vb2StreamOn /\ alloc # 0
      BY <1>3 DEF CaptureInv, Unique, StreamOn, Disciplined
    <2>2. pending \o queued = queued
      BY <1>1, <2>1, NothingBefore
    <2>3. StartStreaming(queued)
      <3>1. StartStreaming(pending \o queued)
        BY <1>3, <2>1 DEF Vb2StreamOn, Disciplined
      <3> QED BY <2>2, <3>1
    <2>4. queued # <<>>
      BY <2>1
    <2> DEFINE h == Head(queued)
    <2>5. h \in Buffers /\ Tail(queued) \in Seq(Buffers)
      BY <1>1, <2>4, HeadTail
    <2> HIDE DEF h
    <2>6. /\ started' = TRUE /\ done' = done /\ pending' = Tail(queued) /\ queued' = <<>>
          /\ active' = <<Entry(Discard1, 1), Entry(h, 2)>>
      BY <2>3 DEF StartStreaming, h
    <2>7. active'[1].buf = Discard1 /\ active'[2].buf = h
      BY <2>6 DEF Entry
    <2>8. InLine(Discard1) = <<>> /\ InLine(h) = <<h>>
      BY <2>5, BuffersAssumption DEF InLine, Discards
    <2>9. Front' = <<>> \o <<h>>
      BY <2>6, <2>7, <2>8 DEF Front, InLine
    <2>10. /\ Line' = LineOf(done, <<>> \o <<h>>, Tail(queued), <<>>)
           /\ Line = LineOf(done, <<>>, <<>>, queued)
      <3>1. Line' = LineOf(done', Front', pending', queued')
        BY DEF Line, LineOf, Front
      <3>2. Front = <<>>
        BY <1>3 DEF Front
      <3> QED BY <2>1, <2>6, <2>9, <3>1, <3>2, LineParts
    <2>11. Parts(done, <<>>, queued, <<>>)
      BY <1>1 DEF Parts
    <2>12. LineOf(done, <<>> \o <<h>>, Tail(queued), <<>>) = LineOf(done, <<>>, queued, <<>>)
      BY <1>1, <2>4, <2>11, LineMoves DEF h
    <2>13. LineOf(done, <<>>, queued, <<>>) = LineOf(done, <<>>, <<>>, queued)
      <3>1. done \o <<>> = done /\ done \o queued \in Seq(Buffers)
        BY <1>1, Concat
      <3>2. (done \o queued) \o <<>> = done \o queued
        BY <3>1, Concat
      <3> QED BY <3>1, <3>2 DEF LineOf
    <2> QED BY <2>6, <2>10, <2>12, <2>13
  <1> QED BY <1>2, <1>3

\* What the handler moves: the older active buffer out, the other one to the
\* front, and the head of the pending list or else a discard buffer behind it.
LEMMA ExchangeMoves ==
    ASSUME Values, Loaded, Exchange
    PROVE  /\ done' = Delivered(active[1].buf) /\ queued' = queued
           /\ active'[1].buf = active[2].buf
           /\ \/ pending # <<>> /\ pending' = Tail(pending) /\ active'[2].buf = Head(pending)
              \/ pending = <<>> /\ pending' = pending /\ active'[2].buf \in Discards
  <1> DEFINE sp == Spare(active[1].buf)
  <1>1. active \in Seq(Entries) /\ Len(active) = 2 /\ Head(active) = active[1]
    BY TwoMembers DEF Values, Loaded
  <1>2. done' = Delivered(active[1].buf) /\ queued' = queued
    BY <1>1 DEF Exchange
  <1>3. ASSUME NEW x \in Buffers \cup Discards, Load(x)
        PROVE  active'[1].buf = active[2].buf /\ active'[2].buf = x
    <2>1. active' = Append(Tail(active), Entry(x, OutSlot(NextCount)))
      BY <1>3 DEF Load
    <2>2. Entry(x, OutSlot(NextCount)) \in Entries /\ Entry(x, OutSlot(NextCount)).buf = x
      BY OutSlotType DEF Entry, Entries
    <2>3. active'[1] = active[2] /\ active'[2] = Entry(x, OutSlot(NextCount))
      BY <1>1, <2>1, <2>2, Rotate
    <2> QED BY <2>2, <2>3
  <1>4. sp \in Seq(Discards) /\ sp # <<>>
    <2>1. discard \in Seq(Discards)
      BY DEF Values
    <2>2. CASE active[1].buf \in Discards
      BY <2>1, <2>2 DEF Spare
    <2>3. CASE active[1].buf \notin Discards
      <3>1. Spent(active[2]) \in {0, 1} /\ Len(discard) = 2 - Spent(active[2])
        BY <2>3 DEF Spent, Loaded
      <3>2. Len(discard) > 0
        BY <3>1
      <3> QED BY <2>1, <2>3, <3>2 DEF Spare
    <2> QED BY <2>2, <2>3
  <1> HIDE DEF sp
  <1>5. CASE UsePending /\ Load(Head(pending)) /\ pending' = Tail(pending)
    <2>1. pending # <<>> /\ Head(pending) \in Buffers
      BY <1>5, HeadTail DEF UsePending, Values
    <2> QED BY <1>2, <1>3, <1>5, <2>1
  <1>6. CASE ~UsePending /\ Load(Head(sp)) /\ UNCHANGED pending
    <2>1. Head(sp) \in Discards
      BY <1>4, HeadTail
    <2> QED BY <1>2, <1>3, <1>6, <2>1 DEF UsePending
  <1> QED BY <1>1, <1>4, <1>5, <1>6 DEF Exchange, sp

\* The handler fills the oldest buffer, or drops the frame into discard memory.
LEMMA ExchangeFifo ==
    ASSUME CaptureInv, started, started' = started, Exchange
    PROVE  Fifo!Fill \/ UNCHANGED <<Line, Len(done)>>
  <1> DEFINE a == active[1].buf
             o == InLine(active[2].buf)
             n == InLine(active'[2].buf)
  <1>1. Values /\ Loaded
    BY DEF CaptureInv, ActiveInv
  <1>2. /\ done' = Delivered(a) /\ queued' = queued /\ active'[1].buf = active[2].buf
        /\ \/ pending # <<>> /\ pending' = Tail(pending) /\ active'[2].buf = Head(pending)
           \/ pending = <<>> /\ pending' = pending /\ active'[2].buf \in Discards
    BY <1>1, ExchangeMoves
  <1>3. done \in Seq(Buffers) /\ pending \in Seq(Buffers) /\ queued \in Seq(Buffers)
    BY <1>1 DEF Values
  <1>4. o \in Seq(Buffers) /\ n \in Seq(Buffers)
    BY InLineType
  <1>5. a \in Buffers \cup Discards
    <2>1. active[1] \in Entries
      BY <1>1, TwoMembers DEF Values, Loaded
    <2> QED BY <2>1 DEF Entries
  <1>6. Front = InLine(a) \o o /\ Front' = o \o n
    BY <1>2 DEF Front, InLine
  <1>7. Line' = LineOf(done', o \o n, pending', queued)
    <2>1. Line' = LineOf(done', Front', pending', queued')
      BY DEF Line, LineOf, Front
    <2> QED BY <1>2, <1>6, <2>1
  <1>8. Line = LineOf(done, InLine(a) \o o, pending, queued)
    BY <1>6, LineParts
  <1>9. n = IF pending = <<>> THEN <<>> ELSE <<Head(pending)>>
    <2>1. CASE pending # <<>>
      BY <1>2, <1>3, <2>1, HeadTail DEF InLine
    <2>2. CASE pending = <<>>
      BY <1>2, <2>2, BuffersAssumption DEF InLine
    <2> QED BY <2>1, <2>2
  <1>10. InLine(a) = IF a \in Buffers THEN <<a>> ELSE <<>>
    BY DEF InLine
  <1> HIDE DEF a, o, n
  <1>11. ASSUME NEW d \in Seq(Buffers)
         PROVE  LineOf(d, o \o n, pending', queued) = LineOf(d, o, pending, queued)
    <2>1. CASE pending # <<>>
      <3>1. LineOf(d, o \o <<Head(pending)>>, Tail(pending), queued) = LineOf(d, o, pending, queued)
        <4>1. Parts(d, o, pending, queued)
          BY <1>3, <1>4, <1>11 DEF Parts
        <4> QED BY <2>1, <4>1, LineMoves, Zenon
      <3>2. n = <<Head(pending)>> /\ pending' = Tail(pending)
        BY <1>2, <1>9, <2>1
      <3> QED BY <3>1, <3>2, Zenon
    <2>2. CASE pending = <<>>
      BY <1>2, <1>4, <1>9, <2>2, Concat
    <2> QED BY <2>1, <2>2
  <1>12. CASE a \in Buffers
    <2>1. done' = Append(done, a) /\ Append(done, a) \in Seq(Buffers)
      BY <1>2, <1>3, <1>12, BuffersAssumption DEF Delivered
    <2>2. /\ LineOf(Append(done, a), o, pending, queued) = LineOf(done, <<a>> \o o, pending, queued)
          /\ Len(done) < Len(LineOf(done, <<a>> \o o, pending, queued))
          /\ Len(Append(done, a)) = Len(done) + 1
      <3>1. Parts(done, o, pending, queued)
        BY <1>3, <1>4 DEF Parts
      <3> QED BY <1>12, <3>1, LineDelivers, Zenon
    <2>3. Line = LineOf(done, <<a>> \o o, pending, queued)
      BY <1>8, <1>10, <1>12
    <2>4. Line' = LineOf(Append(done, a), o, pending, queued)
      BY <1>7, <1>11, <2>1
    <2>5. Line' = Line /\ Len(done) < Len(Line) /\ Len(done') = Len(done) + 1
      BY <2>1, <2>2, <2>3, <2>4, Zenon
    <2> QED BY <2>5 DEF Fifo!Fill
  <1>13. CASE a \notin Buffers
    <2>1. done' = done
      BY <1>2, <1>5, <1>13 DEF Delivered
    <2>2. Line = LineOf(done, o, pending, queued)
      BY <1>4, <1>8, <1>10, <1>13, Concat
    <2>3. Line' = LineOf(done, o, pending, queued)
      BY <1>3, <1>7, <1>11, <2>1
    <2> QED BY <2>1, <2>2, <2>3
  <1> QED BY <1>12, <1>13

\* Every step of the driver is a step of the FIFO or invisible to it.
LEMMA FifoStep ==
    ASSUME Disciplined, CaptureInv, NoneHeld, [Next]_vars
    PROVE  [Fifo!Next]_<<Line, Len(done)>>
  <1>1. CASE Open \/ StreamOff \/ Close \/ (\E s \in Sizes : SetFormat(s))
            \/ (\E s \in Sizes : SubdevSetFormat(s)) \/ OnPipeline \/ OffChannel
            \/ FrameEnd \/ IrqEnter \/ SystemSuspend \/ SystemResume \/ UNCHANGED vars
    <2>1. UNCHANGED <<started, active, done, pending, queued>>
      BY <1>1
         DEF Open, StreamOff, Close, SetFormat, SubdevSetFormat, OnPipeline, OffChannel,
             FrameEnd, IrqEnter, SystemSuspend, SystemResume,
             queueVars, hwVars, formatVars, flagVars, vars
    <2> QED BY <2>1 DEF Line
  <1>2. CASE RequestBuffers
    <2>1. ~started /\ started' = FALSE /\ done' = <<>> /\ pending' = <<>> /\ queued' = <<>>
      BY <1>2 DEF RequestBuffers, CaptureInv, Unique, ActiveInv
    <2> QED BY <2>1, CancelFifo DEF Fifo!Next
  <1>3. CASE DequeueBuffer
    BY <1>3, DequeueFifo DEF Fifo!Next
  <1>4. CASE StreamOn
    BY <1>4, StreamOnFifo
  <1>5. ASSUME NEW b \in Buffers, QueueBuffer(b) PROVE [Fifo!Next]_<<Line, Len(done)>>
    BY <1>5, QueueFifo DEF Fifo!Next
  <1>6. CASE OffDrain
    <2>1. started' = FALSE /\ done' = <<>> /\ pending' = <<>> /\ queued' = <<>>
      BY <1>6 DEF OffDrain, Cancel, CaptureInv, Unique
    <2> QED BY <2>1, CancelFifo DEF Fifo!Next
  <1>7. CASE Release
    <2>1. started' = FALSE /\ done' = <<>> /\ pending' = <<>> /\ queued' = <<>>
      BY <1>7 DEF Release, Cancel, CaptureInv, Unique
    <2> QED BY <2>1, CancelFifo DEF Fifo!Next
  <1>8. CASE FrameWriteDone
    <2>1. CASE Skip
      BY <1>8, <2>1 DEF FrameWriteDone, queueVars, flagVars, Line
    <2>2. CASE ~Skip
      <3>1. started /\ started' = started /\ Exchange
        BY <1>8, <2>2 DEF FrameWriteDone, Skip, CaptureInv, ActiveInv, flagVars
      <3> QED BY <3>1, ExchangeFifo DEF Fifo!Next
    <2> QED BY <2>1, <2>2
  <1> QED
    BY <1>1, <1>2, <1>3, <1>4, <1>5, <1>6, <1>7, <1>8
       DEF Next, UserStep, CallStep

\* The driver's five lists, two slots and discard buffers implement a FIFO: with an
\* application that queues two buffers before STREAMON, and memory for the discard
\* buffers, buffers come back in the order in which they were queued, each once,
\* however late the application, the interrupts and a second STREAMON are.
THEOREM CaptureIsFifo == ASSUME Disciplined PROVE Spec => ImplementsFifo
  <1>0. Disciplined
    OBVIOUS
  <1>1. Init => Fifo!Init
    <2> SUFFICES ASSUME Init PROVE Fifo!Init
      OBVIOUS
    <2>1. ~started /\ done = <<>> /\ pending = <<>> /\ queued = <<>>
      BY DEF Init
    <2>2. Line = <<>> /\ Len(done) = 0
      BY <2>1 DEF Line
    <2> QED BY <2>2 DEF Fifo!Init
  <1>2. Init => NoneHeld
    BY DEF Init, NoneHeld
  <1>3. NoneHeld /\ [Next]_vars => NoneHeld'
    BY NoneHeldStep
  <1>4. CaptureInv /\ NoneHeld /\ [Next]_vars => [Fifo!Next]_<<Line, Len(done)>>
    BY <1>0, FifoStep
  <1>5. Spec => []CaptureInv
    BY <1>0, CaptureInvariant
  <1> QED
    BY <1>1, <1>2, <1>3, <1>4, <1>5, PTL DEF Spec, ImplementsFifo, Fifo!Spec
================================================================================
