-------------------------- MODULE CameraRingProofs --------------------------
(***************************************************************************)
(* What holds of the camera ring for every number of readers, frames and   *)
(* producer restarts: types always; and, as long as no two threads share a *)
(* reader object, that no torn frame is handed out, that a restart never   *)
(* leaves a caller behind its own cursor, and that the ring implements     *)
(* LatestFrame.                                                            *)
(***************************************************************************)
EXTENDS CameraRing, TLAPS

Publishing == ppc \in {"lo", "hi", "dims", "meta", "flip", "close"}
Loading == {"active", "meta", "dims", "lo", "hi", "recheck"}

(* Where the producer and the threads point, whoever shares an object.     *)
ProducerPointers ==
    /\ ppc \notin {"down", "unlinked"} => seg \in Segments
    /\ ppc = "unlinked" => nseg < MaxSegments
    /\ Publishing => frame \in Frames

ThreadPointers ==
    \A t \in Threads :
        /\ rpc[t] = "map" => fd[t] \in Segments
        /\ rpc[t] = "hi" => src[t] \in Segments
        /\ rpc[t] \in Loading \cup {"accept"} => tries[t] # 0

ThreadInv == LocalType /\ ThreadType /\ ThreadPointers
TypeInv == ProducerType /\ MemoryType /\ ProducerPointers /\ ObjectType /\ ThreadInv

LEMMA TypeInit == Init => TypeInv
  <1> SUFFICES ASSUME Init PROVE TypeInv
    OBVIOUS
  <1> USE RingAssumption DEF Segments, Frames, None, Slots, FrameOrNone, SegmentOrNone
  <1>1. ProducerType
    BY DEF Init, ProducerType, ProducerPCs
  <1>2. MemoryType
    BY DEF Init, MemoryType
  <1>3. ObjectType
    BY DEF Init, ObjectType
  <1>4. LocalType
    BY DEF Init, LocalType
  <1>5. ThreadType
    BY DEF Init, ThreadType, ReaderPCs, CopyType, NoFrame
  <1>6. ProducerPointers /\ ThreadPointers
    BY DEF Init, ProducerPointers, ThreadPointers, Publishing, Loading
  <1> QED
    BY <1>1, <1>2, <1>3, <1>4, <1>5, <1>6 DEF TypeInv, ThreadInv

(* A producer step leaves the readers alone.                               *)
LEMMA ProducerTypeStep == TypeInv /\ Producer => TypeInv'
  <1> SUFFICES ASSUME TypeInv, Producer PROVE TypeInv'
    OBVIOUS
  <1>1. UNCHANGED <<objectVars, threadVars>>
    BY DEF Producer, ProducerStep, Unlink, Create, WriteMagic, WriteGeometry, OpenWindow,
           CopyLow, CopyHigh, WriteDims, WriteMeta, FlipActive, CloseWindow, Crash
  <1>2. ObjectType' /\ LocalType' /\ ThreadType' /\ ThreadPointers'
    BY <1>1 DEF TypeInv, ThreadInv, ObjectType, LocalType, ThreadType, ThreadPointers,
                objectVars, threadVars, localVars
  <1>3. ProducerType' /\ MemoryType' /\ ProducerPointers'
    <2> USE RingAssumption DEF Segments, Frames, None, Slots, FrameOrNone, SegmentOrNone,
            TypeInv, ProducerType, MemoryType, ProducerPointers, Publishing, ProducerPCs,
            producerVars, memoryVars
    <2>1. CASE Unlink \/ Crash
      BY <2>1 DEF Unlink, Crash
    <2>2. CASE Create
      BY <2>2 DEF Create
    <2>3. CASE WriteMagic \/ WriteGeometry
      BY <2>3 DEF WriteMagic, WriteGeometry
    <2>4. CASE OpenWindow
      BY <2>4 DEF OpenWindow
    <2>5. CASE CopyLow
      BY <2>5 DEF CopyLow
    <2>6. CASE CopyHigh
      BY <2>6 DEF CopyHigh
    <2>7. CASE WriteDims
      BY <2>7 DEF WriteDims
    <2>8. CASE WriteMeta
      BY <2>8 DEF WriteMeta
    <2>9. CASE FlipActive
      <3>1. active[seg] \in Slots
        BY <2>9 DEF FlipActive
      <3>2. 1 - active[seg] \in Slots
        BY <3>1
      <3>3. active' \in [Segments -> Slots]
        BY <2>9, <3>2 DEF FlipActive
      <3> QED
        BY <2>9, <3>3 DEF FlipActive
    <2>10. CASE CloseWindow
      BY <2>10 DEF CloseWindow
    <2> QED
      BY <2>1, <2>2, <2>3, <2>4, <2>5, <2>6, <2>7, <2>8, <2>9, <2>10 DEF Producer, ProducerStep
  <1> QED
    BY <1>2, <1>3 DEF TypeInv, ThreadInv

(* The three ways a reader step ends for the thread that takes it.         *)
LEMMA ClearedType == ASSUME LocalType, NEW t \in Threads, ClearLocals(t) PROVE LocalType'
  BY RingAssumption
  DEF LocalType, ClearLocals, Segments, Frames, None, Slots, FrameOrNone, SegmentOrNone

LEMMA ReturnType == ASSUME ThreadInv, NEW t \in Threads, ReturnNone(t) PROVE ThreadInv'
  <1>1. LocalType'
    BY ClearedType DEF ThreadInv, ReturnNone
  <1>2. ThreadType'
    BY RingAssumption DEF ThreadInv, ThreadType, ReturnNone, ReaderPCs, SegmentOrNone, None
  <1>3. ThreadPointers'
    BY DEF ThreadInv, ThreadType, LocalType, ThreadPointers, ReturnNone, ClearLocals, Loading
  <1> QED
    BY <1>1, <1>2, <1>3 DEF ThreadInv

LEMMA RetryType == ASSUME ThreadInv, NEW t \in Threads, tries[t] # 0, Retry(t) PROVE ThreadInv'
  <1>1. LocalType'
    BY ClearedType DEF ThreadInv, Retry
  <1>2. ThreadType'
    BY RingAssumption DEF ThreadInv, ThreadType, Retry, Goto, ReaderPCs
  <1>3. ThreadPointers'
    BY DEF ThreadInv, ThreadType, LocalType, ThreadPointers, Retry, Goto, ClearLocals, Loading
  <1> QED
    BY <1>1, <1>2, <1>3 DEF ThreadInv

LEMMA GotoType ==
  ASSUME ThreadInv, NEW t \in Threads, NEW w \in ReaderPCs, Goto(t, w), LocalType',
         fd' \in [Threads -> SegmentOrNone], tries' \in [Threads -> 0..Retries],
         \A u \in Threads \ {t} : fd'[u] = fd[u] /\ tries'[u] = tries[u] /\ src'[u] = src[u],
         w = "map" => fd'[t] \in Segments,
         w = "hi" => src'[t] \in Segments,
         w \in Loading \cup {"accept"} => tries'[t] # 0
  PROVE  ThreadInv'
  <1>1. ThreadType'
    BY DEF ThreadInv, ThreadType, Goto
  <1>2. ThreadPointers'
    BY DEF ThreadInv, ThreadType, LocalType, ThreadPointers, Goto
  <1> QED
    BY <1>1, <1>2 DEF ThreadInv

(* A reader step leaves the producer and the memory alone.                 *)
LEMMA ReaderTypeStep == ASSUME TypeInv, NEW t \in Threads, Reader(t) PROVE TypeInv'
  <1>1. UNCHANGED <<kind, producerVars, memoryVars>>
    BY DEF Reader, StatPath, Unmap, ShiftOffset, OpenPath, MapSegment, ReadSeq, ReadActive,
           ReadMeta, ReadDims, CopySliceLow, CopySliceHigh, Recheck, Accept
  <1>2. ProducerType' /\ MemoryType' /\ ProducerPointers'
    BY <1>1 DEF TypeInv, ProducerType, MemoryType, ProducerPointers, Publishing,
                producerVars, memoryVars
  <1>3. ObjectType'
    <2> USE RingAssumption DEF None, SegmentOrNone, TypeInv, ObjectType, objectVars
    <2>1. CASE Unmap(t)
      BY <2>1 DEF Unmap
    <2>2. CASE ShiftOffset(t)
      BY <2>2 DEF ShiftOffset, NextOffset
    <2>3. CASE MapSegment(t)
      BY <2>3 DEF MapSegment, ThreadInv, ThreadType
    <2>4. CASE Accept(t)
      BY <2>4 DEF Accept, ThreadInv, LocalType
    <2>5. CASE ~(Unmap(t) \/ ShiftOffset(t) \/ MapSegment(t) \/ Accept(t))
      BY <2>5 DEF Reader, StatPath, OpenPath, ReadSeq, ReadActive, ReadMeta, ReadDims,
                  CopySliceLow, CopySliceHigh, Recheck
    <2> QED
      BY <2>1, <2>2, <2>3, <2>4, <2>5
  <1>4. ThreadInv'
    <2>1. CASE StatPath(t)
      <3>1. PICK w \in {"open", "seq", "close"} : Goto(t, w)
        BY <2>1 DEF StatPath
      <3>2. LocalType' /\ tries' \in [Threads -> 0..Retries]
        BY <2>1, RingAssumption DEF StatPath, TypeInv, ThreadInv, ThreadType, LocalType, localVars
      <3> QED
        BY <2>1, <3>1, <3>2, GotoType
        DEF StatPath, TypeInv, ThreadInv, ThreadType, localVars, ReaderPCs, Loading
    <2>2. CASE Unmap(t) \/ ShiftOffset(t)
      BY <2>2, GotoType
      DEF Unmap, ShiftOffset, TypeInv, ThreadInv, ThreadType, LocalType, localVars,
          ReaderPCs, Loading
    <2>3. CASE OpenPath(t)
      BY <2>3, GotoType, ReturnType
      DEF OpenPath, TypeInv, ProducerType, ThreadInv, ThreadType, LocalType, localVars,
          ReaderPCs, Loading, SegmentOrNone, None
    <2>4. CASE MapSegment(t)
      BY <2>4, GotoType, ReturnType
      DEF MapSegment, TypeInv, ThreadInv, ThreadType, LocalType, localVars, ReaderPCs,
          Loading, SegmentOrNone, None
    <2>5. CASE ReadSeq(t)
      <3>1. CASE ReturnNone(t)
        BY <3>1, ReturnType DEF TypeInv
      <3>2. CASE tries[t] # 0 /\ Retry(t)
        BY <3>2, RetryType DEF TypeInv
      <3>3. CASE ~ReturnNone(t) /\ ~(tries[t] # 0 /\ Retry(t))
        <4>0. wseq[mm[Obj[t]]] \in Nat /\ offset[Obj[t]] + wseq[mm[Obj[t]]] \in Nat
          BY <2>5, <3>3, RingAssumption
          DEF ReadSeq, TypeInv, MemoryType, ObjectType, SegmentOrNone, None
        <4>1. LocalType'
          BY <2>5, <3>3, <4>0 DEF ReadSeq, TypeInv, ThreadInv, LocalType
        <4> QED
          BY <2>5, <3>3, <4>1, GotoType
          DEF ReadSeq, TypeInv, ThreadInv, ThreadType, ReaderPCs, Loading
      <3> QED
        BY <3>1, <3>2, <3>3
    <2>6. CASE ReadActive(t)
      <3>1. CASE LoadRaises(t)
        BY <3>1, ReturnType DEF LoadRaises, TypeInv
      <3>2. CASE ~LoadRaises(t)
        <4>0. active[mm[Obj[t]]] \in Slots
          BY <2>6, <3>2, RingAssumption
          DEF ReadActive, TypeInv, MemoryType, ObjectType, SegmentOrNone
        <4>1. LocalType'
          BY <2>6, <3>2, <4>0 DEF ReadActive, TypeInv, ThreadInv, LocalType
        <4> QED
          BY <2>6, <3>2, <4>1, GotoType
          DEF ReadActive, TypeInv, ThreadInv, ThreadType, ThreadPointers, ReaderPCs, Loading
      <3> QED
        BY <3>1, <3>2
    <2>7. CASE ReadMeta(t)
      <3>1. CASE LoadRaises(t)
        BY <3>1, ReturnType DEF LoadRaises, TypeInv
      <3>2. CASE ~LoadRaises(t)
        <4>1. LocalType'
          BY <2>7, <3>2, RingAssumption
          DEF ReadMeta, TypeInv, MemoryType, ObjectType, ThreadInv, LocalType, SegmentOrNone
        <4> QED
          BY <2>7, <3>2, <4>1, GotoType
          DEF ReadMeta, TypeInv, ThreadInv, ThreadType, ThreadPointers, ReaderPCs, Loading
      <3> QED
        BY <3>1, <3>2
    <2>8. CASE ReadDims(t)
      <3>1. CASE LoadRaises(t)
        BY <3>1, ReturnType DEF LoadRaises, TypeInv
      <3>2. CASE ~LoadRaises(t)
        <4>1. LocalType'
          BY <2>8, <3>2, RingAssumption
          DEF ReadDims, TypeInv, MemoryType, ObjectType, ThreadInv, LocalType, SegmentOrNone
        <4> QED
          BY <2>8, <3>2, <4>1, GotoType
          DEF ReadDims, TypeInv, ThreadInv, ThreadType, ThreadPointers, ReaderPCs, Loading
      <3> QED
        BY <3>1, <3>2
    <2>9. CASE CopySliceLow(t)
      <3>1. CASE LoadRaises(t)
        BY <3>1, ReturnType DEF LoadRaises, TypeInv
      <3>2. CASE ~Plausible(t)
        BY <2>9, <3>2, RetryType DEF CopySliceLow, TypeInv, ThreadInv, ThreadPointers, Loading
      <3>3. CASE ~LoadRaises(t) /\ Plausible(t)
        <4>1. mm[Obj[t]] \in Segments
          BY <2>9, <3>3, RingAssumption DEF CopySliceLow, TypeInv, ObjectType, SegmentOrNone
        <4>0. slotLo[mm[Obj[t]]][act[t]] \in FrameOrNone
          BY <4>1 DEF TypeInv, MemoryType, ThreadInv, LocalType
        <4>2. LocalType'
          BY <2>9, <3>3, <4>0, <4>1 DEF CopySliceLow, TypeInv, ThreadInv, LocalType, SegmentOrNone
        <4> QED
          BY <2>9, <3>3, <4>1, <4>2, GotoType
          DEF CopySliceLow, TypeInv, ThreadInv, ThreadType, LocalType, ThreadPointers,
              ReaderPCs, Loading
      <3> QED
        BY <3>1, <3>2, <3>3
    <2>10. CASE CopySliceHigh(t)
      <3>1. LocalType'
        BY <2>10 DEF CopySliceHigh, TypeInv, MemoryType, ThreadInv, LocalType, ThreadPointers
      <3> QED
        BY <2>10, <3>1, GotoType
        DEF CopySliceHigh, TypeInv, ThreadInv, ThreadType, ThreadPointers, ReaderPCs, Loading
    <2>11. CASE Recheck(t)
      BY <2>11, GotoType, ReturnType, RetryType
      DEF Recheck, LoadRaises, TypeInv, ThreadInv, ThreadType, LocalType, localVars,
          ThreadPointers, ReaderPCs, Loading
    <2>12. CASE Accept(t)
      <3>1. CASE ~Reshapes(t)
        BY <2>12, <3>1, RetryType DEF Accept, TypeInv, ThreadInv, ThreadPointers
      <3>2. CASE Reshapes(t)
        <4>1. LocalType'
          BY <2>12, <3>2, ClearedType DEF Accept, TypeInv, ThreadInv
        <4>2. out' \in [Threads -> CopyType] /\ last' \in [Threads -> Nat]
          BY <2>12, <3>2 DEF Accept, CopyType, TypeInv, ThreadInv, ThreadType, LocalType
        <4>3. ThreadType'
          <5>1. 0 \in 0..Retries /\ "idle" \in ReaderPCs
            BY RingAssumption DEF ReaderPCs
          <5>2. rpc' = [rpc EXCEPT ![t] = "idle"] /\ tries' = [tries EXCEPT ![t] = 0]
            BY <2>12, <3>2 DEF Accept
          <5>3. rpc' \in [Threads -> ReaderPCs] /\ tries' \in [Threads -> 0..Retries]
            BY <5>1, <5>2 DEF TypeInv, ThreadInv, ThreadType
          <5> QED
            BY <2>12, <3>2, <4>2, <5>3 DEF Accept, TypeInv, ThreadInv, ThreadType
        <4>4. ThreadPointers'
          BY <2>12, <3>2
          DEF Accept, ClearLocals, TypeInv, ThreadInv, ThreadType, LocalType,
              ThreadPointers, Loading
        <4> QED
          BY <4>1, <4>3, <4>4 DEF ThreadInv
      <3> QED
        BY <3>1, <3>2
    <2> QED
      BY <2>1, <2>2, <2>3, <2>4, <2>5, <2>6, <2>7, <2>8, <2>9, <2>10, <2>11, <2>12 DEF Reader
  <1> QED
    BY <1>1, <1>2, <1>3, <1>4 DEF TypeInv

(* Type correctness of the ring, whatever the number of readers.           *)
THEOREM TypeCorrect == Spec => []TypeOK
  <1>1. TypeInv /\ UNCHANGED vars => TypeInv'
    BY DEF TypeInv, ProducerType, MemoryType, ProducerPointers, ObjectType, ThreadInv, LocalType,
           ThreadType, ThreadPointers, Publishing, vars, producerVars, memoryVars, objectVars,
           threadVars, localVars
  <1>2. TypeInv /\ [Next]_vars => TypeInv'
    BY <1>1, ProducerTypeStep, ReaderTypeStep DEF Next
  <1>3. TypeInv => TypeOK
    BY DEF TypeInv, ThreadInv, TypeOK
  <1> QED
    BY TypeInit, <1>2, <1>3, PTL DEF Spec

-----------------------------------------------------------------------------
(* No torn frame, when no reader object is shared between threads, as in   *)
(* the inference-service (consumer_service.py: one thread owns the reader). *)
Unshared == \A t, u \in Threads : Obj[t] = Obj[u] => t = u

(* Parity of the counter is all the proofs need to know of it.             *)
Even(n) == n % 2 = 0

LEMMA EvenFlip == Even(0) /\ \A n \in Nat : Even(n + 1) <=> ~Even(n)
  BY SMT DEF Even

(* The counter is odd exactly while the publication is open.               *)
Parity ==
    /\ ppc \notin {"down", "unlinked"} => seg = nseg
    /\ ppc \in {"blank", "magic", "idle"} => Even(wseq[seg])
    /\ Publishing => ~Even(wseq[seg])
    /\ \A i \in Segments : i > nseg => (wseq[i] = 0 /\ meta[i] = None)

(* What a publication in progress has written so far.                      *)
Window ==
    /\ ppc \in {"hi", "dims", "meta", "flip"} => slotLo[seg][1 - active[seg]] = frame
    /\ ppc \in {"dims", "meta", "flip"} => slotHi[seg][1 - active[seg]] = frame
    /\ ppc \in {"flip", "close"} => meta[seg] = frame
    /\ ppc = "close" => (slotLo[seg][active[seg]] = frame /\ slotHi[seg][active[seg]] = frame)

(* Between publications the active slot holds the frame of the metadata.   *)
Stable(i) ==
    meta[i] # None => (slotLo[i][active[i]] = meta[i] /\ slotHi[i][active[i]] = meta[i])

Memory == Parity /\ Window /\ \A i \in Segments : Even(wseq[i]) => Stable(i)

(* As long as the counter has not moved, the loads are those of one state. *)
Loads(t) ==
    LET i == mm[Obj[t]] IN
    rpc[t] \in Loading =>
        /\ i \in Segments
        /\ Even(raw[t]) /\ raw[t] <= wseq[i]
        /\ rpc[t] \in {"hi", "recheck"} => (src[t] = i /\ fmt[t] # None)
        /\ wseq[i] = raw[t] =>
            /\ rpc[t] # "active" => act[t] = active[i]
            /\ rpc[t] \notin {"active", "meta"} => fmt[t] = meta[i]
            /\ rpc[t] \in {"hi", "recheck"} => lo[t] = slotLo[i][act[t]]
            /\ rpc[t] = "recheck" => hi[t] = slotHi[i][act[t]]

(* A copy that passed the second load.                                     *)
Checked(t) == rpc[t] = "accept" => (lo[t] = fmt[t] /\ hi[t] = fmt[t])

WholeInv == TypeInv /\ Memory /\ \A t \in Threads : Loads(t) /\ Checked(t) /\ Whole(out[t])

LEMMA WholeInit == Init => WholeInv
  <1> SUFFICES ASSUME Init PROVE WholeInv
    OBVIOUS
  <1>1. TypeInv
    BY TypeInit
  <1>2. Parity /\ Window
    BY EvenFlip DEF Init, Parity, Window, Publishing, None
  <1>3. \A i \in Segments : Stable(i)
    BY DEF Init, Stable
  <1>4. \A t \in Threads : Loads(t) /\ Checked(t) /\ Whole(out[t])
    BY DEF Init, Loads, Loading, Checked, Whole, NoFrame
  <1> QED
    BY <1>1, <1>2, <1>3, <1>4 DEF WholeInv, Memory

(* A producer step keeps the sequence lock's discipline.                   *)
LEMMA MemoryStep == ASSUME TypeInv, Memory, Producer PROVE Memory'
  <1> USE RingAssumption DEF None
  <1>1. CASE Unlink \/ Crash
    BY <1>1 DEF Unlink, Crash, Memory, Parity, Window, Stable, Publishing, memoryVars
  <1>2. CASE Create
    <2>1. nseg + 1 \in Segments /\ Even(wseq[nseg + 1])
      BY <1>2, EvenFlip
      DEF Create, TypeInv, ProducerType, ProducerPointers, Memory, Parity, Segments
    <2> QED
      BY <1>2, <2>1 DEF Create, TypeInv, ProducerType, Memory, Parity, Window, Stable, Publishing,
                        Segments, memoryVars
  <1>3. CASE WriteMagic \/ WriteGeometry
    BY <1>3 DEF WriteMagic, WriteGeometry, Memory, Parity, Window, Stable, Publishing
  <1>4. ASSUME ppc \notin {"down", "unlinked"}
        PROVE  seg \in Segments /\ seg = nseg /\ wseq[seg] \in Nat
    BY <1>4 DEF TypeInv, ProducerPointers, MemoryType, Memory, Parity
  <1>5. CASE OpenWindow
    <2>0. seg \in Segments /\ seg = nseg /\ ~Even(wseq[seg] + 1)
      BY <1>4, <1>5, EvenFlip DEF OpenWindow, Memory, Parity
    <2>1. Parity'
      BY <1>5, <2>0
      DEF OpenWindow, TypeInv, ProducerType, MemoryType, Memory, Parity, Publishing, Segments
    <2>2. \A i \in Segments : Even(wseq'[i]) => Stable(i)'
      BY <1>4, <1>5, EvenFlip DEF OpenWindow, TypeInv, MemoryType, Memory, Parity, Stable
    <2> QED
      BY <1>5, <2>1, <2>2 DEF OpenWindow, Memory, Window
  <1>6. CASE CopyLow \/ CopyHigh \/ WriteDims \/ WriteMeta \/ FlipActive
    <2>1. ~Even(wseq[seg]) /\ UNCHANGED <<seg, nseg, frame, wseq>>
      BY <1>6 DEF CopyLow, CopyHigh, WriteDims, WriteMeta, FlipActive, Memory, Parity, Publishing
    <2>2. Parity'
      BY <1>4, <1>6, <2>1
      DEF CopyLow, CopyHigh, WriteDims, WriteMeta, FlipActive, TypeInv, ProducerType, MemoryType,
          Memory, Parity, Publishing, Segments
    <2>3. \A i \in Segments : Even(wseq'[i]) => Stable(i)'
      BY <1>4, <1>6, <2>1
      DEF CopyLow, CopyHigh, WriteDims, WriteMeta, FlipActive, TypeInv, MemoryType, Memory, Stable
    <2>4. active[seg] \in {0, 1}
      BY <1>4, <1>6
      DEF CopyLow, CopyHigh, WriteDims, WriteMeta, FlipActive, TypeInv, MemoryType, Slots
    <2>5. 1 - (1 - active[seg]) = active[seg] /\ 1 - active[seg] \in {0, 1} /\ 1 - active[seg] # active[seg]
      BY <2>4
    <2>6. Window'
      BY <1>4, <1>6, <2>1, <2>4, <2>5
      DEF CopyLow, CopyHigh, WriteDims, WriteMeta, FlipActive, TypeInv, MemoryType,
          Memory, Window, Slots
    <2> QED
      BY <2>2, <2>3, <2>6 DEF Memory
  <1>7. CASE CloseWindow
    <2>1. Parity'
      BY <1>4, <1>7, EvenFlip
      DEF CloseWindow, TypeInv, ProducerType, MemoryType, Memory, Parity, Publishing, Segments
    <2>2. \A i \in Segments : Even(wseq'[i]) => Stable(i)'
      BY <1>4, <1>7 DEF CloseWindow, TypeInv, MemoryType, Memory, Window, Stable
    <2> QED
      BY <1>7, <2>1, <2>2 DEF CloseWindow, Memory, Window
  <1> QED
    BY <1>1, <1>2, <1>3, <1>5, <1>6, <1>7 DEF Producer, ProducerStep

Same(i) ==
    /\ active'[i] = active[i] /\ meta'[i] = meta[i]
    /\ slotLo'[i] = slotLo[i] /\ slotHi'[i] = slotHi[i]

(* The counter only grows, and while it is even and stays, memory stays.   *)
LEMMA Frozen ==
  ASSUME TypeInv, Memory, Producer, NEW i \in Segments
  PROVE  /\ wseq[i] <= wseq'[i]
         /\ Even(wseq[i]) /\ wseq'[i] = wseq[i] => Same(i)
  <1> USE DEF TypeInv, MemoryType, Same
  <1>1. CASE UNCHANGED memoryVars
    BY <1>1 DEF memoryVars
  <1>2. CASE WriteMagic \/ WriteGeometry
    BY <1>2 DEF WriteMagic, WriteGeometry
  <1>3. CASE OpenWindow \/ CloseWindow
    BY <1>3 DEF OpenWindow, CloseWindow, ProducerPointers
  <1>4. CASE CopyLow \/ CopyHigh \/ WriteDims \/ WriteMeta \/ FlipActive
    <2>1. ~Even(wseq[seg]) /\ UNCHANGED wseq
      BY <1>4 DEF CopyLow, CopyHigh, WriteDims, WriteMeta, FlipActive, Memory, Parity, Publishing
    <2>2. i # seg => Same(i)
      BY <1>4 DEF CopyLow, CopyHigh, WriteDims, WriteMeta, FlipActive
    <2> QED
      BY <2>1, <2>2
  <1> QED
    BY <1>1, <1>2, <1>3, <1>4 DEF Producer, ProducerStep, Unlink, Create, Crash

(* What the producer does leaves a reader's loads right or outdated.       *)
LEMMA LoadsKept ==
  ASSUME TypeInv, Memory, Producer, NEW t \in Threads, Loads(t), Checked(t), Whole(out[t])
  PROVE  Loads(t)' /\ Checked(t)' /\ Whole(out[t])'
  <1>1. UNCHANGED <<kind, objectVars, threadVars>>
    BY DEF Producer, ProducerStep, Unlink, Create, WriteMagic, WriteGeometry, OpenWindow,
           CopyLow, CopyHigh, WriteDims, WriteMeta, FlipActive, CloseWindow, Crash
  <1>2. Checked(t)' /\ Whole(out[t])'
    BY <1>1 DEF Checked, Whole, threadVars, localVars
  <1>3. Loads(t)'
    <2> DEFINE i == mm[Obj[t]]
    <2> SUFFICES ASSUME rpc[t] \in Loading PROVE Loads(t)'
      BY <1>1 DEF Loads, threadVars
    <2>1. i \in Segments /\ raw[t] \in Nat /\ wseq[i] \in Nat /\ wseq'[i] \in Nat
      BY ProducerTypeStep DEF TypeInv, ThreadInv, LocalType, MemoryType, Loads
    <2>2. wseq[i] <= wseq'[i]
      BY <2>1, Frozen
    <2>3. wseq'[i] = raw[t] => wseq[i] = raw[t] /\ Even(wseq[i])
      BY <2>1, <2>2 DEF Loads
    <2>4. wseq'[i] = raw[t] => Same(i)
      BY <2>1, <2>3, Frozen
    <2> QED
      BY <1>1, <2>1, <2>2, <2>3, <2>4 DEF Loads, Same, objectVars, threadVars, localVars
  <1> QED
    BY <1>2, <1>3

(* A reader step of another thread leaves a thread and its object alone.   *)
LEMMA Bystander ==
  ASSUME Unshared, TypeInv, NEW t \in Threads, NEW u \in Threads \ {t}, Reader(u),
         Loads(t), Checked(t), Whole(out[t])
  PROVE  Loads(t)' /\ Checked(t)' /\ Whole(out[t])'
  <1>1. UNCHANGED <<kind, producerVars, memoryVars>>
    BY DEF Reader, StatPath, Unmap, ShiftOffset, OpenPath, MapSegment, ReadSeq, ReadActive,
           ReadMeta, ReadDims, CopySliceLow, CopySliceHigh, Recheck, Accept
  <1>2. UNCHANGED mm[Obj[t]]
    <2>1. Obj[u] # Obj[t]
      BY DEF Unshared
    <2>2. CASE Unmap(u) \/ MapSegment(u)
      BY <2>1, <2>2, RingAssumption DEF Unmap, MapSegment, objectVars, TypeInv, ObjectType
    <2>3. CASE ~(Unmap(u) \/ MapSegment(u))
      BY <2>3 DEF Reader, StatPath, ShiftOffset, OpenPath, ReadSeq, ReadActive, ReadMeta, ReadDims,
                  CopySliceLow, CopySliceHigh, Recheck, Accept, objectVars
    <2> QED
      BY <2>2, <2>3
  <1>3. UNCHANGED <<rpc[t], out[t]>>
    BY DEF Reader, StatPath, Unmap, ShiftOffset, OpenPath, MapSegment, ReadSeq, ReadActive,
           ReadMeta, ReadDims, CopySliceLow, CopySliceHigh, Recheck, Accept, LoadRaises,
           Goto, Retry, ReturnNone, TypeInv, ThreadInv, ThreadType
  <1>4. UNCHANGED <<raw[t], act[t], fmt[t], src[t], lo[t], hi[t]>>
    BY DEF Reader, StatPath, Unmap, ShiftOffset, OpenPath, MapSegment, ReadSeq, ReadActive,
           ReadMeta, ReadDims, CopySliceLow, CopySliceHigh, Recheck, Accept, LoadRaises,
           Retry, ReturnNone, ClearLocals, localVars, TypeInv, ThreadInv, LocalType
  <1> QED
    BY <1>1, <1>2, <1>3, <1>4 DEF Loads, Checked, Whole, memoryVars

(* A thread's own step.                                                    *)
LEMMA OwnStep ==
  ASSUME TypeInv, Memory, NEW t \in Threads, Reader(t), Loads(t), Checked(t), Whole(out[t])
  PROVE  Loads(t)' /\ Checked(t)' /\ Whole(out[t])'
  <1>1. UNCHANGED <<kind, producerVars, memoryVars>>
    BY DEF Reader, StatPath, Unmap, ShiftOffset, OpenPath, MapSegment, ReadSeq, ReadActive,
           ReadMeta, ReadDims, CopySliceLow, CopySliceHigh, Recheck, Accept
  <1>2. rpc'[t] \notin Loading \cup {"accept"} /\ UNCHANGED out
        => Loads(t)' /\ Checked(t)' /\ Whole(out[t])'
    BY <1>1 DEF Loads, Checked, Whole
  <1>3. ReturnNone(t) \/ Retry(t) => Loads(t)' /\ Checked(t)' /\ Whole(out[t])'
    BY <1>2 DEF ReturnNone, Retry, Goto, Loading, TypeInv, ThreadInv, ThreadType
  <1>4. CASE StatPath(t) \/ Unmap(t) \/ ShiftOffset(t) \/ OpenPath(t) \/ MapSegment(t)
    BY <1>2, <1>3, <1>4
    DEF StatPath, Unmap, ShiftOffset, OpenPath, MapSegment, Goto, Loading, TypeInv,
        ThreadInv, ThreadType
  <1>5. CASE ReadSeq(t)
    <2>1. CASE ReturnNone(t) \/ Retry(t)
      BY <1>3, <2>1
    <2>2. CASE ~(ReturnNone(t) \/ Retry(t))
      <3>1. /\ mm[Obj[t]] \in Segments /\ wseq[mm[Obj[t]]] % 2 = 0
            /\ raw'[t] = wseq[mm[Obj[t]]] /\ Goto(t, "active") /\ UNCHANGED objectVars
        BY <1>5, <2>2, RingAssumption
        DEF ReadSeq, TypeInv, ObjectType, ThreadInv, LocalType, SegmentOrNone, None
      <3> QED
        BY <1>1, <3>1
        DEF Goto, Loads, Checked, Whole, Even, Loading, objectVars, memoryVars, TypeInv, ThreadInv,
            ThreadType, MemoryType
    <2> QED
      BY <2>1, <2>2
  <1>6. CASE LoadRaises(t)
    BY <1>3, <1>6 DEF LoadRaises
  <1>7. CASE ReadActive(t) /\ ~LoadRaises(t)
    BY <1>1, <1>7
    DEF ReadActive, Goto, Loads, Checked, Whole, Loading, memoryVars, objectVars, TypeInv,
        ThreadInv,
        ThreadType, LocalType
  <1>8. CASE ReadMeta(t) /\ ~LoadRaises(t)
    BY <1>1, <1>8
    DEF ReadMeta, Goto, Loads, Checked, Whole, Loading, memoryVars, objectVars, TypeInv, ThreadInv,
        ThreadType, LocalType
  <1>9. CASE ReadDims(t) /\ ~LoadRaises(t)
    BY <1>1, <1>9
    DEF ReadDims, Goto, Loads, Checked, Whole, Loading, memoryVars, objectVars, TypeInv, ThreadInv,
        ThreadType, LocalType
  <1>10. CASE CopySliceLow(t) /\ ~LoadRaises(t)
    BY <1>1, <1>3, <1>10
    DEF CopySliceLow, Plausible, Goto, Loads, Checked, Whole, Loading, memoryVars, objectVars,
        TypeInv, ThreadInv, ThreadType, LocalType
  <1>11. CASE CopySliceHigh(t)
    BY <1>1, <1>11
    DEF CopySliceHigh, Goto, Loads, Checked, Whole, Loading, memoryVars, objectVars,
        TypeInv, ThreadInv,
        ThreadType, LocalType
  <1>12. CASE Recheck(t) /\ ~LoadRaises(t)
    <2>1. CASE Retry(t)
      BY <1>3, <2>1
    <2>2. CASE ~Retry(t)
      <3>1. wseq[mm[Obj[t]]] = raw[t] /\ Goto(t, "accept") /\ UNCHANGED localVars
        BY <1>12, <2>2 DEF Recheck, SeqUnchanged
      <3>2. lo[t] = fmt[t] /\ hi[t] = fmt[t]
        BY <1>12, <3>1 DEF Recheck, Loads, Loading, Memory, Stable
      <3> QED
        BY <1>1, <3>1, <3>2
        DEF Goto, Loads, Checked, Whole, Loading, localVars, TypeInv, ThreadInv, ThreadType
    <2> QED
      BY <2>1, <2>2
  <1>13. CASE Accept(t)
    <2>1. CASE Retry(t)
      BY <1>3, <2>1
    <2>2. CASE ~Retry(t)
      <3>1. rpc'[t] = "idle" /\ Reshapes(t)
            /\ out'[t] = [meta |-> fmt[t], dims |-> geo[t], from |-> src[t], lo |-> lo[t], hi |-> hi[t]]
        BY <1>13, <2>2 DEF Accept, TypeInv, ThreadInv, ThreadType
      <3>2. Whole(out[t])'
        BY <1>1, <1>13, <3>1 DEF Accept, Reshapes, Whole, Checked
      <3> QED
        BY <3>1, <3>2 DEF Loads, Checked, Loading
    <2> QED
      BY <2>1, <2>2
  <1> QED
    BY <1>4, <1>5, <1>6, <1>7, <1>8, <1>9, <1>10, <1>11, <1>12, <1>13 DEF Reader

LEMMA WholeStep == ASSUME Unshared, WholeInv, [Next]_vars PROVE WholeInv'
  <1> USE DEF WholeInv
  <1>1. CASE Producer
    BY <1>1, ProducerTypeStep, MemoryStep, LoadsKept
  <1>2. CASE \E u \in Threads : Reader(u)
    <2> PICK u \in Threads : Reader(u)
      BY <1>2
    <2>1. UNCHANGED <<producerVars, memoryVars>>
      BY DEF Reader, StatPath, Unmap, ShiftOffset, OpenPath, MapSegment, ReadSeq, ReadActive,
         ReadMeta, ReadDims, CopySliceLow, CopySliceHigh, Recheck, Accept
    <2>2. Memory'
      BY <2>1 DEF Memory, Parity, Window, Stable, Publishing, producerVars, memoryVars
    <2>3. ASSUME NEW t \in Threads PROVE (Loads(t) /\ Checked(t) /\ Whole(out[t]))'
      BY <2>3, OwnStep, Bystander
    <2> QED
      BY <2>2, <2>3, ReaderTypeStep
  <1>3. CASE UNCHANGED vars
    BY <1>3 DEF vars, producerVars, memoryVars, objectVars, threadVars, localVars, TypeInv,
       ProducerType, MemoryType, ProducerPointers, ObjectType, ThreadInv, LocalType, ThreadType,
       ThreadPointers, Publishing, Memory, Parity, Window, Stable, Loads, Checked, Whole
  <1> QED
    BY <1>1, <1>2, <1>3 DEF Next

(* However often the producer laps a reader, changes geometry, dies inside *)
(* a publication or restarts, no reader that has its object to itself is   *)
(* handed a torn frame (get_latest_frame against publish_frame).           *)
THEOREM NoTorn == ASSUME Unshared PROVE Spec => []NoTornFrame
  <1>1. WholeInv => NoTornFrame
    BY DEF WholeInv, NoTornFrame
  <1> QED
    BY WholeInit, WholeStep, <1>1, PTL DEF Spec

-----------------------------------------------------------------------------
(* The order in which frames reach a caller, across laps and restarts:     *)
(* again for threads that have their object to themselves.                 *)

(* Frames are published in order, each into the newest segment.            *)
Order ==
    /\ path \in {None, nseg}
    /\ \A f \in closed : f <= frame
    /\ Publishing => \A f \in closed : f < frame
    /\ \A i \in Segments :
        /\ meta[i] <= frame
        /\ Publishing /\ ~(i = seg /\ ppc \in {"flip", "close"}) => meta[i] < frame
        /\ Even(wseq[i]) /\ meta[i] # None => meta[i] \in closed
        /\ meta[i] # None => \A j \in Segments : j < i => meta[j] < meta[i]

(* Frame f was the newest of segment i when its counter was at n.          *)
Was(f, i, n) ==
    /\ n <= wseq[i]
    /\ f <= meta[i]
    /\ Even(wseq[i]) /\ n < wseq[i] => f < meta[i]

(* The name will never lead to segment i again.                            *)
Gone(i) == path # None => i < path

(* The object of a thread, and the numbers it hands out.                   *)
Numbers(t) ==
    LET o == Obj[t] IN
    /\ mm[o] # None => (mm[o] = ident[o] /\ mm[o] <= nseg)
    /\ rpc[t] = "map" => fd[t] <= nseg
    /\ rpc[t] \in {"offset", "open", "map"} => mm[o] = None
    /\ last[t] <= maxAdj[o]
    /\ rpc[t] \in Loading \cup {"accept"} => (adj[t] = offset[o] + raw[t] /\ adj[t] > last[t])

(* The copy a caller was handed last, and where its numbers stand.         *)
Cursor(t) ==
    LET o == Obj[t]
        i == out[t].from IN
    Shown(t) # None =>
        /\ i \in Segments /\ i <= nseg
        /\ Shown(t) \in closed /\ Shown(t) <= meta[i]
        /\ mm[o] # None => i <= mm[o]
        /\ mm[o] = None \/ rpc[t] = "close" => Gone(i)
        /\ rpc[t] = "map" => i < fd[t]
        /\ mm[o] = i => (offset[o] <= last[t] /\ Was(Shown(t), i, last[t] - offset[o]))
        /\ mm[o] # i /\ rpc[t] # "offset" => offset[o] > last[t]

(* A copy that was accepted is newer than the one before.                  *)
Newer(t) ==
    rpc[t] = "accept" =>
        /\ mm[Obj[t]] \in Segments /\ src[t] = mm[Obj[t]]
        /\ fmt[t] \in closed /\ fmt[t] > Shown(t)
        /\ Was(fmt[t], mm[Obj[t]], raw[t])

OrderInv == WholeInv /\ Order /\ \A t \in Threads : Numbers(t) /\ Cursor(t) /\ Newer(t)

LEMMA OrderInit == Init => OrderInv
  <1> SUFFICES ASSUME Init PROVE OrderInv
    OBVIOUS
  <1>1. Order
    BY DEF Init, Order, Publishing, None
  <1>2. ASSUME NEW t \in Threads PROVE Numbers(t) /\ Cursor(t) /\ Newer(t)
    BY RingAssumption DEF Init, Numbers, Cursor, Newer, Shown, NoFrame, Loading, None
  <1> QED
    BY <1>1, <1>2, WholeInit DEF OrderInv

(* A segment in use is the newest one.                                     *)
LEMMA ProducerSegment ==
  ASSUME TypeInv, Memory, ppc \notin {"down", "unlinked"}
  PROVE  seg \in Segments /\ seg = nseg /\ wseq[seg] \in Nat
  BY DEF TypeInv, ProducerPointers, MemoryType, Memory, Parity

LEMMA OrderStep == ASSUME TypeInv, Memory, Order, Producer PROVE Order'
  <1> USE RingAssumption DEF None
  <1>0. /\ frame \in Nat /\ nseg \in Nat /\ closed \subseteq Nat
        /\ wseq \in [Segments -> Nat] /\ \A i \in Segments : meta[i] \in Nat
    BY DEF TypeInv, ProducerType, MemoryType, FrameOrNone, Frames
  <1>1. CASE Unlink \/ Crash \/ WriteMagic \/ WriteGeometry
    BY <1>1 DEF Unlink, Crash, WriteMagic, WriteGeometry, Order, Publishing, memoryVars
  <1>2. CASE Create
    BY <1>0, <1>2 DEF Create, Order, Publishing, memoryVars
  <1>3. CASE CopyLow \/ CopyHigh \/ WriteDims \/ FlipActive
    BY <1>3 DEF CopyLow, CopyHigh, WriteDims, FlipActive, Order, Publishing
  <1>4. CASE OpenWindow
    <2>1. seg \in Segments /\ ~Even(wseq'[seg]) /\ \A i \in Segments \ {seg} : wseq'[i] = wseq[i]
      BY <1>0, <1>4, ProducerSegment, EvenFlip DEF OpenWindow, Memory, Parity
    <2> QED
      BY <1>0, <1>4, <2>1 DEF OpenWindow, Order, Publishing
  <1>5. CASE WriteMeta
    <2>1. /\ seg \in Segments /\ seg = nseg /\ ~Even(wseq[seg])
          /\ \A i \in Segments : i > nseg => meta[i] = None
      BY <1>5, ProducerSegment DEF WriteMeta, Memory, Parity, Publishing
    <2>2. /\ meta'[seg] = frame /\ \A i \in Segments \ {seg} : meta'[i] = meta[i]
          /\ \A i \in Segments : meta[i] < frame
      BY <1>0, <1>5, <2>1 DEF WriteMeta, Order, Publishing, TypeInv, MemoryType
    <2>3. \A i \in Segments : meta'[i] # None => \A j \in Segments : j < i => meta'[j] < meta'[i]
      BY <1>0, <2>1, <2>2 DEF Order, Segments
    <2> QED
      BY <1>0, <1>5, <2>1, <2>2, <2>3 DEF WriteMeta, Order, Publishing
  <1>6. CASE CloseWindow
    <2>1. seg \in Segments /\ meta[seg] = frame /\ \A i \in Segments \ {seg} : wseq'[i] = wseq[i]
      BY <1>6, ProducerSegment DEF CloseWindow, Memory, Window
    <2>2. \A i \in Segments : Even(wseq'[i]) /\ meta[i] # None => meta[i] \in closed'
      BY <1>6, <2>1 DEF CloseWindow, Order
    <2> QED
      BY <1>0, <1>6, <2>1, <2>2 DEF CloseWindow, Order, Publishing
  <1> QED
    BY <1>1, <1>2, <1>3, <1>4, <1>5, <1>6 DEF Producer, ProducerStep

(* A frame that was the newest at some count is outdated from then on.     *)
LEMMA WasKept ==
  ASSUME TypeInv, Memory, Order, Producer,
         NEW i \in Segments, NEW f \in closed, NEW n \in Int, Was(f, i, n)
  PROVE  Was(f, i, n)' /\ meta[i] <= meta'[i]
  <1> USE DEF Was
  <1>0. /\ frame \in Nat /\ f \in Nat /\ wseq[i] \in Nat /\ meta[i] \in Nat
        /\ wseq \in [Segments -> Nat]
    BY RingAssumption DEF TypeInv, ProducerType, MemoryType, FrameOrNone, Frames, None
  <1>1. CASE UNCHANGED <<wseq, meta>>
    BY <1>0, <1>1
  <1>2. CASE OpenWindow
    <2>1. ~Even(wseq'[seg]) /\ seg \in Segments
      BY <1>0, <1>2, ProducerSegment, EvenFlip DEF OpenWindow, Memory, Parity
    <2> QED
      BY <1>0, <1>2, <2>1 DEF OpenWindow
  <1>3. CASE WriteMeta
    <2>1. f < frame /\ meta[i] < frame /\ ~Even(wseq[seg])
      BY <1>3, ProducerSegment DEF WriteMeta, Order, Memory, Parity, Publishing
    <2> QED
      BY <1>0, <1>3, <2>1 DEF WriteMeta, TypeInv, MemoryType
  <1>4. CASE CloseWindow
    <2>1. f < frame /\ seg \in Segments /\ meta[seg] = frame
      BY <1>4, ProducerSegment DEF CloseWindow, Order, Memory, Window, Publishing
    <2> QED
      BY <1>0, <1>4, <2>1 DEF CloseWindow
  <1> QED
    BY <1>1, <1>2, <1>3, <1>4
    DEF Producer, ProducerStep, Unlink, Create, WriteMagic, WriteGeometry, CopyLow, CopyHigh,
        WriteDims, FlipActive, Crash, memoryVars

LEMMA MetaGrows ==
  ASSUME TypeInv, Memory, Order, Producer, NEW i \in Segments
  PROVE  meta[i] <= meta'[i]
  <1>0. frame \in Nat /\ meta[i] \in Nat
    BY RingAssumption DEF TypeInv, ProducerType, MemoryType, FrameOrNone, Frames, None
  <1>1. CASE WriteMeta
    BY <1>0, <1>1 DEF WriteMeta, Order, TypeInv, MemoryType
  <1>2. CASE UNCHANGED meta
    BY <1>0, <1>2
  <1> QED
    BY <1>1, <1>2
    DEF Producer, ProducerStep, Unlink, Create, WriteMagic, WriteGeometry, OpenWindow, CopyLow,
        CopyHigh, WriteDims, FlipActive, CloseWindow, Crash, memoryVars

(* A start gives the name a segment that is newer than all before.         *)
LEMMA GoneKept ==
  ASSUME TypeInv, Producer, NEW i \in Nat, i <= nseg, Gone(i)
  PROVE  Gone(i)' /\ i <= nseg'
  BY RingAssumption
  DEF Gone, Producer, ProducerStep, Unlink, Create, WriteMagic, WriteGeometry, OpenWindow, CopyLow,
      CopyHigh, WriteDims, WriteMeta, FlipActive, CloseWindow, Crash, TypeInv, ProducerType, None

LEMMA FrameNumber == ASSUME NEW x \in FrameOrNone PROVE x \in Nat
  BY RingAssumption DEF FrameOrNone, Frames, None

(* Everything a caller's numbers are made of is a number.                  *)
LEMMA CallerType ==
  ASSUME TypeInv, NEW t \in Threads
  PROVE  /\ mm[Obj[t]] \in Nat /\ fd[t] \in Nat /\ last[t] \in Nat /\ raw[t] \in Nat
         /\ offset[Obj[t]] \in Nat /\ maxAdj[Obj[t]] \in Nat /\ adj[t] \in Nat
         /\ Shown(t) \in Nat /\ out[t].from \in Nat /\ fmt[t] \in Nat
         /\ path \in Nat /\ nseg \in Nat /\ Obj[t] \in Objects
  <1>1. Obj[t] \in Objects
    BY RingAssumption
  <1>2. /\ mm[Obj[t]] \in SegmentOrNone /\ offset[Obj[t]] \in Nat /\ maxAdj[Obj[t]] \in Nat
    BY <1>1 DEF TypeInv, ObjectType
  <1>3. raw[t] \in Nat /\ adj[t] \in Nat /\ fmt[t] \in FrameOrNone
    BY DEF TypeInv, ThreadInv, LocalType
  <1>4. fd[t] \in SegmentOrNone /\ last[t] \in Nat /\ out[t] \in CopyType
    BY DEF TypeInv, ThreadInv, ThreadType
  <1>5. Shown(t) \in FrameOrNone /\ out[t].from \in SegmentOrNone
    BY <1>4 DEF CopyType, Shown
  <1>6. path \in SegmentOrNone /\ nseg \in Nat
    BY DEF TypeInv, ProducerType
  <1>7. SegmentOrNone \subseteq Nat
    BY RingAssumption DEF SegmentOrNone, Segments, None
  <1> QED
    BY <1>1, <1>2, <1>3, <1>4, <1>5, <1>6, <1>7, FrameNumber

(* What the producer does changes nothing of what a caller may be shown.   *)
LEMMA CallerKept ==
  ASSUME TypeInv, Memory, Order, Producer, NEW t \in Threads, Numbers(t), Cursor(t), Newer(t)
  PROVE  Numbers(t)' /\ Cursor(t)' /\ Newer(t)'
  <1>0. nseg \in Nat
    BY DEF TypeInv, ProducerType
  <1>1. /\ UNCHANGED <<objectVars, threadVars>>
        /\ closed \subseteq closed' /\ nseg \in Nat /\ nseg' \in Nat /\ nseg <= nseg'
    BY <1>0
    DEF Producer, ProducerStep, Unlink, Create, WriteMagic, WriteGeometry, OpenWindow,
        CopyLow, CopyHigh, WriteDims, WriteMeta, FlipActive, CloseWindow, Crash
  <1>2. /\ mm[Obj[t]] \in Nat /\ fd[t] \in Nat /\ last[t] \in Nat /\ raw[t] \in Nat
        /\ offset[Obj[t]] \in Nat /\ Shown(t) \in Nat /\ fmt[t] \in Nat
    BY CallerType
  <1>3. Numbers(t)'
    BY <1>1, <1>2 DEF Numbers, objectVars, threadVars, localVars
  <1>4. Newer(t)'
    BY <1>1, <1>2, WasKept DEF Newer, Shown, objectVars, threadVars, localVars
  <1>5. Cursor(t)'
    <2> SUFFICES ASSUME Shown(t) # None PROVE Cursor(t)'
      BY <1>1 DEF Cursor, Shown, threadVars
    <2> PICK i \in Segments : i = out[t].from
      BY DEF Cursor
    <2> PICK f \in closed : f = Shown(t)
      BY DEF Cursor
    <2> PICK n \in Int : n = last[t] - offset[Obj[t]]
      BY <1>2
    <2>0. /\ out'[t].from = i /\ Shown(t)' = f /\ mm'[Obj[t]] = mm[Obj[t]]
          /\ last'[t] - offset'[Obj[t]] = n
      BY <1>1 DEF Shown, objectVars, threadVars
    <2>1. i \in Nat /\ meta[i] \in Nat /\ meta'[i] \in Nat /\ meta[i] <= meta'[i]
      <3>1. MemoryType /\ MemoryType'
        BY ProducerTypeStep DEF TypeInv
      <3>2. meta[i] \in FrameOrNone /\ meta'[i] \in FrameOrNone
        BY <3>1 DEF MemoryType
      <3>3. i \in Nat
        BY RingAssumption DEF Segments
      <3>4. meta[i] <= meta'[i]
        BY MetaGrows
      <3> QED
        BY <3>2, <3>3, <3>4, FrameNumber
    <2>2. i <= nseg /\ (Gone(i) => Gone(i)')
      BY <2>1, GoneKept DEF Cursor
    <2>3. mm[Obj[t]] = i => Was(f, i, n)'
      BY WasKept DEF Cursor
    <2>4. Cursor(t) = (Cursor(t) /\ f <= meta[i] /\ f \in Nat)
      BY <1>2 DEF Cursor
    <2> QED
      BY <1>1, <1>2, <2>0, <2>1, <2>2, <2>3, <2>4 DEF Cursor, Gone, Was, objectVars, threadVars
  <1> QED
    BY <1>3, <1>4, <1>5

(* A reader step of another thread leaves a thread and its object alone.   *)
LEMMA CallerAlone ==
  ASSUME Unshared, TypeInv, NEW t \in Threads, NEW u \in Threads \ {t}, Reader(u),
         Numbers(t), Cursor(t), Newer(t)
  PROVE  Numbers(t)' /\ Cursor(t)' /\ Newer(t)'
  <1>1. UNCHANGED <<producerVars, memoryVars>>
    BY DEF Reader, StatPath, Unmap, ShiftOffset, OpenPath, MapSegment, ReadSeq, ReadActive,
           ReadMeta, ReadDims, CopySliceLow, CopySliceHigh, Recheck, Accept
  <1>2. UNCHANGED <<mm[Obj[t]], ident[Obj[t]], offset[Obj[t]], maxAdj[Obj[t]]>>
    <2>1. Obj[u] # Obj[t]
      BY DEF Unshared
    <2>2. CASE Unmap(u) \/ ShiftOffset(u) \/ MapSegment(u) \/ Accept(u)
      BY <2>1, <2>2, RingAssumption
      DEF Unmap, ShiftOffset, MapSegment, Accept, objectVars, TypeInv, ObjectType
    <2>3. CASE ~(Unmap(u) \/ ShiftOffset(u) \/ MapSegment(u) \/ Accept(u))
      BY <2>3 DEF Reader, StatPath, OpenPath, ReadSeq, ReadActive, ReadMeta, ReadDims,
                  CopySliceLow, CopySliceHigh, Recheck, objectVars
    <2> QED
      BY <2>2, <2>3
  <1>3. UNCHANGED <<rpc[t], fd[t], last[t], out[t]>>
    BY DEF Reader, StatPath, Unmap, ShiftOffset, OpenPath, MapSegment, ReadSeq, ReadActive,
           ReadMeta, ReadDims, CopySliceLow, CopySliceHigh, Recheck, Accept, LoadRaises,
           Goto, Retry, ReturnNone, TypeInv, ThreadInv, ThreadType
  <1>4. UNCHANGED <<raw[t], adj[t], fmt[t], src[t]>>
    BY DEF Reader, StatPath, Unmap, ShiftOffset, OpenPath, MapSegment, ReadSeq, ReadActive,
           ReadMeta, ReadDims, CopySliceLow, CopySliceHigh, Recheck, Accept, LoadRaises,
           Retry, ReturnNone, ClearLocals, localVars, TypeInv, ThreadInv, LocalType
  <1> QED
    BY <1>1, <1>2, <1>3, <1>4
    DEF Numbers, Cursor, Newer, Shown, Was, Gone, producerVars, memoryVars

(* The thread only moves on: its object and its last copy stay as they are. *)
Elsewhere(t) ==
    /\ UNCHANGED <<producerVars, memoryVars, mm[Obj[t]], ident[Obj[t]], offset[Obj[t]],
                   last[t], out[t]>>
    /\ maxAdj'[Obj[t]] \in Nat /\ maxAdj[Obj[t]] <= maxAdj'[Obj[t]]
    /\ rpc'[t] \in {"idle", "seq"}

LEMMA CallerElsewhere ==
  ASSUME TypeInv, NEW t \in Threads, Elsewhere(t), rpc[t] # "offset",
         Numbers(t), Cursor(t)
  PROVE  Numbers(t)' /\ Cursor(t)' /\ Newer(t)'
  <1>1. last[t] \in Nat /\ maxAdj[Obj[t]] \in Nat
    BY RingAssumption DEF TypeInv, ThreadInv, ThreadType, ObjectType
  <1> QED
    BY <1>1
    DEF Elsewhere, Numbers, Cursor, Newer, Loading, Shown, Gone, Was, producerVars, memoryVars

(* A thread's own step.                                                    *)
LEMMA CallerStep ==
  ASSUME TypeInv, Memory, Order, NEW t \in Threads, Reader(t),
         Loads(t), Numbers(t), Cursor(t), Newer(t)
  PROVE  Numbers(t)' /\ Cursor(t)' /\ Newer(t)'
  <1>1. UNCHANGED <<producerVars, memoryVars>>
    BY DEF Reader, StatPath, Unmap, ShiftOffset, OpenPath, MapSegment, ReadSeq, ReadActive,
           ReadMeta, ReadDims, CopySliceLow, CopySliceHigh, Recheck, Accept
  <1>2. /\ mm[Obj[t]] \in Nat /\ fd[t] \in Nat /\ last[t] \in Nat /\ raw[t] \in Nat
        /\ offset[Obj[t]] \in Nat /\ maxAdj[Obj[t]] \in Nat /\ adj[t] \in Nat
        /\ Shown(t) \in Nat /\ out[t].from \in Nat /\ fmt[t] \in Nat
        /\ path \in Nat /\ nseg \in Nat /\ Obj[t] \in Objects
    BY CallerType
  <1>3. ASSUME ReturnNone(t) \/ Retry(t), rpc[t] # "offset", UNCHANGED objectVars
        PROVE  Numbers(t)' /\ Cursor(t)' /\ Newer(t)'
    <2>1. Elsewhere(t)
      BY <1>1, <1>2, <1>3
      DEF ReturnNone, Retry, Goto, Elsewhere, objectVars, TypeInv, ThreadInv, ThreadType
    <2> QED
      BY <1>3, <2>1, CallerElsewhere
  <1>4. CASE StatPath(t)
    <2>1. CASE mm[Obj[t]] # None /\ ~IsCurrent(Obj[t])
      <3>1. rpc'[t] = "close" /\ Gone(mm[Obj[t]])
        BY <1>2, <1>4, <2>1
        DEF StatPath, Goto, IsCurrent, Gone, Numbers, Order, TypeInv, ThreadInv, ThreadType
      <3>2. Shown(t) # None => Gone(out[t].from)
        BY <1>2, <2>1, <3>1 DEF Gone, Cursor, None
      <3> QED
        BY <1>1, <1>2, <1>4, <2>1, <3>1, <3>2
        DEF StatPath, Goto, Numbers, Cursor, Newer, Loading, Shown, Gone, Was, producerVars,
            memoryVars, objectVars
    <2>2. CASE mm[Obj[t]] = None \/ IsCurrent(Obj[t])
      <3>1. rpc'[t] \in {"open", "seq"} /\ (rpc'[t] = "open" => mm[Obj[t]] = None)
        BY <1>4, <2>2 DEF StatPath, Goto, TypeInv, ThreadInv, ThreadType
      <3> QED
        BY <1>1, <1>2, <1>4, <3>1
        DEF StatPath, Goto, Numbers, Cursor, Newer, Loading, Shown, Gone, Was, producerVars,
            memoryVars, objectVars
    <2> QED
      BY <2>1, <2>2
  <1>5. CASE Unmap(t)
    <2>1. rpc'[t] = "offset" /\ mm'[Obj[t]] = None
      BY <1>2, <1>5 DEF Unmap, Goto, TypeInv, ThreadInv, ThreadType, ObjectType
    <2> QED
      BY <1>1, <1>2, <1>5, <2>1
      DEF Unmap, Goto, Numbers, Cursor, Newer, Loading, Shown, Gone, Was, producerVars,
          memoryVars, localVars, Segments, None
  <1>6. CASE ShiftOffset(t)
    <2>1. rpc'[t] = "open" /\ offset'[Obj[t]] = maxAdj[Obj[t]] + 2
      BY <1>2, <1>6 DEF ShiftOffset, NextOffset, Goto, TypeInv, ThreadInv, ThreadType, ObjectType
    <2> QED
      BY <1>1, <1>2, <1>6, <2>1
      DEF ShiftOffset, Goto, Numbers, Cursor, Newer, Loading, Shown, Gone, Was, producerVars,
          memoryVars, localVars, Segments, None
  <1>7. CASE OpenPath(t)
    <2>1. CASE path = None
      <3>1. ReturnNone(t) /\ UNCHANGED objectVars
        BY <1>7, <2>1 DEF OpenPath, Numbers
      <3> QED
        BY <1>3, <1>7, <3>1 DEF OpenPath
    <2>2. CASE path # None
      <3>1. rpc'[t] = "map" /\ fd'[t] = path /\ path = nseg /\ mm[Obj[t]] = None
        BY <1>7, <2>2 DEF OpenPath, Goto, Numbers, Order, TypeInv, ThreadInv, ThreadType
      <3>2. Shown(t) # None => out[t].from < path
        BY <1>2, <2>2, <3>1 DEF Cursor, Gone
      <3>3. UNCHANGED <<path, nseg, closed, wseq, meta, mm, ident, offset, maxAdj, last, out>>
        BY <1>1, <1>7, <2>2, <3>1 DEF OpenPath, Goto, producerVars, memoryVars, objectVars
      <3>4. Shown(t) # None => out[t].from # None
        BY <1>2, RingAssumption DEF Cursor, Segments, None
      <3>5. Cursor(t)'
        BY <1>2, <1>7, <3>1, <3>2, <3>3, <3>4 DEF OpenPath, Cursor, Shown, Gone
      <3> QED
        BY <1>2, <3>1, <3>3, <3>5 DEF Numbers, Newer, Loading
    <2> QED
      BY <2>1, <2>2
  <1>8. CASE MapSegment(t)
    <2>1. CASE header[fd[t]] = "blank"
      BY <1>3, <1>8, <2>1 DEF MapSegment
    <2>2. CASE header[fd[t]] # "blank"
      <3>1. rpc'[t] = "seq" /\ mm'[Obj[t]] = fd[t] /\ ident'[Obj[t]] = fd[t]
        BY <1>2, <1>8, <2>2 DEF MapSegment, Goto, TypeInv, ThreadInv, ThreadType, ObjectType
      <3>2. fd[t] # None
        BY <1>2, <1>8 DEF MapSegment, TypeInv, ThreadInv, ThreadPointers, Segments, None
      <3>3. UNCHANGED <<path, nseg, closed, wseq, meta, offset, maxAdj, last, out>>
        BY <1>1, <1>8, <2>2 DEF MapSegment, Goto, producerVars, memoryVars
      <3>4. Shown(t) # None => out[t].from # None /\ mm[Obj[t]] = None
        BY <1>2, <1>8, RingAssumption DEF MapSegment, Cursor, Numbers, Segments, None
      <3>5. Cursor(t)'
        BY <1>2, <1>8, <3>1, <3>2, <3>3, <3>4 DEF MapSegment, Cursor, Shown, Gone
      <3> QED
        BY <1>2, <1>8, <3>1, <3>3, <3>5 DEF MapSegment, Numbers, Newer, Loading
    <2> QED
      BY <2>1, <2>2
  <1>9. CASE ReadSeq(t)
    <2>1. CASE ReturnNone(t) \/ Retry(t)
      BY <1>3, <1>9, <2>1 DEF ReadSeq
    <2>2. CASE ~(ReturnNone(t) \/ Retry(t))
      <3>1. /\ rpc'[t] = "active" /\ raw'[t] = wseq[mm[Obj[t]]]
            /\ adj'[t] = offset[Obj[t]] + wseq[mm[Obj[t]]] /\ adj'[t] > last[t]
            /\ mm[Obj[t]] # None
        BY <1>9, <2>2 DEF ReadSeq, Goto, TypeInv, ThreadInv, ThreadType, LocalType
      <3> QED
        BY <1>1, <1>2, <1>9, <2>2, <3>1
        DEF ReadSeq, Goto, Numbers, Cursor, Newer, Loading, Shown, Gone, Was, producerVars,
            memoryVars, objectVars
    <2> QED
      BY <2>1, <2>2
  <1>10. CASE LoadRaises(t) /\ rpc[t] \in Loading /\ UNCHANGED objectVars
    BY <1>3, <1>10 DEF LoadRaises, Loading
  <1>11. CASE (ReadActive(t) \/ ReadMeta(t) \/ ReadDims(t)) /\ ~LoadRaises(t)
    <2>1. rpc[t] \in Loading /\ rpc'[t] \in Loading /\ rpc'[t] \notin {"idle", "seq"}
      BY <1>11 DEF ReadActive, ReadMeta, ReadDims, Goto, Loading, TypeInv, ThreadInv, ThreadType
    <2> QED
      BY <1>1, <1>2, <1>11, <2>1
      DEF ReadActive, ReadMeta, ReadDims, Goto, Numbers, Cursor, Newer, Loading, Shown, Gone, Was,
          producerVars, memoryVars, objectVars
  <1>12. CASE CopySliceLow(t) /\ ~LoadRaises(t)
    <2>1. CASE Retry(t)
      BY <1>3, <1>12, <2>1 DEF CopySliceLow
    <2>2. CASE ~Retry(t)
      <3>1. rpc'[t] = "hi" /\ UNCHANGED <<raw, adj>>
        BY <1>12, <2>2 DEF CopySliceLow, Goto, TypeInv, ThreadInv, ThreadType
      <3> QED
        BY <1>1, <1>2, <1>12, <2>2, <3>1
        DEF CopySliceLow, Goto, Numbers, Cursor, Newer, Loading, Shown, Gone, Was,
            producerVars, memoryVars, objectVars
    <2> QED
      BY <2>1, <2>2
  <1>13. CASE CopySliceHigh(t)
    <2>1. rpc'[t] = "recheck"
      BY <1>13 DEF CopySliceHigh, Goto, TypeInv, ThreadInv, ThreadType
    <2> QED
      BY <1>1, <1>2, <1>13, <2>1
      DEF CopySliceHigh, Goto, Numbers, Cursor, Newer, Loading, Shown, Gone, Was,
          producerVars, memoryVars, objectVars
  <1>14. CASE Recheck(t) /\ ~LoadRaises(t)
    <2>1. CASE Retry(t)
      BY <1>3, <1>14, <2>1 DEF Recheck
    <2>2. CASE ~Retry(t)
      <3> DEFINE m == mm[Obj[t]]
      <3>1. wseq[m] = raw[t] /\ rpc'[t] = "accept" /\ UNCHANGED <<localVars, objectVars>>
        BY <1>14, <2>2 DEF Recheck, SeqUnchanged, Goto, TypeInv, ThreadInv, ThreadType
      <3>2. /\ m \in Segments /\ Even(wseq[m]) /\ src[t] = m /\ fmt[t] = meta[m]
            /\ fmt[t] # None
        BY <1>14, <3>1 DEF Recheck, Loads, Loading
      <3>3. fmt[t] \in closed
        BY <3>2 DEF Order
      <3>4. fmt[t] > Shown(t)
        <4>1. CASE Shown(t) = None
          BY <1>2, <3>2, <4>1 DEF None
        <4>2. CASE Shown(t) # None /\ out[t].from = m
          <5>1. last[t] - offset[Obj[t]] < wseq[m]
            BY <1>2, <1>14, <3>1 DEF Recheck, Numbers, Loading
          <5> QED
            BY <1>2, <3>2, <4>2, <5>1 DEF Cursor, Was
        <4>3. CASE Shown(t) # None /\ out[t].from # m
          <5>1. /\ out[t].from \in Segments /\ out[t].from < m
                /\ Shown(t) <= meta[out[t].from]
            BY <1>2, <3>2, <4>3, RingAssumption DEF Cursor, Segments, None
          <5>2. meta[out[t].from] < meta[m] /\ meta[out[t].from] \in Nat
            <6>1. meta[m] # None
              BY <3>2
            <6>2. meta[out[t].from] < meta[m]
              BY <3>2, <5>1, <6>1 DEF Order
            <6>3. meta[out[t].from] \in FrameOrNone
              BY <5>1 DEF TypeInv, MemoryType
            <6> QED
              BY <6>2, <6>3, FrameNumber
          <5> QED
            BY <1>2, <3>2, <5>1, <5>2
        <4> QED
          BY <4>1, <4>2, <4>3
      <3>5. Newer(t)'
        <4>1. UNCHANGED <<wseq, meta, closed, mm, src, fmt, raw, out>>
          BY <1>1, <1>14, <2>2, <3>1
          DEF Recheck, Goto, producerVars, memoryVars, objectVars, localVars
        <4>2. Was(fmt[t], m, raw[t])
          BY <1>2, <3>1, <3>2 DEF Was
        <4> QED
          BY <3>1, <3>2, <3>3, <3>4, <4>1, <4>2 DEF Newer, Was, Shown
      <3> QED
        BY <1>1, <1>2, <1>14, <2>2, <3>1, <3>2, <3>5
        DEF Recheck, Goto, Numbers, Cursor, Loading, Shown, Gone, Was,
            producerVars, memoryVars, objectVars, localVars, Segments, None
    <2> QED
      BY <2>1, <2>2
  <1>15. CASE Accept(t)
    <2>0. /\ maxAdj'[Obj[t]] \in Nat /\ maxAdj[Obj[t]] <= maxAdj'[Obj[t]]
          /\ adj[t] <= maxAdj'[Obj[t]] /\ UNCHANGED <<mm, ident, offset>>
      BY <1>2, <1>15 DEF Accept, TypeInv, ObjectType
    <2>1. CASE Retry(t)
      <3>1. Elsewhere(t)
        BY <1>1, <2>0, <2>1 DEF Retry, Goto, Elsewhere, TypeInv, ThreadInv, ThreadType
      <3> QED
        BY <1>15, <3>1, CallerElsewhere DEF Accept
    <2>2. CASE ~Retry(t)
      <3>1. /\ rpc'[t] = "idle" /\ last'[t] = adj[t]
            /\ out'[t].meta = fmt[t] /\ out'[t].from = src[t]
        BY <1>15, <2>2 DEF Accept, TypeInv, ThreadInv, ThreadType
      <3>2. /\ mm[Obj[t]] \in Segments /\ mm[Obj[t]] # None /\ src[t] = mm[Obj[t]]
            /\ fmt[t] \in closed /\ Was(fmt[t], mm[Obj[t]], raw[t])
            /\ mm[Obj[t]] <= nseg /\ adj[t] - offset[Obj[t]] = raw[t] /\ offset[Obj[t]] <= adj[t]
        BY <1>2, <1>15, RingAssumption DEF Accept, Newer, Numbers, Segments, None
      <3>3. Numbers(t)'
        BY <1>1, <1>2, <1>15, <2>0, <3>1 DEF Numbers, Loading, producerVars, None
      <3>4. Newer(t)'
        BY <3>1 DEF Newer
      <3>5. Cursor(t)'
        BY <1>1, <1>2, <2>0, <3>1, <3>2
        DEF Cursor, Shown, Was, Gone, producerVars, memoryVars
      <3> QED
        BY <3>3, <3>4, <3>5
    <2> QED
      BY <2>1, <2>2
  <1> QED
    BY <1>4, <1>5, <1>6, <1>7, <1>8, <1>9, <1>10, <1>11, <1>12, <1>13, <1>14, <1>15
    DEF Reader, ReadActive, ReadMeta, ReadDims, CopySliceLow, Recheck, Loading

LEMMA OrderInvStep == ASSUME Unshared, OrderInv, [Next]_vars PROVE OrderInv'
  <1> USE DEF OrderInv
  <1>1. WholeInv'
    BY WholeStep
  <1>2. CASE Producer
    BY <1>1, <1>2, OrderStep, CallerKept DEF WholeInv
  <1>3. CASE \E u \in Threads : Reader(u)
    <2> PICK u \in Threads : Reader(u)
      BY <1>3
    <2>1. UNCHANGED <<producerVars, memoryVars>>
      BY DEF Reader, StatPath, Unmap, ShiftOffset, OpenPath, MapSegment, ReadSeq, ReadActive,
           ReadMeta, ReadDims, CopySliceLow, CopySliceHigh, Recheck, Accept
    <2>2. Order'
      BY <2>1 DEF Order, Publishing, producerVars, memoryVars
    <2>3. ASSUME NEW t \in Threads PROVE (Numbers(t) /\ Cursor(t) /\ Newer(t))'
      BY CallerStep, CallerAlone DEF WholeInv
    <2> QED
      BY <1>1, <2>2, <2>3
  <1>4. CASE UNCHANGED vars
    BY <1>1, <1>4
    DEF vars, producerVars, memoryVars, objectVars, threadVars, localVars, Order, Publishing,
        Numbers, Cursor, Newer, Shown, Was, Gone
  <1> QED
    BY <1>2, <1>3, <1>4 DEF Next

LEMMA OrderInvariance == ASSUME Unshared PROVE Spec => []OrderInv
  BY OrderInit, OrderInvStep, PTL DEF Spec

(* After a producer restart everything the fresh segment will hand out is  *)
(* numbered past the caller's cursor: no frame of it is skipped for having *)
(* a number the caller has seen (_reopen_if_recreated, _max_adj_seq).      *)
THEOREM FreshSegmentAheadHolds == ASSUME Unshared PROVE Spec => []FreshSegmentAhead
  <1>1. OrderInv => FreshSegmentAhead
    BY DEF OrderInv, FreshSegmentAhead, Numbers, Cursor
  <1> QED
    BY <1>1, OrderInvariance, PTL

(* The ring is a latest-frame register: frames are published once and in   *)
(* order, a caller is shown only what was published whole, and each time   *)
(* something newer, across every restart of the producer (get_latest_frame *)
(* and publish_frame against LatestFrame).                                 *)
THEOREM LatestFrameImplemented == ASSUME Unshared PROVE Spec => ImplementsLatestFrame
  <1>1. Init => Latest!Init
    BY DEF Init, Latest!Init, Shown, NoFrame, None
  <1>2. OrderInv /\ [Next]_vars => [Latest!Next]_(Latest!latestVars)
    <2> SUFFICES ASSUME OrderInv, [Next]_vars
                 PROVE  Latest!Next \/ UNCHANGED Latest!latestVars
      OBVIOUS
    <2>0. TypeInv /\ Memory /\ Order
      BY DEF OrderInv, WholeInv
    <2>1. CASE CloseWindow
      <3>1. frame \in Frames /\ Publishing /\ UNCHANGED out
        BY <2>0, <2>1 DEF CloseWindow, TypeInv, ProducerPointers, Publishing, threadVars
      <3>2. Latest!Publish(frame)
        BY <2>0, <2>1, <3>1 DEF Latest!Publish, CloseWindow, Order, Shown
      <3> QED
        BY <3>1, <3>2 DEF Latest!Next
    <2>2. CASE Producer /\ ~CloseWindow
      BY <2>2
      DEF Producer, ProducerStep, Unlink, Create, WriteMagic, WriteGeometry, OpenWindow, CopyLow,
          CopyHigh, WriteDims, WriteMeta, FlipActive, Crash, Latest!latestVars, Shown, threadVars
    <2>3. ASSUME NEW t \in Threads, Reader(t)
          PROVE  Latest!Next \/ UNCHANGED Latest!latestVars
      <3>1. CASE UNCHANGED out
        BY <2>3, <3>1
        DEF Reader, StatPath, Unmap, ShiftOffset, OpenPath, MapSegment, ReadSeq, ReadActive,
            ReadMeta, ReadDims, CopySliceLow, CopySliceHigh, Recheck, Accept, producerVars,
            Latest!latestVars, Shown
      <3>2. CASE ~UNCHANGED out
        <4>1. Accept(t) /\ ~Retry(t)
          BY <2>3, <3>2
          DEF Reader, StatPath, Unmap, ShiftOffset, OpenPath, MapSegment, ReadSeq, ReadActive,
              ReadMeta, ReadDims, CopySliceLow, CopySliceHigh, Recheck, Accept, LoadRaises,
              ReturnNone, Retry, Goto, threadVars
        <4>2. /\ rpc[t] = "accept" /\ UNCHANGED closed
              /\ out' = [out EXCEPT ![t] = [meta |-> fmt[t], dims |-> geo[t], from |-> src[t],
                                            lo |-> lo[t], hi |-> hi[t]]]
          BY <4>1 DEF Accept, producerVars
        <4>3. fmt[t] \in closed /\ fmt[t] > Shown(t) /\ fmt[t] \in Frames
          BY <2>0, <4>2 DEF OrderInv, Newer, TypeInv, ProducerType
        <4>4. [u \in Threads |-> Shown(u)]'
              = [[u \in Threads |-> Shown(u)] EXCEPT ![t] = fmt[t]]
          BY <2>0, <4>2 DEF Shown, TypeInv, ThreadInv, ThreadType
        <4>5. Latest!Show(t, fmt[t])
          BY <4>2, <4>3, <4>4 DEF Latest!Show
        <4> QED
          BY <4>3, <4>5 DEF Latest!Next
      <3> QED
        BY <3>1, <3>2
    <2>4. CASE UNCHANGED vars
      BY <2>4 DEF vars, producerVars, threadVars, Latest!latestVars, Shown
    <2> QED
      BY <2>1, <2>2, <2>3, <2>4 DEF Next
  <1> QED
    BY <1>1, <1>2, OrderInvariance, PTL DEF Spec, ImplementsLatestFrame, Latest!Spec
=============================================================================
