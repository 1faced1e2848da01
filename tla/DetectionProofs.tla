--------------------------- MODULE DetectionProofs ---------------------------
(***************************************************************************)
(* What holds of the pipeline and its callers for every number of lanes,   *)
(* models, callers, frames and failures.                                   *)
(***************************************************************************)
EXTENDS DetectionControl, FiniteSetTheorems, TLAPS

USE DEF stats

LEMMA PipeTypeInit == PipeInit => PipeTypeOK
  <1> SUFFICES ASSUME PipeInit PROVE PipeTypeOK
    OBVIOUS
  <1> USE PipelineAssumption DEF PipeInit, Loaded, Seqs, Items, NoItem
  <1>1. ServiceType
    BY DEF ServiceType
  <1>2. PrepareType
    BY DEF PrepareType
  <1>3. InferType /\ FinishType /\ EncodeType /\ OutputType
    BY DEF InferType, FinishType, EncodeType, OutputType
  <1>4. Depth \in Nat
    BY FS_CardinalityType DEF Depth
  <1>5. QueueType
    BY <1>4 DEF QueueType
  <1> QED
    BY <1>1, <1>2, <1>3, <1>5 DEF PipeTypeOK

(* Giving a count back keeps the count a number.                           *)
LEMMA EndInflightType == inflight \in Nat /\ EndInflight => inflight' \in Nat
  BY DEF EndInflight

LEMMA PublishType ==
  ASSUME OutputType, NEW picture \in Seqs, NEW seq \in Seqs, Publish(picture, seq)
  PROVE  published' \in Seqs /\ shown' \in Seqs
  BY DEF OutputType, Publish

(* A lane that is done with its frame.                                     *)
LEMMA LeaveAType ==
  ASSUME PipeTypeOK, NEW a \in Lanes, LeaveA(a)
  PROVE  ServiceType' /\ PrepareType' /\ InferType' /\ FinishType' /\ EncodeType'
  <1> USE PipelineAssumption DEF PipeTypeOK, Seqs
  <1>1. inflight' \in Nat
    BY EndInflightType DEF LeaveA, ServiceType
  <1>2. ServiceType'
    BY <1>1 DEF LeaveA, ServiceType, service, workers
  <1>3. PrepareType'
    BY DEF LeaveA, PrepareType, ServiceType, Loaded, service
  <1>4. InferType' /\ FinishType' /\ EncodeType'
    BY DEF LeaveA, InferType, FinishType, EncodeType, bVars, cVars, dVars
  <1> QED
    BY <1>2, <1>3, <1>4

(* A lane that moves on: all but the lane and what it publishes is the same. *)
LEMMA GotoAType ==
  ASSUME PipeTypeOK, NEW a \in Lanes, NEW where, GotoA(a, where), inflight' \in Nat
  PROVE  ServiceType' /\ InferType' /\ FinishType' /\ EncodeType' /\ QueueType' /\ grabbed' \in Seqs
  BY DEF PipeTypeOK, GotoA, ServiceType, InferType, FinishType, EncodeType, QueueType, OutputType,
         service, workers, bVars, cVars, dVars, queues

LEMMA StageATypeStep ==
  ASSUME PipeTypeOK, NEW a \in Lanes, StageA(a)
  PROVE  PipeTypeOK'
  <1> USE PipelineAssumption DEF PipeTypeOK
  <1>0. gen \in Nat /\ inflight \in Nat /\ mgr \in Loaded
    BY DEF ServiceType
  <1>1. CASE WaitActive(a)
    <2>1. inflight' \in Nat
      BY <1>0, <1>1 DEF WaitActive
    <2>2. PrepareType'
      BY <1>1 DEF WaitActive, GotoA, PrepareType, service
    <2>3. OutputType'
      BY <1>1 DEF WaitActive, GotoA, OutputType, output
    <2> QED
      BY <1>1, <2>1, <2>2, <2>3, GotoAType DEF WaitActive
  <1>2. CASE GrabNext(a)
    <2>1. CASE LeaveA(a) /\ UNCHANGED grabbed
      BY <1>2, <2>1, LeaveAType DEF GrabNext, QueueType, OutputType, queues, output
    <2>2. CASE ~(LeaveA(a) /\ UNCHANGED grabbed)
      <3>1. grabbed + 1 \in Seqs
        BY <1>2, <2>2 DEF GrabNext, OutputType, Seqs
      <3>2. PrepareType'
        BY <1>2, <2>2, <3>1 DEF GrabNext, PrepareType, service
      <3>3. ServiceType' /\ InferType' /\ FinishType' /\ EncodeType'
        BY <1>2, <2>2 DEF GrabNext, ServiceType, InferType, FinishType, EncodeType, service, workers,
                          gate, bVars, cVars, dVars
      <3>4. QueueType' /\ OutputType'
        BY <1>2, <2>2, <3>1 DEF GrabNext, QueueType, OutputType, queues, output
      <3> QED
        BY <3>2, <3>3, <3>4
    <2> QED
      BY <1>2, <2>1, <2>2 DEF GrabNext
  <1>3. CASE Gate(a)
    <2>1. CASE LeaveA(a) /\ UNCHANGED <<queues, grabbed>>
      BY <1>3, <2>1, LeaveAType DEF Gate, QueueType, OutputType, queues, output
    <2>2. CASE /\ aShow' = [aShow EXCEPT ![a] = frozen]
               /\ GotoA(a, "emit")
               /\ UNCHANGED <<aSeq, aGen, aMgr, aOwn, inflight>>
      <3>1. frozen \in Seqs
        BY DEF OutputType
      <3>2. PrepareType'
        BY <2>2, <3>1 DEF GotoA, PrepareType, service
      <3> QED
        BY <1>0, <1>3, <2>2, <3>2, GotoAType DEF Gate, OutputType, output
    <2>3. ASSUME NEW where \in {"begin", "off"}, GotoA(a, where),
                 UNCHANGED <<aSeq, aGen, aMgr, aShow, aOwn, inflight>>
          PROVE  PipeTypeOK'
      <3>1. PrepareType'
        BY <2>3 DEF GotoA, PrepareType, service
      <3> QED
        BY <1>0, <1>3, <2>3, <3>1, GotoAType DEF Gate, OutputType, output
    <2> QED
      BY <1>3, <2>1, <2>2, <2>3 DEF Gate
  <1>4. CASE EmitOff(a)
    <2>1. aSeq[a] \in Seqs
      BY DEF PrepareType
    <2>2. PrepareType'
      BY <1>4, <2>1 DEF EmitOff, GotoA, PrepareType, service
    <2> QED
      BY <1>0, <1>4, <2>1, <2>2, GotoAType DEF EmitOff, OutputType
  <1>5. CASE EmitFrame(a)
    <2>1. aSeq[a] \in Seqs /\ aShow[a] \in Seqs
      BY DEF PrepareType
    <2>2. published' \in Seqs /\ shown' \in Seqs
      BY <1>5, <2>1, PublishType DEF EmitFrame
    <2> QED
      BY <1>5, <2>2, LeaveAType DEF EmitFrame, QueueType, OutputType, queues
  <1>6. CASE BeginInflight(a)
    <2>1. PrepareType'
      BY <1>6 DEF BeginInflight, GotoA, PrepareType, service
    <2> QED
      BY <1>0, <1>6, <2>1, GotoAType DEF BeginInflight, OutputType, output
  <1>7. CASE StampGeneration(a)
    <2>1. PrepareType'
      BY <1>0, <1>7 DEF StampGeneration, GotoA, PrepareType, service
    <2> QED
      BY <1>0, <1>7, <2>1, GotoAType DEF StampGeneration, OutputType, output
  <1>8. CASE BindRuntime(a)
    <2>1. PrepareType'
      BY <1>0, <1>8 DEF BindRuntime, GotoA, PrepareType, service
    <2> QED
      BY <1>0, <1>8, <2>1, GotoAType DEF BindRuntime, OutputType, output
  <1>9. CASE CheckReady(a)
    <2>1. PrepareType'
      BY <1>9 DEF CheckReady, GotoA, PrepareType, service
    <2> QED
      BY <1>0, <1>9, <2>1, GotoAType DEF CheckReady, OutputType, output
  <1>10. CASE PutInfer(a)
    <2>1. CASE LeaveA(a) /\ UNCHANGED qInfer
      BY <1>10, <2>1, LeaveAType DEF PutInfer, QueueType, OutputType, output
    <2>2. CASE ~(LeaveA(a) /\ UNCHANGED qInfer)
      <3> DEFINE item == [seq |-> aSeq[a], gen |-> aGen[a], mgr |-> aMgr[a]]
      <3>1. item \in Items
        BY <1>0 DEF Items, PrepareType
      <3>2. qInfer' = Append(qInfer, item)
        BY <1>10, <2>2 DEF PutInfer
      <3> HIDE DEF item
      <3>3. qInfer' \in Seq(Items) /\ Len(qInfer') = Len(qInfer) + 1
        BY <3>1, <3>2 DEF QueueType
      <3>4. Depth \in Nat
        BY FS_CardinalityType DEF Depth
      <3>5. QueueType'
        BY <1>10, <2>2, <3>3, <3>4 DEF PutInfer, Room, QueueType
      <3>6. PrepareType'
        <4>1. 0 \in Seqs /\ 0 \in 0..gen /\ None \in Loaded /\ gen' = gen
          BY <1>0, <1>10, <2>2 DEF PutInfer, Loaded, Seqs, service
        <4> QED
          BY <1>10, <2>2, <4>1 DEF PutInfer, PrepareType
      <3>7. ServiceType' /\ InferType' /\ FinishType' /\ EncodeType'
        BY <1>10, <2>2 DEF PutInfer, ServiceType, InferType, FinishType, EncodeType, service, workers,
                           gate, bVars, cVars, dVars
      <3>8. OutputType'
        BY <1>10 DEF PutInfer, OutputType, output
      <3> QED
        BY <3>5, <3>6, <3>7, <3>8
    <2> QED
      BY <1>10, <2>1, <2>2 DEF PutInfer
  <1> QED
    BY <1>1, <1>2, <1>3, <1>4, <1>5, <1>6, <1>7, <1>8, <1>9, <1>10 DEF StageA

-----------------------------------------------------------------------------
(* What stages B, C and D have in common: the lanes of A stay as they are. *)
LEMMA AfterAType ==
  ASSUME PipeTypeOK, UNCHANGED afterA, inflight' \in Nat
  PROVE  ServiceType' /\ PrepareType' /\ OutputType'
  BY DEF PipeTypeOK, afterA, ServiceType, PrepareType, OutputType, service, workers, aVars, output

LEMMA IdleBType ==
  ASSUME PipeTypeOK, NEW b \in Lanes, IdleB(b)
  PROVE  InferType'
  <1>1. NoItem \in Items /\ None \in Loaded
    BY PipelineAssumption DEF NoItem, Items, Seqs, Loaded
  <1> QED
    BY <1>1 DEF PipeTypeOK, IdleB, InferType, NoItem, Items, Seqs, Loaded

(* Taking the head of a queue.                                             *)
LEMMA TailType ==
  ASSUME NEW S, NEW q \in Seq(S), q # <<>>
  PROVE  Head(q) \in S /\ Tail(q) \in Seq(S) /\ Len(Tail(q)) = Len(q) - 1 /\ Len(q) \in Nat \ {0}
  OBVIOUS

LEMMA AppendType ==
  ASSUME NEW S, NEW q \in Seq(S), NEW x \in S, Room(q)
  PROVE  Append(q, x) \in Seq(S) /\ Len(Append(q, x)) = Len(q) + 1 /\ Len(q) + 1 <= Depth
  <1>1. Depth \in Nat
    BY FS_CardinalityType, PipelineAssumption DEF Depth
  <1> QED
    BY <1>1 DEF Room

LEMMA StageBTypeStep ==
  ASSUME PipeTypeOK, NEW b \in Lanes, StageB(b)
  PROVE  PipeTypeOK'
  <1> USE DEF PipeTypeOK
  <1>0. inflight \in Nat /\ Depth \in Nat
    BY FS_CardinalityType, PipelineAssumption DEF ServiceType, Depth
  <1>1. CASE TakeInfer(b)
    <2>1. Head(qInfer) \in Items /\ Tail(qInfer) \in Seq(Items) /\ Len(Tail(qInfer)) <= Depth
      BY <1>0, <1>1, TailType DEF TakeInfer, QueueType
    <2>2. QueueType'
      BY <1>1, <2>1 DEF TakeInfer, QueueType
    <2>3. InferType'
      BY <1>1, <2>1 DEF TakeInfer, InferType
    <2>4. FinishType' /\ EncodeType'
      BY <1>1 DEF TakeInfer, FinishType, EncodeType, cVars, dVars
    <2> QED
      BY <1>0, <1>1, <2>2, <2>3, <2>4, AfterAType DEF TakeInfer
  <1>2. CASE CheckInfer(b)
    <2>1. FinishType' /\ EncodeType' /\ UNCHANGED afterA
      BY <1>2 DEF CheckInfer, FinishType, EncodeType, cVars, dVars
    <2>2. CASE DropB(b)
      <3>1. inflight' \in Nat
        BY <1>0, <2>2, EndInflightType DEF DropB
      <3>2. QueueType'
        BY <2>2 DEF DropB, QueueType, queues
      <3> QED
        BY <2>1, <2>2, <3>1, <3>2, IdleBType, AfterAType DEF DropB
    <2>3. CASE bPc' = [bPc EXCEPT ![b] = "infer"] /\ UNCHANGED <<inflight, queues, bItem, bUsed>>
      <3>1. InferType' /\ QueueType'
        BY <2>3 DEF InferType, QueueType, queues
      <3> QED
        BY <1>0, <2>1, <2>3, <3>1, AfterAType
    <2> QED
      BY <1>2, <2>2, <2>3 DEF CheckInfer
  <1>3. CASE RunInference(b)
    <2>1. engine' \in Loaded
      BY <1>3 DEF RunInference, ServiceType
    <2>2. ServiceType'
      BY <1>3, <2>1 DEF RunInference, ServiceType, service
    <2>3. InferType'
      BY <1>3, <2>1 DEF RunInference, InferType
    <2>4. PrepareType' /\ FinishType' /\ EncodeType' /\ QueueType' /\ OutputType'
      BY <1>3 DEF RunInference, PrepareType, FinishType, EncodeType, QueueType, OutputType, service,
                  aVars, cVars, dVars, queues, output
    <2> QED
      BY <2>2, <2>3, <2>4
  <1>4. CASE PutFinish(b)
    <2>1. FinishType' /\ EncodeType' /\ UNCHANGED afterA
      BY <1>4 DEF PutFinish, FinishType, EncodeType, cVars, dVars
    <2>2. CASE DropB(b)
      <3>1. inflight' \in Nat
        BY <1>0, <2>2, EndInflightType DEF DropB
      <3>2. QueueType'
        BY <2>2 DEF DropB, QueueType, queues
      <3> QED
        BY <2>1, <2>2, <3>1, <3>2, IdleBType, AfterAType DEF DropB
    <2>3. CASE ~DropB(b)
      <3>1. bItem[b] \in Items
        BY DEF InferType
      <3>2. Room(qFinish) /\ qFinish' = Append(qFinish, bItem[b]) /\ UNCHANGED <<qInfer, qEncode>>
        BY <1>4, <2>3 DEF PutFinish
      <3>3. qFinish \in Seq(Items)
        BY DEF QueueType
      <3>4. QueueType'
        BY <3>1, <3>2, <3>3, AppendType DEF QueueType
      <3> QED
        BY <1>0, <1>4, <2>1, <2>3, <3>4, IdleBType, AfterAType DEF PutFinish
    <2> QED
      BY <2>2, <2>3
  <1> QED
    BY <1>1, <1>2, <1>3, <1>4 DEF StageB

(* Stage C leaves the lanes of A and B as they are.                        *)
LEMMA AfterBType ==
  ASSUME PipeTypeOK, UNCHANGED afterB, inflight' \in Nat, runStats' \in BOOLEAN
  PROVE  ServiceType' /\ PrepareType' /\ InferType' /\ EncodeType' /\ OutputType'
  BY DEF PipeTypeOK, afterB, ServiceType, PrepareType, InferType, EncodeType, OutputType, service,
         workers, aVars, bVars, dVars, output

LEMMA LeaveCType ==
  ASSUME PipeTypeOK, LeaveC
  PROVE  FinishType' /\ inflight' \in Nat
  BY EndInflightType, PipelineAssumption
     DEF PipeTypeOK, ServiceType, LeaveC, FinishType, NoItem, Items, Seqs, Loaded

LEMMA StageCTypeStep ==
  ASSUME PipeTypeOK, StageC
  PROVE  PipeTypeOK'
  <1> USE DEF PipeTypeOK
  <1>0. inflight \in Nat /\ runStats \in BOOLEAN /\ mgr \in Loaded /\ Depth \in Nat
    BY FS_CardinalityType, PipelineAssumption DEF ServiceType, Depth
  <1>1. CASE TakeFinish
    <2>1. Head(qFinish) \in Items /\ Tail(qFinish) \in Seq(Items) /\ Len(Tail(qFinish)) <= Depth
      BY <1>0, <1>1, TailType DEF TakeFinish, QueueType
    <2>2. QueueType'
      BY <1>1, <2>1 DEF TakeFinish, QueueType, afterB
    <2>3. FinishType' /\ inflight' \in Nat
      BY <1>0, <1>1, <2>1, LeaveCType DEF TakeFinish, FinishType
    <2> QED
      BY <1>0, <1>1, <2>2, <2>3, AfterBType DEF TakeFinish
  <1>2. CASE CheckFinish
    <2>1. FinishType' /\ inflight' \in Nat
      BY <1>0, <1>2, LeaveCType DEF CheckFinish, FinishType
    <2>2. QueueType'
      BY <1>2 DEF CheckFinish, QueueType, afterB
    <2> QED
      BY <1>0, <1>2, <2>1, <2>2, AfterBType DEF CheckFinish
  <1>3. CASE Postprocess
    <2>1. FinishType' /\ QueueType'
      BY <1>0, <1>3 DEF Postprocess, FinishType, QueueType, afterB
    <2> QED
      BY <1>0, <1>3, <2>1, AfterBType DEF Postprocess
  <1>4. CASE ReadDraining
    <2>1. FinishType' /\ QueueType'
      BY <1>4 DEF ReadDraining, FinishType, QueueType, afterB
    <2> QED
      BY <1>0, <1>4, <2>1, AfterBType DEF ReadDraining
  <1>5. CASE UpdateStats
    <2>1. FinishType' /\ QueueType'
      BY <1>5 DEF UpdateStats, FinishType, QueueType, afterB
    <2> QED
      BY <1>0, <1>5, <2>1, AfterBType DEF UpdateStats
  <1>6. CASE PutEncode
    <2>1. cItem.seq \in Seqs
      BY DEF FinishType, Items
    <2>2. QueueType'
      BY <1>6, <2>1, AppendType DEF PutEncode, QueueType, afterB
    <2> QED
      BY <1>0, <1>6, <2>2, LeaveCType, AfterBType DEF PutEncode
  <1> QED
    BY <1>1, <1>2, <1>3, <1>4, <1>5, <1>6 DEF StageC

LEMMA StageDTypeStep ==
  ASSUME PipeTypeOK, StageD
  PROVE  PipeTypeOK'
  <1> USE DEF PipeTypeOK
  <1>0. Depth \in Nat /\ 0 \in Seqs
    BY FS_CardinalityType, PipelineAssumption DEF Depth, Seqs
  <1>1. UNCHANGED afterC
    BY DEF StageD, TakeEncode, FreezeEncoded, PublishEncoded, ReadDrainingEncoded, RecordTimings
  <1>2. PrepareType' /\ InferType' /\ FinishType'
    BY <1>1 DEF afterC, PrepareType, InferType, FinishType, service, aVars, bVars, cVars
  <1>7. ServiceType'
    <2>1. timings' \in BOOLEAN
      BY DEF ServiceType, StageD, TakeEncode, FreezeEncoded, PublishEncoded, ReadDrainingEncoded,
             RecordTimings
    <2> QED
      BY <1>1, <2>1 DEF afterC, ServiceType, service, workers, gate
  <1>3. CASE TakeEncode
    <2>1. Head(qEncode) \in Seqs /\ Tail(qEncode) \in Seq(Seqs) /\ Len(Tail(qEncode)) <= Depth
      BY <1>0, <1>3, TailType DEF TakeEncode, QueueType
    <2> QED
      BY <1>1, <1>2, <1>3, <1>7, <2>1 DEF TakeEncode, EncodeType, QueueType, OutputType, afterC, output
  <1>4. CASE FreezeEncoded
    BY <1>0, <1>1, <1>2, <1>4, <1>7 DEF FreezeEncoded, IdleD, EncodeType, QueueType, OutputType, afterC
  <1>5. CASE PublishEncoded
    <2>1. published' \in Seqs /\ shown' \in Seqs
      BY <1>5, PublishType DEF PublishEncoded, EncodeType
    <2> QED
      BY <1>0, <1>1, <1>2, <1>5, <1>7, <2>1 DEF PublishEncoded, EncodeType, QueueType, OutputType, afterC
  <1>6. CASE ReadDrainingEncoded \/ RecordTimings
    BY <1>0, <1>1, <1>2, <1>6, <1>7
       DEF ReadDrainingEncoded, RecordTimings, IdleD, EncodeType, QueueType, OutputType, afterC, output
  <1> QED
    BY <1>3, <1>4, <1>5, <1>6 DEF StageD

LEMMA PipeTypeStep == PipeTypeOK /\ PipeNext => PipeTypeOK'
  BY StageATypeStep, StageBTypeStep, StageCTypeStep, StageDTypeStep DEF PipeNext

-----------------------------------------------------------------------------
(* What a caller may change of the pipeline's variables.                   *)
ControlTouch ==
    /\ UNCHANGED stageVars
    /\ running' \in BOOLEAN /\ draining' \in BOOLEAN
    /\ runStats' \in BOOLEAN /\ timings' \in BOOLEAN /\ strays' \in BOOLEAN
    /\ mgr' \in Loaded /\ engine' \in Loaded /\ modelPath' \in Loaded
    /\ gen' \in Nat /\ gen' >= gen

LEMMA PipeTypeUnderTouch ==
  ASSUME PipeTypeOK, ControlTouch
  PROVE  PipeTypeOK'
  <1> USE DEF PipeTypeOK, ControlTouch, stageVars
  <1>1. ServiceType'
    BY DEF ServiceType
  <1>2. PrepareType'
    <2>1. gen \in Nat
      BY DEF ServiceType
    <2>2. 0..gen \subseteq 0..gen'
      BY <2>1
    <2>3. aGen' \in [Lanes -> 0..gen']
      BY <2>2 DEF PrepareType, aVars
    <2> QED
      BY <2>3 DEF PrepareType, aVars
  <1>3. InferType' /\ FinishType' /\ EncodeType' /\ QueueType' /\ OutputType'
    BY DEF InferType, FinishType, EncodeType, QueueType, OutputType, bVars, cVars, dVars, queues, output
  <1> QED
    BY <1>1, <1>2, <1>3

LEMMA StageVarsInPipe == UNCHANGED pipeVars => UNCHANGED stageVars
  BY DEF pipeVars, stageVars, gate

LEMMA UnloadTouch == PipeTypeOK /\ UnloadRuntime => ControlTouch
  BY DEF PipeTypeOK, ServiceType, UnloadRuntime, ControlTouch, workers, Loaded

(* ... which is little when no model is loaded and the generation stays.   *)
LEMMA SwitchTouch ==
  ASSUME PipeTypeOK, UNCHANGED <<stageVars, mgr, gen, workers>>,
         running' \in BOOLEAN, draining' \in BOOLEAN,
         runStats' \in BOOLEAN, timings' \in BOOLEAN, strays' \in BOOLEAN
  PROVE  ControlTouch
  <1>1. mgr' \in Loaded /\ engine' \in Loaded /\ modelPath' \in Loaded
    BY DEF PipeTypeOK, ServiceType, workers
  <1>2. gen' = gen /\ gen \in Nat
    BY DEF PipeTypeOK, ServiceType
  <1>3. gen' \in Nat /\ gen' >= gen
    BY <1>2
  <1> QED
    BY <1>1, <1>3 DEF ControlTouch

LEMMA CallerTouch ==
  ASSUME TypeOK, NEW c \in Callers, Request(c) \/ Step(c)
  PROVE  ControlTouch
  <1> USE DEF TypeOK
  <1>0. /\ PipeTypeOK /\ current \in Loaded /\ gen \in Nat
        /\ running \in BOOLEAN /\ draining \in BOOLEAN
        /\ runStats \in BOOLEAN /\ timings \in BOOLEAN /\ strays \in BOOLEAN
        /\ mgr \in Loaded /\ engine \in Loaded /\ modelPath \in Loaded
    BY DEF PipeTypeOK, ServiceType, ControlType
  <1>1. CASE UNCHANGED pipeVars
    BY <1>0, <1>1, StageVarsInPipe DEF ControlTouch, pipeVars, service, workers, gate
  <1>2. CASE Request(c) \/ TakeOpLock(c) \/ WaitDrained(c) \/ SelectModel(c) \/ RollBack(c) \/ GiveUp(c)
    BY <1>1, <1>2 DEF Request, TakeOpLock, WaitDrained, SelectModel, RollBack, GiveUp
  <1>3. CASE FlipRunning(c)
    BY <1>0, <1>3, SwitchTouch DEF FlipRunning
  <1>4. CASE CloseGate(c)
    BY <1>0, <1>4, SwitchTouch DEF CloseGate, service
  <1>5. CASE ResetRunStats(c)
    BY <1>0, <1>5, SwitchTouch DEF ResetRunStats, TimingsDue, service
  <1>6. CASE FreeWorkers(c)
    BY <1>0, <1>6 DEF FreeWorkers, ControlTouch, service, Loaded
  <1>7. CASE SwitchTask(c) \/ DropReleased(c)
    BY <1>0, <1>1, <1>7, UnloadTouch DEF SwitchTask, DropReleased
  <1>8. CASE LoadModel(c)
    BY <1>0, <1>8 DEF LoadModel, ControlTouch, service, workers
  <1>9. CASE InstallRuntime(c)
    BY <1>0, <1>9 DEF InstallRuntime, ControlTouch, workers
  <1>10. CASE BumpGeneration(c)
    BY <1>0, <1>10 DEF BumpGeneration, NextGeneration, ControlTouch, workers
  <1>11. CASE ResumePipeline(c)
    BY <1>0, <1>11, SwitchTouch DEF ResumePipeline, OpenPath, NoteStrays, TimingsDue, service
  <1>12. CASE StartRunning(c)
    BY <1>0, <1>12, SwitchTouch DEF StartRunning
  <1>13. CASE RunLoaded(c)
    BY <1>0, <1>13, SwitchTouch DEF RunLoaded
  <1>14. CASE ReopenPath(c)
    BY <1>0, <1>14, SwitchTouch DEF ReopenPath, OpenPath, NoteStrays, TimingsDue, service
  <1> QED
    BY <1>2, <1>3, <1>4, <1>5, <1>6, <1>7, <1>8, <1>9, <1>10, <1>11, <1>12, <1>13, <1>14
       DEF Step, Stop, Initialize, Start

(* The two ways in which an operation goes on.                             *)
LEMMA GotoType ==
  ASSUME CallType, NEW c \in Callers, NEW where \in Where, Goto(c, where)
  PROVE  pc' \in [Callers -> Where]
  BY DEF CallType, Goto

LEMMA FinishOpType ==
  ASSUME CallType, ControlType, NEW c \in Callers, Finish(c)
  PROVE  pc' \in [Callers -> Where] /\ opLock' \in Callers \cup {None}
  <1>1. "idle" \in Where
    BY DEF Where
  <1> QED
    BY <1>1, GotoType DEF Finish, ControlType

LEMMA StartAgainType ==
  ASSUME CallType, ControlType, NEW c \in Callers, StartAgain(c)
  PROVE  pc' \in [Callers -> Where] /\ opLock' \in Callers \cup {None}
  <1>1. "start" \in Where
    BY DEF Where
  <1> QED
    BY <1>1, GotoType, FinishOpType DEF StartAgain, ControlType

LEMMA CallerTypeStep ==
  ASSUME TypeOK, NEW c \in Callers, Request(c) \/ Step(c)
  PROVE  CallType' /\ ControlType'
  <1> USE ControlAssumption DEF TypeOK, Where
  <1>0. /\ None \in Loaded /\ mgr \in Loaded /\ running \in BOOLEAN
        /\ current \in Loaded /\ target[c] \in Loaded /\ prev[c] \in Loaded
    BY DEF PipeTypeOK, ServiceType, ControlType, CallType, Loaded
  <1>1. CASE Request(c)
    <2>1. PICK o \in Ops : op' = [op EXCEPT ![c] = o]
                           /\ Goto(c, IF o = "stop" THEN "flip" ELSE "lock")
      BY <1>1 DEF Request
    <2>2. o \in AllOps
      BY <2>1
    <2>3. pc' \in [Callers -> Where]
      BY <2>1, GotoType
    <2>4. op' \in [Callers -> AllOps]
      BY <2>1, <2>2 DEF CallType
    <2>5. nops' \in 0..MaxOps
      BY <1>1 DEF Request, ControlType
    <2> QED
      BY <1>1, <2>3, <2>4, <2>5 DEF Request, CallType, ControlType, lockVars
  <1>2. CASE TakeOpLock(c)
    <2>1. pc' \in [Callers -> Where] /\ opLock' \in Callers \cup {None}
      BY <1>2, GotoType, FinishOpType DEF TakeOpLock
    <2>2. released' \in BOOLEAN
      BY <1>2 DEF TakeOpLock, ControlType
    <2>3. target' \in [Callers -> Loaded] /\ prev' \in [Callers -> Loaded]
      BY <1>0, <1>2 DEF TakeOpLock, CallType, Loaded
    <2> QED
      BY <1>2, <2>1, <2>2, <2>3 DEF TakeOpLock, CallType, ControlType, bounds
  <1>3. CASE FlipRunning(c)
    <2>1. pc' \in [Callers -> Where]
      BY <1>3, GotoType DEF FlipRunning
    <2>2. was' \in [Callers -> BOOLEAN]
      BY <1>0, <1>3 DEF FlipRunning, CallType
    <2> QED
      BY <1>3, <2>1, <2>2 DEF FlipRunning, CallType, ControlType, lockVars, bounds
  <1>4. CASE CloseGate(c) \/ WaitDrained(c) \/ ResetRunStats(c)
    <2>1. pc' \in [Callers -> Where]
      BY <1>4, GotoType DEF CloseGate, WaitDrained, ResetRunStats
    <2> QED
      BY <1>4, <2>1 DEF CloseGate, WaitDrained, ResetRunStats, CallType, ControlType, lockVars, bounds
  <1>5. CASE SelectModel(c)
    <2>1. pc' \in [Callers -> Where] /\ opLock' \in Callers \cup {None}
      BY <1>5, GotoType, StartAgainType DEF SelectModel, ControlType
    <2>2. current' \in Loaded
      BY <1>0, <1>5 DEF SelectModel
    <2> QED
      BY <1>5, <2>1, <2>2 DEF SelectModel, CallType, ControlType, bounds
  <1>6. CASE FreeWorkers(c)
    BY <1>6, FinishOpType DEF FreeWorkers, CallType, ControlType, bounds
  <1>7. CASE SwitchTask(c)
    <2>1. pc' \in [Callers -> Where] /\ opLock' \in Callers \cup {None}
      BY <1>7, FinishOpType, StartAgainType DEF SwitchTask
    <2>2. current' \in Loaded
      BY <1>0, <1>7 DEF SwitchTask
    <2> QED
      BY <1>7, <2>1, <2>2 DEF SwitchTask, CallType, ControlType, bounds
  <1>8. CASE DropReleased(c)
    <2>1. pc' \in [Callers -> Where]
      BY <1>8, GotoType DEF DropReleased
    <2> QED
      BY <1>8, <2>1 DEF DropReleased, CallType, ControlType, lockVars, bounds
  <1>9. CASE LoadModel(c)
    <2>1. pc' \in [Callers -> Where]
      BY <1>9, GotoType DEF LoadModel
    <2>2. nfail' \in 0..MaxFailures
      BY <1>9 DEF LoadModel, ControlType
    <2> QED
      BY <1>9, <2>1, <2>2 DEF LoadModel, CallType, ControlType, lockVars
  <1>10. CASE InstallRuntime(c) \/ BumpGeneration(c)
    <2>1. pc' \in [Callers -> Where]
      BY <1>10, GotoType DEF InstallRuntime, BumpGeneration
    <2> QED
      BY <1>10, <2>1 DEF InstallRuntime, BumpGeneration, CallType, ControlType, lockVars, bounds
  <1>11. CASE ResumePipeline(c)
    <2>1. pc' \in [Callers -> Where] /\ opLock' \in Callers \cup {None}
      BY <1>11, GotoType, StartAgainType DEF ResumePipeline, ControlType
    <2> QED
      BY <1>11, <2>1 DEF ResumePipeline, CallType, ControlType, bounds
  <1>12. CASE RollBack(c)
    <2>1. pc' \in [Callers -> Where]
      BY <1>12, GotoType DEF RollBack
    <2>2. target' \in [Callers -> Loaded] /\ current' \in Loaded
      BY <1>0, <1>12 DEF RollBack, CallType
    <2> QED
      BY <1>12, <2>1, <2>2 DEF RollBack, CallType, ControlType, lockVars, bounds
  <1>13. CASE GiveUp(c)
    BY <1>13, FinishOpType DEF GiveUp, CallType, ControlType, bounds
  <1>14. CASE StartRunning(c)
    <2>1. pc' \in [Callers -> Where] /\ opLock' \in Callers \cup {None}
      BY <1>14, GotoType, FinishOpType DEF StartRunning, ControlType, lockVars
    <2>2. detLock' \in Callers \cup {None} /\ released' \in BOOLEAN
      BY <1>14 DEF StartRunning, ControlType, lockVars
    <2> QED
      BY <1>14, <2>1, <2>2 DEF StartRunning, CallType, ControlType, bounds
  <1>15. CASE RunLoaded(c)
    <2>1. pc' \in [Callers -> Where]
      BY <1>15, GotoType DEF RunLoaded
    <2> QED
      BY <1>15, <2>1 DEF RunLoaded, CallType, ControlType, bounds
  <1>16. CASE ReopenPath(c)
    <2>1. released' \in BOOLEAN
      BY <1>16 DEF ReopenPath
    <2> QED
      BY <1>16, <2>1, FinishOpType DEF ReopenPath, CallType, ControlType, bounds
  <1> QED
    BY <1>1, <1>2, <1>3, <1>4, <1>5, <1>6, <1>7, <1>8, <1>9, <1>10, <1>11, <1>12, <1>13, <1>14,
       <1>15, <1>16
       DEF Step, Stop, Initialize, Start

LEMMA StutterType == TypeOK /\ UNCHANGED vars => TypeOK'
  BY DEF TypeOK, PipeTypeOK, ServiceType, PrepareType, InferType, FinishType, EncodeType, QueueType,
         OutputType, CallType, ControlType, vars, pipeVars, service, workers, gate, aVars, bVars,
         cVars, dVars, queues, output, callVars, lockVars, bounds

LEMMA TypeInit == Init => TypeOK
  <1> SUFFICES ASSUME Init PROVE TypeOK
    OBVIOUS
  <1>1. PipeTypeOK
    BY PipeTypeInit DEF Init
  <1>2. CallType /\ ControlType
    <2>1. current \in Loaded
      BY <1>1 DEF Init, PipeTypeOK, ServiceType
    <2>2. CallType
      BY DEF Init, CallType, Where, AllOps, Loaded
    <2>3. 0 \in 0..MaxOps /\ 0 \in 0..MaxFailures
      BY ControlAssumption
    <2>4. ControlType
      BY <2>1, <2>3 DEF Init, ControlType
    <2> QED
      BY <2>2, <2>4
  <1> QED
    BY <1>1, <1>2 DEF TypeOK

LEMMA TypeStep == TypeOK /\ [Next]_vars => TypeOK'
  <1> SUFFICES ASSUME TypeOK, [Next]_vars PROVE TypeOK'
    OBVIOUS
  <1>1. CASE PipeNext /\ UNCHANGED control
    <2>1. CallType' /\ ControlType'
      BY <1>1 DEF TypeOK, CallType, ControlType, control, callVars, lockVars, bounds
    <2> QED
      BY <1>1, <2>1, PipeTypeStep DEF TypeOK
  <1>2. CASE \E c \in Callers : Request(c) \/ Step(c)
    BY <1>2, CallerTouch, PipeTypeUnderTouch, CallerTypeStep DEF TypeOK
  <1> QED
    BY <1>1, <1>2, StutterType DEF Next

(* Type correctness of the pipeline and of everybody who controls it.      *)
THEOREM TypeCorrect == Spec => []TypeOK
  BY TypeInit, TypeStep, PTL DEF Spec

-----------------------------------------------------------------------------
(* The in-flight count.                                                    *)

Owners == {a \in Lanes : aOwn[a]}
Busy   == {b \in Lanes : bPc[b] # "idle"}
Final  == IF cPc = "idle" THEN 0 ELSE 1

(* A lane owns a count from _begin_inflight until it hands its frame on or *)
(* gives up; only a lane that shows the overlay may have either.           *)
OwnInv ==
    \A a \in Lanes :
        /\ aPc[a] \in {"stamp", "bind", "check", "put"} => aOwn[a]
        /\ aPc[a] \in {"idle", "grab", "gate", "begin"} => ~aOwn[a]

LEMMA CountParts ==
  ASSUME PipeTypeOK
  PROVE  /\ InFlight = Cardinality(Owners) + Len(qInfer) + Cardinality(Busy) + Len(qFinish) + Final
         /\ IsFiniteSet(Owners) /\ IsFiniteSet(Busy)
         /\ Cardinality(Owners) \in Nat /\ Cardinality(Busy) \in Nat
         /\ Len(qInfer) \in Nat /\ Len(qFinish) \in Nat /\ Final \in Nat
  <1>1. Owners \subseteq Lanes /\ Busy \subseteq Lanes
    BY DEF Owners, Busy
  <1>2. IsFiniteSet(Owners) /\ IsFiniteSet(Busy)
    BY <1>1, FS_Subset, PipelineAssumption
  <1>3. Cardinality(Owners) \in Nat /\ Cardinality(Busy) \in Nat
    BY <1>2, FS_CardinalityType
  <1>4. Len(qInfer) \in Nat /\ Len(qFinish) \in Nat
    BY DEF PipeTypeOK, QueueType
  <1>5. Final \in Nat
    BY DEF Final
  <1> QED
    BY <1>2, <1>3, <1>4, <1>5 DEF InFlight, Owners, Busy, Final

LEMMA CountPartsNext ==
  InFlight' = Cardinality(Owners') + Len(qInfer') + Cardinality(Busy') + Len(qFinish') + Final'
  BY DEF InFlight, Owners, Busy, Final

(* Nothing that counts has moved.                                          *)
LEMMA SameCount ==
  ASSUME InflightExact, UNCHANGED <<aOwn, bPc, cPc, inflight>>,
         Len(qInfer') = Len(qInfer), Len(qFinish') = Len(qFinish)
  PROVE  InflightExact'
  BY DEF InflightExact, InFlight

(* One frame more held by a lane, and one less.                            *)
LEMMA OwnersGrow ==
  ASSUME PipeTypeOK, NEW a \in Lanes, ~aOwn[a], aOwn' = [aOwn EXCEPT ![a] = TRUE]
  PROVE  Cardinality(Owners') = Cardinality(Owners) + 1
  <1>1. Owners' = Owners \cup {a} /\ a \notin Owners
    BY DEF Owners, PipeTypeOK, PrepareType
  <1> QED
    BY <1>1, CountParts, FS_AddElement

LEMMA OwnersShrink ==
  ASSUME PipeTypeOK, NEW a \in Lanes, aOwn[a], aOwn' = [aOwn EXCEPT ![a] = FALSE]
  PROVE  Cardinality(Owners') = Cardinality(Owners) - 1 /\ Cardinality(Owners) > 0
  <1>1. Owners' = Owners \ {a} /\ a \in Owners
    BY DEF Owners, PipeTypeOK, PrepareType
  <1>2. Owners # {}
    BY <1>1
  <1>3. IsFiniteSet(Owners) /\ Cardinality(Owners) \in Nat
    BY CountParts
  <1>4. Cardinality(Owners) # 0
    BY <1>2, <1>3, FS_EmptySet
  <1>5. Cardinality(Owners') = Cardinality(Owners) - 1
    BY <1>1, <1>3, FS_RemoveElement
  <1> QED
    BY <1>3, <1>4, <1>5

LEMMA BusyGrow ==
  ASSUME PipeTypeOK, NEW b \in Lanes, bPc[b] = "idle", NEW where, where # "idle",
         bPc' = [bPc EXCEPT ![b] = where]
  PROVE  Cardinality(Busy') = Cardinality(Busy) + 1
  <1>1. Busy' = Busy \cup {b} /\ b \notin Busy
    BY DEF Busy, PipeTypeOK, InferType
  <1> QED
    BY <1>1, CountParts, FS_AddElement

LEMMA BusyShrink ==
  ASSUME PipeTypeOK, NEW b \in Lanes, bPc[b] # "idle", bPc' = [bPc EXCEPT ![b] = "idle"]
  PROVE  Cardinality(Busy') = Cardinality(Busy) - 1 /\ Cardinality(Busy) > 0
  <1>1. Busy' = Busy \ {b} /\ b \in Busy
    BY DEF Busy, PipeTypeOK, InferType
  <1>2. Busy # {}
    BY <1>1
  <1>3. IsFiniteSet(Busy) /\ Cardinality(Busy) \in Nat
    BY CountParts
  <1>4. Cardinality(Busy) # 0
    BY <1>2, <1>3, FS_EmptySet
  <1>5. Cardinality(Busy') = Cardinality(Busy) - 1
    BY <1>1, <1>3, FS_RemoveElement
  <1> QED
    BY <1>3, <1>4, <1>5

LEMMA LeaveACount ==
  ASSUME PipeTypeOK, PipeTypeOK', InflightExact, NEW a \in Lanes, LeaveA(a),
         UNCHANGED <<qInfer, qFinish>>
  PROVE  InflightExact'
  <1>1. Busy' = Busy /\ Final' = Final
    BY DEF LeaveA, Busy, Final, bVars, cVars
  <1>2. CASE aOwn[a]
    <2>1. Cardinality(Owners') = Cardinality(Owners) - 1 /\ Cardinality(Owners) > 0
      BY <1>2, OwnersShrink DEF LeaveA
    <2>2. inflight' = IF inflight = 0 THEN 0 ELSE inflight - 1
      BY <1>2 DEF LeaveA, EndInflight
    <2> QED
      BY <1>1, <2>1, <2>2, CountParts, CountPartsNext DEF InflightExact
  <1>3. CASE ~aOwn[a]
    <2>1. aOwn' = aOwn /\ inflight' = inflight
      BY <1>3 DEF LeaveA, PipeTypeOK, PrepareType
    <2> QED
      BY <2>1, SameCount DEF LeaveA, bVars, cVars
  <1> QED
    BY <1>2, <1>3

LEMMA StageACount ==
  ASSUME PipeTypeOK, PipeTypeOK', OwnInv, InflightExact, NEW a \in Lanes, StageA(a)
  PROVE  InflightExact'
  <1>1. CASE LeaveA(a) /\ UNCHANGED queues
    BY <1>1, LeaveACount DEF queues
  <1>2. CASE UNCHANGED <<aOwn, inflight, queues>> /\ UNCHANGED <<bVars, cVars>>
    BY <1>2, SameCount DEF queues, bVars, cVars
  <1>3. CASE BeginInflight(a)
    <2>1. ~aOwn[a]
      BY <1>3 DEF BeginInflight, OwnInv
    <2>2. Cardinality(Owners') = Cardinality(Owners) + 1
      BY <1>3, <2>1, OwnersGrow DEF BeginInflight
    <2>3. Busy' = Busy /\ Final' = Final /\ UNCHANGED <<qInfer, qFinish>>
      BY <1>3 DEF BeginInflight, GotoA, Busy, Final, bVars, cVars, queues
    <2> QED
      BY <1>3, <2>2, <2>3, CountParts, CountPartsNext DEF BeginInflight, InflightExact
  <1>4. CASE PutInfer(a)
    <2>1. CASE LeaveA(a) /\ UNCHANGED qInfer
      BY <1>4, <2>1, LeaveACount DEF PutInfer
    <2>2. CASE ~(LeaveA(a) /\ UNCHANGED qInfer)
      <3>1. aOwn[a]
        BY <1>4 DEF PutInfer, OwnInv
      <3>2. Cardinality(Owners') = Cardinality(Owners) - 1 /\ Cardinality(Owners) > 0
        BY <1>4, <2>2, <3>1, OwnersShrink DEF PutInfer
      <3>3. Len(qInfer') = Len(qInfer) + 1 /\ qFinish' = qFinish
        BY <1>4, <2>2 DEF PutInfer, PipeTypeOK, QueueType
      <3>4. Busy' = Busy /\ Final' = Final /\ inflight' = inflight
        BY <1>4, <2>2 DEF PutInfer, Busy, Final, bVars, cVars, gate
      <3> QED
        BY <3>2, <3>3, <3>4, CountParts, CountPartsNext DEF InflightExact
    <2> QED
      BY <2>1, <2>2
  <1> QED
    BY <1>1, <1>2, <1>3, <1>4
       DEF StageA, WaitActive, GrabNext, Gate, EmitOff, EmitFrame, StampGeneration, BindRuntime,
           CheckReady, GotoA, gate

LEMMA StageAOwn ==
  ASSUME PipeTypeOK, OwnInv, NEW a \in Lanes, StageA(a)
  PROVE  OwnInv'
  <1> USE DEF PipeTypeOK, PrepareType, OwnInv
  <1>1. CASE LeaveA(a)
    BY <1>1 DEF LeaveA
  <1>2. CASE WaitActive(a) \/ GrabNext(a)
    BY <1>1, <1>2 DEF WaitActive, GrabNext, GotoA
  <1>3. CASE Gate(a)
    BY <1>1, <1>3 DEF Gate, GotoA
  <1>4. CASE EmitOff(a) \/ EmitFrame(a)
    BY <1>1, <1>4 DEF EmitOff, EmitFrame, GotoA
  <1>5. CASE BeginInflight(a)
    BY <1>5 DEF BeginInflight, GotoA
  <1>6. CASE StampGeneration(a) \/ BindRuntime(a)
    BY <1>6 DEF StampGeneration, BindRuntime, GotoA
  <1>7. CASE CheckReady(a)
    BY <1>7 DEF CheckReady, GotoA
  <1>8. CASE PutInfer(a)
    BY <1>1, <1>8 DEF PutInfer
  <1> QED
    BY <1>2, <1>3, <1>4, <1>5, <1>6, <1>7, <1>8 DEF StageA

LEMMA DropBCount ==
  ASSUME PipeTypeOK, PipeTypeOK', InflightExact, NEW b \in Lanes, DropB(b), bPc[b] # "idle",
         UNCHANGED <<aOwn, cPc>>
  PROVE  InflightExact'
  <1>1. Cardinality(Busy') = Cardinality(Busy) - 1 /\ Cardinality(Busy) > 0
    BY BusyShrink DEF DropB, IdleB
  <1>2. inflight' = IF inflight = 0 THEN 0 ELSE inflight - 1
    BY DEF DropB, EndInflight
  <1>3. Owners' = Owners /\ Final' = Final /\ UNCHANGED <<qInfer, qFinish>>
    BY DEF Owners, Final, DropB, queues
  <1> QED
    BY <1>1, <1>2, <1>3, CountParts, CountPartsNext DEF InflightExact

LEMMA StageBCount ==
  ASSUME PipeTypeOK, PipeTypeOK', InflightExact, NEW b \in Lanes, StageB(b)
  PROVE  InflightExact'
  <1>1. UNCHANGED <<aOwn, cPc>> /\ Owners' = Owners /\ Final' = Final
    BY DEF StageB, TakeInfer, CheckInfer, RunInference, PutFinish, afterA, aVars, cVars, Owners, Final
  <1>2. CASE TakeInfer(b)
    <2>1. Cardinality(Busy') = Cardinality(Busy) + 1
      BY <1>2, BusyGrow DEF TakeInfer
    <2>2. Len(qInfer') = Len(qInfer) - 1 /\ qFinish' = qFinish /\ inflight' = inflight
      BY <1>2, TailType DEF TakeInfer, PipeTypeOK, QueueType
    <2> QED
      BY <1>1, <2>1, <2>2, CountParts, CountPartsNext DEF InflightExact
  <1>3. CASE DropB(b) /\ bPc[b] # "idle"
    BY <1>1, <1>3, DropBCount
  <1>4. CASE CheckInfer(b) /\ ~DropB(b)
    <2>1. Busy' = Busy /\ UNCHANGED <<inflight, qInfer, qFinish>>
      BY <1>4 DEF CheckInfer, Busy, PipeTypeOK, InferType, queues
    <2> QED
      BY <1>1, <2>1, CountParts, CountPartsNext DEF InflightExact
  <1>5. CASE RunInference(b)
    <2>1. Busy' = Busy /\ UNCHANGED <<inflight, qInfer, qFinish>>
      BY <1>5 DEF RunInference, Busy, PipeTypeOK, InferType, queues
    <2> QED
      BY <1>1, <2>1, CountParts, CountPartsNext DEF InflightExact
  <1>6. CASE PutFinish(b) /\ ~DropB(b)
    <2>1. Cardinality(Busy') = Cardinality(Busy) - 1 /\ Cardinality(Busy) > 0
      BY <1>6, BusyShrink DEF PutFinish, IdleB
    <2>2. Len(qFinish') = Len(qFinish) + 1 /\ UNCHANGED <<qInfer, inflight>>
      BY <1>6 DEF PutFinish, PipeTypeOK, QueueType, InferType
    <2>3. Len(qInfer') = Len(qInfer) /\ inflight = InFlight
      BY <2>2 DEF InflightExact
    <2>4. InFlight' = Cardinality(Owners) + Len(qInfer) + (Cardinality(Busy) - 1)
                        + (Len(qFinish) + 1) + Final
      BY <1>1, <2>1, <2>2, <2>3, CountPartsNext
    <2>5. InFlight' = InFlight
      BY <2>4, CountParts
    <2> QED
      BY <2>2, <2>5 DEF InflightExact
  <1> QED
    BY <1>2, <1>3, <1>4, <1>5, <1>6 DEF StageB, CheckInfer, PutFinish

LEMMA StageCCount ==
  ASSUME PipeTypeOK, PipeTypeOK', InflightExact, StageC
  PROVE  InflightExact'
  <1>1. UNCHANGED <<aOwn, bPc, qInfer>> /\ Owners' = Owners /\ Busy' = Busy
    BY DEF StageC, TakeFinish, CheckFinish, Postprocess, ReadDraining, UpdateStats, PutEncode, afterB,
           aVars, bVars, Owners, Busy
  <1>2. CASE TakeFinish
    <2>1. Len(qFinish') = Len(qFinish) - 1 /\ Len(qFinish) > 0 /\ cPc = "idle"
      BY <1>2, TailType DEF TakeFinish, PipeTypeOK, QueueType
    <2>2. CASE LeaveC
      <3>1. Final' = Final /\ inflight' = IF inflight = 0 THEN 0 ELSE inflight - 1
        BY <2>1, <2>2 DEF LeaveC, EndInflight, Final
      <3> QED
        BY <1>1, <2>1, <3>1, CountParts, CountPartsNext DEF InflightExact
    <2>3. CASE cPc' = "check" /\ inflight' = inflight
      <3>1. Final' = Final + 1
        BY <2>1, <2>3 DEF Final
      <3> QED
        BY <1>1, <2>1, <2>3, <3>1, CountParts, CountPartsNext DEF InflightExact
    <2> QED
      BY <1>2, <2>2, <2>3 DEF TakeFinish
  <1>3. CASE LeaveC /\ cPc # "idle" /\ UNCHANGED qFinish
    <2>1. Final' = Final - 1 /\ Final = 1 /\ inflight' = IF inflight = 0 THEN 0 ELSE inflight - 1
      BY <1>3 DEF LeaveC, EndInflight, Final
    <2> QED
      BY <1>1, <1>3, <2>1, CountParts, CountPartsNext DEF InflightExact
  <1>4. CASE cPc # "idle" /\ cPc' # "idle" /\ UNCHANGED <<inflight, qFinish>>
    <2>1. Final' = Final
      BY <1>4 DEF Final
    <2> QED
      BY <1>1, <1>4, <2>1, CountParts, CountPartsNext DEF InflightExact
  <1> QED
    BY <1>2, <1>3, <1>4
       DEF StageC, CheckFinish, Postprocess, ReadDraining, UpdateStats, PutEncode

LEMMA StageDCount ==
  ASSUME InflightExact, StageD
  PROVE  InflightExact'
  <1>1. UNCHANGED afterC
    BY DEF StageD, TakeEncode, FreezeEncoded, PublishEncoded, ReadDrainingEncoded, RecordTimings
  <1> QED
    BY <1>1, SameCount DEF afterC, gate, aVars, bVars, cVars

(* Who does not touch the lanes does not touch what they own.              *)
LEMMA SameOwn == OwnInv /\ UNCHANGED aVars => OwnInv'
  BY DEF OwnInv, aVars

CountInv == TypeOK /\ OwnInv /\ InflightExact

LEMMA CountInit == Init => CountInv
  <1> SUFFICES ASSUME Init PROVE CountInv
    OBVIOUS
  <1>1. TypeOK
    BY TypeInit
  <1>2. OwnInv
    BY DEF Init, PipeInit, OwnInv
  <1>3. Owners = {} /\ Busy = {} /\ Final = 0 /\ Len(qInfer) = 0 /\ Len(qFinish) = 0 /\ inflight = 0
    BY DEF Init, PipeInit, Owners, Busy, Final
  <1>4. InflightExact
    BY <1>1, <1>3, CountParts, FS_EmptySet DEF TypeOK, InflightExact
  <1> QED
    BY <1>1, <1>2, <1>4 DEF CountInv

LEMMA CountStep == CountInv /\ [Next]_vars => CountInv'
  <1> SUFFICES ASSUME CountInv, [Next]_vars PROVE CountInv'
    OBVIOUS
  <1> USE DEF CountInv
  <1>1. TypeOK' /\ PipeTypeOK /\ PipeTypeOK'
    <2>1. TypeOK'
      BY TypeStep
    <2> QED
      BY <2>1 DEF TypeOK
  <1>2. ASSUME NEW a \in Lanes, StageA(a) PROVE CountInv'
    BY <1>1, <1>2, StageACount, StageAOwn
  <1>3. ASSUME NEW b \in Lanes, StageB(b) PROVE CountInv'
    <2>1. UNCHANGED aVars
      BY <1>3 DEF StageB, TakeInfer, CheckInfer, RunInference, PutFinish, afterA
    <2> QED
      BY <1>1, <1>3, <2>1, StageBCount, SameOwn
  <1>4. CASE StageC \/ StageD
    <2>1. UNCHANGED aVars
      BY <1>4 DEF StageC, TakeFinish, CheckFinish, Postprocess, ReadDraining, UpdateStats, PutEncode,
                  StageD, TakeEncode, FreezeEncoded, PublishEncoded, ReadDrainingEncoded, RecordTimings,
                  afterB, afterC
    <2> QED
      BY <1>1, <1>4, <2>1, StageCCount, StageDCount, SameOwn
  <1>5. ASSUME UNCHANGED stageVars PROVE CountInv'
    BY <1>1, <1>5, SameCount, SameOwn DEF stageVars, aVars, bVars, cVars, queues
  <1>6. ASSUME NEW c \in Callers, Request(c) \/ Step(c) PROVE CountInv'
    BY <1>5, <1>6, CallerTouch DEF ControlTouch
  <1>7. CASE UNCHANGED vars
    BY <1>5, <1>7, StageVarsInPipe DEF vars
  <1> QED
    BY <1>2, <1>3, <1>4, <1>6, <1>7 DEF Next, PipeNext

(* The in-flight count is exact, with any number of lanes, callers and     *)
(* operations: no stage forgets to release its count or releases it twice. *)
THEOREM CountExact == Spec => []InflightExact
  <1>1. CountInv => InflightExact
    BY DEF CountInv
  <1> QED
    BY <1>1, CountInit, CountStep, PTL DEF Spec

-----------------------------------------------------------------------------
(* The detection path when nothing is on it: every queue empty, B and C at *)
(* rest, no lane about to hand a frame on.                                 *)
Calm ==
    /\ qInfer = <<>> /\ qFinish = <<>> /\ cPc = "idle"
    /\ \A l \in Lanes : bPc[l] = "idle" /\ aPc[l] # "put"

Resting == ~running /\ Calm

(* What drain waits for: an exact count of zero is an empty path.          *)
LEMMA ZeroIsCalm == CountInv /\ inflight = 0 => Calm
  <1> SUFFICES ASSUME CountInv, inflight = 0 PROVE Calm
    OBVIOUS
  <1>1. PipeTypeOK /\ OwnInv
    BY DEF CountInv, TypeOK
  <1>2. Cardinality(Owners) = 0 /\ Len(qInfer) = 0 /\ Cardinality(Busy) = 0 /\ Len(qFinish) = 0 /\ Final = 0
    BY <1>1, CountParts DEF CountInv, InflightExact
  <1>3. Owners = {} /\ Busy = {}
    BY <1>1, <1>2, CountParts, FS_EmptySet
  <1>4. qInfer = <<>> /\ qFinish = <<>>
    BY <1>1, <1>2 DEF PipeTypeOK, QueueType
  <1> QED
    BY <1>1, <1>2, <1>3, <1>4 DEF Calm, Owners, Busy, Final, OwnInv

(* The stages alone never change who may run, nor what.                    *)
LEMMA PipeLeaves == PipeNext => UNCHANGED <<running, mgr, gen, modelPath, draining>>
  <1> SUFFICES ASSUME PipeNext PROVE UNCHANGED <<service, modelPath, draining>>
    BY DEF service
  <1>1. ASSUME NEW a \in Lanes, StageA(a) PROVE UNCHANGED <<service, modelPath, draining>>
    BY <1>1 DEF StageA, WaitActive, GrabNext, Gate, EmitOff, EmitFrame, BeginInflight, StampGeneration,
                BindRuntime, CheckReady, PutInfer, LeaveA, GotoA, workers, gate
  <1>2. ASSUME NEW b \in Lanes, StageB(b) PROVE UNCHANGED <<service, modelPath, draining>>
    BY <1>2 DEF StageB, TakeInfer, CheckInfer, RunInference, PutFinish, afterA, workers
  <1>3. CASE StageC \/ StageD
    BY <1>3 DEF StageC, TakeFinish, CheckFinish, Postprocess, ReadDraining, UpdateStats, PutEncode,
                StageD, TakeEncode, FreezeEncoded, PublishEncoded, ReadDrainingEncoded, RecordTimings,
                afterB, afterC, workers, gate
  <1> QED
    BY <1>1, <1>2, <1>3 DEF PipeNext

(* A path that is empty while detection is stopped stays empty: a lane     *)
(* that was let in is turned away by the check that follows, and nothing   *)
(* is left to fill the statistics.                                         *)
LEMMA StaysAtRest ==
  ASSUME PipeTypeOK, Resting, PipeNext
  PROVE  Resting' /\ runStats' = runStats
  <1> USE DEF Resting, Calm
  <1>1. ~running'
    BY PipeLeaves
  <1>2. ASSUME NEW a \in Lanes, StageA(a)
        PROVE  Calm' /\ runStats' = runStats
    <2>1. UNCHANGED <<qInfer, qFinish, bVars, cVars, runStats>>
      BY <1>2 DEF StageA, WaitActive, GrabNext, Gate, EmitOff, EmitFrame, BeginInflight, StampGeneration,
                  BindRuntime, CheckReady, PutInfer, LeaveA, GotoA, queues
    <2>2. ASSUME NEW l \in Lanes PROVE aPc'[l] # "put"
      BY <1>2 DEF StageA, WaitActive, GrabNext, Gate, EmitOff, EmitFrame, BeginInflight, StampGeneration,
                  BindRuntime, CheckReady, Ready, PutInfer, LeaveA, GotoA, PipeTypeOK, PrepareType
    <2> QED
      BY <2>1, <2>2 DEF bVars, cVars
  <1>3. ASSUME NEW b \in Lanes PROVE ~StageB(b)
    BY <1>3 DEF StageB, TakeInfer, CheckInfer, RunInference, PutFinish
  <1>4. ~StageC
    BY DEF StageC, TakeFinish, CheckFinish, Postprocess, ReadDraining, UpdateStats, PutEncode
  <1>5. CASE StageD
    <2>1. UNCHANGED <<running, runStats, aPc, bPc, cPc, qInfer, qFinish>>
      BY <1>5 DEF StageD, TakeEncode, FreezeEncoded, PublishEncoded, ReadDrainingEncoded, RecordTimings,
                  afterC, service, aVars, bVars, cVars
    <2> QED
      BY <2>1
  <1> QED
    BY <1>1, <1>2, <1>3, <1>4, <1>5 DEF PipeNext

LEMMA CallersLeaveCalm == Calm /\ UNCHANGED stageVars => Calm'
  BY DEF Calm, stageVars, aVars, bVars, cVars, queues

-----------------------------------------------------------------------------
(* Callers in a stop() that has not drained, or not reset the statistics.  *)
Closing == {c \in Callers : pc[c] \in {"close", "wait"}}
Ending  == {c \in Callers : pc[c] \in {"close", "wait", "reset"}}

(* What Stage D reports, or may yet, of a run that is over is accounted    *)
(* for.                                                                    *)
Accounted == (timings => strays) /\ (TimingsDue(~draining) => strays)

(* Detection that was stopped is being drained, or has been.               *)
Drained ==
    /\ running \/ Calm \/ Closing # {}
    /\ running \/ (Calm /\ ~runStats /\ Accounted) \/ Ending # {}

(* With nothing on the path no frame comes to D any more: it writes what   *)
(* it was known to have.                                                   *)
LEMMA StaysAccounted ==
  ASSUME PipeTypeOK, Calm, Accounted, PipeNext
  PROVE  Accounted'
  <1>1. draining' = draining
    BY PipeLeaves
  <1>2. ASSUME NEW a \in Lanes, StageA(a) PROVE Accounted'
    <2>1. UNCHANGED <<timings, strays, dVars, qEncode>>
      BY <1>2 DEF StageA, WaitActive, GrabNext, Gate, EmitOff, EmitFrame, BeginInflight, StampGeneration,
                  BindRuntime, CheckReady, PutInfer, LeaveA, GotoA, queues
    <2> QED
      BY <1>1, <2>1 DEF Accounted, TimingsDue, dVars
  <1>3. ~StageC /\ \A b \in Lanes : ~StageB(b)
    BY DEF Calm, StageB, TakeInfer, CheckInfer, RunInference, PutFinish,
           StageC, TakeFinish, CheckFinish, Postprocess, ReadDraining, UpdateStats, PutEncode
  <1>4. CASE StageD
    <2> USE DEF Accounted, TimingsDue
    <2>1. strays' = strays
      BY <1>4 DEF StageD, TakeEncode, FreezeEncoded, PublishEncoded, ReadDrainingEncoded, RecordTimings, afterC
    <2>2. CASE TakeEncode
      BY <1>1, <2>1, <2>2 DEF TakeEncode
    <2>3. CASE FreezeEncoded \/ PublishEncoded
      BY <1>1, <2>1, <2>3 DEF FreezeEncoded, PublishEncoded, IdleD
    <2>4. CASE ReadDrainingEncoded
      BY <1>1, <2>1, <2>4 DEF ReadDrainingEncoded, IdleD
    <2>5. CASE RecordTimings
      BY <1>1, <2>1, <2>5 DEF RecordTimings, IdleD
    <2> QED
      BY <1>4, <2>2, <2>3, <2>4, <2>5 DEF StageD
  <1> QED
    BY <1>2, <1>3, <1>4 DEF PipeNext

(* A caller is in its own operation: it moves no other caller, takes no    *)
(* lock from another and gives none to another.                            *)
LEMMA MovesAlone ==
  ASSUME TypeOK, NEW c \in Callers, Request(c) \/ Step(c), NEW d \in Callers, d # c
  PROVE  /\ pc'[d] = pc[d] /\ op'[d] = op[d] /\ was'[d] = was[d]
         /\ target'[d] = target[d] /\ prev'[d] = prev[d]
         /\ opLock' = d <=> opLock = d
  <1> USE ControlAssumption DEF TypeOK, CallType, ControlType, Goto, Finish, StartAgain
  <1>1. pc'[d] = pc[d]
    BY DEF Request, Step, TakeOpLock, Stop, FlipRunning, CloseGate, WaitDrained, ResetRunStats,
           SelectModel, FreeWorkers, SwitchTask, Initialize, LoadModel, InstallRuntime, BumpGeneration,
           ResumePipeline, RollBack, GiveUp, Start, DropReleased, StartRunning, RunLoaded, ReopenPath
  <1>2. op'[d] = op[d] /\ was'[d] = was[d] /\ target'[d] = target[d] /\ prev'[d] = prev[d]
    BY DEF Request, Step, TakeOpLock, Stop, FlipRunning, CloseGate, WaitDrained, ResetRunStats,
           SelectModel, FreeWorkers, SwitchTask, Initialize, LoadModel, InstallRuntime, BumpGeneration,
           ResumePipeline, RollBack, GiveUp, Start, DropReleased, StartRunning, RunLoaded, ReopenPath
  <1>3. opLock' = d <=> opLock = d
    <2>1. CASE UNCHANGED opLock \/ Finish(c)
      BY <2>1
    <2>2. CASE TakeOpLock(c)
      BY <2>2 DEF TakeOpLock, OpLockFree
    <2>3. CASE SelectModel(c) \/ SwitchTask(c) \/ ResumePipeline(c) \/ StartRunning(c)
      BY <2>1, <2>3 DEF SelectModel, SwitchTask, ResumePipeline, StartRunning, lockVars
    <2> QED
      BY <2>1, <2>2, <2>3
         DEF Request, Step, Stop, FlipRunning, CloseGate, WaitDrained, ResetRunStats, FreeWorkers,
             Initialize, LoadModel, InstallRuntime, BumpGeneration, RollBack, GiveUp, Start,
             DropReleased, RunLoaded, ReopenPath, lockVars
  <1> QED
    BY <1>1, <1>2, <1>3

(* Outside stop(), a caller neither stops detection nor touches the        *)
(* statistics.                                                             *)
LEMMA NotStopping ==
  ASSUME TypeOK, NEW c \in Callers, Request(c) \/ Step(c), ~Stop(c)
  PROVE  /\ running' = running \/ (running' = TRUE /\ pc'[c] = "reopen" /\ pc[c] \in {"start", "run"})
         /\ runStats' = runStats /\ c \notin Ending
  <1> USE DEF TypeOK, CallType, Ending
  <1>1. CASE Request(c) \/ TakeOpLock(c) \/ SelectModel(c) \/ FreeWorkers(c) \/ SwitchTask(c)
    BY <1>1 DEF Request, TakeOpLock, SelectModel, FreeWorkers, SwitchTask, UnloadRuntime, pipeVars, service
  <1>2. CASE Initialize(c)
    BY <1>2 DEF Initialize, LoadModel, InstallRuntime, BumpGeneration, ResumePipeline, RollBack, GiveUp,
                pipeVars, service
  <1>3. CASE Start(c)
    BY <1>3 DEF Start, DropReleased, UnloadRuntime, StartRunning, RunLoaded, ReopenPath, Goto, service
  <1> QED
    BY <1>1, <1>2, <1>3 DEF Step

(* ... and whoever opens the path counts in what D still has.              *)
LEMMA NotClosing ==
  ASSUME TypeOK, NEW c \in Callers, Request(c) \/ Step(c), ~Stop(c), ~running, Accounted
  PROVE  Accounted'
  <1>1. UNCHANGED <<dVars, qEncode>> /\ draining \in BOOLEAN
    BY CallerTouch DEF ControlTouch, stageVars, queues, TypeOK, PipeTypeOK, ServiceType
  <1>2. CASE UNCHANGED <<draining, timings, strays>>
    BY <1>1, <1>2 DEF Accounted, TimingsDue, dVars
  <1>3. CASE ResumePipeline(c) \/ ReopenPath(c)
    <2>1. timings' = timings /\ draining' = FALSE /\ strays' = (strays \/ TimingsDue(TRUE))
      BY <1>3 DEF ResumePipeline, ReopenPath, OpenPath, NoteStrays
    <2> QED
      BY <1>1, <2>1 DEF Accounted, TimingsDue, dVars
  <1>4. CASE Request(c) \/ TakeOpLock(c) \/ SelectModel(c) \/ FreeWorkers(c) \/ SwitchTask(c)
    BY <1>2, <1>4 DEF Request, TakeOpLock, SelectModel, FreeWorkers, SwitchTask, UnloadRuntime, pipeVars, gate
  <1>5. CASE Initialize(c)
    BY <1>2, <1>3, <1>5
       DEF Initialize, LoadModel, InstallRuntime, BumpGeneration, RollBack, GiveUp, pipeVars, gate
  <1>6. CASE Start(c)
    BY <1>2, <1>3, <1>6 DEF Start, DropReleased, UnloadRuntime, StartRunning, RunLoaded
  <1> QED
    BY <1>4, <1>5, <1>6 DEF Step

LEMMA DrainedInit == Init => Drained
  BY DEF Init, PipeInit, Drained, Calm, Accounted, TimingsDue

LEMMA DrainedStep ==
  ASSUME Stalls = FALSE, CountInv, Drained, [Next]_vars
  PROVE  Drained'
  <1>1. TypeOK /\ PipeTypeOK
    BY DEF CountInv, TypeOK
  <1>2. CASE PipeNext /\ UNCHANGED control
    <2>1. UNCHANGED <<running, pc>>
      BY <1>2, PipeLeaves DEF control, callVars
    <2> QED
      BY <1>1, <1>2, <2>1, StaysAtRest, StaysAccounted DEF Drained, Resting, Closing, Ending
  <1>3. ASSUME NEW c \in Callers, Request(c) \/ Step(c) PROVE Drained'
    <2>1. UNCHANGED stageVars /\ (Calm => Calm')
      BY <1>1, <1>3, CallerTouch, CallersLeaveCalm DEF ControlTouch
    <2>2. \A d \in Callers : d # c => pc'[d] = pc[d]
      BY <1>1, <1>3, MovesAlone
    <2>3. CASE FlipRunning(c)
      <3>1. pc'[c] = "close"
        BY <1>1, <2>3 DEF FlipRunning, Goto, TypeOK, CallType
      <3> QED
        BY <3>1 DEF Drained, Closing, Ending
    <2>4. CASE CloseGate(c)
      <3>1. pc'[c] = "wait"
        BY <1>1, <2>4 DEF CloseGate, Goto, TypeOK, CallType
      <3> QED
        BY <3>1 DEF Drained, Closing, Ending
    <2>5. CASE WaitDrained(c)
      <3>1. inflight = 0 /\ pc'[c] = "reset"
        BY <1>1, <2>5 DEF WaitDrained, Quiesced, Goto, TypeOK, CallType
      <3>2. Calm'
        BY <2>1, <3>1, ZeroIsCalm
      <3> QED
        BY <3>1, <3>2 DEF Drained, Ending
    <2>6. CASE ResetRunStats(c)
      <3>1. pc[c] = "reset" /\ ~runStats' /\ running' = running
        BY <2>6 DEF ResetRunStats, service
      <3>3. Accounted'
        BY <2>1, <2>6 DEF ResetRunStats, Accounted, TimingsDue, stageVars, dVars, queues
      <3>2. Closing \subseteq Closing' /\ Closing' \subseteq Ending'
        BY <2>2, <3>1 DEF Closing, Ending
      <3> QED
        BY <2>1, <3>1, <3>2, <3>3 DEF Drained
    <2>7. CASE ~Stop(c)
      <3>1. running' \/ running' = running
        BY <1>1, <1>3, <2>7, NotStopping
      <3>2. runStats' = runStats /\ Closing \subseteq Closing' /\ Ending \subseteq Ending'
        BY <1>1, <1>3, <2>2, <2>7, NotStopping DEF Closing, Ending
      <3>3. ~running /\ Accounted => Accounted'
        BY <1>1, <1>3, <2>7, NotClosing
      <3> QED
        BY <2>1, <3>1, <3>2, <3>3 DEF Drained
    <2> QED
      BY <2>3, <2>4, <2>5, <2>6, <2>7 DEF Stop
  <1>4. CASE UNCHANGED vars
    BY <1>4 DEF Drained, Calm, Accounted, TimingsDue, Closing, Ending, vars, pipeVars, service, gate, aVars,
                bVars, cVars, dVars, queues, callVars
  <1> QED
    BY <1>2, <1>3, <1>4 DEF Next

(* When no drain is cut short, stopped detection reports no counters       *)
(* between operations, and timings only of a frame that Stage D had at the *)
(* time: with any number of callers, and the Stop RPC among them, whoever  *)
(* stopped detection last has seen the path empty and zeroed what the late *)
(* frames had counted; D, which is not waited for, can only write what it  *)
(* was let through with, or finds the path open for.                       *)
THEOREM StoppedRunStaysZeroHolds ==
  ASSUME Stalls = FALSE
  PROVE  Spec => []StoppedRunStaysZero
  <1>1. CountInv /\ Drained => StoppedRunStaysZero
    BY DEF Drained, Accounted, Ending, StoppedRunStaysZero
  <1>2. Init => CountInv /\ Drained
    BY CountInit, DrainedInit
  <1>3. CountInv /\ Drained /\ [Next]_vars => CountInv' /\ Drained'
    BY CountStep, DrainedStep
  <1> QED
    BY <1>1, <1>2, <1>3, PTL DEF Spec

-----------------------------------------------------------------------------
(* Who is in an operation has _op_lock, except in the Stop RPC; which      *)
(* operation it is follows from where it is.                               *)
Working(c) == pc[c] \notin {"idle", "lock"}

LockFacts(c) ==
    /\ pc[c] # "idle" => op[c] \in Ops
    /\ pc[c] = "lock" => op[c] # "stop"
    /\ Working(c) => IF op[c] = "stop" THEN opLock # c /\ pc[c] \in {"flip", "close", "wait", "reset"}
                                       ELSE opLock = c
    /\ opLock = c => Working(c)
    /\ detLock = c => pc[c] \in {"load", "install", "bump", "open", "failed", "run"}
    /\ pc[c] = "run" => detLock = c
    /\ pc[c] \in {"flip", "close", "wait", "reset"} => op[c] \notin {"start", "resume"}
    /\ pc[c] = "select" => op[c] = "activate"
    /\ op[c] = "release" => pc[c] \in {"idle", "lock", "flip", "close", "wait", "reset", "free"}
    /\ pc[c] = "free" => op[c] = "release"
    /\ pc[c] = "unload" => op[c] = "task"
    /\ pc[c] = "drop" => op[c] = "start"

LockInv == \A c \in Callers : LockFacts(c)

LEMMA LockInit == Init => LockInv
  BY ControlAssumption DEF Init, LockInv, LockFacts, Working

(* The Stop RPC gives _op_lock back to nobody: it never had it.            *)
LEMMA OwnLock ==
  ASSUME TypeOK, LockInv, NEW c \in Callers, Request(c) \/ Step(c)
  PROVE  LockFacts(c)'
  <1> USE ControlAssumption DEF TypeOK, CallType, ControlType, AllOps, LockFacts, Working, Goto, Finish, StartAgain
  <1>0. LockFacts(c)
    BY DEF LockInv
  <1>1. CASE Request(c)
    BY <1>0, <1>1 DEF Request, lockVars
  <1>2. CASE TakeOpLock(c)
    BY <1>0, <1>2 DEF TakeOpLock, OpLockFree
  <1>3. CASE FlipRunning(c) \/ CloseGate(c) \/ WaitDrained(c)
    BY <1>0, <1>3 DEF FlipRunning, CloseGate, WaitDrained, lockVars
  <1>10. CASE ResetRunStats(c)
    BY <1>0, <1>10 DEF ResetRunStats, lockVars
  <1>4. CASE SelectModel(c) \/ FreeWorkers(c) \/ SwitchTask(c)
    BY <1>0, <1>4 DEF SelectModel, FreeWorkers, SwitchTask
  <1>5. CASE LoadModel(c) \/ InstallRuntime(c) \/ BumpGeneration(c)
    BY <1>0, <1>5 DEF LoadModel, InstallRuntime, BumpGeneration, lockVars
  <1>6. CASE ResumePipeline(c)
    BY <1>0, <1>6 DEF ResumePipeline
  <1>7. CASE RollBack(c) \/ GiveUp(c)
    BY <1>0, <1>7 DEF RollBack, GiveUp, lockVars
  <1>8. CASE DropReleased(c) \/ RunLoaded(c) \/ ReopenPath(c)
    BY <1>0, <1>8 DEF DropReleased, RunLoaded, ReopenPath, lockVars
  <1>9. CASE StartRunning(c)
    BY <1>0, <1>9 DEF StartRunning, lockVars
  <1> QED
    BY <1>1, <1>2, <1>3, <1>4, <1>5, <1>6, <1>7, <1>8, <1>9, <1>10 DEF Step, Stop, Initialize, Start

LEMMA OtherDetLock ==
  ASSUME TypeOK, LockInv, NEW c \in Callers, Request(c) \/ Step(c), NEW d \in Callers, d # c
  PROVE  detLock' = d <=> detLock = d
  <1>1. pc[c] = "run" => detLock = c
    BY DEF LockInv, LockFacts
  <1> QED
    BY <1>1, ControlAssumption
       DEF Request, Step, TakeOpLock, Stop, FlipRunning, CloseGate, WaitDrained, ResetRunStats,
           SelectModel, FreeWorkers, SwitchTask, Initialize, LoadModel, InstallRuntime, BumpGeneration,
           ResumePipeline, RollBack, GiveUp, Start, DropReleased, StartRunning, RunLoaded, ReopenPath,
           lockVars

LEMMA LockStep == TypeOK /\ LockInv /\ [Next]_vars => LockInv'
  <1> SUFFICES ASSUME TypeOK, LockInv, [Next]_vars PROVE LockInv'
    OBVIOUS
  <1>1. CASE UNCHANGED <<callVars, lockVars>>
    BY <1>1 DEF LockInv, LockFacts, Working, callVars, lockVars
  <1>2. ASSUME NEW c \in Callers, Request(c) \/ Step(c) PROVE LockInv'
    <2>1. ASSUME NEW d \in Callers, d # c PROVE LockFacts(d)'
      <3>1. LockFacts(d)
        BY DEF LockInv
      <3> QED
        BY <1>2, <2>1, <3>1, MovesAlone, OtherDetLock DEF LockFacts, Working
    <2> QED
      BY <1>2, <2>1, OwnLock DEF LockInv
  <1> QED
    BY <1>1, <1>2 DEF Next, control, vars

-----------------------------------------------------------------------------
(* Where no Stop comes beside another operation, one caller is at work.    *)
NoStopBeside == "stop" \notin Ops \/ \A c, d \in Callers : c = d

LEMMA OneAtWork ==
  ASSUME LockInv, NoStopBeside, NEW c \in Callers, NEW d \in Callers, Working(c), Working(d)
  PROVE  c = d
  BY DEF LockInv, LockFacts, Working, NoStopBeside

(* Detection that runs has its path open or about to be; nobody closes the *)
(* path of detection that runs.                                            *)
Opening ==
    /\ running /\ draining => \E c \in Callers : pc[c] = "reopen"
    /\ \A c \in Callers : pc[c] = "close" => ~running

LEMMA OpeningStep ==
  ASSUME TypeOK, LockInv, NoStopBeside, Opening, [Next]_vars
  PROVE  Opening'
  <1>1. CASE PipeNext /\ UNCHANGED control
    BY <1>1, PipeLeaves DEF Opening, control, callVars
  <1>2. ASSUME NEW c \in Callers, Request(c) \/ Step(c) PROVE Opening'
    <2> USE DEF Opening
    <2>0. \A d \in Callers : d # c => pc'[d] = pc[d]
      BY <1>2, MovesAlone
    <2>1. CASE FlipRunning(c)
      BY <2>1 DEF FlipRunning
    <2>2. CASE CloseGate(c)
      <3>1. pc[c] = "close" /\ pc'[c] = "wait" /\ running' = running
        BY <2>2 DEF CloseGate, Goto, service, TypeOK, CallType
      <3> QED
        BY <2>0, <3>1
    <2>3. CASE WaitDrained(c) \/ ResetRunStats(c)
      <3>1. UNCHANGED <<running, draining>> /\ pc[c] # "reopen" /\ pc'[c] # "close"
        BY <2>3 DEF WaitDrained, ResetRunStats, Goto, pipeVars, service, gate, TypeOK, CallType
      <3> QED
        BY <2>0, <3>1
    <2>4. CASE ReopenPath(c)
      <3>1. ~draining' /\ running' = running /\ pc'[c] = "idle"
        BY <2>4 DEF ReopenPath, OpenPath, Finish, Goto, service, TypeOK, CallType
      <3> QED
        BY <2>0, <3>1
    <2>5. CASE ~Stop(c) /\ ~ReopenPath(c)
      <3>1. running' = running \/ (running' = TRUE /\ pc'[c] = "reopen" /\ pc[c] \in {"start", "run"})
        BY <1>2, <2>5, NotStopping
      <3>2. /\ draining' = draining \/ ~draining'
            /\ pc[c] # "reopen" /\ pc'[c] # "close"
        BY <1>2, <2>5 DEF Request, Step, TakeOpLock, SelectModel, FreeWorkers, SwitchTask, UnloadRuntime,
             Initialize, LoadModel, InstallRuntime, BumpGeneration, ResumePipeline, OpenPath, RollBack, GiveUp,
             Start, DropReleased, StartRunning, RunLoaded, Goto, Finish, StartAgain, pipeVars, gate, TypeOK, CallType
      <3>3. CASE running' = running
        BY <2>0, <3>2, <3>3
      <3>4. CASE pc'[c] = "reopen" /\ pc[c] \in {"start", "run"}
        <4>1. \A d \in Callers : pc[d] = "close" => d = c
          BY <3>4, OneAtWork DEF Working
        <4> QED
          BY <2>0, <3>4, <4>1
      <3> QED
        BY <3>1, <3>3, <3>4
    <2> QED
      BY <2>1, <2>2, <2>3, <2>4, <2>5 DEF Stop
  <1>3. CASE UNCHANGED vars
    BY <1>3 DEF Opening, vars, pipeVars, service, gate, callVars
  <1> QED
    BY <1>1, <1>2, <1>3 DEF Next

(* Between operations, detection that runs has its path open, unless a     *)
(* Stop came beside another operation: only that one closes the path       *)
(* without _op_lock.                                                       *)
THEOREM RunningIsOpenHolds ==
  ASSUME NoStopBeside
  PROVE  Spec => []RunningIsOpen
  <1>1. Init => LockInv /\ Opening
    BY LockInit DEF Init, PipeInit, Opening
  <1>2. TypeOK /\ LockInv /\ Opening /\ [Next]_vars => LockInv' /\ Opening'
    BY LockStep, OpeningStep
  <1>3. Opening => RunningIsOpen
    BY DEF Opening, RunningIsOpen
  <1> QED
    BY <1>1, <1>2, <1>3, TypeCorrect, PTL DEF Spec

-----------------------------------------------------------------------------
(* Where resume_runtime, which loads without a drain of its own, meets no  *)
(* Stop that is still draining, and no drain is cut short.                 *)
DrainsMeetNoLoad ==
    /\ Stalls = FALSE
    /\ "stop" \notin Ops \/ "resume" \notin Ops \/ \A c, d \in Callers : c = d

(* From the drain of an operation to its end, or to its restart.           *)
AtRest == {"reset", "select", "free", "unload", "drop", "load", "install", "bump", "open", "failed", "run"}

Restarting == \E c \in Callers : pc[c] = "reopen" /\ op[c] = "start"

(* Without a runtime, and while the GPU is handed over, nothing runs; only *)
(* an explicit start may have begun to end the handover.                   *)
Vacant == mgr = None => Resting
Handed == released => Resting \/ Restarting

(* What the holder of _op_lock has made sure of.                           *)
SwapFacts(c) == opLock = c =>
    /\ pc[c] \in {"close", "wait"} => ~running
    /\ pc[c] \in AtRest => Resting
    /\ pc[c] = "install" => current # None
    /\ pc[c] \in {"bump", "open", "run"} => mgr # None
    /\ op[c] = "resume" => ~released
    /\ op[c] \in {"activate", "task"} /\ pc[c] # "flip" /\ was[c] => ~released
    /\ op[c] \in {"activate", "task"} /\ (pc[c] \in {"start", "reopen"} \/ detLock = c) => was[c]

SwapInv == Vacant /\ Handed /\ \A c \in Callers : SwapFacts(c)

LEMMA SwapInit == Init => SwapInv
  BY ControlAssumption DEF Init, PipeInit, SwapInv, Vacant, Handed, SwapFacts, Resting, Calm

LEMMA KeepsRest ==
  ASSUME TypeOK, NEW c \in Callers, Request(c) \/ Step(c), Resting, running' = running \/ ~running'
  PROVE  Resting'
  BY CallerTouch, CallersLeaveCalm DEF ControlTouch, Resting

(* Beside the holder of _op_lock there are only calls that queue for it    *)
(* and the Stop RPC.                                                       *)
LEMMA Bystander ==
  ASSUME TypeOK, LockInv, NEW c \in Callers, Request(c) \/ Step(c), NEW d \in Callers, d # c, opLock = d
  PROVE  /\ Request(c) \/ Stop(c)
         /\ UNCHANGED <<mgr, current, released>>
         /\ running' = running \/ ~running'
  <1>1. pc[c] \in {"idle", "lock", "flip", "close", "wait", "reset"}
    BY DEF LockInv, LockFacts, Working
  <1>2. ~TakeOpLock(c)
    BY ControlAssumption DEF TakeOpLock, OpLockFree
  <1>3. Request(c) \/ Stop(c)
    BY <1>1, <1>2
       DEF Step, SelectModel, FreeWorkers, SwitchTask, Initialize, LoadModel, InstallRuntime, BumpGeneration,
           ResumePipeline, RollBack, GiveUp, Start, DropReleased, StartRunning, RunLoaded, ReopenPath
  <1> QED
    BY <1>3 DEF Request, Stop, FlipRunning, CloseGate, WaitDrained, ResetRunStats, pipeVars, service

LEMMA OthersSwapFacts ==
  ASSUME TypeOK, LockInv, NEW c \in Callers, Request(c) \/ Step(c), NEW d \in Callers, d # c, SwapFacts(d)
  PROVE  SwapFacts(d)'
  <1> SUFFICES ASSUME opLock = d PROVE SwapFacts(d)'
    BY MovesAlone DEF SwapFacts
  <1>1. UNCHANGED <<mgr, current, released>> /\ (running' = running \/ ~running')
    BY Bystander
  <1>2. Resting => Resting'
    BY <1>1, KeepsRest
  <1>3. /\ pc'[d] = pc[d] /\ op'[d] = op[d] /\ was'[d] = was[d]
        /\ opLock' = d /\ (detLock' = d <=> detLock = d)
    BY MovesAlone, OtherDetLock
  <1>4. ~running => ~running'
    BY <1>1
  <1> QED
    BY <1>1, <1>2, <1>3, <1>4 DEF SwapFacts

(* Steps that neither run detection nor exchange its runtime nor hand the  *)
(* GPU over.                                                               *)
LEMMA VacantHandedKept ==
  ASSUME TypeOK, SwapInv, NEW c \in Callers, Request(c) \/ Step(c),
         running' = running \/ ~running', mgr' = mgr, released' => released, pc[c] # "reopen"
  PROVE  Vacant' /\ Handed'
  <1>1. Resting => Resting'
    BY KeepsRest
  <1>2. Restarting => Restarting'
    BY MovesAlone DEF Restarting
  <1> QED
    BY <1>1, <1>2 DEF SwapInv, Vacant, Handed

(* Detection that does not run rests when _op_lock is taken to resume.     *)
LEMMA ResumeFindsRest ==
  ASSUME DrainsMeetNoLoad, TypeOK, LockInv, Drained, NEW c \in Callers,
         pc[c] = "lock", op[c] = "resume", opLock = None, ~running
  PROVE  Resting
  <1> SUFFICES ASSUME NEW d \in Closing PROVE FALSE
    BY DEF Drained, Resting
  <1>1. d \in Callers /\ pc[d] \in {"close", "wait"}
    BY DEF Closing
  <1>2. op[d] = "stop" /\ op[d] \in Ops /\ op[c] \in Ops
    BY <1>1, ControlAssumption DEF LockInv, LockFacts, Working
  <1> QED
    BY <1>1, <1>2 DEF DrainsMeetNoLoad

LEMMA StopSwap ==
  ASSUME DrainsMeetNoLoad, CountInv, LockInv, SwapInv, NEW c \in Callers, Stop(c)
  PROVE  Vacant' /\ Handed' /\ SwapFacts(c)'
  <1>0. /\ TypeOK /\ Step(c) /\ SwapFacts(c) /\ LockFacts(c)
        /\ pc \in [Callers -> Where] /\ was \in [Callers -> BOOLEAN] /\ running \in BOOLEAN
    BY DEF CountInv, Step, SwapInv, LockInv, TypeOK, CallType, PipeTypeOK, ServiceType
  <1>1. /\ UNCHANGED <<mgr, current, released, op, opLock, detLock>>
        /\ running' = running \/ ~running'
        /\ pc[c] \in {"flip", "close", "wait", "reset"}
    BY DEF Stop, FlipRunning, CloseGate, WaitDrained, ResetRunStats, pipeVars, service, lockVars
  <1>2. Vacant' /\ Handed'
    BY <1>0, <1>1, VacantHandedKept
  <1>3. Resting => Resting'
    BY <1>0, <1>1, KeepsRest
  <1>4. detLock # c
    BY <1>0, <1>1 DEF LockFacts
  <1> SUFFICES ASSUME opLock = c PROVE SwapFacts(c)'
    BY <1>1, <1>2 DEF SwapFacts
  <1>5. CASE FlipRunning(c)
    <2>1. pc'[c] = "close" /\ ~running' /\ was'[c] = running
      BY <1>0, <1>5 DEF FlipRunning, Goto
    <2>2. released /\ running => FALSE
      <3> SUFFICES ASSUME Restarting PROVE FALSE
        BY DEF SwapInv, Handed, Resting
      <3>1. PICK d \in Callers : pc[d] = "reopen" /\ op[d] = "start"
        BY DEF Restarting
      <3>2. opLock = d
        BY <3>1 DEF LockInv, LockFacts, Working
      <3> QED
        BY <1>5, <3>1, <3>2 DEF FlipRunning
    <2> QED
      BY <1>0, <1>1, <1>4, <2>1, <2>2 DEF SwapFacts, AtRest
  <1>6. CASE CloseGate(c)
    <2>1. pc[c] = "close" /\ pc'[c] = "wait" /\ running' = running /\ was' = was
      BY <1>0, <1>6 DEF CloseGate, Goto, service
    <2> QED
      BY <1>0, <1>1, <1>4, <2>1 DEF SwapFacts, AtRest
  <1>7. CASE WaitDrained(c)
    <2>1. pc[c] = "wait" /\ pc'[c] = "reset" /\ was' = was /\ inflight = 0
      BY <1>0, <1>7 DEF WaitDrained, Goto, Quiesced, DrainsMeetNoLoad
    <2>2. Resting
      BY <1>0, <2>1, ZeroIsCalm DEF Resting, SwapFacts
    <2> QED
      BY <1>0, <1>1, <1>3, <1>4, <2>1, <2>2 DEF SwapFacts, AtRest
  <1>8. CASE ResetRunStats(c)
    <2>1. pc[c] = "reset" /\ was' = was /\ pc'[c] \in {"idle", "select", "free", "unload"}
      BY <1>0, <1>8 DEF ResetRunStats, Goto
    <2> QED
      BY <1>0, <1>1, <1>3, <1>4, <2>1 DEF SwapFacts, AtRest
  <1> QED
    BY <1>5, <1>6, <1>7, <1>8 DEF Stop

LEMMA CalledSwap ==
  ASSUME DrainsMeetNoLoad, CountInv, Drained, LockInv, SwapInv, NEW c \in Callers,
         Request(c) \/ TakeOpLock(c)
  PROVE  Vacant' /\ Handed' /\ SwapFacts(c)'
  <1>0. /\ TypeOK /\ (Request(c) \/ Step(c)) /\ LockFacts(c)
        /\ pc \in [Callers -> Where] /\ op \in [Callers -> AllOps] /\ detLock # c /\ pc[c] # "reopen"
    BY DEF CountInv, Step, LockInv, LockFacts, TypeOK, CallType, Request, TakeOpLock
  <1>1. UNCHANGED <<pipeVars, current, was, detLock>> /\ (released' => released)
    BY DEF Request, TakeOpLock, lockVars
  <1>2. UNCHANGED <<running, mgr>>
    BY <1>1 DEF pipeVars, service
  <1>3. Vacant' /\ Handed' /\ (Resting => Resting')
    BY <1>0, <1>1, <1>2, VacantHandedKept, KeepsRest
  <1>4. CASE Request(c)
    <2>1. opLock' # c
      BY <1>0, <1>4 DEF Request, LockFacts, Working, lockVars
    <2> QED
      BY <1>3, <2>1 DEF SwapFacts
  <1>5. CASE TakeOpLock(c)
    <2>0. pc[c] = "lock" /\ opLock = None /\ op' = op
      BY <1>5 DEF TakeOpLock, OpLockFree
    <2>1. CASE Finish(c)
      BY <1>3, <2>0, <2>1, ControlAssumption DEF SwapFacts, Finish
    <2>2. CASE op[c] = "start" /\ Goto(c, IF released /\ ~running THEN "drop" ELSE "start")
      <3>1. released /\ ~running => Resting
        BY <2>0, ControlAssumption DEF SwapInv, Handed, Restarting, LockInv, LockFacts, Working
      <3> QED
        BY <1>0, <1>1, <1>3, <2>0, <2>2, <3>1 DEF Goto, SwapFacts, AtRest
    <2>3. CASE Goto(c, "flip") /\ op[c] # "resume"
      BY <1>0, <1>1, <1>3, <2>0, <2>3 DEF Goto, SwapFacts, AtRest
    <2>4. CASE op[c] = "resume" /\ ~running /\ released' = FALSE /\ Goto(c, "load")
      <3>1. Resting
        BY <1>0, <2>0, <2>4, ResumeFindsRest
      <3> QED
        BY <1>0, <1>1, <1>3, <2>0, <2>4, <3>1 DEF Goto, SwapFacts, AtRest
    <2> QED
      BY <1>5, <2>1, <2>2, <2>3, <2>4 DEF TakeOpLock
  <1> QED
    BY <1>4, <1>5

(* Restarted, or over.                                                     *)
LEMMA StartAgainSwap ==
  ASSUME CountInv, LockInv, SwapInv, NEW c \in Callers, Step(c), StartAgain(c),
         UNCHANGED <<running, mgr, op, was, detLock, released>>,
         pc[c] \in {"select", "unload", "open"}, op[c] \in {"activate", "task"}, detLock # c
  PROVE  Vacant' /\ Handed' /\ SwapFacts(c)'
  <1>0. /\ TypeOK /\ SwapFacts(c) /\ LockFacts(c) /\ pc \in [Callers -> Where] /\ was[c] \in BOOLEAN
    BY DEF CountInv, SwapInv, LockInv, TypeOK, CallType
  <1>1. Vacant' /\ Handed'
    BY <1>0, VacantHandedKept
  <1>2. CASE was[c]
    BY <1>0, <1>1, <1>2 DEF StartAgain, Goto, SwapFacts, AtRest
  <1>3. CASE ~was[c]
    BY <1>0, <1>1, <1>3, ControlAssumption DEF StartAgain, Finish, SwapFacts
  <1> QED
    BY <1>2, <1>3

LEMMA UnloadSwap ==
  ASSUME CountInv, LockInv, SwapInv, NEW c \in Callers, Step(c), UnloadRuntime,
         pc[c] \in {"unload", "drop"}, UNCHANGED released
  PROVE  Vacant' /\ Handed' /\ Resting'
  <1>1. TypeOK /\ SwapFacts(c) /\ opLock = c
    BY DEF CountInv, SwapInv, LockInv, LockFacts, Working
  <1>2. Resting
    BY <1>1 DEF SwapFacts, AtRest
  <1>3. Resting'
    BY <1>1, <1>2, KeepsRest DEF UnloadRuntime
  <1> QED
    BY <1>3 DEF Vacant, Handed

LEMMA SwitchSwap ==
  ASSUME CountInv, LockInv, SwapInv, NEW c \in Callers,
         SelectModel(c) \/ FreeWorkers(c) \/ SwitchTask(c) \/ DropReleased(c)
  PROVE  Vacant' /\ Handed' /\ SwapFacts(c)'
  <1>0. /\ TypeOK /\ Step(c) /\ SwapFacts(c) /\ LockFacts(c) /\ pc \in [Callers -> Where]
        /\ opLock = c /\ pc[c] \in AtRest /\ detLock # c
    BY DEF CountInv, Step, Start, SwapInv, LockInv, LockFacts, Working, TypeOK, CallType, SelectModel, FreeWorkers,
           SwitchTask, DropReleased, AtRest
  <1>1. Resting
    BY <1>0 DEF SwapFacts
  <1>2. CASE SelectModel(c)
    <2>1. pc[c] = "select" /\ op[c] = "activate" /\ UNCHANGED <<running, mgr, op, was, detLock, released>>
      BY <1>0, <1>2 DEF SelectModel, LockFacts, pipeVars, service
    <2>2. CASE StartAgain(c)
      BY <1>0, <2>1, <2>2, StartAgainSwap
    <2>3. CASE Goto(c, "load") /\ UNCHANGED opLock
      <3>1. Vacant' /\ Handed' /\ Resting'
        BY <1>0, <1>1, <2>1, VacantHandedKept, KeepsRest
      <3> QED
        BY <1>0, <2>1, <2>3, <3>1 DEF Goto, SwapFacts, AtRest
    <2> QED
      BY <1>2, <2>2, <2>3 DEF SelectModel
  <1>3. CASE FreeWorkers(c)
    <2>1. running' = running /\ mgr' = mgr /\ opLock' # c
      BY <1>0, <1>3, ControlAssumption DEF FreeWorkers, Finish, service
    <2>2. Resting'
      BY <1>0, <1>1, <2>1, KeepsRest
    <2> QED
      BY <2>1, <2>2 DEF Vacant, Handed, SwapFacts
  <1>4. CASE SwitchTask(c)
    <2>1. pc[c] = "unload" /\ op[c] = "task" /\ UNCHANGED <<op, was, detLock, released>>
      BY <1>0, <1>4 DEF SwitchTask, LockFacts
    <2>2. CASE StartAgain(c) /\ UNCHANGED pipeVars
      <3>1. UNCHANGED <<running, mgr>>
        BY <2>2 DEF pipeVars, service
      <3> QED
        BY <1>0, <2>1, <2>2, <3>1, StartAgainSwap
    <2>3. CASE UnloadRuntime /\ Finish(c)
      <3>1. Vacant' /\ Handed'
        BY <1>0, <2>1, <2>3, UnloadSwap
      <3> QED
        BY <1>0, <2>3, <3>1, ControlAssumption DEF Finish, SwapFacts
    <2> QED
      BY <1>4, <2>2, <2>3 DEF SwitchTask
  <1>5. CASE DropReleased(c)
    <2>1. Vacant' /\ Handed' /\ op[c] = "start"
      BY <1>0, <1>5, UnloadSwap DEF DropReleased, LockFacts
    <2> QED
      BY <1>0, <1>5, <2>1 DEF DropReleased, Goto, SwapFacts, AtRest, lockVars
  <1> QED
    BY <1>2, <1>3, <1>4, <1>5

(* initialize()                                                            *)
LEMMA InitializeSwap ==
  ASSUME CountInv, LockInv, SwapInv, NEW c \in Callers, Initialize(c)
  PROVE  Vacant' /\ Handed' /\ SwapFacts(c)'
  <1>0. /\ TypeOK /\ Step(c) /\ SwapFacts(c) /\ LockFacts(c) /\ pc \in [Callers -> Where]
        /\ opLock = c /\ pc[c] \in AtRest /\ op[c] # "stop"
    BY DEF CountInv, Step, SwapInv, LockInv, LockFacts, Working, TypeOK, CallType, Initialize, LoadModel,
           InstallRuntime, BumpGeneration, ResumePipeline, RollBack, GiveUp, AtRest
  <1>1. Resting /\ running' = running /\ UNCHANGED <<op, was, released>>
    BY <1>0 DEF SwapFacts, Initialize, LoadModel, InstallRuntime, BumpGeneration, ResumePipeline, RollBack,
                GiveUp, service, pipeVars
  <1>2. Resting'
    BY <1>0, <1>1, KeepsRest
  <1>3. Vacant' /\ Handed'
    BY <1>2 DEF Vacant, Handed
  <1>4. CASE LoadModel(c)
    <2>1. UNCHANGED <<current, opLock, detLock>> /\ pc'[c] \in {"install", "failed"}
          /\ (pc'[c] = "install" => current # None)
      BY <1>0, <1>4 DEF LoadModel, Goto, lockVars
    <2> QED
      BY <1>0, <1>1, <1>2, <1>3, <2>1 DEF SwapFacts, AtRest
  <1>5. CASE InstallRuntime(c)
    <2>1. pc[c] = "install" /\ pc'[c] = "bump" /\ mgr' = current /\ UNCHANGED <<opLock, detLock>>
      BY <1>0, <1>5 DEF InstallRuntime, Goto, lockVars
    <2> QED
      BY <1>0, <1>1, <1>2, <1>3, <2>1 DEF SwapFacts, AtRest
  <1>6. CASE BumpGeneration(c)
    <2>1. pc[c] = "bump" /\ pc'[c] = "open" /\ UNCHANGED <<mgr, opLock, detLock>>
      BY <1>0, <1>6 DEF BumpGeneration, Goto, lockVars
    <2> QED
      BY <1>0, <1>1, <1>2, <1>3, <2>1 DEF SwapFacts, AtRest
  <1>7. CASE ResumePipeline(c)
    <2>1. pc[c] = "open" /\ UNCHANGED <<mgr, detLock>>
      BY <1>7 DEF ResumePipeline, service
    <2>2. CASE detLock = c /\ Goto(c, "run") /\ UNCHANGED opLock
      BY <1>0, <1>1, <1>2, <1>3, <2>1, <2>2 DEF Goto, SwapFacts, AtRest
    <2>3. CASE detLock # c /\ op[c] = "resume" /\ Goto(c, "start") /\ UNCHANGED opLock
      BY <1>0, <1>1, <1>3, <2>1, <2>3 DEF Goto, SwapFacts, AtRest
    <2>4. CASE detLock # c /\ op[c] = "activate" /\ StartAgain(c)
      BY <1>0, <1>1, <2>1, <2>4, StartAgainSwap
    <2> QED
      BY <1>7, <2>2, <2>3, <2>4 DEF ResumePipeline
  <1>8. CASE RollBack(c)
    <2>1. pc'[c] = "load" /\ UNCHANGED <<opLock, detLock>>
      BY <1>0, <1>8 DEF RollBack, Goto, lockVars
    <2> QED
      BY <1>0, <1>1, <1>2, <1>3, <2>1 DEF SwapFacts, AtRest
  <1>9. CASE GiveUp(c)
    <2>1. opLock' # c
      BY <1>0, <1>9, ControlAssumption DEF GiveUp, Finish
    <2> QED
      BY <1>3, <2>1 DEF SwapFacts
  <1> QED
    BY <1>4, <1>5, <1>6, <1>7, <1>8, <1>9 DEF Initialize

LEMMA StartSwap ==
  ASSUME CountInv, LockInv, SwapInv, NEW c \in Callers, StartRunning(c) \/ RunLoaded(c) \/ ReopenPath(c)
  PROVE  Vacant' /\ Handed' /\ SwapFacts(c)'
  <1>0. /\ TypeOK /\ Step(c) /\ SwapFacts(c) /\ LockFacts(c) /\ pc \in [Callers -> Where]
        /\ opLock = c /\ op[c] \in AllOps \ {"stop"} /\ UNCHANGED <<mgr, op, was>>
    BY DEF CountInv, Step, Start, SwapInv, LockInv, LockFacts, Working, TypeOK, CallType, StartRunning,
           RunLoaded, ReopenPath, service
(* An operation that gets this far and is no explicit start ended the      *)
(* handover, or found none.                                                *)
  <1>1. pc[c] \in {"start", "run", "reopen"} /\ op[c] # "start" => ~released
    <2>1. pc[c] \in {"start", "run", "reopen"} /\ op[c] \in {"activate", "task"} => was[c]
      BY <1>0 DEF LockFacts, SwapFacts
    <2>2. pc[c] \in {"start", "run", "reopen"} => op[c] # "release"
      BY <1>0 DEF LockFacts
    <2> QED
      BY <1>0, <2>1, <2>2 DEF SwapFacts, AllOps
  <1>2. CASE StartRunning(c)
    <2>1. pc[c] = "start"
      BY <1>2 DEF StartRunning
    <2>2. CASE running' = running /\ Finish(c) /\ (released' => released)
      <3>1. Vacant' /\ Handed'
        BY <1>0, <2>1, <2>2, VacantHandedKept
      <3> QED
        BY <1>0, <2>2, <3>1, ControlAssumption DEF Finish, SwapFacts
    <2>3. CASE mgr # None /\ running' = TRUE /\ Goto(c, "reopen") /\ UNCHANGED <<lockVars, released>>
      <3>1. pc'[c] = "reopen"
        BY <1>0, <2>3 DEF Goto
      <3>2. Vacant' /\ Handed'
        BY <1>0, <1>1, <2>1, <2>3, <3>1 DEF Vacant, Handed, Restarting
      <3> QED
        BY <1>0, <1>1, <2>1, <2>3, <3>1, <3>2 DEF SwapFacts, AtRest, lockVars
    <2>4. CASE ~running /\ mgr = None /\ Goto(c, "load") /\ detLock' = c /\ UNCHANGED <<running, opLock, released>>
      <3>1. Resting' /\ pc'[c] = "load"
        BY <1>0, <2>4, KeepsRest DEF SwapInv, Vacant, Goto
      <3> QED
        BY <1>0, <1>1, <2>1, <2>4, <3>1 DEF Vacant, Handed, SwapFacts, AtRest
    <2> QED
      BY <1>2, <2>2, <2>3, <2>4 DEF StartRunning
  <1>3. CASE RunLoaded(c)
    <2>1. /\ pc[c] = "run" /\ detLock = c /\ mgr # None /\ running' = TRUE /\ pc'[c] = "reopen"
          /\ detLock' = None /\ UNCHANGED <<opLock, released>>
      BY <1>0, <1>3 DEF RunLoaded, Goto, LockFacts, SwapFacts
    <2>2. Vacant' /\ Handed'
      BY <1>0, <1>1, <2>1 DEF Vacant, Handed, Restarting
    <2> QED
      BY <1>0, <1>1, <2>1, <2>2 DEF SwapFacts, AtRest
  <1>4. CASE ReopenPath(c)
    <2>1. pc[c] = "reopen" /\ running' = running /\ ~released' /\ opLock' # c
      BY <1>0, <1>1, <1>4, ControlAssumption DEF ReopenPath, Finish, service
    <2>2. Resting => Resting'
      BY <1>0, <2>1, KeepsRest
    <2> QED
      BY <1>0, <2>1, <2>2 DEF SwapInv, Vacant, Handed, SwapFacts
  <1> QED
    BY <1>2, <1>3, <1>4

LEMMA SwapStep ==
  ASSUME DrainsMeetNoLoad, CountInv, Drained, LockInv, SwapInv, [Next]_vars
  PROVE  SwapInv'
  <1>0. TypeOK /\ PipeTypeOK
    BY DEF CountInv, TypeOK
  <1>1. CASE PipeNext /\ UNCHANGED control
    <2>1. UNCHANGED <<running, mgr, callVars, lockVars, current, released>>
      BY <1>1, PipeLeaves DEF control
    <2>2. Resting => Resting'
      BY <1>0, <1>1, StaysAtRest
    <2> QED
      BY <2>1, <2>2 DEF SwapInv, Vacant, Handed, Restarting, SwapFacts, callVars, lockVars
  <1>2. ASSUME NEW c \in Callers, Request(c) \/ Step(c) PROVE SwapInv'
    <2>1. Vacant' /\ Handed' /\ SwapFacts(c)'
      BY <1>2, StopSwap, CalledSwap, SwitchSwap, InitializeSwap, StartSwap DEF Step, Start
    <2>2. ASSUME NEW d \in Callers, d # c PROVE SwapFacts(d)'
      BY <1>0, <1>2, <2>2, OthersSwapFacts DEF SwapInv
    <2> QED
      BY <2>1, <2>2 DEF SwapInv
  <1>3. CASE UNCHANGED vars
    BY <1>3 DEF SwapInv, Vacant, Handed, Restarting, SwapFacts, Resting, Calm, vars, pipeVars, service,
                aVars, bVars, cVars, queues, callVars, lockVars
  <1> QED
    BY <1>1, <1>2, <1>3 DEF Next

ControlInv == CountInv /\ Drained /\ LockInv /\ SwapInv

LEMMA ControlInit == Init => ControlInv
  BY CountInit, DrainedInit, LockInit, SwapInit DEF ControlInv

LEMMA ControlStep == DrainsMeetNoLoad /\ ControlInv /\ [Next]_vars => ControlInv'
  BY CountStep, DrainedStep, LockStep, SwapStep DEF ControlInv, CountInv, DrainsMeetNoLoad

(* "Tear a worker down mid-call": while an operation owns the runtime, no  *)
(* stage is in a call to it or about to make one, with any number of       *)
(* lanes, callers and failed loads, and Stop RPCs beside the operation.    *)
THEOREM QuietWhileSwappingHolds ==
  ASSUME DrainsMeetNoLoad
  PROVE  Spec => []QuietWhileSwapping
  <1>1. ControlInv => QuietWhileSwapping
    BY DEF ControlInv, SwapInv, SwapFacts, AtRest, Resting, Calm, QuietWhileSwapping, Swapping
  <1> QED
    BY <1>1, ControlInit, ControlStep, PTL DEF Spec

-----------------------------------------------------------------------------
(* The engine.  The first attempt of an activation, before its model is in *)
(* place, and the load that goes back after it failed.                     *)
Activating(c) == opLock = c /\ op[c] = "activate"
Trying(c) == Activating(c) /\ detLock # c /\ target[c] # None /\ pc[c] \in {"load", "install", "failed"}
RolledBack(c) == Activating(c) /\ detLock # c /\ target[c] = None /\ pc[c] = "load"

(* The workers hold the engine of the service's model, or would load it.   *)
Fits == modelPath = mgr /\ engine \in {None, mgr}

(* They may hold another while a caller has loaded one that is not yet in  *)
(* place, or has not yet gone back to the one that is.                     *)
Loose(c) ==
    \/ opLock = c /\ pc[c] = "install"
    \/ Trying(c) /\ pc[c] = "failed"
    \/ RolledBack(c)

EngineFacts(c) ==
    /\ Trying(c) => mgr \in {None, prev[c]} /\ current = target[c]
    /\ Activating(c) /\ pc[c] \in {"flip", "close", "wait", "reset", "select"}
          => prev[c] = current /\ target[c] # None
    /\ RolledBack(c) \/ (Trying(c) /\ pc[c] = "failed") => nfail >= 1
    /\ opLock = c /\ pc[c] = "install" => engine = current /\ modelPath = current

EngineInv ==
    /\ \A c \in Callers : EngineFacts(c)
    /\ (\A c \in Callers : ~Trying(c)) => mgr \in {None, current}
    /\ mgr = None \/ Fits \/ \E c \in Callers : Loose(c)

LEMMA EngineInit == Init => EngineInv
  BY ControlAssumption
     DEF Init, PipeInit, EngineInv, EngineFacts, Loose, Trying, RolledBack, Activating, Fits

LEMMA OthersEngine ==
  ASSUME TypeOK, LockInv, NEW c \in Callers, Request(c) \/ Step(c), NEW d \in Callers, d # c, EngineFacts(d)
  PROVE  /\ EngineFacts(d)'
         /\ Trying(d)' <=> Trying(d)
         /\ Loose(d)' <=> Loose(d)
  <1>1. /\ pc'[d] = pc[d] /\ op'[d] = op[d] /\ target'[d] = target[d] /\ prev'[d] = prev[d]
        /\ (opLock' = d <=> opLock = d) /\ (detLock' = d <=> detLock = d)
    BY MovesAlone, OtherDetLock
  <1>2. (Trying(d)' <=> Trying(d)) /\ (RolledBack(d)' <=> RolledBack(d)) /\ (Loose(d)' <=> Loose(d))
        /\ (Activating(d)' <=> Activating(d))
    BY <1>1 DEF Trying, RolledBack, Loose, Activating
  <1>3. CASE opLock # d
    BY <1>1, <1>2, <1>3 DEF EngineFacts, Trying, RolledBack, Activating
  <1>4. CASE opLock = d
    <2>1. (Request(c) \/ Stop(c)) /\ UNCHANGED <<mgr, current>>
      BY <1>4, Bystander
    <2>2. UNCHANGED <<engine, modelPath, nfail>>
      BY <2>1 DEF Request, Stop, FlipRunning, CloseGate, WaitDrained, ResetRunStats, pipeVars, workers, bounds
    <2> QED
      BY <1>1, <1>2, <2>1, <2>2 DEF EngineFacts
  <1> QED
    BY <1>2, <1>3, <1>4

(* Steps outside the loading of a model.                                   *)
LEMMA EngineKept ==
  ASSUME TypeOK, LockInv, EngineInv, NEW c \in Callers, Request(c) \/ Step(c),
         UNCHANGED <<mgr, current, engine, modelPath>>,
         ~Trying(c), ~Loose(c), ~Trying(c)', ~Loose(c)', EngineFacts(c)'
  PROVE  EngineInv'
  <1>1. \A d \in Callers : /\ EngineFacts(d)'
                           /\ Trying(d)' <=> Trying(d)
                           /\ Loose(d)' <=> Loose(d)
    BY OthersEngine DEF EngineInv
  <1>2. Fits' <=> Fits
    BY DEF Fits
  <1> QED
    BY <1>1, <1>2 DEF EngineInv

(* The holder of _op_lock is the one that may be loading.                  *)
LEMMA HolderLoads ==
  ASSUME EngineInv, NEW c \in Callers, opLock = c, ~Loose(c)
  PROVE  /\ mgr = None \/ Fits
         /\ ~Trying(c) => mgr \in {None, current}
  <1>1. \A d \in Callers : Loose(d) \/ Trying(d) => d = c
    BY DEF Loose, Trying, RolledBack, Activating
  <1> QED
    BY <1>1 DEF EngineInv

LEMMA StepsAsideEngine ==
  ASSUME TypeOK, LockInv, EngineInv, NEW c \in Callers, Request(c) \/ TakeOpLock(c) \/ Stop(c) \/ ResumePipeline(c)
                 \/ RunLoaded(c) \/ ReopenPath(c) \/ StartRunning(c)
  PROVE  EngineInv'
  <1>0. /\ Request(c) \/ Step(c)
        /\ LockFacts(c) /\ EngineFacts(c) /\ pc \in [Callers -> Where] /\ op \in [Callers -> AllOps]
        /\ target \in [Callers -> Loaded] /\ prev \in [Callers -> Loaded]
    BY DEF Step, Initialize, Start, LockInv, EngineInv, TypeOK, CallType
  <1>1. UNCHANGED <<mgr, current, engine, modelPath, nfail>>
    BY DEF Request, TakeOpLock, Stop, FlipRunning, CloseGate, WaitDrained, ResetRunStats, ResumePipeline,
           RunLoaded, ReopenPath, StartRunning, pipeVars, service, workers, bounds
  <1>2. pc[c] \notin {"load", "install", "failed"}
    BY DEF Request, TakeOpLock, Stop, FlipRunning, CloseGate, WaitDrained, ResetRunStats, ResumePipeline,
           RunLoaded, ReopenPath, StartRunning
  <1>3. ~Trying(c) /\ ~Loose(c)
    BY <1>2 DEF Trying, Loose, RolledBack
  <1> SUFFICES ~Trying(c)' /\ ~Loose(c)' /\ EngineFacts(c)'
    BY <1>0, <1>1, <1>3, EngineKept
  <1> USE <1>0, <1>1, <1>2 DEF Trying, Loose, RolledBack, Activating, EngineFacts
  <1>4. CASE Request(c)
    BY <1>4 DEF Request, LockFacts, Working, lockVars
  <1>5. CASE TakeOpLock(c)
    <2>1. CASE Finish(c)
      BY <2>1, <1>5, ControlAssumption DEF Finish, TakeOpLock, OpLockFree
    <2>2. CASE op[c] # "activate" /\ \E where \in Where : Goto(c, where) /\ where # "install"
      BY <2>2, <1>5 DEF Goto, TakeOpLock
    <2>3. CASE op[c] = "activate" /\ Goto(c, "flip") /\ prev' = [prev EXCEPT ![c] = current]
               /\ \E m \in Models : target' = [target EXCEPT ![c] = m]
      BY <2>3, <1>5, PipelineAssumption DEF Goto, TakeOpLock
    <2> QED
      BY <1>5, <2>1, <2>2, <2>3 DEF TakeOpLock, Where
  <1>6. CASE FlipRunning(c) \/ CloseGate(c) \/ WaitDrained(c)
    BY <1>6 DEF FlipRunning, CloseGate, WaitDrained, Goto, lockVars
  <1>7. CASE ResetRunStats(c)
    BY <1>7 DEF ResetRunStats, Goto, lockVars
  <1>8. CASE ResumePipeline(c)
    BY <1>8, ControlAssumption DEF ResumePipeline, StartAgain, Finish, Goto
  <1>9. CASE RunLoaded(c) \/ ReopenPath(c)
    BY <1>9, ControlAssumption DEF RunLoaded, ReopenPath, Finish, Goto
  <1>10. CASE StartRunning(c)
    BY <1>10, ControlAssumption DEF StartRunning, Finish, Goto, lockVars
  <1> QED
    BY <1>4, <1>5, <1>6, <1>7, <1>8, <1>9, <1>10 DEF Stop

LEMMA SwitchEngine ==
  ASSUME TypeOK, LockInv, EngineInv, NEW c \in Callers,
         SelectModel(c) \/ FreeWorkers(c) \/ SwitchTask(c) \/ DropReleased(c)
  PROVE  EngineInv'
  <1>0. /\ Step(c) /\ LockFacts(c) /\ EngineFacts(c) /\ pc \in [Callers -> Where]
        /\ pc[c] \in {"select", "free", "unload", "drop"}
        /\ UNCHANGED <<op, target, prev, detLock>>
    BY DEF Step, Start, LockInv, EngineInv, TypeOK, CallType, SelectModel, FreeWorkers, SwitchTask, DropReleased,
           lockVars
  <1>1. opLock = c /\ detLock # c /\ ~Trying(c) /\ ~Loose(c)
    BY <1>0 DEF LockFacts, Working, Trying, Loose, RolledBack
  <1>2. (mgr = None \/ Fits) /\ mgr \in {None, current}
    BY <1>1, HolderLoads
  <1>3. \A d \in Callers : d # c => EngineFacts(d)' /\ (Trying(d)' <=> Trying(d))
    BY <1>0, OthersEngine DEF EngineInv
  <1>4. CASE StartAgain(c) /\ UNCHANGED <<pipeVars, current>>
    <2>1. ~Trying(c)' /\ ~Loose(c)' /\ EngineFacts(c)'
      BY <1>0, <1>4, ControlAssumption
         DEF StartAgain, Finish, Goto, Trying, Loose, RolledBack, Activating, EngineFacts
    <2> QED
      BY <1>0, <1>1, <1>4, <2>1, EngineKept DEF pipeVars, service, workers
  <1>5. CASE SelectModel(c) /\ current' = target[c] /\ Goto(c, "load") /\ UNCHANGED opLock
    <2>1. /\ pc'[c] = "load" /\ op[c] = "activate" /\ prev[c] = current /\ target[c] # None
          /\ UNCHANGED <<mgr, engine, modelPath>>
      BY <1>0, <1>1, <1>5 DEF Goto, SelectModel, LockFacts, EngineFacts, Activating, pipeVars, service, workers
    <2>2. Trying(c)' /\ EngineFacts(c)'
      BY <1>0, <1>1, <1>2, <1>5, <2>1 DEF Trying, RolledBack, Activating, EngineFacts
    <2>3. Fits' <=> Fits
      BY <2>1 DEF Fits
    <2> QED
      BY <1>2, <1>3, <2>1, <2>2, <2>3 DEF EngineInv
  <1>6. CASE FreeWorkers(c)
    <2>1. /\ opLock' # c /\ UNCHANGED <<mgr, current, modelPath>> /\ engine' = None
      BY <1>1, <1>6, ControlAssumption DEF FreeWorkers, Finish, service
    <2>2. EngineFacts(c)'
      BY <2>1 DEF EngineFacts, Trying, RolledBack, Activating
    <2> QED
      BY <1>2, <1>3, <2>1, <2>2 DEF EngineInv, Fits
  <1>7. CASE UnloadRuntime /\ (current' = None \/ current' = current) /\ pc'[c] \in {"idle", "start"}
    <2>1. mgr' = None
      BY <1>7 DEF UnloadRuntime
    <2>2. EngineFacts(c)'
      BY <1>7 DEF EngineFacts, Trying, RolledBack
    <2> QED
      BY <1>3, <2>1, <2>2 DEF EngineInv
  <1>8. CASE DropReleased(c)
    BY <1>0, <1>7, <1>8 DEF DropReleased, Goto
  <1>9. CASE SwitchTask(c)
    BY <1>0, <1>4, <1>7, <1>9 DEF SwitchTask, Finish, Goto
  <1>10. CASE SelectModel(c)
    BY <1>4, <1>5, <1>10 DEF SelectModel
  <1> QED
    BY <1>6, <1>8, <1>9, <1>10

(* At most one load fails.  A first failure leaves the workers with an     *)
(* engine that is not the service's only where the roll-back puts it right. *)
LEMMA LoadEngine ==
  ASSUME MaxFailures <= 1, TypeOK, LockInv, SwapInv, EngineInv, NEW c \in Callers, Initialize(c), ~ResumePipeline(c)
  PROVE  EngineInv'
  <1>0. /\ Step(c) /\ LockFacts(c) /\ EngineFacts(c) /\ pc \in [Callers -> Where]
        /\ target \in [Callers -> Loaded] /\ nfail \in Nat /\ nfail <= 1 /\ nfail <= MaxFailures
        /\ pc[c] \in {"load", "install", "bump", "failed"} /\ UNCHANGED <<op, prev>> /\ current \in Loaded
    BY ControlAssumption
       DEF Step, Initialize, LockInv, EngineInv, TypeOK, CallType, ControlType, LoadModel, InstallRuntime,
           BumpGeneration, RollBack, GiveUp
  <1>1. opLock = c
    BY <1>0 DEF LockFacts, Working
  <1>2. \A d \in Callers : d # c => EngineFacts(d)' /\ ~Trying(d)'
    BY <1>0, <1>1, OthersEngine DEF EngineInv, Trying, Activating
  <1>3. ~Loose(c) => (mgr = None \/ Fits)
    BY <1>1, HolderLoads
  <1>4. ~Trying(c) => mgr \in {None, current}
    BY <1>1 DEF EngineInv, Trying, Activating
  <1>5. CASE LoadModel(c)
    <2>1. /\ pc[c] = "load" /\ UNCHANGED <<mgr, current, target, opLock, detLock>>
      BY <1>5 DEF LoadModel, service, lockVars
    <2>2. CASE current # None /\ engine' = current /\ modelPath' = current /\ Goto(c, "install") /\ UNCHANGED nfail
      <3>1. pc'[c] = "install"
        BY <1>0, <2>2 DEF Goto
      <3>2. (Trying(c)' <=> Trying(c)) /\ EngineFacts(c)' /\ Loose(c)'
        BY <1>0, <1>1, <2>1, <2>2, <3>1 DEF Trying, RolledBack, Activating, Loose, EngineFacts
      <3> QED
        BY <1>2, <1>4, <2>1, <3>2 DEF EngineInv
    <2>3. CASE /\ current # None /\ nfail < MaxFailures /\ nfail' = nfail + 1
               /\ (engine' = current /\ modelPath' = current) \/ UNCHANGED workers
               /\ Goto(c, "failed")
      <3>1. pc'[c] = "failed" /\ nfail' >= 1 /\ nfail = 0
        BY <1>0, <2>3, ControlAssumption DEF Goto
      <3>2. (Trying(c)' <=> Trying(c)) /\ EngineFacts(c)' /\ ~RolledBack(c)
        BY <1>0, <1>1, <2>1, <3>1 DEF Trying, RolledBack, Activating, EngineFacts
      <3>3. CASE Trying(c)
        BY <1>2, <3>1, <3>2, <3>3 DEF EngineInv, Loose
      <3>4. CASE ~Trying(c)
        <4>1. ~Loose(c)
          BY <2>1, <3>2, <3>4 DEF Loose
        <4>2. mgr' = None \/ Fits'
          BY <1>3, <1>4, <2>1, <2>3, <3>4, <4>1 DEF Fits, workers
        <4> QED
          BY <1>2, <1>4, <2>1, <3>2, <3>4, <4>2 DEF EngineInv
      <3> QED
        BY <3>3, <3>4
    <2>4. CASE current = None /\ Goto(c, "failed") /\ UNCHANGED <<workers, nfail>>
      <3>1. pc'[c] = "failed" /\ UNCHANGED <<engine, modelPath>>
        BY <1>0, <2>4 DEF Goto, workers
      <3>2. ~Trying(c)
        BY <1>0, <2>4 DEF EngineFacts, Trying
      <3>3. ~Trying(c)' /\ EngineFacts(c)'
        BY <1>0, <2>1, <3>1, <3>2 DEF Trying, RolledBack, Activating, EngineFacts
      <3> QED
        BY <1>2, <1>4, <2>1, <2>4, <3>2, <3>3 DEF EngineInv
    <2> QED
      BY <1>5, <2>2, <2>3, <2>4 DEF LoadModel
  <1>6. CASE InstallRuntime(c)
    <2>1. /\ pc[c] = "install" /\ pc'[c] = "bump" /\ mgr' = current
          /\ UNCHANGED <<engine, modelPath, current, opLock>>
      BY <1>0, <1>6 DEF InstallRuntime, Goto, workers, lockVars
    <2>2. Fits' /\ EngineFacts(c)' /\ ~Trying(c)'
      BY <1>0, <1>1, <2>1 DEF Fits, EngineFacts, Trying, RolledBack, Activating
    <2> QED
      BY <1>2, <2>1, <2>2 DEF EngineInv
  <1>7. CASE BumpGeneration(c)
    <2>1. pc[c] = "bump" /\ pc'[c] = "open" /\ UNCHANGED <<mgr, engine, modelPath, current>>
      BY <1>0, <1>7 DEF BumpGeneration, Goto, workers
    <2>2. ~Trying(c) /\ ~Loose(c) /\ ~Trying(c)' /\ ~Loose(c)' /\ EngineFacts(c)'
      BY <2>1 DEF EngineFacts, Trying, RolledBack, Loose
    <2> QED
      BY <1>0, <2>1, <2>2, EngineKept
  <1>8. CASE RollBack(c)
    <2>1. /\ pc[c] = "failed" /\ Trying(c) /\ pc'[c] = "load" /\ current' = prev[c] /\ target'[c] = None
          /\ UNCHANGED <<mgr, opLock, detLock, nfail>>
      BY <1>0, <1>1, <1>8 DEF RollBack, Goto, Trying, Activating, pipeVars, service, lockVars, bounds
    <2>2. RolledBack(c)' /\ ~Trying(c)' /\ Loose(c)'
      BY <1>0, <2>1 DEF RolledBack, Trying, Activating, Loose
    <2>3. EngineFacts(c)' /\ mgr' \in {None, current'}
      BY <1>0, <2>1, <2>2 DEF EngineFacts
    <2> QED
      BY <1>2, <2>2, <2>3 DEF EngineInv
  <1>9. CASE GiveUp(c)
    <2>1. pc[c] = "failed" /\ pc'[c] = "idle" /\ UNCHANGED <<mgr, engine, modelPath, current>>
          /\ ~Trying(c) /\ ~Loose(c)
      BY <1>0, <1>9 DEF GiveUp, Finish, Goto, Trying, Activating, Loose, RolledBack, pipeVars, service, workers
    <2>2. ~Trying(c)' /\ ~Loose(c)' /\ EngineFacts(c)'
      BY <2>1 DEF EngineFacts, Trying, RolledBack, Loose
    <2> QED
      BY <1>0, <2>1, <2>2, EngineKept
  <1> QED
    BY <1>5, <1>6, <1>7, <1>8, <1>9 DEF Initialize

LEMMA EngineUnderCallers ==
  ASSUME MaxFailures <= 1, TypeOK, LockInv, SwapInv, EngineInv, NEW c \in Callers, Request(c) \/ Step(c)
  PROVE  EngineInv'
  BY StepsAsideEngine, SwitchEngine, LoadEngine DEF Step, Start, Initialize

-----------------------------------------------------------------------------
(* The frames.  One that is not stale was prepared for the service's model. *)
Paired(x, g, m) == x.gen = g => x.mgr = m
AllPaired(q, g, m) == \A i \in 1..Len(q) : Paired(q[i], g, m)

LEMMA AppendPaired ==
  ASSUME NEW q \in Seq(Items), NEW x \in Items, NEW g, NEW m, AllPaired(q, g, m), Paired(x, g, m)
  PROVE  AllPaired(Append(q, x), g, m)
  BY DEF AllPaired

LEMMA TakePaired ==
  ASSUME NEW q \in Seq(Items), q # <<>>, NEW g, NEW m, AllPaired(q, g, m)
  PROVE  Paired(Head(q), g, m) /\ AllPaired(Tail(q), g, m)
  BY DEF AllPaired

(* A lane has bound what it stamped, but where the generation is about to  *)
(* move on.                                                                *)
Bumping == \E c \in Callers : opLock = c /\ pc[c] = "bump"
LaneFacts(a) == aPc[a] \in {"check", "put"} /\ aGen[a] = gen => aMgr[a] = mgr \/ Bumping

InferFacts(b) ==
    /\ bPc[b] # "idle" => Paired(bItem[b], gen, mgr)
    /\ bPc[b] \in {"infer", "run"} => bItem[b].gen = gen
    /\ bPc[b] = "run" => bUsed[b] \in {None, mgr}

FinishFacts ==
    /\ cPc # "idle" => Paired(cItem, gen, mgr)
    /\ cPc \in {"finish", "stats", "update"} => cItem.gen = gen
    /\ cPc \in {"stats", "update"} => cUsed = mgr

PathInv ==
    /\ \A l \in Lanes : LaneFacts(l) /\ InferFacts(l)
    /\ AllPaired(qInfer, gen, mgr) /\ AllPaired(qFinish, gen, mgr)
    /\ FinishFacts

LEMMA PathInit == Init => PathInv
  BY DEF Init, PipeInit, PathInv, LaneFacts, InferFacts, FinishFacts, AllPaired

(* An empty path has no wrong pairs.                                       *)
LEMMA CalmIsPaired ==
  ASSUME Calm
  PROVE  /\ \A l \in Lanes : InferFacts(l)
         /\ AllPaired(qInfer, gen, mgr) /\ AllPaired(qFinish, gen, mgr) /\ FinishFacts
  BY DEF Calm, InferFacts, AllPaired, FinishFacts

(* While a frame is on the path its engine is there to run it.             *)
LEMMA BusyFits ==
  ASSUME ControlInv, EngineInv, ~Calm
  PROVE  mgr # None /\ Fits
  <1>1. SwapInv /\ mgr # None
    BY DEF ControlInv, SwapInv, Vacant, Resting
  <1>2. ASSUME NEW c \in Callers, Loose(c) PROVE FALSE
    <2>1. opLock = c /\ pc[c] \in AtRest
      BY <1>2 DEF Loose, Trying, RolledBack, Activating, AtRest
    <2> QED
      BY <1>1, <2>1 DEF SwapInv, SwapFacts, Resting
  <1> QED
    BY <1>1, <1>2 DEF EngineInv

(* And while detection runs the generation is not about to move on.        *)
LEMMA RunningNotBumping == SwapInv /\ running => ~Bumping
  BY DEF SwapInv, SwapFacts, AtRest, Resting, Bumping

LEMMA StageAPath ==
  ASSUME PipeTypeOK, SwapInv, PathInv, NEW a \in Lanes, StageA(a), UNCHANGED control
  PROVE  PathInv'
  <1>0. /\ UNCHANGED <<running, mgr, gen>> /\ Bumping' = Bumping
        /\ LaneFacts(a) /\ gen \in Nat /\ aGen \in [Lanes -> 0..gen] /\ aMgr \in [Lanes -> Loaded]
        /\ aPc \in [Lanes -> {"idle", "grab", "gate", "off", "emit", "begin", "stamp", "bind", "check", "put"}]
    BY PipeLeaves DEF PipeNext, control, callVars, lockVars, Bumping, PathInv, PipeTypeOK, ServiceType, PrepareType
  <1>1. UNCHANGED <<bVars, cVars, qFinish>>
    BY DEF StageA, WaitActive, GrabNext, Gate, EmitOff, EmitFrame, BeginInflight, StampGeneration,
           BindRuntime, CheckReady, PutInfer, LeaveA, GotoA, queues
  <1>2. ASSUME NEW l \in Lanes, l # a PROVE LaneFacts(l)'
    <2>1. LaneFacts(l)
      BY DEF PathInv
    <2>2. aPc'[l] = aPc[l] /\ aGen'[l] = aGen[l] /\ aMgr'[l] = aMgr[l]
      BY <1>0, <1>2 DEF StageA, WaitActive, GrabNext, Gate, EmitOff, EmitFrame, BeginInflight, StampGeneration,
                   BindRuntime, CheckReady, PutInfer, LeaveA, GotoA
    <2> QED
      BY <1>0, <2>1, <2>2 DEF LaneFacts
  <1>3. LaneFacts(a)'
    <2>1. CASE LeaveA(a) \/ WaitActive(a) \/ GrabNext(a) \/ Gate(a) \/ EmitOff(a) \/ EmitFrame(a)
               \/ BeginInflight(a) \/ StampGeneration(a) \/ PutInfer(a)
      <3>1. aPc'[a] \notin {"check", "put"}
        BY <1>0, <2>1 DEF LeaveA, WaitActive, GrabNext, Gate, EmitOff, EmitFrame, BeginInflight, StampGeneration,
                   PutInfer, GotoA
      <3> QED
        BY <3>1 DEF LaneFacts
    <2>2. CASE BindRuntime(a)
      BY <1>0, <2>2 DEF BindRuntime, GotoA, LaneFacts
    <2>3. CASE CheckReady(a)
      BY <1>0, <2>3 DEF CheckReady, GotoA, LaneFacts
    <2> QED
      BY <2>1, <2>2, <2>3 DEF StageA
  <1>4. AllPaired(qInfer', gen, mgr)
    <2>1. CASE UNCHANGED qInfer
      BY <2>1 DEF PathInv
    <2>2. CASE ~UNCHANGED qInfer
      <3> DEFINE item == [seq |-> aSeq[a], gen |-> aGen[a], mgr |-> aMgr[a]]
      <3>1. PutInfer(a) /\ aPc[a] = "put" /\ qInfer' = Append(qInfer, item)
        BY <2>2 DEF StageA, WaitActive, GrabNext, Gate, EmitOff, EmitFrame, BeginInflight, StampGeneration,
                    BindRuntime, CheckReady, PutInfer, LeaveA, GotoA, queues
      <3>2. item \in Items /\ qInfer \in Seq(Items)
        BY <1>0 DEF Items, PipeTypeOK, PrepareType, QueueType
      <3>3. ~Bumping
        BY <3>1 DEF SwapInv, SwapFacts, AtRest, Resting, Calm, Bumping
      <3>4. Paired(item, gen, mgr)
        BY <1>0, <3>1, <3>3 DEF Paired, LaneFacts
      <3> HIDE DEF item
      <3> QED
        BY <3>1, <3>2, <3>4, AppendPaired DEF PathInv
    <2> QED
      BY <2>1, <2>2
  <1>5. \A l \in Lanes : InferFacts(l)'
    BY <1>0, <1>1 DEF PathInv, InferFacts, bVars
  <1>6. FinishFacts' /\ AllPaired(qFinish', gen, mgr)
    BY <1>0, <1>1 DEF PathInv, FinishFacts, cVars
  <1> QED
    BY <1>0, <1>2, <1>3, <1>4, <1>5, <1>6 DEF PathInv

LEMMA SameLanes ==
  ASSUME PathInv, UNCHANGED <<aVars, gen, mgr>>, UNCHANGED control
  PROVE  \A l \in Lanes : LaneFacts(l)'
  BY DEF PathInv, LaneFacts, Bumping, aVars, control, callVars, lockVars

LEMMA StageBPath ==
  ASSUME PipeTypeOK, ControlInv, EngineInv, PathInv, NEW b \in Lanes, StageB(b), UNCHANGED control
  PROVE  PathInv'
  <1>0. /\ UNCHANGED <<mgr, gen, aVars, cVars>>
        /\ InferFacts(b) /\ bItem \in [Lanes -> Items] /\ bUsed \in [Lanes -> Loaded]
        /\ bPc \in [Lanes -> {"idle", "check", "infer", "run"}]
        /\ qInfer \in Seq(Items) /\ qFinish \in Seq(Items)
        /\ AllPaired(qInfer, gen, mgr) /\ AllPaired(qFinish, gen, mgr) /\ FinishFacts
    BY DEF StageB, TakeInfer, CheckInfer, RunInference, PutFinish, afterA, service, PathInv,
           PipeTypeOK, InferType, QueueType
  <1>1. /\ \A l \in Lanes : LaneFacts(l)'
        /\ FinishFacts'
    BY <1>0, SameLanes DEF FinishFacts, cVars
  <1>2. ASSUME NEW l \in Lanes, l # b PROVE InferFacts(l)'
    <2>1. bPc'[l] = bPc[l] /\ bItem'[l] = bItem[l] /\ bUsed'[l] = bUsed[l]
      BY <1>0, <1>2 DEF StageB, TakeInfer, CheckInfer, RunInference, PutFinish, DropB, IdleB
    <2> QED
      BY <1>0, <2>1 DEF PathInv, InferFacts
  <1> SUFFICES InferFacts(b)' /\ AllPaired(qInfer', gen, mgr) /\ AllPaired(qFinish', gen, mgr)
    BY <1>0, <1>1, <1>2 DEF PathInv
  <1>3. CASE TakeInfer(b)
    <2>1. Paired(Head(qInfer), gen, mgr) /\ AllPaired(Tail(qInfer), gen, mgr)
      BY <1>0, <1>3, TakePaired DEF TakeInfer
    <2>2. bPc'[b] = "check" /\ bItem'[b] = Head(qInfer) /\ qInfer' = Tail(qInfer) /\ qFinish' = qFinish
      BY <1>0, <1>3 DEF TakeInfer
    <2> QED
      BY <1>0, <2>1, <2>2 DEF InferFacts
  <1>4. CASE IdleB(b) /\ UNCHANGED <<qInfer, qFinish>>
    BY <1>0, <1>4 DEF IdleB, InferFacts
  <1>5. CASE CheckInfer(b)
    BY <1>0, <1>4, <1>5 DEF CheckInfer, Stale, DropB, queues, InferFacts
  <1>6. CASE RunInference(b)
    <2>1. ~Calm
      BY <1>6 DEF RunInference, Calm
    <2>2. Fits
      BY <2>1, BusyFits
    <2>3. bPc'[b] = "run" /\ bItem' = bItem /\ bUsed'[b] \in {None, mgr}
      BY <1>0, <1>6, <2>2 DEF RunInference, Fits
    <2> QED
      BY <1>0, <1>6, <2>3 DEF RunInference, InferFacts, queues
  <1>7. CASE PutFinish(b)
    <2>1. CASE qFinish' = Append(qFinish, bItem[b]) /\ IdleB(b) /\ UNCHANGED qInfer
      <3>1. Paired(bItem[b], gen, mgr) /\ bItem[b] \in Items
        BY <1>0, <1>7 DEF PutFinish, InferFacts
      <3>2. AllPaired(qFinish', gen, mgr)
        BY <1>0, <2>1, <3>1, AppendPaired
      <3> QED
        BY <1>0, <2>1, <3>2 DEF IdleB, InferFacts
    <2> QED
      BY <1>4, <1>7, <2>1 DEF PutFinish, DropB, queues
  <1> QED
    BY <1>3, <1>5, <1>6, <1>7 DEF StageB

LEMMA StageCPath ==
  ASSUME PipeTypeOK, PathInv, StageC, UNCHANGED control
  PROVE  PathInv'
  <1>0. /\ UNCHANGED <<mgr, gen, aVars, bVars, qInfer>>
        /\ qFinish \in Seq(Items) /\ AllPaired(qFinish, gen, mgr) /\ FinishFacts
    BY DEF StageC, TakeFinish, CheckFinish, Postprocess, ReadDraining, UpdateStats, PutEncode, afterB, service,
           PathInv, PipeTypeOK, QueueType
  <1>1. \A l \in Lanes : LaneFacts(l)' /\ InferFacts(l)'
    BY <1>0, SameLanes DEF PathInv, InferFacts, bVars
  <1> SUFFICES AllPaired(qFinish', gen, mgr) /\ FinishFacts'
    BY <1>0, <1>1 DEF PathInv
  <1>2. CASE TakeFinish
    <2>1. Paired(Head(qFinish), gen, mgr) /\ AllPaired(Tail(qFinish), gen, mgr)
      BY <1>0, <1>2, TakePaired DEF TakeFinish
    <2> QED
      BY <1>0, <1>2, <2>1 DEF TakeFinish, LeaveC, FinishFacts
  <1>3. CASE CheckFinish
    BY <1>0, <1>3 DEF CheckFinish, Stale, LeaveC, FinishFacts
  <1>4. CASE Postprocess
    BY <1>0, <1>4 DEF Postprocess, FinishFacts
  <1>5. CASE ReadDraining \/ UpdateStats \/ PutEncode
    BY <1>0, <1>5 DEF ReadDraining, UpdateStats, PutEncode, LeaveC, FinishFacts
  <1> QED
    BY <1>2, <1>3, <1>4, <1>5 DEF StageC

(* Who changes the model or its generation finds the path empty.           *)
LEMMA CallersPath ==
  ASSUME TypeOK, LockInv, SwapInv, PathInv, NEW c \in Callers, Request(c) \/ Step(c)
  PROVE  PathInv'
  <1>0. /\ UNCHANGED stageVars /\ gen \in Nat /\ aGen \in [Lanes -> 0..gen]
        /\ pc \in [Callers -> Where] /\ SwapFacts(c) /\ LockFacts(c)
    BY CallerTouch DEF ControlTouch, TypeOK, CallType, PipeTypeOK, ServiceType, PrepareType, SwapInv, LockInv
  <1>1. aPc' = aPc /\ aGen' = aGen /\ aMgr' = aMgr
    BY <1>0 DEF stageVars, aVars
  <1>2. \A d \in Callers : d # c => pc'[d] = pc[d] /\ (opLock' = d <=> opLock = d)
    BY MovesAlone DEF TypeOK
  <1>3. CASE UNCHANGED <<mgr, gen>> /\ ~(opLock = c /\ pc[c] = "bump")
    <2>1. Bumping => Bumping'
      BY <1>2, <1>3 DEF Bumping
    <2> QED
      BY <1>0, <1>3, <2>1
         DEF PathInv, LaneFacts, InferFacts, FinishFacts, stageVars, aVars, bVars, cVars, queues
  <1>4. ASSUME Calm, \A l \in Lanes : LaneFacts(l)' PROVE PathInv'
    <2>1. Calm'
      BY <1>0, <1>4, CallersLeaveCalm
    <2>2. /\ \A l \in Lanes : InferFacts(l)'
          /\ AllPaired(qInfer, gen, mgr)' /\ AllPaired(qFinish, gen, mgr)' /\ FinishFacts'
      BY <2>1 DEF Calm, InferFacts, AllPaired, FinishFacts
    <2> QED
      BY <1>4, <2>2 DEF PathInv
  <1>5. CASE gen' = gen + 1 /\ pc[c] \in {"unload", "drop", "bump"}
    <2>1. Calm
      BY <1>0, <1>5 DEF LockFacts, Working, SwapFacts, AtRest, Resting
    <2>2. \A l \in Lanes : aGen'[l] # gen'
      BY <1>0, <1>1, <1>5
    <2> QED
      BY <1>4, <2>1, <2>2 DEF LaneFacts
  <1>6. CASE InstallRuntime(c)
    <2>1. pc[c] = "install" /\ opLock = c /\ opLock' = c /\ pc'[c] = "bump"
      BY <1>0, <1>6 DEF InstallRuntime, Goto, LockFacts, Working, lockVars
    <2>2. Calm /\ Bumping'
      BY <1>0, <2>1 DEF SwapFacts, AtRest, Resting, Bumping
    <2> QED
      BY <1>4, <2>2 DEF LaneFacts
  <1>7. CASE BumpGeneration(c)
    BY <1>5, <1>7 DEF BumpGeneration, NextGeneration
  <1>8. CASE DropReleased(c)
    BY <1>5, <1>8 DEF DropReleased, UnloadRuntime
  <1>9. CASE SwitchTask(c)
    BY <1>3, <1>5, <1>9 DEF SwitchTask, UnloadRuntime, pipeVars, service
  <1>10. CASE ~(InstallRuntime(c) \/ BumpGeneration(c) \/ DropReleased(c) \/ SwitchTask(c))
    BY <1>3, <1>10
       DEF Request, Step, TakeOpLock, Stop, FlipRunning, CloseGate, WaitDrained, ResetRunStats,
           SelectModel, FreeWorkers, Initialize, LoadModel, ResumePipeline, RollBack, GiveUp, Start,
           StartRunning, RunLoaded, ReopenPath, pipeVars, service
  <1> QED
    BY <1>6, <1>7, <1>8, <1>9, <1>10

(* The stages load no other engine than the service's.                     *)
LEMMA EngineUnderPipe ==
  ASSUME ControlInv, EngineInv, PipeNext, UNCHANGED control
  PROVE  EngineInv'
  <1>0. UNCHANGED <<mgr, modelPath>> /\ UNCHANGED <<callVars, lockVars, current, nfail>>
    BY PipeLeaves DEF control, bounds
  <1>1. CASE UNCHANGED engine
    BY <1>0, <1>1
       DEF EngineInv, EngineFacts, Loose, Trying, RolledBack, Activating, Fits, callVars, lockVars
  <1>2. CASE ~UNCHANGED engine
    <2>1. PICK b \in Lanes : RunInference(b)
      BY <1>2 DEF PipeNext, StageA, WaitActive, GrabNext, Gate, EmitOff, EmitFrame, BeginInflight,
                  StampGeneration, BindRuntime, CheckReady, PutInfer, LeaveA, GotoA, StageB, TakeInfer,
                  CheckInfer, PutFinish, StageC, TakeFinish, CheckFinish, Postprocess, ReadDraining,
                  UpdateStats, PutEncode, StageD, TakeEncode, FreezeEncoded, PublishEncoded, ReadDrainingEncoded, RecordTimings,
                  afterA, afterB, afterC, workers
    <2>2. ~Calm
      BY <2>1 DEF RunInference, Calm
    <2>3. Fits /\ Fits'
      BY <1>0, <2>1, <2>2, BusyFits DEF RunInference, Fits
    <2>4. \A c \in Callers : ~(opLock = c /\ pc[c] = "install")
      BY <2>2 DEF ControlInv, SwapInv, SwapFacts, AtRest, Resting
    <2> QED
      BY <1>0, <2>3, <2>4
         DEF EngineInv, EngineFacts, Loose, Trying, RolledBack, Activating, callVars, lockVars
  <1> QED
    BY <1>1, <1>2

LEMMA RuntimeStep ==
  ASSUME DrainsMeetNoLoad, MaxFailures <= 1, ControlInv, EngineInv, PathInv, [Next]_vars
  PROVE  EngineInv' /\ PathInv'
  <1>0. TypeOK /\ PipeTypeOK /\ LockInv /\ SwapInv
    BY DEF ControlInv, CountInv, TypeOK
  <1>1. CASE PipeNext /\ UNCHANGED control
    <2>1. ASSUME StageD PROVE PathInv'
      <3>1. UNCHANGED <<mgr, gen, aVars, bVars, cVars, qInfer, qFinish>>
        BY <2>1 DEF StageD, TakeEncode, FreezeEncoded, PublishEncoded, ReadDrainingEncoded, RecordTimings, afterC, service
      <3> QED
        BY <1>1, <3>1, SameLanes DEF PathInv, InferFacts, FinishFacts, bVars, cVars
    <2> QED
      BY <1>0, <1>1, <2>1, EngineUnderPipe, StageAPath, StageBPath, StageCPath DEF PipeNext
  <1>2. ASSUME NEW c \in Callers, Request(c) \/ Step(c) PROVE EngineInv' /\ PathInv'
    BY <1>0, <1>2, EngineUnderCallers, CallersPath
  <1>3. CASE UNCHANGED vars
    <2>1. UNCHANGED <<aVars, gen, mgr>> /\ UNCHANGED control
      BY <1>3 DEF vars, pipeVars, service, control
    <2>2. PathInv'
      BY <1>3, <2>1, SameLanes DEF PathInv, InferFacts, FinishFacts, bVars, cVars, queues, vars, pipeVars
    <2> QED
      BY <1>3, <2>2 DEF EngineInv, EngineFacts, Loose, Trying, RolledBack, Activating, Fits, vars, pipeVars,
                        service, workers, callVars, lockVars, bounds
  <1> QED
    BY <1>1, <1>2, <1>3 DEF Next

(* Every frame is run by the engine it was prepared for and decoded by     *)
(* that model's strategy, however many lanes, frames, callers and swaps    *)
(* there are, as long as at most one load fails.                           *)
THEOREM RightRuntimeHolds ==
  ASSUME DrainsMeetNoLoad, MaxFailures <= 1
  PROVE  Spec => []RightRuntime
  <1>1. PathInv => RightRuntime
    BY DEF PathInv, InferFacts, FinishFacts, Paired, RightRuntime
  <1>2. Init => ControlInv /\ EngineInv /\ PathInv
    BY ControlInit, EngineInit, PathInit
  <1>3. ControlInv /\ EngineInv /\ PathInv /\ [Next]_vars => ControlInv' /\ EngineInv' /\ PathInv'
    BY ControlStep, RuntimeStep
  <1> QED
    BY <1>1, <1>2, <1>3, PTL DEF Spec
=============================================================================
