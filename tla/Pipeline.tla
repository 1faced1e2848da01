------------------------------- MODULE Pipeline -------------------------------
(***************************************************************************)
(* The processing pipeline of the inference-service                        *)
(* (api/services/processing_pipeline.py): prepare lanes (A) claim camera   *)
(* frames, inference lanes (B) run them, one finish thread (C)             *)
(* postprocesses, one encode thread (D) publishes, with bounded queues in  *)
(* between.  The pipeline reads the attributes of DetectionService         *)
(* (detection_service.py) without its lock; DetectionControl is the rest   *)
(* of that service and its callers, and changes them underneath.           *)
(*                                                                         *)
(* A model stands for its engine, its labels and its preprocessing; None   *)
(* is "nothing loaded".  A frame is its camera sequence number.  Clocks    *)
(* and rates are left out: counters and timings are zero or they are not.  *)
(***************************************************************************)
EXTENDS Naturals, Sequences, FiniteSets

CONSTANTS
    Lanes,       \* inference contexts: one A and one B thread each
    Models,
    None,        \* no model
    MaxFrames    \* bound: camera frames in one behaviour

ASSUME PipelineAssumption ==
    /\ IsFiniteSet(Lanes) /\ Lanes # {}
    /\ None \notin Models
    /\ MaxFrames \in Nat

Depth == Cardinality(Lanes)      \* of every queue

VARIABLES
    running,     \* DetectionService.is_running
    mgr,         \* DetectionService.model_manager and .postprocessor
    gen,         \* DetectionService.generation
    engine,      \* what the TensorRT workers hold, whoever loaded it
    modelPath,   \* what a worker that is started again loads: WorkerClient._model_path
    draining,    \* _draining
    inflight,    \* _inflight
    runStats,    \* C's part of StatsService is not zero: fps, detections, finish
    timings,     \* nor is D's part: encode and the frame age
    strays       \* history: D could write timings for a run that was over

service == <<running, mgr, gen>>
workers == <<engine, modelPath>>
gate    == <<draining, inflight>>
stats   == <<runStats, timings, strays>>

VARIABLES
    aPc, aSeq, aGen, aMgr,   \* per A thread: its locals
    aShow,                   \* per A thread: the frame whose picture it publishes
    aOwn,                    \* per A thread: it owns an in-flight count
    bPc, bItem, bUsed,       \* per B thread: its item and the engine that runs it
    cPc, cItem, cUsed,       \* C: its item and the strategy that decodes it
    dPc, dSeq                \* D

aVars == <<aPc, aSeq, aGen, aMgr, aShow, aOwn>>
bVars == <<bPc, bItem, bUsed>>
cVars == <<cPc, cItem, cUsed>>
dVars == <<dPc, dSeq>>

VARIABLES
    qInfer, qFinish, qEncode,
    grabbed,     \* _last_grabbed
    frozen,      \* _frozen: the frame it is a picture of, 0 for none
    published,   \* _last_published_seq
    shown        \* the frame whose picture the ring holds

queues == <<qInfer, qFinish, qEncode>>
output == <<frozen, published, shown>>
pipeVars == <<service, workers, gate, stats, aVars, bVars, cVars, dVars, queues, grabbed, output>>

NoItem == [seq |-> 0, gen |-> 0, mgr |-> None]

PipeInit ==
    /\ running = FALSE /\ gen = 0
    /\ mgr \in Models \cup {None} /\ engine = mgr /\ modelPath = mgr
    /\ draining = FALSE /\ inflight = 0
    /\ runStats = FALSE /\ timings = FALSE /\ strays = FALSE
    /\ aPc = [a \in Lanes |-> "idle"] /\ aSeq = [a \in Lanes |-> 0]
    /\ aGen = [a \in Lanes |-> 0] /\ aMgr = [a \in Lanes |-> None]
    /\ aShow = [a \in Lanes |-> 0] /\ aOwn = [a \in Lanes |-> FALSE]
    /\ bPc = [b \in Lanes |-> "idle"] /\ bItem = [b \in Lanes |-> NoItem]
    /\ bUsed = [b \in Lanes |-> None]
    /\ cPc = "idle" /\ cItem = NoItem /\ cUsed = None
    /\ dPc = "idle" /\ dSeq = 0
    /\ qInfer = <<>> /\ qFinish = <<>> /\ qEncode = <<>>
    /\ grabbed = 0 /\ frozen = 0 /\ published = 0 /\ shown = 0

(* _end_inflight: the count stops at zero.                                 *)
EndInflight == inflight' = IF inflight = 0 THEN 0 ELSE inflight - 1

(* _publish: what is older than the last frame published is dropped.       *)
Publish(picture, seq) ==
    /\ published' = IF seq > published THEN seq ELSE published
    /\ shown' = IF seq > published THEN picture ELSE shown

(* _handoff waits for room in the next queue.                              *)
Room(q) == Len(q) < Depth

(* Variant: nothing is ever stale.                                         *)
NeverStale(item) == FALSE

(* _check_generation: the runtime changed since the frame was prepared.    *)
Stale(item) == item.gen # gen

-----------------------------------------------------------------------------
(* Stage A.                                                                *)

(* The thread is done with its frame and gives its count back.             *)
LeaveA(a) ==
    /\ aPc' = [aPc EXCEPT ![a] = "idle"]
    /\ aSeq' = [aSeq EXCEPT ![a] = 0]
    /\ aGen' = [aGen EXCEPT ![a] = 0]
    /\ aMgr' = [aMgr EXCEPT ![a] = None]
    /\ aShow' = [aShow EXCEPT ![a] = 0]
    /\ aOwn' = [aOwn EXCEPT ![a] = FALSE]
    /\ IF aOwn[a] THEN EndInflight ELSE UNCHANGED inflight
    /\ UNCHANGED <<draining, service, workers, stats, bVars, cVars, dVars>>

GotoA(a, where) ==
    /\ aPc' = [aPc EXCEPT ![a] = where]
    /\ UNCHANGED <<service, workers, draining, stats, bVars, cVars, dVars, queues, grabbed>>

(* _wait_active: nothing is grabbed while detection is stopped.            *)
WaitActive(a) ==
    /\ aPc[a] = "idle" /\ running
    /\ GotoA(a, "grab")
    /\ UNCHANGED <<aSeq, aGen, aMgr, aShow, aOwn, inflight, output>>

(* _grab_next: the lock gives every frame to one lane, or time runs out.   *)
GrabNext(a) ==
    /\ aPc[a] = "grab"
    /\ \/ /\ grabbed < MaxFrames
          /\ grabbed' = grabbed + 1
          /\ aSeq' = [aSeq EXCEPT ![a] = grabbed + 1]
          /\ aPc' = [aPc EXCEPT ![a] = "gate"]
          /\ UNCHANGED <<aGen, aMgr, aShow, aOwn, gate, service, workers, stats, bVars, cVars, dVars>>
       \/ LeaveA(a) /\ UNCHANGED grabbed
    /\ UNCHANGED <<queues, output>>

(* What the detection path is open for.                                    *)
PathOpen == running /\ mgr # None /\ ~draining

(* The trigger pin, the trigger switch and the frame itself are the        *)
(* environment's: held re-emits _frozen (a low pin drops the frame when    *)
(* there is none), a frame that does not decode is dropped.                *)
Gate(a) ==
    /\ aPc[a] = "gate"
    /\ \/ /\ frozen # 0
          /\ aShow' = [aShow EXCEPT ![a] = frozen]
          /\ GotoA(a, "emit")
          /\ UNCHANGED <<aSeq, aGen, aMgr, aOwn, inflight>>
       \/ LeaveA(a) /\ UNCHANGED <<queues, grabbed>>
       \/ /\ GotoA(a, IF PathOpen THEN "begin" ELSE "off")
          /\ UNCHANGED <<aSeq, aGen, aMgr, aShow, aOwn, inflight>>
       \/ /\ frozen = 0
          /\ GotoA(a, "off")
          /\ UNCHANGED <<aSeq, aGen, aMgr, aShow, aOwn, inflight>>
    /\ UNCHANGED output

(* _emit_off: the overlay becomes the frozen frame, then is published.     *)
EmitOff(a) ==
    /\ aPc[a] = "off"
    /\ frozen' = aSeq[a]
    /\ aShow' = [aShow EXCEPT ![a] = aSeq[a]]
    /\ GotoA(a, "emit")
    /\ UNCHANGED <<aSeq, aGen, aMgr, aOwn, inflight, published, shown>>

EmitFrame(a) ==
    /\ aPc[a] = "emit"
    /\ Publish(aShow[a], aSeq[a])
    /\ LeaveA(a)
    /\ UNCHANGED <<queues, grabbed, frozen>>

(* _dispatch_detection: the frame counts as in flight from here on ...     *)
BeginInflight(a) ==
    /\ aPc[a] = "begin"
    /\ inflight' = inflight + 1
    /\ aOwn' = [aOwn EXCEPT ![a] = TRUE]
    /\ GotoA(a, "stamp")
    /\ UNCHANGED <<aSeq, aGen, aMgr, aShow, output>>

(* ... prepare() reads the generation ...                                  *)
StampGeneration(a) ==
    /\ aPc[a] = "stamp"
    /\ aGen' = [aGen EXCEPT ![a] = gen]
    /\ GotoA(a, "bind")
    /\ UNCHANGED <<aSeq, aMgr, aShow, aOwn, inflight, output>>

(* ... then the runtime ...                                                *)
BindRuntime(a) ==
    /\ aPc[a] = "bind"
    /\ aMgr' = [aMgr EXCEPT ![a] = mgr]
    /\ GotoA(a, "check")
    /\ UNCHANGED <<aSeq, aGen, aShow, aOwn, inflight, output>>

(* Variant: prepare() trusts the check made before the frame was counted.  *)
PrepareUnchecked(a) == aMgr[a] # None

(* ... and refuses when detection is stopped or has no runtime.            *)
Ready(a) == running /\ aMgr[a] # None

CheckReady(a) ==
    /\ aPc[a] = "check"
    /\ GotoA(a, IF Ready(a) THEN "put" ELSE "off")
    /\ UNCHANGED <<aSeq, aGen, aMgr, aShow, aOwn, inflight, output>>

(* Hand-off: the count goes with the item.  Preprocessing may fail, and a  *)
(* queue that stays full for two seconds drops the frame.                  *)
PutInfer(a) ==
    /\ aPc[a] = "put"
    /\ \/ /\ Room(qInfer)
          /\ qInfer' = Append(qInfer, [seq |-> aSeq[a], gen |-> aGen[a], mgr |-> aMgr[a]])
          /\ aPc' = [aPc EXCEPT ![a] = "idle"]
          /\ aSeq' = [aSeq EXCEPT ![a] = 0]
          /\ aGen' = [aGen EXCEPT ![a] = 0]
          /\ aMgr' = [aMgr EXCEPT ![a] = None]
          /\ aOwn' = [aOwn EXCEPT ![a] = FALSE]
          /\ UNCHANGED <<aShow, gate, service, workers, stats, bVars, cVars, dVars>>
       \/ LeaveA(a) /\ UNCHANGED qInfer
    /\ UNCHANGED <<qFinish, qEncode, grabbed, output>>

StageA(a) ==
    \/ WaitActive(a) \/ GrabNext(a) \/ Gate(a) \/ EmitOff(a) \/ EmitFrame(a) \/ BeginInflight(a)
    \/ StampGeneration(a) \/ BindRuntime(a) \/ CheckReady(a) \/ PutInfer(a)

-----------------------------------------------------------------------------
(* Stage B.                                                                *)

afterA == <<service, workers, draining, stats, aVars, grabbed, output>>

IdleB(b) ==
    /\ bPc' = [bPc EXCEPT ![b] = "idle"]
    /\ bItem' = [bItem EXCEPT ![b] = NoItem]
    /\ bUsed' = [bUsed EXCEPT ![b] = None]

(* Variant: an item that is not handed on keeps its count.                 *)
DropWithoutEnd(b) == IdleB(b) /\ UNCHANGED <<inflight, queues>>

(* The item is dropped: stale, failed or stuck behind a full queue.        *)
DropB(b) == IdleB(b) /\ EndInflight /\ UNCHANGED queues

TakeInfer(b) ==
    /\ bPc[b] = "idle" /\ qInfer # <<>>
    /\ bItem' = [bItem EXCEPT ![b] = Head(qInfer)]
    /\ qInfer' = Tail(qInfer)
    /\ bPc' = [bPc EXCEPT ![b] = "check"]
    /\ UNCHANGED <<afterA, inflight, bUsed, qFinish, qEncode, cVars, dVars>>

(* DetectionService.infer: the generation is checked first ...             *)
CheckInfer(b) ==
    /\ bPc[b] = "check"
    /\ IF Stale(bItem[b]) \/ mgr = None
       THEN DropB(b)
       ELSE /\ bPc' = [bPc EXCEPT ![b] = "infer"]
            /\ UNCHANGED <<inflight, queues, bItem, bUsed>>
    /\ UNCHANGED <<afterA, cVars, dVars>>

(* ... then the workers run whatever engine they hold by then; one that    *)
(* was torn down is started again and loads the model it had last.         *)
RunInference(b) ==
    /\ bPc[b] = "infer"
    /\ bPc' = [bPc EXCEPT ![b] = "run"]
    /\ engine' = IF engine = None THEN modelPath ELSE engine
    /\ bUsed' = [bUsed EXCEPT ![b] = engine']
    /\ UNCHANGED <<service, modelPath, draining, stats, aVars, grabbed, output, inflight, queues,
                   bItem, cVars, dVars>>

PutFinish(b) ==
    /\ bPc[b] = "run"
    /\ \/ /\ Room(qFinish) /\ bUsed[b] # None
          /\ qFinish' = Append(qFinish, bItem[b])
          /\ IdleB(b)
          /\ UNCHANGED <<inflight, qInfer, qEncode>>
       \/ DropB(b)
    /\ UNCHANGED <<afterA, cVars, dVars>>

StageB(b) == TakeInfer(b) \/ CheckInfer(b) \/ RunInference(b) \/ PutFinish(b)

-----------------------------------------------------------------------------
(* Stage C.                                                                *)

afterB == <<service, workers, draining, timings, strays, aVars, bVars, dVars, grabbed, output, qInfer>>

(* The item leaves the detection path.                                     *)
LeaveC ==
    /\ cPc' = "idle" /\ cItem' = NoItem /\ cUsed' = None
    /\ EndInflight

(* A frame that a faster lane superseded is dropped at once.               *)
TakeFinish ==
    /\ cPc = "idle" /\ qFinish # <<>>
    /\ qFinish' = Tail(qFinish)
    /\ IF Head(qFinish).seq <= published
       THEN LeaveC
       ELSE /\ cPc' = "check" /\ cItem' = Head(qFinish)
            /\ UNCHANGED <<cUsed, inflight>>
    /\ UNCHANGED <<afterB, runStats, qEncode>>

(* DetectionService.finish: the generation, then the strategy.             *)
CheckFinish ==
    /\ cPc = "check"
    /\ IF Stale(cItem)
       THEN LeaveC
       ELSE cPc' = "finish" /\ UNCHANGED <<cItem, cUsed, inflight>>
    /\ UNCHANGED <<afterB, runStats, qFinish, qEncode>>

(* Postprocessing may fail; the raw frame then goes on without statistics. *)
Postprocess ==
    /\ cPc = "finish"
    /\ cUsed' = mgr
    /\ \/ cPc' = "stats" /\ mgr # None
       \/ cPc' = "put"
    /\ UNCHANGED <<afterB, runStats, inflight, cItem, qFinish, qEncode>>

(* Variant: the count is given back before the statistics are written.     *)
EarlyLeave ==
    /\ cPc = "stats"
    /\ cPc' = "update"
    /\ EndInflight
    /\ UNCHANGED <<afterB, runStats, cItem, cUsed, qFinish, qEncode>>

(* Statistics: the drain gate is read ...                                  *)
ReadDraining ==
    /\ cPc = "stats"
    /\ cPc' = IF draining THEN "put" ELSE "update"
    /\ UNCHANGED <<afterB, runStats, inflight, cItem, cUsed, qFinish, qEncode>>

(* ... then they are updated.                                              *)
UpdateStats ==
    /\ cPc = "update"
    /\ runStats' = TRUE
    /\ cPc' = "put"
    /\ UNCHANGED <<afterB, inflight, cItem, cUsed, qFinish, qEncode>>

PutEncode ==
    /\ cPc = "put"
    /\ LeaveC
    /\ \/ Room(qEncode) /\ qEncode' = Append(qEncode, cItem.seq)
       \/ UNCHANGED qEncode
    /\ UNCHANGED <<afterB, runStats, qFinish>>

StageC == TakeFinish \/ CheckFinish \/ Postprocess \/ ReadDraining \/ UpdateStats \/ PutEncode

-----------------------------------------------------------------------------
(* Stage D: it holds no count, and drain does not wait for it.             *)

afterC == <<service, workers, gate, runStats, strays, aVars, bVars, cVars, grabbed, qInfer, qFinish>>

TakeEncode ==
    /\ dPc = "idle" /\ qEncode # <<>>
    /\ dSeq' = Head(qEncode)
    /\ qEncode' = Tail(qEncode)
    /\ dPc' = "freeze"
    /\ UNCHANGED <<afterC, timings, output>>

IdleD == dPc' = "idle" /\ dSeq' = 0

(* A frame that does not encode goes no further.                           *)
FreezeEncoded ==
    /\ dPc = "freeze"
    /\ \/ frozen' = dSeq /\ dPc' = "publish" /\ UNCHANGED dSeq
       \/ IdleD /\ UNCHANGED frozen
    /\ UNCHANGED <<afterC, timings, qEncode, published, shown>>

PublishEncoded ==
    /\ dPc = "publish"
    /\ Publish(dSeq, dSeq)
    /\ dPc' = "stats"
    /\ UNCHANGED <<afterC, timings, qEncode, dSeq, frozen>>

(* Variant: the timings are recorded whether or not the run is stopping.   *)
RecordAlways ==
    /\ dPc = "stats"
    /\ dPc' = "record"
    /\ UNCHANGED <<afterC, timings, qEncode, dSeq, output>>

(* Its timings: the drain gate is read ...                                 *)
ReadDrainingEncoded ==
    /\ dPc = "stats"
    /\ IF draining THEN IdleD ELSE dPc' = "record" /\ UNCHANGED dSeq
    /\ UNCHANGED <<afterC, timings, qEncode, output>>

(* ... then they are recorded.                                             *)
RecordTimings ==
    /\ dPc = "record"
    /\ timings' = TRUE
    /\ IdleD
    /\ UNCHANGED <<afterC, qEncode, output>>

StageD == TakeEncode \/ FreezeEncoded \/ PublishEncoded \/ ReadDrainingEncoded \/ RecordTimings

(* D has a frame whose timings it may yet record: past the gate, or, where *)
(* that is open, before it.                                                *)
TimingsDue(open) == dPc = "record" \/ (open /\ (dPc # "idle" \/ qEncode # <<>>))

PipeNext == (\E l \in Lanes : StageA(l) \/ StageB(l)) \/ StageC \/ StageD

-----------------------------------------------------------------------------

Seqs  == 0..MaxFrames
Loaded == Models \cup {None}
Items == [seq : Seqs, gen : Nat, mgr : Loaded]

ServiceType ==
    /\ running \in BOOLEAN /\ draining \in BOOLEAN
    /\ runStats \in BOOLEAN /\ timings \in BOOLEAN /\ strays \in BOOLEAN
    /\ mgr \in Loaded /\ engine \in Loaded /\ modelPath \in Loaded
    /\ gen \in Nat /\ inflight \in Nat

PrepareType ==
    /\ aPc \in [Lanes -> {"idle", "grab", "gate", "off", "emit", "begin", "stamp", "bind", "check", "put"}]
    /\ aSeq \in [Lanes -> Seqs] /\ aShow \in [Lanes -> Seqs]
    /\ aGen \in [Lanes -> 0..gen] /\ aMgr \in [Lanes -> Loaded] /\ aOwn \in [Lanes -> BOOLEAN]

InferType ==
    /\ bPc \in [Lanes -> {"idle", "check", "infer", "run"}]
    /\ bItem \in [Lanes -> Items] /\ bUsed \in [Lanes -> Loaded]

FinishType ==
    /\ cPc \in {"idle", "check", "finish", "stats", "update", "put"}
    /\ cItem \in Items /\ cUsed \in Loaded

EncodeType == dPc \in {"idle", "freeze", "publish", "stats", "record"} /\ dSeq \in Seqs

QueueType ==
    /\ qInfer \in Seq(Items) /\ Len(qInfer) <= Depth
    /\ qFinish \in Seq(Items) /\ Len(qFinish) <= Depth
    /\ qEncode \in Seq(Seqs) /\ Len(qEncode) <= Depth

OutputType == grabbed \in Seqs /\ frozen \in Seqs /\ published \in Seqs /\ shown \in Seqs

(* Every variable holds a value the code can give it, no queue holds more  *)
(* than its capacity and no frame is stamped with a generation to come.    *)
PipeTypeOK ==
    ServiceType /\ PrepareType /\ InferType /\ FinishType /\ EncodeType /\ QueueType /\ OutputType

(* The frames on the detection path: held by a lane, queued for B, in B,   *)
(* queued for C, in C.                                                     *)
InFlight ==
    Cardinality({a \in Lanes : aOwn[a]}) + Len(qInfer) + Cardinality({b \in Lanes : bPc[b] # "idle"})
        + Len(qFinish) + (IF cPc = "idle" THEN 0 ELSE 1)

(* _inflight is the number of frames on the detection path: no exit of a   *)
(* stage forgets to release its count or releases it twice, so drain       *)
(* neither returns early nor waits for a frame that was dropped.           *)
InflightExact == inflight = InFlight
=============================================================================
