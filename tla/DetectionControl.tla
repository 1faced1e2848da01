--------------------------- MODULE DetectionControl ---------------------------
(***************************************************************************)
(* Starting, stopping and swapping the model under the running pipeline:   *)
(* DetectionService (detection_service.py) driven by the lifecycle         *)
(* operations of ModelService (model_service.py) and by the Stop RPC       *)
(* (inference_grpc.py), which alone does not take ModelService._op_lock.   *)
(* A caller is a gRPC thread in one operation; DetectionService.lock is    *)
(* held only while is_running is flipped, and by a start that has to load  *)
(* the model first.                                                        *)
(***************************************************************************)
EXTENDS Pipeline

CONSTANTS
    Callers,
    Ops,           \* what callers ask for: operations out of AllOps
    Stalls,        \* whether a frame may hold up drain past its time limit
    MaxOps,        \* bound: operations in one behaviour
    MaxFailures    \* bound: model loads that fail

AllOps == {"start", "stop", "activate", "release", "resume", "task"}

ASSUME ControlAssumption ==
    /\ None \notin Callers
    /\ Ops \subseteq AllOps
    /\ Stalls \in BOOLEAN
    /\ MaxOps \in Nat /\ MaxFailures \in Nat

VARIABLES
    pc, op,        \* per caller: where it is, in which operation
    was,           \* per caller: what stop() returned
    target,        \* per caller: the model to activate
    prev,          \* per caller: the model a failed activation goes back to
    opLock,        \* holder of ModelService._op_lock
    detLock,       \* holder of DetectionService.lock
    current,       \* ModelService.current_model
    released,      \* ModelService._runtime_released
    nops, nfail

callVars == <<pc, op, was, target, prev>>
lockVars == <<opLock, detLock>>
bounds   == <<nops, nfail>>
vars == <<pipeVars, callVars, lockVars, current, released, bounds>>

(* What the stage threads alone change.                                    *)
stageVars == <<inflight, aVars, bVars, cVars, dVars, queues, grabbed, output>>

(* The device has booted: the model it found selected was activated.       *)
Init ==
    /\ PipeInit
    /\ pc = [c \in Callers |-> "idle"] /\ op = [c \in Callers |-> "stop"]
    /\ was = [c \in Callers |-> FALSE]
    /\ target = [c \in Callers |-> None] /\ prev = [c \in Callers |-> None]
    /\ opLock = None /\ detLock = None
    /\ current = mgr /\ released = FALSE
    /\ nops = 0 /\ nfail = 0

Goto(c, where) == pc' = [pc EXCEPT ![c] = where]

(* A call arrives; all but Stop queue up for _op_lock.                     *)
Request(c) ==
    /\ pc[c] = "idle" /\ nops < MaxOps
    /\ nops' = nops + 1
    /\ \E o \in Ops :
        /\ op' = [op EXCEPT ![c] = o]
        /\ Goto(c, IF o = "stop" THEN "flip" ELSE "lock")
    /\ UNCHANGED <<pipeVars, was, target, prev, lockVars, current, released, nfail>>

(* The operation is over, having done what it was asked for or not.        *)
Finish(c) ==
    /\ Goto(c, "idle")
    /\ opLock' = IF opLock = c THEN None ELSE opLock

(* Variant: the handover does not keep other operations out.               *)
LockFree(c) == TRUE

OpLockFree(c) == opLock = None

(* _op_lock is taken; each operation checks what it requires.  Refusals    *)
(* (another task, a conversion running) come before anything is changed.   *)
TakeOpLock(c) ==
    /\ pc[c] = "lock" /\ OpLockFree(c)
    /\ \/ Finish(c) /\ UNCHANGED <<target, prev, released>>
       \/ /\ opLock' = c
          /\ \/ /\ op[c] = "start"
                /\ Goto(c, IF released /\ ~running THEN "drop" ELSE "start")
                /\ UNCHANGED <<target, prev, released>>
             \/ /\ op[c] = "activate"
                /\ \E m \in Models : target' = [target EXCEPT ![c] = m]
                /\ prev' = [prev EXCEPT ![c] = current]
                /\ Goto(c, "flip")
                /\ UNCHANGED released
             \/ /\ op[c] = "release" \/ (op[c] = "task" /\ ~released)
                /\ Goto(c, "flip")
                /\ UNCHANGED <<target, prev, released>>
             \/ /\ op[c] = "resume" /\ ~running /\ current # None
                /\ released' = FALSE
                /\ Goto(c, "load")
                /\ UNCHANGED <<target, prev>>
       \/ /\ op[c] = "resume"
          /\ released' = FALSE
          /\ Finish(c)
          /\ UNCHANGED <<target, prev>>
    /\ UNCHANGED <<pipeVars, op, was, detLock, current, bounds>>

-----------------------------------------------------------------------------
(* DetectionService.stop: is_running goes down under the lock ...          *)
FlipRunning(c) ==
    /\ pc[c] = "flip" /\ detLock = None
    /\ was' = [was EXCEPT ![c] = running]
    /\ running' = FALSE
    /\ Goto(c, "close")
    /\ UNCHANGED <<mgr, gen, workers, draining, stats, stageVars, op, target, prev, lockVars,
                   current, released, bounds>>

(* ... then, outside the lock, drain closes the detection path ...         *)
CloseGate(c) ==
    /\ pc[c] = "close"
    /\ draining' = TRUE
    /\ Goto(c, "wait")
    /\ UNCHANGED <<service, workers, stats, stageVars, op, was, target, prev, lockVars, current,
                   released, bounds>>

(* Variant: only the flag is set, nobody waits for frames in flight.       *)
NoWait == TRUE

Quiesced == inflight = 0 \/ Stalls

(* ... waits until nothing is in flight on it, or for _DRAIN_TIMEOUT_S ... *)
WaitDrained(c) ==
    /\ pc[c] = "wait" /\ Quiesced
    /\ Goto(c, "reset")
    /\ UNCHANGED <<pipeVars, op, was, target, prev, lockVars, current, released, bounds>>

(* ... and zeroes the statistics.  The Stop RPC returns here.              *)
ResetRunStats(c) ==
    /\ pc[c] = "reset"
    /\ runStats' = FALSE /\ timings' = FALSE
    /\ strays' = TimingsDue(~draining)
    /\ Goto(c, CASE op[c] = "stop" -> "idle"
                 [] op[c] = "activate" -> "select"
                 [] op[c] = "release" -> "free"
                 [] OTHER -> "unload")
    /\ UNCHANGED <<service, workers, draining, stageVars, op, was, target, prev, lockVars, current,
                   released, bounds>>

(* Restart detection if the operation had stopped it, then finish.         *)
StartAgain(c) ==
    IF was[c] THEN Goto(c, "start") /\ UNCHANGED opLock ELSE Finish(c)

(* activate_model, continued: the selection is switched, or nothing is.    *)
SelectModel(c) ==
    /\ pc[c] = "select"
    /\ \/ StartAgain(c) /\ UNCHANGED current
       \/ current' = target[c] /\ Goto(c, "load") /\ UNCHANGED opLock
    /\ UNCHANGED <<pipeVars, op, was, target, prev, detLock, released, bounds>>

(* release_runtime, continued: every worker is terminated.                 *)
FreeWorkers(c) ==
    /\ pc[c] = "free"
    /\ engine' = None
    /\ released' = TRUE
    /\ Finish(c)
    /\ UNCHANGED <<service, modelPath, draining, stats, stageVars, op, was, target, prev, detLock,
                   current, bounds>>

(* unload_runtime: the generation moves on, whoever was using the runtime. *)
UnloadRuntime ==
    /\ detLock = None
    /\ mgr' = None
    /\ gen' = gen + 1
    /\ UNCHANGED <<running, workers, draining, stats, stageVars>>

(* set_task, continued: application.json cannot be written and detection   *)
(* goes on, or the model is deselected and its runtime dropped.            *)
SwitchTask(c) ==
    /\ pc[c] = "unload"
    /\ \/ StartAgain(c) /\ UNCHANGED <<pipeVars, current>>
       \/ UnloadRuntime /\ current' = None /\ Finish(c)
    /\ UNCHANGED <<op, was, target, prev, detLock, released, bounds>>

(* start_detection after a release: the runtime is stale.                  *)
DropReleased(c) ==
    /\ pc[c] = "drop"
    /\ UnloadRuntime
    /\ Goto(c, "start")
    /\ UNCHANGED <<op, was, target, prev, lockVars, current, released, bounds>>

-----------------------------------------------------------------------------
(* DetectionService.initialize: the model is loaded into the workers.  A   *)
(* load may fail before or after the engine is there (_check_contract).    *)
LoadModel(c) ==
    /\ pc[c] = "load"
    /\ \/ /\ current # None
          /\ engine' = current /\ modelPath' = current
          /\ Goto(c, "install")
          /\ UNCHANGED nfail
       \/ /\ current # None /\ nfail < MaxFailures
          /\ nfail' = nfail + 1
          /\ \/ engine' = current /\ modelPath' = current
             \/ UNCHANGED workers
          /\ Goto(c, "failed")
       \/ /\ current = None
          /\ Goto(c, "failed")
          /\ UNCHANGED <<workers, nfail>>
    /\ UNCHANGED <<service, draining, stats, stageVars, op, was, target, prev, lockVars, current,
                   released, nops>>

(* Only then does the service change over to it ...                        *)
InstallRuntime(c) ==
    /\ pc[c] = "install"
    /\ mgr' = current
    /\ Goto(c, "bump")
    /\ UNCHANGED <<running, gen, workers, draining, stats, stageVars, op, was, target, prev,
                   lockVars, current, released, bounds>>

(* Variant: the generation stays.                                          *)
SameGeneration == gen

NextGeneration == gen + 1

(* ... the generation moves on ...                                         *)
BumpGeneration(c) ==
    /\ pc[c] = "bump"
    /\ gen' = NextGeneration
    /\ Goto(c, "open")
    /\ UNCHANGED <<running, mgr, workers, draining, stats, stageVars, op, was, target, prev,
                   lockVars, current, released, bounds>>

(* Variant: the frame times are forgotten and nothing more.                *)
OnlyClear == UNCHANGED draining

(* resume()                                                                *)
OpenPath == draining' = FALSE

(* The path may be open to frames that D still has of a run that is over.  *)
NoteStrays == strays' = (strays \/ (~running /\ TimingsDue(TRUE)))

(* ... and the detection path opens again.                                 *)
ResumePipeline(c) ==
    /\ pc[c] = "open"
    /\ OpenPath /\ NoteStrays
    /\ \/ detLock = c /\ Goto(c, "run") /\ UNCHANGED opLock
       \/ detLock # c /\ op[c] = "resume" /\ Goto(c, "start") /\ UNCHANGED opLock
       \/ detLock # c /\ op[c] = "activate" /\ StartAgain(c)
    /\ UNCHANGED <<service, workers, runStats, timings, stageVars, op, was, target, prev, detLock, current,
                   released, bounds>>

(* A load that failed.  An activation goes back to the previous model,     *)
(* once; everything else gives up (_rollback logs "detection is stopped"). *)
RollBack(c) ==
    /\ pc[c] = "failed" /\ op[c] = "activate" /\ detLock # c /\ target[c] # None
    /\ current' = prev[c]
    /\ target' = [target EXCEPT ![c] = None]
    /\ Goto(c, "load")
    /\ UNCHANGED <<pipeVars, op, was, prev, lockVars, released, bounds>>

GiveUp(c) ==
    /\ pc[c] = "failed" /\ (op[c] # "activate" \/ detLock = c \/ target[c] = None)
    /\ detLock' = IF detLock = c THEN None ELSE detLock
    /\ Finish(c)
    /\ UNCHANGED <<pipeVars, op, was, target, prev, current, released, bounds>>

(* DetectionService.start: refused while running or without a camera; a    *)
(* start without a runtime loads one, holding the lock.                    *)
StartRunning(c) ==
    /\ pc[c] = "start" /\ detLock = None
    /\ \/ /\ running' = running
          /\ Finish(c)
          /\ released' = (released /\ ~(op[c] = "start" /\ running))
          /\ UNCHANGED detLock
       \/ /\ ~running /\ mgr # None
          /\ running' = TRUE
          /\ Goto(c, "reopen")
          /\ UNCHANGED <<lockVars, released>>
       \/ /\ ~running /\ mgr = None
          /\ Goto(c, "load")
          /\ detLock' = c
          /\ UNCHANGED <<running, opLock, released>>
    /\ UNCHANGED <<mgr, gen, workers, draining, stats, stageVars, op, was, target, prev, current,
                   bounds>>

(* The start that had to load the model goes on.                           *)
RunLoaded(c) ==
    /\ pc[c] = "run"
    /\ running' = TRUE
    /\ detLock' = None
    /\ Goto(c, "reopen")
    /\ UNCHANGED <<mgr, gen, workers, draining, stats, stageVars, op, was, target, prev, opLock,
                   current, released, bounds>>

(* The lock is gone; the pipeline opens; an explicit start ends a handover. *)
ReopenPath(c) ==
    /\ pc[c] = "reopen"
    /\ OpenPath /\ NoteStrays
    /\ released' = (released /\ op[c] # "start")
    /\ Finish(c)
    /\ UNCHANGED <<service, workers, runStats, timings, stageVars, op, was, target, prev, detLock, current,
                   bounds>>

-----------------------------------------------------------------------------

Stop(c) == FlipRunning(c) \/ CloseGate(c) \/ WaitDrained(c) \/ ResetRunStats(c)

Initialize(c) ==
    LoadModel(c) \/ InstallRuntime(c) \/ BumpGeneration(c) \/ ResumePipeline(c) \/ RollBack(c) \/ GiveUp(c)

Start(c) == DropReleased(c) \/ StartRunning(c) \/ RunLoaded(c) \/ ReopenPath(c)

Step(c) ==
    \/ TakeOpLock(c) \/ Stop(c) \/ SelectModel(c) \/ FreeWorkers(c) \/ SwitchTask(c)
    \/ Initialize(c) \/ Start(c)

control == <<callVars, lockVars, current, released, bounds>>

Next ==
    \/ PipeNext /\ UNCHANGED control
    \/ \E c \in Callers : Request(c) \/ Step(c)

(* Threads are scheduled; a camera may never deliver and nobody has to     *)
(* call.                                                                   *)
Fairness ==
    /\ \A l \in Lanes : /\ WF_vars(StageA(l) /\ UNCHANGED control)
                        /\ WF_vars(StageB(l) /\ UNCHANGED control)
    /\ WF_vars(StageC /\ UNCHANGED control) /\ WF_vars(StageD /\ UNCHANGED control)
    /\ \A c \in Callers : WF_vars(Step(c))

Spec == Init /\ [][Next]_vars /\ Fairness

-----------------------------------------------------------------------------
(* Properties.                                                             *)

Where == {"idle", "lock", "flip", "close", "wait", "reset", "select", "free", "unload", "drop",
          "load", "install", "bump", "open", "failed", "start", "run", "reopen"}

CallType ==
    /\ pc \in [Callers -> Where] /\ op \in [Callers -> AllOps] /\ was \in [Callers -> BOOLEAN]
    /\ target \in [Callers -> Loaded] /\ prev \in [Callers -> Loaded]

ControlType ==
    /\ opLock \in Callers \cup {None} /\ detLock \in Callers \cup {None}
    /\ current \in Loaded /\ released \in BOOLEAN
    /\ nops \in 0..MaxOps /\ nfail \in 0..MaxFailures

(* Every variable holds a value the code can give it (PipeTypeOK says what *)
(* that is for the pipeline).                                              *)
TypeOK == PipeTypeOK /\ CallType /\ ControlType

(* "submit an input prepared for one engine to another, decode outputs     *)
(* with the wrong labels": every frame is run by the engine it was         *)
(* prepared for and decoded by that model's strategy.                      *)
RightRuntime ==
    /\ \A b \in Lanes : bPc[b] = "run" => bUsed[b] \in {None, bItem[b].mgr}
    /\ cPc \in {"stats", "update"} => cUsed = cItem.mgr

(* An operation holding _op_lock has stopped detection and owns the        *)
(* runtime.                                                                *)
Swapping(c) == opLock = c /\ pc[c] \in {"select", "free", "unload", "load", "install", "bump"}

(* "tear a worker down mid-call": between the drain of an operation and    *)
(* the reopening of the path no stage is about to call into the runtime    *)
(* or in the middle of such a call.                                        *)
QuietWhileSwapping ==
    (\E c \in Callers : Swapping(c)) =>
        /\ \A b \in Lanes : bPc[b] \notin {"infer", "run"}
        /\ cPc # "finish"
        /\ qInfer = <<>> /\ qFinish = <<>>

(* drain() zeroes the statistics "so /stats does not keep reporting a      *)
(* stopped run", and "a late completion must not refill them": between     *)
(* operations, stopped detection reports no counter, whatever the stages   *)
(* still held, and a timing only where D could not be kept from it.  D is  *)
(* not waited for: a frame may be past the gate when the drain zeroes the  *)
(* statistics, or before it when a stopped path is opened (strays).        *)
StoppedRunStaysZero ==
    (\A c \in Callers : pc[c] = "idle") /\ ~running => ~runStats /\ (timings => strays)

(* Once no operation is in progress, detection that runs has its path      *)
(* open ("the detection path stays closed until initialize() or start()    *)
(* reopens it").                                                           *)
RunningIsOpen == (\A c \in Callers : pc[c] = "idle") /\ running => ~draining

(* Whoever stops detection gets an answer: drain always comes to an end    *)
(* because the stages empty.                                               *)
StopReturns == \A c \in Callers : pc[c] = "wait" ~> pc[c] # "wait"
=============================================================================
