--------------------------- MODULE TrainingJobProofs ---------------------------
(***************************************************************************)
(* What holds of the training-service for every number of gRPC threads,    *)
(* datasets and jobs: its safety invariants, and that the status it gives  *)
(* covers the life of the trainer (GpuLease).                              *)
(***************************************************************************)
EXTENDS TrainingJob, TLAPS

(***************************************************************************)
(* The inductive invariant, in named parts.                                *)
(***************************************************************************)

(* Where a thread may be while its job is active, and while it holds the   *)
(* dataset it took.                                                        *)
Working == {"build", "spawn", "consume", "judge", "deliver", "upload", "fail", "conclude"}
Leaving == {"clear", "release"}
Holding == Working \cup Leaving
ActivePlaces == {"none", "new", "dead"} \cup Working

(* Only the current job can be active; older ones have said how they ended *)
(* and are on their way out, the others have not begun.                    *)
Places ==
    /\ \A j \in Jobs : j > id => run[j] = "none"
    /\ \A j \in Jobs : j < id => run[j] \in Leaving \cup {"end"}
    /\ Active => id \in Jobs /\ run[id] \in ActivePlaces
    /\ ~Active => \A j \in Jobs : j = id => run[j] \in Leaving \cup {"end"}

(* The lock of a start that validates, and the one start that has a job    *)
(* but no thread for it yet.                                               *)
Starts ==
    /\ \A c \in Clients : pc[c] = "validate" <=> lock = c
    /\ \A c \in Clients : pc[c] = "validate" => ~Active /\ id < MaxJobs
    /\ \A c \in Clients : pc[c] = "spawn" => Active /\ run[id] = "none"
    /\ \A b, c \in Clients : pc[b] = "spawn" /\ pc[c] = "spawn" => b = c

(* Whoever needs a dataset has it frozen and registered ...                *)
Claims ==
    /\ \A c \in Clients : pc[c] = "validate" => want[c] \in frozen \cap present
    /\ ClaimedWhileActive
    /\ \A j \in Jobs : run[j] \in Holding => mine[j] \in frozen \cap present
    /\ \A j \in Jobs : run[j] \notin Holding => mine[j] = None

(* ... and no two have the same.                                           *)
Apart ==
    /\ \A j \in Jobs : run[j] \in Leaving =>
        /\ Active => mine[j] # dataset
        /\ \A c \in Clients : pc[c] = "validate" => mine[j] # want[c]
    /\ \A j \in Jobs : run[j] \in Working => mine[j] = dataset
    /\ Active /\ run[id] \in {"none", "new"} => jobDataset \in {dataset, None}
    /\ \A i, j \in Jobs : i # j /\ run[i] \in Leaving /\ run[j] \in Leaving => mine[i] # mine[j]

(* An editor holds the lock of its dataset, and nobody edits the dataset   *)
(* of an active job.                                                       *)
Editors ==
    /\ \A c \in Clients : pc[c] = "write" => want[c] \in Datasets /\ dsLock[want[c]] = c
    /\ Active => dsLock[dataset] = None
    /\ TrainsWhatWasValidated

(* What is frozen, remembered or taken is so for somebody.                 *)
Accounted ==
    /\ \A d \in frozen :
        \/ \E c \in Clients : pc[c] = "validate" /\ want[c] = d
        \/ Active /\ dataset = d
        \/ \E j \in Jobs : run[j] \in Leaving /\ mine[j] = d
    /\ process # 0 => run[process] \in {"consume", "judge", "deliver", "upload", "fail", "conclude", "clear"}
    /\ jobDataset # None => Active \/ \E j \in Jobs : run[j] = "clear"

(* A cancellation that counts is remembered until the job has looked.      *)
Cancels ==
    /\ cancelled => cancelRequested /\ \A j \in Jobs : run[j] \notin {"deliver", "upload"}
    /\ delivered => \A j \in Jobs : j = id => run[j] \in {"upload", "fail", "conclude"} \cup Leaving \cup {"end"}
    /\ CancelDiscards

(* A trainer lives only while its thread reads its output.                 *)
Trainers ==
    /\ \A j \in Jobs : run[j] \in {"none", "new", "dead", "build", "spawn"} => trainer[j] = "none"
    /\ \A j \in Jobs : Alive(j) => run[j] = "consume"

IInv == TypeOK /\ Places /\ Starts /\ Claims /\ Apart /\ Editors /\ Accounted /\ Cancels /\ Trainers

-----------------------------------------------------------------------------
(* Every variable keeps its type.                                         *)
LEMMA TypeInit == Init => TypeOK
  <1> SUFFICES ASSUME Init PROVE TypeOK
    OBVIOUS
  <1>1. 0 \in 0..MaxJobs
    BY TrainingAssumption
  <1> QED
    BY <1>1 DEF Init, TypeOK, Terminal

LEMMA SignalType ==
  ASSUME TypeOK, NEW c \in Clients, NEW effect, Signal(c, effect),
         victim[c] # 0 => effect \in {"running", "stopping", "hung", "ok", "err", "none", "booting"}
  PROVE  TypeOK'
  <1> USE DEF Signal
  <1>1. victim[c] \in 0..MaxJobs /\ (victim[c] # 0 => victim[c] \in Jobs)
    BY TrainingAssumption DEF TypeOK, Jobs
  <1>2. trainer' \in [Jobs -> {"none", "booting", "running", "stopping", "hung", "ok", "err"}]
    BY <1>1 DEF TypeOK
  <1>3. victim' \in [Clients -> 0..MaxJobs]
    BY TrainingAssumption DEF TypeOK
  <1>4. pc' \in [Clients -> {"idle", "validate", "spawn", "kill", "nudge", "write"}]
    BY DEF TypeOK, Goto
  <1> QED
    BY <1>2, <1>3, <1>4 DEF TypeOK, job, registry, threadVars, history

LEMMA TypeClient ==
  ASSUME IInv, NEW c \in Clients, Client(c)
  PROVE  TypeOK'
  <1> USE TrainingAssumption DEF IInv, TypeOK, Goto, Terminal
  <1>1. CASE StartClaim(c)
    BY <1>1 DEF StartClaim, job, threadVars, history
  <1>2. CASE StartValidate(c)
    <2> USE <1>2 DEF StartValidate, job, threadVars, history
    <2>1. CASE id' # id + 1
      BY <2>1 DEF Unfreeze
    <2>2. CASE id' = id + 1
      <3>1. id' \in 0..MaxJobs
        BY <2>2 DEF Starts
      <3>2. want[c] \in Datasets
        BY DEF Claims
      <3>3. UNCHANGED frozen \/ frozen' \subseteq frozen
        BY DEF Unfreeze
      <3>4. pc' \in [Clients -> {"idle", "validate", "spawn", "kill", "nudge", "write"}]
        BY DEF Goto
      <3>5. want' \in [Clients -> Datasets \cup {None}]
        OBVIOUS
      <3> QED
        BY <2>2, <3>1, <3>2, <3>3, <3>4, <3>5
    <2> QED
      BY <2>1, <2>2
  <1>3. CASE StartThread(c)
    BY <1>3 DEF StartThread, job, registry, history
  <1>4. CASE Cancel(c)
    BY <1>4 DEF Cancel, job, registry, threadVars
  <1>5. CASE FinishEarly(c)
    BY <1>5 DEF FinishEarly, job, registry, threadVars, history
  <1>6. CASE EditBegin(c)
    BY <1>6 DEF EditBegin, job, registry, threadVars, history
  <1>7. CASE DeleteDataset(c)
    BY <1>7 DEF DeleteDataset, job, clientVars, threadVars, history
  <1>8. CASE CancelKill(c)
    BY <1>8, SignalType DEF CancelKill
  <1>9. CASE FinishNudge(c)
    <2> DEFINE effect == CASE trainer[victim[c]] = "booting" -> "err"
                           [] trainer[victim[c]] = "running" -> "stopping"
                           [] OTHER -> trainer[victim[c]]
    <2>1. victim[c] # 0 => victim[c] \in Jobs
      BY DEF Jobs
    <2>2. victim[c] # 0 => effect \in {"running", "stopping", "hung", "ok", "err", "none", "booting"}
      BY <2>1
    <2>3. Signal(c, effect)
      BY <1>9 DEF FinishNudge
    <2> HIDE DEF effect
    <2> QED
      BY <2>2, <2>3, SignalType
  <1>10. CASE EditWrite(c)
    BY <1>10 DEF EditWrite, Editors, job, registry, threadVars
  <1> QED
    BY <1>1, <1>2, <1>3, <1>4, <1>5, <1>6, <1>7, <1>8, <1>9, <1>10 DEF Client, Progress

LEMMA TypeThread ==
  ASSUME IInv, NEW j \in Jobs, Thread(j)
  PROVE  TypeOK'
  <1> USE TrainingAssumption DEF IInv, TypeOK, GotoRun, Terminal, shared, registry, clientVars
  <1>1. CASE TakeDataset(j)
    BY <1>1 DEF TakeDataset, history
  <1>2. CASE Build(j)
    BY <1>2 DEF Build, history
  <1>3. CASE Spawn(j)
    <2>1. j \in 0..MaxJobs
      BY DEF Jobs
    <2> QED
      BY <1>3, <2>1 DEF Spawn, job, history
  <1>4. CASE Consume(j)
    BY <1>4 DEF Consume, history
  <1>5. CASE Judge(j)
    BY <1>5 DEF Judge, CanceledStatus, history
  <1>6. CASE Deliver(j)
    BY <1>6 DEF Deliver, history
  <1>7. CASE Upload(j)
    BY <1>7 DEF Upload
  <1>8. CASE Fail(j)
    BY <1>8 DEF Fail, CanceledStatus, history
  <1>9. CASE Conclude(j)
    BY <1>9 DEF Conclude, history
  <1>10. CASE Clear(j)
    BY <1>10 DEF Clear, job, history
  <1>11. CASE ReleaseDataset(j)
    BY <1>11 DEF ReleaseDataset, job, history
  <1> QED
    BY <1>1, <1>2, <1>3, <1>4, <1>5, <1>6, <1>7, <1>8, <1>9, <1>10, <1>11 DEF Thread

LEMMA TypeTrainer ==
  ASSUME IInv, NEW j \in Jobs, TrainerGoesOn(j) \/ TrainerHangs(j) \/ Watchdog(j)
  PROVE  TypeOK'
  <1> USE DEF IInv, TypeOK, Terminal, job, registry, clientVars, threadVars, history
  <1>1. CASE TrainerGoesOn(j)
    BY <1>1 DEF TrainerGoesOn, TrainerTurns
  <1>2. CASE TrainerHangs(j)
    BY <1>2 DEF TrainerHangs, TrainerTurns
  <1>3. CASE WatchExpires(j)
    BY <1>3 DEF WatchExpires
  <1>4. CASE WatchKills(j)
    BY <1>4 DEF WatchKills, Killed
  <1> QED
    BY <1>1, <1>2, <1>3, <1>4 DEF Watchdog

-----------------------------------------------------------------------------
(* Steps that do alike: those of a working thread, of a client that sends  *)
(* a signal, and of the trainers and their watchdogs.                      *)
Work(j) ==
    \/ TakeDataset(j) \/ Build(j) \/ Spawn(j) \/ Consume(j) \/ Judge(j) \/ Deliver(j) \/ Upload(j)
    \/ Fail(j)

Signals(c) == Cancel(c) \/ FinishEarly(c) \/ CancelKill(c) \/ FinishNudge(c)

Outside(j) == TrainerGoesOn(j) \/ TrainerHangs(j) \/ Watchdog(j)

LEMMA NextCases ==
  ASSUME Next
  PROVE  \/ \E c \in Clients :
              \/ StartClaim(c) \/ StartValidate(c) \/ StartThread(c) \/ Signals(c)
              \/ EditBegin(c) \/ EditWrite(c) \/ DeleteDataset(c)
         \/ \E j \in Jobs : Work(j) \/ Conclude(j) \/ Clear(j) \/ ReleaseDataset(j) \/ Outside(j)
  BY DEF Next, Client, Progress, Thread, Work, Signals, Outside

(* A thread at work is that of the current job, and the job is active.     *)
LEMMA Current ==
  ASSUME IInv, NEW j \in Jobs, run[j] \in Working \cup {"new"}
  PROVE  j = id /\ Active
  <1> USE DEF IInv, Places
  <1>1. run[j] # "none" /\ run[j] \notin Leaving \cup {"end"}
    BY DEF Working, Leaving
  <1>2. id \in Nat /\ j \in Nat
    BY TrainingAssumption DEF TypeOK, Jobs
  <1>3. j = id
    BY <1>1, <1>2
  <1> QED
    BY <1>1, <1>3

LEMMA WorkSteps ==
  ASSUME IInv, NEW j \in Jobs, Work(j)
  PROVE  /\ j = id /\ Active /\ Active'
         /\ run[j] \in (Working \ {"conclude"}) \cup {"new"}
         /\ \E where \in Working \cup {"dead"} : GotoRun(j, where)
         /\ UNCHANGED <<id, dataset, jobDataset, cancelRequested, lock, registry, dsLock, clientVars,
                        changed, cancelled>>
  <1>1. run[j] \in (Working \ {"conclude"}) \cup {"new"}
    BY DEF Work, Working, TakeDataset, Build, Spawn, Consume, Judge, Deliver, Upload, Fail
  <1>2. j = id /\ Active
    BY <1>1, Current
  <1>3. Active'
    BY <1>2 DEF Active, Terminal, Work, TakeDataset, Build, Spawn, Consume, Judge, Deliver, Upload,
                Fail, job
  <1>4. \E where \in Working \cup {"dead"} : GotoRun(j, where)
    BY DEF Work, Working, TakeDataset, Build, Spawn, Consume, Judge, Deliver, Upload, Fail
  <1>5. UNCHANGED <<id, dataset, jobDataset, cancelRequested, lock, registry, dsLock, clientVars,
                    changed, cancelled>>
    BY DEF Work, TakeDataset, Build, Spawn, Consume, Judge, Deliver, Upload, Fail, shared, job, history
  <1> QED
    BY <1>1, <1>2, <1>3, <1>4, <1>5

LEMMA SignalSteps ==
  ASSUME NEW c \in Clients, Signals(c)
  PROVE  /\ pc[c] \in {"idle", "kill", "nudge"}
         /\ \E where \in {"idle", "kill", "nudge"} : Goto(c, where)
         /\ UNCHANGED <<job, jobDataset, process, lock, registry, dsLock, want, threadVars, changed,
                        delivered>>
  BY DEF Signals, Cancel, FinishEarly, CancelKill, FinishNudge, Signal, history

LEMMA OutsideSteps ==
  ASSUME NEW j \in Jobs, Outside(j)
  PROVE  UNCHANGED <<job, jobDataset, process, cancelRequested, lock, registry, dsLock, clientVars,
                     threadVars, history>>
  BY DEF Outside, TrainerGoesOn, TrainerHangs, Watchdog, TrainerTurns, WatchExpires, WatchKills

-----------------------------------------------------------------------------
(* One lemma for each part of the invariant, one step for each action.     *)
LEMMA PlacesStep ==
  ASSUME IInv, Next
  PROVE  Places'
  <1> USE TrainingAssumption DEF IInv, TypeOK, Places
  <1>1. CASE UNCHANGED <<id, status, run>>
    BY <1>1 DEF Active
  <1>2. ASSUME NEW c \in Clients, StartValidate(c) PROVE Places'
    <2>1. ~Active /\ UNCHANGED run /\ id \in 0..MaxJobs
      BY <1>2 DEF StartValidate, Starts, threadVars
    <2>2. CASE UNCHANGED job
      BY <2>1, <2>2, <1>1 DEF job
    <2>3. CASE id' = id + 1 /\ status' = "preparing"
      <3>1. id' \in Jobs /\ run[id'] = "none"
        BY <1>2, <2>3 DEF StartValidate, Starts, Jobs
      <3>2. Active'
        BY <2>3 DEF Active, Terminal
      <3>3. \A j \in Jobs : (j > id' => j > id) /\ (j < id' => j < id \/ j = id)
        BY <2>3 DEF Jobs
      <3> QED
        BY <2>1, <3>1, <3>2, <3>3 DEF ActivePlaces
    <2> QED
      BY <1>2, <2>2, <2>3 DEF StartValidate, job
  <1>3. ASSUME NEW c \in Clients, StartThread(c) PROVE Places'
    <2>1. Active /\ UNCHANGED <<id, status>> /\ run' = [run EXCEPT ![id] = "new"] /\ run[id] = "none"
      BY <1>3 DEF StartThread, Starts, job
    <2>2. Active'
      BY <2>1 DEF Active
    <2> QED
      BY <2>1, <2>2 DEF ActivePlaces, Leaving, Working, Jobs
  <1>4. ASSUME NEW j \in Jobs, Work(j) PROVE Places'
    <2>1. j = id /\ Active' /\ id' = id
      BY <1>4, WorkSteps
    <2>2. PICK where \in Working \cup {"dead"} : GotoRun(j, where)
      BY <1>4, WorkSteps
    <2> QED
      BY <2>1, <2>2 DEF GotoRun, ActivePlaces, Leaving, Working, Jobs
  <1>5. ASSUME NEW j \in Jobs, Conclude(j) PROVE Places'
    <2>1. j = id /\ Active
      BY <1>5, Current DEF Conclude, Working
    <2>2. ~Active' /\ id' = id /\ run' = [run EXCEPT ![j] = "clear"]
      BY <1>5 DEF Conclude, GotoRun, shared, Active, Terminal
    <2> QED
      BY <2>1, <2>2 DEF ActivePlaces, Leaving, Working, Jobs
  <1>6. ASSUME NEW j \in Jobs, Clear(j) \/ ReleaseDataset(j) PROVE Places'
    <2>1. UNCHANGED <<id, status>> /\ (Active' <=> Active)
      BY <1>6 DEF Clear, ReleaseDataset, job, Active
    <2>2. run[j] \in Leaving /\ \E where \in Leaving \cup {"end"} : GotoRun(j, where)
      BY <1>6 DEF Clear, ReleaseDataset, Leaving
    <2> QED
      BY <2>1, <2>2 DEF GotoRun, ActivePlaces, Leaving, Working, Jobs
  <1>7. ASSUME NEW c \in Clients, StartClaim(c) \/ EditBegin(c) \/ EditWrite(c) \/ DeleteDataset(c)
        PROVE  Places'
    BY <1>1, <1>7 DEF StartClaim, EditBegin, EditWrite, DeleteDataset, job, threadVars
  <1>8. ASSUME NEW c \in Clients, Signals(c) PROVE Places'
    BY <1>1, <1>8, SignalSteps DEF job, threadVars
  <1>9. ASSUME NEW j \in Jobs, Outside(j) PROVE Places'
    BY <1>1, <1>9, OutsideSteps DEF job, threadVars
  <1> QED
    BY <1>2, <1>3, <1>4, <1>5, <1>6, <1>7, <1>8, <1>9, NextCases

LEMMA StartsStep ==
  ASSUME IInv, Next
  PROVE  Starts'
  <1> USE DEF IInv, TypeOK, Starts
  <1>1. ASSUME NEW c \in Clients, StartClaim(c) PROVE Starts'
    BY <1>1, TrainingAssumption DEF StartClaim, Goto, Unlocked, job, threadVars, Active
  <1>2. ASSUME NEW c \in Clients, StartValidate(c) PROVE Starts'
    <2>1. \A b \in Clients : pc[b] # "spawn" /\ (pc[b] = "validate" => b = c)
      BY <1>2 DEF StartValidate
    <2>2. lock' = None /\ UNCHANGED run
      BY <1>2 DEF StartValidate, threadVars
    <2>3. CASE Goto(c, "idle")
      BY <2>1, <2>2, <2>3, TrainingAssumption DEF Goto
    <2>4. CASE Goto(c, "spawn") /\ id' = id + 1 /\ status' = "preparing"
      <3>1. Active'
        BY <2>4 DEF Active, Terminal
      <3>2. run[id'] = "none"
        BY <1>2, <2>4, TrainingAssumption DEF StartValidate, Places, Jobs
      <3> QED
        BY <2>1, <2>2, <2>4, <3>1, <3>2, TrainingAssumption DEF Goto
    <2> QED
      BY <1>2, <2>3, <2>4 DEF StartValidate
  <1>3. ASSUME NEW c \in Clients, StartThread(c) PROVE Starts'
    BY <1>3 DEF StartThread, Goto, job, Active
  <1>4. ASSUME NEW c \in Clients, Signals(c) PROVE Starts'
    <2>1. PICK where \in {"idle", "kill", "nudge"} : Goto(c, where)
      BY <1>4, SignalSteps
    <2>2. \A b \in Clients : pc'[b] = pc[b] \/ {pc[b], pc'[b]} \subseteq {"idle", "kill", "nudge"}
      BY <1>4, <2>1, SignalSteps DEF Goto
    <2>3. UNCHANGED <<id, status, lock, run>> /\ (Active' <=> Active)
      BY <1>4, SignalSteps DEF job, threadVars, Active
    <2> QED
      BY <2>2, <2>3
  <1>5. ASSUME NEW c \in Clients, EditBegin(c) \/ EditWrite(c) \/ DeleteDataset(c) PROVE Starts'
    BY <1>5 DEF EditBegin, EditWrite, DeleteDataset, Goto, job, threadVars, clientVars, Active
  <1>6. ASSUME NEW j \in Jobs, Work(j) PROVE Starts'
    <2>1. run[id] # "none" /\ Active /\ UNCHANGED <<pc, lock>>
      BY <1>6, WorkSteps DEF Working, clientVars
    <2> QED
      BY <2>1
  <1>7. ASSUME NEW j \in Jobs, Conclude(j) PROVE Starts'
    <2>1. j = id /\ Active /\ UNCHANGED <<pc, lock>>
      BY <1>7, Current DEF Conclude, Working, shared, clientVars
    <2> QED
      BY <1>7, <2>1 DEF Conclude
  <1>8. ASSUME NEW j \in Jobs, Clear(j) \/ ReleaseDataset(j) PROVE Starts'
    <2>1. UNCHANGED <<pc, lock, id, status>> /\ (Active' <=> Active)
      BY <1>8 DEF Clear, ReleaseDataset, clientVars, job, Active
    <2>2. Active /\ run[id] = "none" => run'[id] = "none"
      BY <1>8 DEF Clear, ReleaseDataset, GotoRun, Places
    <2> QED
      BY <2>1, <2>2
  <1>9. ASSUME NEW j \in Jobs, Outside(j) PROVE Starts'
    BY <1>9, OutsideSteps DEF job, clientVars, threadVars, Active
  <1> QED
    BY <1>1, <1>2, <1>3, <1>4, <1>5, <1>6, <1>7, <1>8, <1>9, NextCases

-----------------------------------------------------------------------------
(* The datasets.                                                           *)

(* Past its first step a thread at work leaves its dataset alone.          *)
LEMMA WorkOn ==
  ASSUME IInv, NEW j \in Jobs, Work(j), ~TakeDataset(j)
  PROVE  /\ run[j] \in Working /\ UNCHANGED mine
         /\ \E where \in Working : GotoRun(j, where)
  BY DEF Work, Working, Build, Spawn, Consume, Judge, Deliver, Upload, Fail

(* A thread finds the dataset its job was started for, or none.            *)
LEMMA TakeSteps ==
  ASSUME IInv, NEW j \in Jobs, TakeDataset(j)
  PROVE  /\ run[j] = "new" /\ j = id /\ Active
         /\ mine' = [mine EXCEPT ![j] = jobDataset]
         /\ \/ jobDataset = dataset /\ jobDataset # None /\ GotoRun(j, "build")
            \/ jobDataset = None /\ GotoRun(j, "dead")
  <1>1. run[j] = "new" /\ j = id /\ Active
    BY Current DEF TakeDataset
  <1>2. jobDataset \in {dataset, None}
    BY <1>1 DEF IInv, Apart
  <1> QED
    BY <1>1, <1>2 DEF TakeDataset

(* While no job is active no thread is at work.                            *)
LEMMA NobodyWorks ==
  ASSUME IInv, ~Active
  PROVE  \A j \in Jobs : run[j] \notin Working \cup {"new"}
  BY Current

LEMMA ClaimsStep ==
  ASSUME IInv, Next
  PROVE  Claims'
  <1> USE DEF IInv, TypeOK, Claims, ClaimedWhileActive
  <1>1. ASSUME NEW c \in Clients, StartClaim(c) PROVE Claims'
    <2>1. ~Active /\ ~Active' /\ UNCHANGED <<run, mine, present>>
      BY <1>1 DEF StartClaim, job, threadVars, Active
    <2>2. PICK d \in present \ frozen : frozen' = frozen \cup {d} /\ want' = [want EXCEPT ![c] = d]
      BY <1>1 DEF StartClaim
    <2>3. \A b \in Clients : b # c => pc'[b] = pc[b] /\ want'[b] = want[b]
      BY <1>1, <2>2 DEF StartClaim, Goto
    <2>4. want'[c] = d
      BY <2>2
    <2> QED
      BY <2>1, <2>2, <2>3, <2>4
  <1>2. ASSUME NEW c \in Clients, StartValidate(c) PROVE Claims'
    <2>1. ~Active /\ UNCHANGED <<run, mine, present>> /\ want[c] \in frozen \cap present
      BY <1>2 DEF StartValidate, Starts, threadVars
    <2>2. \A b \in Clients : pc'[b] # "validate"
      BY <1>2 DEF StartValidate, Starts, Goto
    <2>3. CASE frozen' = Unfreeze(want[c]) /\ UNCHANGED job
      <3>1. ~Active'
        BY <2>1, <2>3 DEF job, Active
      <3>2. \A j \in Jobs : run[j] \in Holding => mine[j] # want[c]
        BY <1>2, <2>1, NobodyWorks DEF StartValidate, Apart, Holding
      <3> QED
        BY <2>1, <2>2, <2>3, <3>1, <3>2 DEF Unfreeze
    <2>4. CASE UNCHANGED frozen /\ dataset' = want[c]
      BY <2>1, <2>2, <2>4
    <2> QED
      BY <1>2, <2>3, <2>4 DEF StartValidate
  <1>3. ASSUME NEW c \in Clients, StartThread(c) PROVE Claims'
    <2>1. run' = [run EXCEPT ![id] = "new"] /\ (id \in Jobs => run[id] \notin Holding)
      BY <1>3 DEF StartThread, Starts, Holding, Working, Leaving
    <2>2. \A b \in Clients : pc'[b] = "validate" => pc[b] = "validate"
      BY <1>3 DEF StartThread, Goto
    <2>3. UNCHANGED <<frozen, present, want, mine, status, dataset>> /\ (Active' <=> Active)
      BY <1>3 DEF StartThread, registry, job, Active
    <2>4. "new" \notin Holding
      BY DEF Holding, Working, Leaving
    <2> QED
      BY <2>1, <2>2, <2>3, <2>4
  <1>4. ASSUME NEW c \in Clients, Signals(c) PROVE Claims'
    <2>1. PICK where \in {"idle", "kill", "nudge"} : Goto(c, where)
      BY <1>4, SignalSteps
    <2>2. \A b \in Clients : pc'[b] = "validate" => pc[b] = "validate"
      BY <2>1 DEF Goto
    <2>3. UNCHANGED <<frozen, present, want, run, mine, dataset>> /\ (Active' <=> Active)
      BY <1>4, SignalSteps DEF registry, job, threadVars, Active
    <2> QED
      BY <2>2, <2>3
  <1>5. ASSUME NEW c \in Clients, EditBegin(c) \/ EditWrite(c) PROVE Claims'
    <2>1. pc[c] # "validate" /\ pc'[c] # "validate"
      BY <1>5 DEF EditBegin, EditWrite, Goto
    <2>2. \A b \in Clients : b # c => pc'[b] = pc[b] /\ want'[b] = want[b]
      BY <1>5 DEF EditBegin, EditWrite, Goto
    <2>3. UNCHANGED <<frozen, present, run, mine, dataset>> /\ (Active' <=> Active)
      BY <1>5 DEF EditBegin, EditWrite, registry, job, threadVars, Active
    <2> QED
      BY <2>1, <2>2, <2>3
  <1>6. ASSUME NEW c \in Clients, DeleteDataset(c) PROVE Claims'
    <2>1. frozen \cap present' = frozen \cap present
      BY <1>6 DEF DeleteDataset, Deletable
    <2>2. UNCHANGED <<frozen, pc, want, run, mine, dataset>> /\ (Active' <=> Active)
      BY <1>6 DEF DeleteDataset, clientVars, job, threadVars, Active
    <2> QED
      BY <2>1, <2>2
  <1>7. ASSUME NEW j \in Jobs, Work(j) PROVE Claims'
    <2>1. UNCHANGED <<frozen, present, pc, want, dataset>> /\ Active
      BY <1>7, WorkSteps DEF registry, clientVars
    <2>2. CASE TakeDataset(j)
      <3>1. dataset \in frozen \cap present
        BY <2>1
      <3>2. \A i \in Jobs : i # j => run'[i] = run[i] /\ mine'[i] = mine[i]
        BY <2>2, TakeSteps DEF GotoRun
      <3>3. run'[j] \in Holding => mine'[j] \in frozen \cap present
        BY <2>2, <3>1, TakeSteps DEF GotoRun, Holding, Working, Leaving
      <3>4. run'[j] \notin Holding => mine'[j] = None
        BY <2>2, TakeSteps DEF GotoRun, Holding, Working
      <3> QED
        BY <2>1, <3>2, <3>3, <3>4
    <2>3. CASE ~TakeDataset(j)
      BY <1>7, <2>1, <2>3, WorkOn DEF GotoRun, Holding
    <2> QED
      BY <2>2, <2>3
  <1>8. ASSUME NEW j \in Jobs, Conclude(j) \/ Clear(j) PROVE Claims'
    <2>1. UNCHANGED <<frozen, present, pc, want, dataset, mine>> /\ (Active' => Active)
      BY <1>8 DEF Conclude, Clear, shared, registry, clientVars, job, Active, Terminal
    <2>2. run[j] \in Holding /\ \E where \in Leaving : GotoRun(j, where)
      BY <1>8 DEF Conclude, Clear, Holding, Working, Leaving
    <2> QED
      BY <2>1, <2>2 DEF GotoRun, Holding
  <1>9. ASSUME NEW j \in Jobs, ReleaseDataset(j) PROVE Claims'
    <2>1. UNCHANGED <<present, pc, want, dataset>> /\ (Active' <=> Active)
      BY <1>9 DEF ReleaseDataset, clientVars, job, Active
    <2>2. frozen' = frozen \ {mine[j]} /\ mine' = [mine EXCEPT ![j] = None] /\ run' = [run EXCEPT ![j] = "end"]
      BY <1>9 DEF ReleaseDataset, GotoRun
    <2>3. run[j] \in Leaving /\ "end" \notin Holding
      BY <1>9 DEF ReleaseDataset, Holding, Working, Leaving
    <2>4. \A i \in Jobs : i # j /\ run[i] \in Holding => mine[i] # mine[j]
      BY <2>3, Current DEF Apart, Holding
    <2>5. Active => dataset # mine[j]
      BY <2>3 DEF Apart
    <2>6. \A c \in Clients : pc[c] = "validate" => want[c] # mine[j]
      BY <2>3 DEF Apart
    <2> QED
      BY <2>1, <2>2, <2>3, <2>4, <2>5, <2>6
  <1>10. ASSUME NEW j \in Jobs, Outside(j) PROVE Claims'
    BY <1>10, OutsideSteps DEF job, registry, clientVars, threadVars, Active
  <1> QED
    BY <1>1, <1>2, <1>3, <1>4, <1>5, <1>6, <1>7, <1>8, <1>9, <1>10, NextCases

LEMMA ApartStep ==
  ASSUME IInv, Next
  PROVE  Apart'
  <1> USE DEF IInv, TypeOK, Apart
  <1>1. ASSUME NEW c \in Clients, StartClaim(c) PROVE Apart'
    <2>1. ~Active' /\ UNCHANGED <<run, mine, dataset>>
      BY <1>1 DEF StartClaim, job, threadVars, Active
    <2>2. PICK d \in present \ frozen : want' = [want EXCEPT ![c] = d]
      BY <1>1 DEF StartClaim
    <2>3. \A j \in Jobs : run[j] \in Leaving => mine[j] \in frozen
      BY DEF Claims, Holding
    <2>4. \A b \in Clients : b # c => pc'[b] = pc[b] /\ want'[b] = want[b]
      BY <1>1, <2>2 DEF StartClaim, Goto
    <2> QED
      BY <2>1, <2>2, <2>3, <2>4
  <1>2. ASSUME NEW c \in Clients, StartValidate(c) PROVE Apart'
    <2>1. ~Active /\ UNCHANGED <<run, mine>> /\ pc[c] = "validate"
      BY <1>2 DEF StartValidate, Starts, threadVars
    <2>2. \A b \in Clients : pc'[b] # "validate"
      BY <1>2 DEF StartValidate, Starts, Goto
    <2>3. \A j \in Jobs : run[j] \notin Working
      BY <2>1, NobodyWorks
    <2>4. CASE UNCHANGED job
      BY <2>1, <2>2, <2>3, <2>4 DEF job, Active
    <2>5. CASE dataset' = want[c] /\ jobDataset' = want[c]
      BY <2>1, <2>2, <2>3, <2>5
    <2> QED
      BY <1>2, <2>4, <2>5 DEF StartValidate
  <1>3. ASSUME NEW c \in Clients, StartThread(c) PROVE Apart'
    <2>1. run' = [run EXCEPT ![id] = "new"] /\ run[id] = "none" /\ Active
      BY <1>3 DEF StartThread, Starts
    <2>2. UNCHANGED <<want, mine, dataset, jobDataset>> /\ (Active' <=> Active) /\ id' = id
      BY <1>3 DEF StartThread, job, Active
    <2>3. \A b \in Clients : pc'[b] = "validate" => pc[b] = "validate"
      BY <1>3 DEF StartThread, Goto
    <2>4. "new" \notin Working \cup Leaving
      BY DEF Working, Leaving
    <2> QED
      BY <2>1, <2>2, <2>3, <2>4
  <1>4. ASSUME NEW c \in Clients, Signals(c) PROVE Apart'
    <2>1. PICK where \in {"idle", "kill", "nudge"} : Goto(c, where)
      BY <1>4, SignalSteps
    <2>2. \A b \in Clients : pc'[b] = "validate" => pc[b] = "validate"
      BY <2>1 DEF Goto
    <2>3. UNCHANGED <<want, run, mine, id, dataset, jobDataset>> /\ (Active' <=> Active)
      BY <1>4, SignalSteps DEF job, threadVars, Active
    <2> QED
      BY <2>2, <2>3
  <1>5. ASSUME NEW c \in Clients, EditBegin(c) \/ EditWrite(c) \/ DeleteDataset(c) PROVE Apart'
    <2>1. \A b \in Clients : pc'[b] = "validate" => pc[b] = "validate" /\ want'[b] = want[b]
      BY <1>5 DEF EditBegin, EditWrite, DeleteDataset, Goto, clientVars
    <2>2. UNCHANGED <<run, mine, id, dataset, jobDataset>> /\ (Active' <=> Active)
      BY <1>5 DEF EditBegin, EditWrite, DeleteDataset, job, threadVars, Active
    <2> QED
      BY <2>1, <2>2
  <1>6. ASSUME NEW j \in Jobs, Work(j) PROVE Apart'
    <2>1. UNCHANGED <<id, dataset, jobDataset, pc, want>> /\ Active /\ Active' /\ j = id
      BY <1>6, WorkSteps DEF clientVars
    <2>2. PICK where \in Working \cup {"dead"} : GotoRun(j, where)
      BY <1>6, WorkSteps
    <2>3. \A i \in Jobs : i # j => run'[i] = run[i] /\ mine'[i] = mine[i]
      <3>1. UNCHANGED mine \/ mine' = [mine EXCEPT ![j] = jobDataset]
        BY <1>6, WorkOn, TakeSteps
      <3> QED
        BY <2>2, <3>1 DEF GotoRun
    <2>4. run'[j] \notin Leaving \cup {"none", "new"}
      BY <2>2 DEF GotoRun, Working, Leaving
    <2>5. run'[j] \in Working => mine'[j] = dataset
      BY <1>6, WorkOn, TakeSteps DEF GotoRun, Working
    <2> QED
      BY <2>1, <2>3, <2>4, <2>5
  <1>7. ASSUME NEW j \in Jobs, Conclude(j) PROVE Apart'
    <2>1. run[j] \in Working /\ Active /\ ~Active' /\ mine[j] = dataset
      BY <1>7, Current DEF Conclude, Working, Active, Terminal
    <2>2. \A c \in Clients : pc[c] # "validate"
      BY <2>1 DEF Starts
    <2>3. UNCHANGED <<pc, want, mine, dataset>> /\ run' = [run EXCEPT ![j] = "clear"]
      BY <1>7 DEF Conclude, shared, clientVars, GotoRun
    <2>4. "clear" \notin Working
      BY DEF Working
    <2> QED
      BY <2>1, <2>2, <2>3, <2>4
  <1>8. ASSUME NEW j \in Jobs, Clear(j) PROVE Apart'
    <2>1. UNCHANGED <<pc, want, mine, dataset>> /\ jobDataset' = None /\ (Active' <=> Active)
      BY <1>8 DEF Clear, clientVars, job, Active
    <2>2. run' = [run EXCEPT ![j] = "release"] /\ run[j] \in Leaving /\ "release" \notin Working
      BY <1>8 DEF Clear, GotoRun, Working, Leaving
    <2> QED
      BY <2>1, <2>2
  <1>9. ASSUME NEW j \in Jobs, ReleaseDataset(j) PROVE Apart'
    <2>1. UNCHANGED <<id, pc, want, dataset, jobDataset>> /\ (Active' <=> Active)
      BY <1>9 DEF ReleaseDataset, clientVars, job, Active
    <2>2. run' = [run EXCEPT ![j] = "end"] /\ run[j] = "release" /\ mine' = [mine EXCEPT ![j] = None]
      BY <1>9 DEF ReleaseDataset, GotoRun
    <2>3. "end" \notin Leaving \cup Working
      BY DEF Working, Leaving
    <2>4. Active => id \in Jobs
      BY DEF Places
    <2> QED
      BY <2>1, <2>2, <2>3, <2>4
  <1>10. ASSUME NEW j \in Jobs, Outside(j) PROVE Apart'
    BY <1>10, OutsideSteps DEF job, clientVars, threadVars, Active
  <1> QED
    BY <1>1, <1>2, <1>3, <1>4, <1>5, <1>6, <1>7, <1>8, <1>9, <1>10, NextCases

LEMMA EditorsStep ==
  ASSUME IInv, Next
  PROVE  Editors'
  <1> USE DEF IInv, TypeOK, Editors, TrainsWhatWasValidated
  <1>1. ASSUME NEW c \in Clients, StartClaim(c) PROVE Editors'
    BY <1>1 DEF StartClaim, Goto, job, Active, history
  <1>2. ASSUME NEW c \in Clients, StartValidate(c) PROVE Editors'
    <2>1. \A b \in Clients : pc'[b] = "write" => pc[b] = "write" /\ want'[b] = want[b]
      BY <1>2 DEF StartValidate, Goto
    <2>2. ~Active /\ UNCHANGED dsLock /\ dsLock[want[c]] = None
      BY <1>2 DEF StartValidate, Starts, DsUnlocked
    <2>3. CASE UNCHANGED job
      BY <2>1, <2>2, <2>3 DEF job, Active
    <2>4. CASE dataset' = want[c] /\ changed' = changed \ {want[c]}
      BY <2>1, <2>2, <2>4
    <2> QED
      BY <1>2, <2>3, <2>4 DEF StartValidate
  <1>3. ASSUME NEW c \in Clients, StartThread(c) PROVE Editors'
    BY <1>3 DEF StartThread, Goto, job, Active, history
  <1>4. ASSUME NEW c \in Clients, Signals(c) PROVE Editors'
    <2>1. PICK where \in {"idle", "kill", "nudge"} : Goto(c, where)
      BY <1>4, SignalSteps
    <2>2. \A b \in Clients : pc'[b] = "write" => pc[b] = "write"
      BY <2>1 DEF Goto
    <2>3. UNCHANGED <<want, dsLock, dataset, changed>> /\ (Active' <=> Active)
      BY <1>4, SignalSteps DEF job, Active
    <2> QED
      BY <2>2, <2>3
  <1>5. ASSUME NEW c \in Clients, EditBegin(c) PROVE Editors'
    <2>1. PICK d \in present : /\ dsLock[d] = None /\ d \notin frozen
                               /\ dsLock' = [dsLock EXCEPT ![d] = c] /\ want' = [want EXCEPT ![c] = d]
      BY <1>5 DEF EditBegin, DsUnlocked, Editable
    <2>2. UNCHANGED <<dataset, changed>> /\ (Active' <=> Active)
      BY <1>5 DEF EditBegin, job, Active, history
    <2>3. Active => dataset # d
      BY <2>1 DEF Claims, ClaimedWhileActive
    <2>4. \A b \in Clients : pc[b] = "write" => want[b] # d
      BY <2>1, TrainingAssumption
    <2>5. \A b \in Clients : b # c => pc'[b] = pc[b] /\ want'[b] = want[b]
      BY <1>5, <2>1 DEF EditBegin, Goto
    <2> QED
      BY <2>1, <2>2, <2>3, <2>4, <2>5
  <1>6. ASSUME NEW c \in Clients, EditWrite(c) PROVE Editors'
    <2>1. pc[c] = "write" /\ dsLock[want[c]] = c /\ want[c] \in Datasets /\ c # None
      BY <1>6, TrainingAssumption DEF EditWrite
    <2>2. UNCHANGED dataset /\ (Active' <=> Active)
      BY <1>6 DEF EditWrite, job, Active
    <2>3. dsLock' = [dsLock EXCEPT ![want[c]] = None] /\ changed' = changed \cup {want[c]}
      BY <1>6 DEF EditWrite
    <2>4. Active => dataset # want[c]
      BY <2>1
    <2>5. \A b \in Clients : pc'[b] = "write" =>
              pc[b] = "write" /\ want'[b] = want[b] /\ want[b] # want[c]
      BY <1>6, <2>1 DEF EditWrite, Goto
    <2> QED
      BY <2>2, <2>3, <2>4, <2>5
  <1>7. ASSUME NEW c \in Clients, DeleteDataset(c) PROVE Editors'
    BY <1>7 DEF DeleteDataset, clientVars, job, Active, history
  <1>8. ASSUME NEW j \in Jobs, Work(j) PROVE Editors'
    BY <1>8, WorkSteps DEF clientVars
  <1>9. ASSUME NEW j \in Jobs, Conclude(j) \/ Clear(j) \/ ReleaseDataset(j) PROVE Editors'
    <2>1. UNCHANGED <<pc, want, dsLock, dataset, changed>> /\ (Active' => Active)
      BY <1>9 DEF Conclude, Clear, ReleaseDataset, shared, clientVars, job, Active, Terminal, history
    <2> QED
      BY <2>1
  <1>10. ASSUME NEW j \in Jobs, Outside(j) PROVE Editors'
    BY <1>10, OutsideSteps DEF job, clientVars, Active, history
  <1> QED
    BY <1>1, <1>2, <1>3, <1>4, <1>5, <1>6, <1>7, <1>8, <1>9, <1>10, NextCases

-----------------------------------------------------------------------------
(* What is left behind, cancellations and trainers.                        *)

LEMMA AccountedStep ==
  ASSUME IInv, Next
  PROVE  Accounted'
  <1> USE DEF IInv, TypeOK, Accounted
  <1>1. ASSUME NEW c \in Clients, StartClaim(c) PROVE Accounted'
    <2>1. ~Active /\ \A b \in Clients : pc[b] # "validate"
      BY <1>1, TrainingAssumption DEF StartClaim, Starts, Unlocked
    <2>2. PICK d \in present \ frozen : frozen' = frozen \cup {d} /\ want' = [want EXCEPT ![c] = d]
      BY <1>1 DEF StartClaim
    <2>3. pc' = [pc EXCEPT ![c] = "validate"] /\ UNCHANGED <<process, jobDataset, run, mine, status, dataset>>
      BY <1>1 DEF StartClaim, Goto, job, threadVars
    <2> QED
      BY <2>1, <2>2, <2>3 DEF Active
  <1>2. ASSUME NEW c \in Clients, StartValidate(c) PROVE Accounted'
    <2>1. ~Active /\ UNCHANGED <<run, mine, process>>
      BY <1>2 DEF StartValidate, Starts, threadVars
    <2>2. \A b \in Clients : pc[b] = "validate" => b = c
      BY <1>2 DEF StartValidate, Starts
    <2>3. CASE frozen' = Unfreeze(want[c]) /\ UNCHANGED <<job, jobDataset>>
      BY <2>1, <2>2, <2>3 DEF Unfreeze, job, Active
    <2>4. CASE status' = "preparing" /\ dataset' = want[c] /\ UNCHANGED frozen
      <3>1. Active'
        BY <2>4 DEF Active, Terminal
      <3> QED
        BY <2>1, <2>2, <2>4, <3>1
    <2> QED
      BY <1>2, <2>3, <2>4 DEF StartValidate
  <1>3. ASSUME NEW c \in Clients, StartThread(c) PROVE Accounted'
    <2>1. run' = [run EXCEPT ![id] = "new"] /\ run[id] = "none" /\ pc' = [pc EXCEPT ![c] = "idle"]
      BY <1>3 DEF StartThread, Starts, Goto
    <2>2. UNCHANGED <<frozen, want, process, mine, dataset, jobDataset>> /\ (Active' <=> Active)
      BY <1>3 DEF StartThread, job, registry, Active
    <2>3. pc[c] = "spawn"
      BY <1>3 DEF StartThread
    <2>4. "none" \notin Leaving
      BY DEF Leaving
    <2>5. \A j \in Jobs : run[j] \in Leaving \cup {"clear"} => run'[j] = run[j]
      BY <2>1, <2>4
    <2>6. process # 0 => run'[process] = run[process]
      BY <2>1
    <2>7. \A b \in Clients : pc[b] = "validate" => pc'[b] = "validate"
      BY <2>1, <2>3
    <2> QED
      BY <2>2, <2>5, <2>6, <2>7
  <1>4. ASSUME NEW c \in Clients, Signals(c) PROVE Accounted'
    <2>1. PICK where \in {"idle", "kill", "nudge"} : Goto(c, where)
      BY <1>4, SignalSteps
    <2>2. \A b \in Clients : pc[b] = "validate" => pc'[b] = "validate"
      BY <1>4, <2>1, SignalSteps DEF Goto
    <2>3. UNCHANGED <<frozen, want, process, run, mine, dataset, jobDataset>> /\ (Active' <=> Active)
      BY <1>4, SignalSteps DEF registry, job, threadVars, Active
    <2> QED
      BY <2>2, <2>3
  <1>5. ASSUME NEW c \in Clients, EditBegin(c) \/ EditWrite(c) \/ DeleteDataset(c) PROVE Accounted'
    <2>1. \A b \in Clients : pc[b] = "validate" => pc'[b] = "validate" /\ want'[b] = want[b]
      BY <1>5 DEF EditBegin, EditWrite, DeleteDataset, Goto, clientVars
    <2>2. UNCHANGED <<frozen, process, run, mine, dataset, jobDataset>> /\ (Active' <=> Active)
      BY <1>5 DEF EditBegin, EditWrite, DeleteDataset, registry, job, threadVars, Active
    <2> QED
      BY <2>1, <2>2
  <1>6. ASSUME NEW j \in Jobs, Work(j) PROVE Accounted'
    <2>1. UNCHANGED <<dataset, jobDataset, frozen, pc, want>> /\ Active /\ Active'
      BY <1>6, WorkSteps DEF registry, clientVars
    <2>2. PICK where \in Working \cup {"dead"} : GotoRun(j, where)
      BY <1>6, WorkSteps
    <2>3. run[j] \notin Leaving
      BY <1>6, WorkSteps DEF Working, Leaving
    <2>4. \A i \in Jobs : i # j => run'[i] = run[i] /\ mine'[i] = mine[i]
      <3>1. UNCHANGED mine \/ mine' = [mine EXCEPT ![j] = jobDataset]
        BY <1>6, WorkOn, TakeSteps
      <3> QED
        BY <2>2, <3>1 DEF GotoRun
    <2>5. \A d \in frozen : (Active /\ dataset = d) \/ (\E c \in Clients : pc[c] = "validate" /\ want[c] = d)
                               \/ \E i \in Jobs : run'[i] \in Leaving /\ mine'[i] = d
      BY <2>3, <2>4
    <2>6. process' # 0 =>
             run'[process'] \in {"consume", "judge", "deliver", "upload", "fail", "conclude", "clear"}
      <3>1. CASE process' = process
        BY <1>6, <2>2, <3>1 DEF Work, TakeDataset, Build, Spawn, Consume, Judge, Deliver, Upload, Fail,
                                GotoRun
      <3>2. CASE process' # process
        BY <1>6, <3>2 DEF Work, TakeDataset, Build, Spawn, Consume, Judge, Deliver, Upload, Fail,
                          GotoRun, shared
      <3> QED
        BY <3>1, <3>2
    <2> QED
      BY <2>1, <2>5, <2>6
  <1>7. ASSUME NEW j \in Jobs, Conclude(j) PROVE Accounted'
    <2>1. run[j] = "conclude" /\ run' = [run EXCEPT ![j] = "clear"] /\ mine[j] = dataset
      BY <1>7 DEF Conclude, GotoRun, Apart, Working
    <2>2. UNCHANGED <<frozen, pc, want, process, mine, dataset, jobDataset>>
      BY <1>7 DEF Conclude, shared, registry, clientVars
    <2>3. "clear" \in Leaving /\ "conclude" \notin Leaving
      BY DEF Leaving
    <2>4. \A d \in frozen : \/ \E c \in Clients : pc[c] = "validate" /\ want[c] = d
                            \/ \E i \in Jobs : run'[i] \in Leaving /\ mine[i] = d
      BY <2>1, <2>3
    <2>5. process # 0 => run'[process] \in {"consume", "judge", "deliver", "upload", "fail", "conclude", "clear"}
      BY <2>1
    <2> QED
      BY <2>1, <2>2, <2>4, <2>5
  <1>8. ASSUME NEW j \in Jobs, Clear(j) PROVE Accounted'
    <2>1. run[j] = "clear" /\ run' = [run EXCEPT ![j] = "release"] /\ process' = 0 /\ jobDataset' = None
      BY <1>8 DEF Clear, GotoRun
    <2>2. UNCHANGED <<frozen, pc, want, mine, dataset>> /\ (Active' <=> Active)
      BY <1>8 DEF Clear, registry, clientVars, job, Active
    <2>3. \A i \in Jobs : run[i] \in Leaving => run'[i] \in Leaving
      BY <2>1 DEF Leaving
    <2> QED
      BY <2>1, <2>2, <2>3
  <1>9. ASSUME NEW j \in Jobs, ReleaseDataset(j) PROVE Accounted'
    <2>1. UNCHANGED <<process, pc, want, dataset, jobDataset>> /\ (Active' <=> Active)
      BY <1>9 DEF ReleaseDataset, clientVars, job, Active
    <2>2. frozen' = frozen \ {mine[j]} /\ mine' = [mine EXCEPT ![j] = None]
      BY <1>9 DEF ReleaseDataset
    <2>3. run[j] = "release" /\ run' = [run EXCEPT ![j] = "end"]
      BY <1>9 DEF ReleaseDataset, GotoRun
    <2>4. \A i \in Jobs : run[i] \in Leaving => i = j \/ (run'[i] = run[i] /\ mine'[i] = mine[i])
      BY <2>2, <2>3
    <2>5. process # 0 => run'[process] = run[process]
      BY <2>3
    <2>6. \A i \in Jobs : run[i] = "clear" => run'[i] = "clear"
      BY <2>3
    <2>7. \A d \in frozen' : \/ \E c \in Clients : pc[c] = "validate" /\ want[c] = d
                             \/ Active /\ dataset = d
                             \/ \E i \in Jobs : run'[i] \in Leaving /\ mine'[i] = d
      BY <2>2, <2>4
    <2> QED
      BY <2>1, <2>5, <2>6, <2>7
  <1>10. ASSUME NEW j \in Jobs, Outside(j) PROVE Accounted'
    BY <1>10, OutsideSteps DEF job, registry, clientVars, threadVars, Active
  <1> QED
    BY <1>1, <1>2, <1>3, <1>4, <1>5, <1>6, <1>7, <1>8, <1>9, <1>10, NextCases

LEMMA CancelsStep ==
  ASSUME IInv, Next
  PROVE  Cancels'
  <1> USE DEF IInv, TypeOK, Cancels, CancelDiscards
  <1>1. CASE UNCHANGED <<cancelled, delivered, cancelRequested, run, id>>
    BY <1>1
  <1>2. ASSUME NEW c \in Clients, StartValidate(c) PROVE Cancels'
    <2>1. CASE UNCHANGED <<job, cancelRequested, history>>
      BY <1>1, <1>2, <2>1 DEF StartValidate, job, history, threadVars
    <2>2. CASE cancelled' = FALSE /\ delivered' = FALSE
      BY <2>2
    <2> QED
      BY <1>2, <2>1, <2>2 DEF StartValidate
  <1>3. ASSUME NEW c \in Clients, StartThread(c) PROVE Cancels'
    <2>1. run' = [run EXCEPT ![id] = "new"] /\ run[id] = "none" /\ id \in Jobs
      BY <1>3 DEF StartThread, Starts, Places
    <2>2. UNCHANGED <<id, cancelled, delivered, cancelRequested>>
      BY <1>3 DEF StartThread, job, history
    <2>3. ~delivered
      BY <2>1 DEF Leaving
    <2> QED
      BY <2>1, <2>2, <2>3
  <1>4. ASSUME NEW c \in Clients, Cancel(c) PROVE Cancels'
    <2>1. Active /\ id \in Jobs
      BY <1>4 DEF Cancel, Active, Terminal, Places
    <2>2. cancelRequested' /\ UNCHANGED <<id, run, delivered>>
      BY <1>4 DEF Cancel, job, threadVars
    <2>3. CASE run[id] \in {"none", "new", "build", "spawn", "consume", "judge"}
      <3>1. ~delivered
        BY <2>1, <2>3 DEF Leaving
      <3>2. \A j \in Jobs : run[j] \notin {"deliver", "upload"}
        BY <2>3, Current DEF Working
      <3> QED
        BY <2>2, <3>1, <3>2
    <2>4. CASE run[id] \notin {"none", "new", "build", "spawn", "consume", "judge"}
      BY <1>4, <2>2, <2>4 DEF Cancel
    <2> QED
      BY <2>3, <2>4
  <1>5. ASSUME NEW c \in Clients, Signals(c), ~Cancel(c) PROVE Cancels'
    BY <1>1, <1>5 DEF Signals, FinishEarly, CancelKill, FinishNudge, Signal, job, threadVars, history
  <1>6. ASSUME NEW c \in Clients, StartClaim(c) \/ EditBegin(c) \/ EditWrite(c) \/ DeleteDataset(c)
        PROVE  Cancels'
    BY <1>1, <1>6 DEF StartClaim, EditBegin, EditWrite, DeleteDataset, job, threadVars, history
  <1>7. ASSUME NEW j \in Jobs, Work(j) PROVE Cancels'
    <2>1. UNCHANGED <<id, cancelled, cancelRequested>> /\ j = id
      BY <1>7, WorkSteps
    <2>2. CASE TakeDataset(j) \/ Build(j) \/ Spawn(j) \/ Consume(j) \/ Fail(j)
      <3>1. UNCHANGED delivered
        BY <2>2 DEF TakeDataset, Build, Spawn, Consume, Fail, history
      <3>2. run'[j] \notin {"deliver", "upload"} /\ \A i \in Jobs : i # j => run'[i] = run[i]
        BY <2>2 DEF TakeDataset, Build, Spawn, Consume, Fail, GotoRun
      <3>3. delivered => run'[j] = "conclude"
        BY <2>1, <2>2 DEF TakeDataset, Build, Spawn, Consume, Fail, GotoRun, Leaving
      <3> QED
        BY <2>1, <3>1, <3>2, <3>3
    <2>3. CASE Judge(j)
      <3>1. UNCHANGED delivered /\ ~delivered
        BY <2>1, <2>3 DEF Judge, history, Leaving
      <3>2. \A i \in Jobs : i # j => run'[i] = run[i]
        BY <2>3 DEF Judge, GotoRun
      <3>3. cancelRequested => run'[j] \in {"fail", "conclude"}
        BY <2>3 DEF Judge, GotoRun, CancelSeen
      <3> QED
        BY <2>1, <3>1, <3>2, <3>3
    <2>4. CASE Deliver(j) \/ Upload(j)
      <3>1. ~cancelled
        BY <2>4 DEF Deliver, Upload
      <3>2. run'[j] \in {"upload", "fail", "conclude"} 
        BY <2>4 DEF Deliver, Upload, GotoRun
      <3> QED
        BY <2>1, <3>1, <3>2
    <2> QED
      BY <1>7, <2>2, <2>3, <2>4 DEF Work
  <1>8. ASSUME NEW j \in Jobs, Conclude(j) \/ Clear(j) \/ ReleaseDataset(j) PROVE Cancels'
    <2>1. UNCHANGED <<id, cancelled, cancelRequested, delivered>>
      BY <1>8 DEF Conclude, Clear, ReleaseDataset, shared, job, history
    <2>2. \A i \in Jobs : i # j => run'[i] = run[i]
      BY <1>8 DEF Conclude, Clear, ReleaseDataset, GotoRun
    <2>3. run'[j] \in Leaving \cup {"end"} /\ run'[j] \notin {"deliver", "upload"}
      BY <1>8 DEF Conclude, Clear, ReleaseDataset, GotoRun, Leaving
    <2> QED
      BY <2>1, <2>2, <2>3
  <1>9. ASSUME NEW j \in Jobs, Outside(j) PROVE Cancels'
    BY <1>1, <1>9, OutsideSteps DEF job, threadVars, history
  <1> QED
    BY <1>2, <1>3, <1>4, <1>5, <1>6, <1>7, <1>8, <1>9, NextCases DEF Signals

(* A signal reaches a trainer that lives.                                  *)
LEMMA SignalReaches ==
  ASSUME TypeOK, NEW c \in Clients, Signals(c), NEW j \in Jobs
  PROVE  trainer'[j] = trainer[j] \/ (Alive(j) /\ trainer'[j] \in {"err", "running", "stopping", "hung"})
  <1>1. CASE Cancel(c) \/ FinishEarly(c)
    BY <1>1 DEF Cancel, FinishEarly
  <1>2. CASE CancelKill(c)
    BY <1>2 DEF CancelKill, Signal, TypeOK, Alive
  <1>3. CASE FinishNudge(c)
    <2> DEFINE effect == CASE trainer[victim[c]] = "booting" -> "err"
                           [] trainer[victim[c]] = "running" -> "stopping"
                           [] OTHER -> trainer[victim[c]]
    <2>1. Signal(c, effect)
      BY <1>3 DEF FinishNudge
    <2>2. Alive(victim[c]) => effect \in {"err", "running", "stopping", "hung"}
      BY DEF Alive
    <2> HIDE DEF effect
    <2> QED
      BY <2>1, <2>2 DEF Signal, TypeOK, Alive
  <1> QED
    BY <1>1, <1>2, <1>3 DEF Signals

(* What the trainer and its watchdog do to it.                             *)
LEMMA OutsideReaches ==
  ASSUME TypeOK, NEW i \in Jobs, Outside(i), NEW j \in Jobs
  PROVE  trainer'[j] = trainer[j] \/ (Alive(j) /\ trainer'[j] \in {"running", "stopping", "hung", "ok", "err"})
  <1>1. CASE TrainerGoesOn(i) \/ TrainerHangs(i)
    BY <1>1 DEF TrainerGoesOn, TrainerHangs, TrainerTurns, TypeOK, Alive
  <1>2. CASE WatchExpires(i)
    BY <1>2 DEF WatchExpires
  <1>3. CASE WatchKills(i)
    BY <1>3 DEF WatchKills, Killed, TypeOK, Alive
  <1> QED
    BY <1>1, <1>2, <1>3 DEF Outside, Watchdog

LEMMA TrainersStep ==
  ASSUME IInv, Next
  PROVE  Trainers'
  <1> USE DEF IInv, TypeOK, Trainers
  <1>1. CASE UNCHANGED <<trainer, run>>
    BY <1>1 DEF Alive
  <1>2. ASSUME NEW c \in Clients, StartThread(c) PROVE Trainers'
    <2>1. run' = [run EXCEPT ![id] = "new"] /\ run[id] = "none" /\ UNCHANGED trainer
      BY <1>2 DEF StartThread, Starts
    <2> QED
      BY <2>1 DEF Alive
  <1>3. ASSUME NEW c \in Clients, Signals(c) PROVE Trainers'
    <2>1. UNCHANGED run
      BY <1>3, SignalSteps DEF threadVars
    <2>2. \A j \in Jobs : trainer'[j] = trainer[j] \/ Alive(j)
      BY <1>3, SignalReaches
    <2> QED
      BY <2>1, <2>2 DEF Alive
  <1>4. ASSUME NEW c \in Clients,
               \/ StartClaim(c) \/ StartValidate(c)
               \/ EditBegin(c) \/ EditWrite(c) \/ DeleteDataset(c)
        PROVE  Trainers'
    BY <1>1, <1>4 DEF StartClaim, StartValidate, EditBegin, EditWrite, DeleteDataset, threadVars
  <1>5. ASSUME NEW j \in Jobs, Spawn(j) PROVE Trainers'
    <2>1. \A i \in Jobs : i # j => run'[i] = run[i] /\ trainer'[i] = trainer[i]
      BY <1>5 DEF Spawn, GotoRun
    <2>2. run'[j] = "consume" \/ (run'[j] = "fail" /\ trainer'[j] = trainer[j] /\ ~Alive(j))
      BY <1>5 DEF Spawn, GotoRun, Alive
    <2> QED
      BY <2>1, <2>2 DEF Alive
  <1>6. ASSUME NEW j \in Jobs, Consume(j) PROVE Trainers'
    BY <1>6 DEF Consume, WaitedFor, Exited, GotoRun, Alive
  <1>7. ASSUME NEW j \in Jobs, Work(j), ~Spawn(j), ~Consume(j) PROVE Trainers'
    <2>1. UNCHANGED trainer /\ run[j] # "consume"
      BY <1>7 DEF Work, TakeDataset, Build, Judge, Deliver, Upload, Fail
    <2>2. \A i \in Jobs : i # j => run'[i] = run[i]
      BY <1>7 DEF Work, TakeDataset, Build, Judge, Deliver, Upload, Fail, GotoRun
    <2>3. run[j] \in {"new", "build"} \/ run'[j] \notin {"none", "new", "dead", "build", "spawn"}
      BY <1>7 DEF Work, TakeDataset, Build, Judge, Deliver, Upload, Fail, GotoRun
    <2> QED
      BY <2>1, <2>2, <2>3 DEF Alive
  <1>8. ASSUME NEW j \in Jobs, Conclude(j) \/ Clear(j) \/ ReleaseDataset(j) PROVE Trainers'
    BY <1>8 DEF Conclude, Clear, ReleaseDataset, GotoRun, Alive
  <1>9. ASSUME NEW j \in Jobs, Outside(j) PROVE Trainers'
    <2>1. UNCHANGED run
      BY <1>9, OutsideSteps DEF threadVars
    <2>2. \A i \in Jobs : trainer'[i] = trainer[i] \/ Alive(i)
      BY <1>9, OutsideReaches
    <2> QED
      BY <2>1, <2>2 DEF Alive
  <1> QED
    BY <1>2, <1>3, <1>4, <1>5, <1>6, <1>7, <1>8, <1>9, NextCases

-----------------------------------------------------------------------------
(* The parts together.                                                     *)
LEMMA InitIInv == Init => IInv
  <1> SUFFICES ASSUME Init PROVE IInv
    OBVIOUS
  <1>1. TypeOK
    BY TypeInit
  <1>2. ~Active
    BY DEF Init, Active
  <1>3. Places
    BY <1>2, TrainingAssumption DEF Init, Places, Jobs
  <1>4. Starts /\ Editors
    BY <1>2, TrainingAssumption DEF Init, Starts, Editors, TrainsWhatWasValidated
  <1>5. Claims /\ Apart
    BY <1>2 DEF Init, Claims, ClaimedWhileActive, Apart, Holding, Working, Leaving
  <1>6. Accounted /\ Cancels
    BY DEF Init, Accounted, Cancels, CancelDiscards
  <1>7. Trainers
    BY DEF Init, Trainers, Alive
  <1> QED
    BY <1>1, <1>3, <1>4, <1>5, <1>6, <1>7 DEF IInv

LEMMA IInvStep == IInv /\ [Next]_vars => IInv'
  <1>1. CASE IInv /\ Next
    <2>1. TypeOK'
      BY <1>1, TypeClient, TypeThread, TypeTrainer DEF Next
    <2> QED
      BY <1>1, <2>1, PlacesStep, StartsStep, ClaimsStep, ApartStep, EditorsStep, AccountedStep,
         CancelsStep, TrainersStep DEF IInv
  <1>2. CASE IInv /\ UNCHANGED vars
    BY <1>2 DEF vars, job, registry, clientVars, threadVars, history, IInv, TypeOK, Places, Starts,
                Claims, ClaimedWhileActive, Apart, Editors, TrainsWhatWasValidated, Accounted, Cancels,
                CancelDiscards, Trainers, Active, Alive
  <1> QED
    BY <1>1, <1>2

(* The invariant the results below follow from.                            *)
THEOREM Invariance == Spec => []IInv
  BY InitIInv, IInvStep, PTL DEF Spec

(* Every variable of the service keeps its type; a job's status is one of  *)
(* those its readers compare with.                                         *)
THEOREM TypeCorrect == Spec => []TypeOK
  <1>1. IInv => TypeOK
    BY DEF IInv
  <1> QED
    BY Invariance, <1>1, PTL

(* However starts, edits, deletions and the threads of old jobs interleave, *)
(* the dataset of an active job is frozen and registered.                  *)
THEOREM ClaimedWhileActiveHolds == Spec => []ClaimedWhileActive
  <1>1. IInv => ClaimedWhileActive
    BY DEF IInv, Claims
  <1> QED
    BY Invariance, <1>1, PTL

(* The frozen flag is set under another lock than the one editors hold     *)
(* when they check it; a job trains on the validated content all the same. *)
THEOREM TrainsWhatWasValidatedHolds == Spec => []TrainsWhatWasValidated
  <1>1. IInv => TrainsWhatWasValidated
    BY DEF IInv, Editors
  <1> QED
    BY Invariance, <1>1, PTL

(* No model leaves a job whose cancellation was accepted before it looked. *)
THEOREM CancelDiscardsHolds == Spec => []CancelDiscards
  <1>1. IInv => CancelDiscards
    BY DEF IInv, Cancels
  <1> QED
    BY Invariance, <1>1, PTL

(* Once all threads are done nothing is frozen, remembered or taken.       *)
THEOREM NothingLeftHolds == Spec => []NothingLeft
  <1>1. IInv => NothingLeft
    <2> SUFFICES ASSUME IInv, ~Active, lock = None, \A j \in Jobs : run[j] \in {"none", "end"}
                 PROVE  frozen = {} /\ process = 0 /\ jobDataset = None
      BY DEF NothingLeft
    <2>1. \A c \in Clients : pc[c] # "validate"
      BY TrainingAssumption DEF IInv, Starts
    <2>2. \A j \in Jobs : run[j] \notin Leaving
      BY DEF Leaving
    <2>3. frozen = {}
      BY <2>1, <2>2 DEF IInv, Accounted
    <2>4. process = 0
      <3>1. process # 0 => process \in Jobs
        BY TrainingAssumption DEF IInv, TypeOK, Jobs
      <3> QED
        BY <3>1 DEF IInv, Accounted
    <2>5. jobDataset = None
      BY DEF IInv, Accounted
    <2> QED
      BY <2>3, <2>4, <2>5
  <1> QED
    BY Invariance, <1>1, PTL

-----------------------------------------------------------------------------
(* The status covers the life of the trainer.                              *)

(* A job that is active and has a trainer keeps it.                        *)
LEMMA LeaseKept ==
  ASSUME IInv, Active' <=> Active, id' = id,
         Active => \/ trainer'[id] = trainer[id]
                   \/ Alive(id) /\ trainer'[id] \in {"running", "stopping", "hung", "ok", "err"}
  PROVE  [Lease!Next]_(IF ~Active THEN "free"
                       ELSE IF trainer[id] = "none" THEN "held" ELSE IF Alive(id) THEN "busy" ELSE "spent")
  BY DEF Lease!Next, Lease!Exit, Alive

(* What GetTraining answers implements GpuLease: a trainer is started under *)
(* an active status and is gone before the status says so.                 *)
THEOREM LeaseHonoured == Spec => HonoursLease
  <1> DEFINE lease == IF ~Active THEN "free"
                      ELSE IF trainer[id] = "none" THEN "held" ELSE IF Alive(id) THEN "busy" ELSE "spent"
  <1>1. Init => Lease!Init
    BY DEF Init, Lease!Init, Active
  <1>2. IInv /\ [Next]_vars => [Lease!Next]_lease
    <2> SUFFICES ASSUME IInv, [Next]_vars PROVE [Lease!Next]_lease
      OBVIOUS
    <2>1. ASSUME NEW c \in Clients, StartValidate(c) PROVE [Lease!Next]_lease
      <3>1. CASE UNCHANGED job
        BY <1>1, <2>1, <3>1, LeaseKept DEF StartValidate, job, Active
      <3>2. CASE id' = id + 1 /\ status' = "preparing"
        <4>1. id' \in Jobs /\ run[id'] = "none"
          BY <2>1, <3>2, TrainingAssumption DEF StartValidate, Starts, Places, IInv, TypeOK, Jobs
        <4>2. ~Active /\ Active'
          BY <2>1, <3>2 DEF StartValidate, Starts, IInv, Active, Terminal
        <4>3. trainer'[id'] = "none"
          BY <2>1, <4>1 DEF StartValidate, IInv, Trainers
        <4> QED
          BY <4>2, <4>3 DEF Lease!Next, Lease!Claim
      <3> QED
        BY <2>1, <3>1, <3>2 DEF StartValidate, job
    <2>2. ASSUME NEW j \in Jobs, Spawn(j) PROVE [Lease!Next]_lease
      <3>1. j = id /\ Active /\ Active' /\ id' = id
        BY <2>2, WorkSteps DEF Work
      <3>2. trainer[j] = "none"
        BY <2>2 DEF Spawn, IInv, Trainers
      <3>3. CASE UNCHANGED trainer
        BY <3>1, <3>3, LeaseKept
      <3>4. CASE trainer' = [trainer EXCEPT ![j] = "booting"]
        <4>1. trainer'[id'] = "booting"
          BY <3>1, <3>4 DEF IInv, TypeOK
        <4> QED
          BY <3>1, <3>2, <4>1 DEF Lease!Next, Lease!Launch, Alive
      <3> QED
        BY <2>2, <3>3, <3>4 DEF Spawn
    <2>3. ASSUME NEW j \in Jobs, Work(j), ~Spawn(j) PROVE [Lease!Next]_lease
      <3>1. Active /\ Active' /\ id' = id
        BY <2>3, WorkSteps
      <3>2. UNCHANGED trainer
        BY <2>3 DEF Work, TakeDataset, Build, Consume, Judge, Deliver, Upload, Fail
      <3> QED
        BY <3>1, <3>2, LeaseKept
    <2>4. ASSUME NEW j \in Jobs, Conclude(j) PROVE [Lease!Next]_lease
      <3>1. j = id /\ Active /\ ~Active'
        BY <2>4, Current DEF Conclude, Working, Active, Terminal, IInv, TypeOK
      <3>2. ~Alive(id)
        BY <2>4, <3>1 DEF Conclude, IInv, Trainers
      <3> QED
        BY <3>1, <3>2 DEF Lease!Next, Lease!Conclude
    <2>5. ASSUME NEW j \in Jobs, Clear(j) \/ ReleaseDataset(j) PROVE [Lease!Next]_lease
      BY <2>5, LeaseKept DEF Clear, ReleaseDataset, job, Active
    <2>6. ASSUME NEW j \in Jobs, Outside(j) PROVE [Lease!Next]_lease
      <3>1. id' = id /\ (Active' <=> Active)
        BY <2>6, OutsideSteps DEF job, Active
      <3>2. Active => id \in Jobs
        BY DEF IInv, Places
      <3> QED
        BY <2>6, <3>1, <3>2, OutsideReaches, LeaseKept DEF IInv
    <2>7. ASSUME NEW c \in Clients, Signals(c) PROVE [Lease!Next]_lease
      <3>1. id' = id /\ (Active' <=> Active)
        BY <2>7, SignalSteps DEF job, Active
      <3>2. Active => id \in Jobs
        BY DEF IInv, Places
      <3> QED
        BY <2>7, <3>1, <3>2, SignalReaches, LeaseKept DEF IInv
    <2>8. ASSUME NEW c \in Clients,
                 \/ StartClaim(c) \/ StartThread(c)
                 \/ EditBegin(c) \/ EditWrite(c) \/ DeleteDataset(c)
          PROVE  [Lease!Next]_lease
      BY <2>8, LeaseKept DEF StartClaim, StartThread, EditBegin, EditWrite, DeleteDataset, job, Active
    <2>9. CASE UNCHANGED vars
      BY <2>9, LeaseKept DEF vars, job, Active
    <2> QED
      BY <2>1, <2>2, <2>3, <2>4, <2>5, <2>6, <2>7, <2>8, <2>9, NextCases
  <1> QED
    BY Invariance, <1>1, <1>2, PTL DEF Spec, HonoursLease, Lease!Spec
=============================================================================
