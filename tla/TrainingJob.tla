------------------------------ MODULE TrainingJob ------------------------------
(***************************************************************************)
(* The training-service: TrainingService (service/training_service.py),    *)
(* the datasets it freezes (service/dataset_registry.py,                   *)
(* service/dataset_service.py) and the trainer it spawns                   *)
(* (service/_yolo_trainer.py).  One thread per job, one per trainer's      *)
(* watchdog, gRPC threads that start, cancel, finish, edit and delete.     *)
(*                                                                         *)
(* Of a dataset's content only matters whether it changed since it was     *)
(* last validated.  Splits, packages, uploads and stashed weights succeed  *)
(* or fail; progress, metrics and the arguments of a job are left out.     *)
(***************************************************************************)
EXTENDS Naturals, FiniteSets

CONSTANTS
    Clients,       \* gRPC threads
    Datasets,
    Faces,         \* the datasets that are packaged, not trained on
    None,          \* no dataset, nobody
    MaxJobs        \* bound: jobs in one behaviour

Jobs == 1..MaxJobs

ASSUME TrainingAssumption ==
    /\ Faces \subseteq Datasets
    /\ None \notin Datasets \cup Clients
    /\ MaxJobs \in Nat

VARIABLES
    id, status, dataset,   \* TrainingService._job
    jobDataset,            \* _job_dataset
    process,               \* _process: the job whose trainer it is, 0 for none
    cancelRequested,       \* _cancel_requested
    lock,                  \* the start that holds _lock while it validates
    present,               \* DatasetRegistry._datasets
    frozen,                \* datasets whose frozen flag is set
    dsLock                 \* per dataset: the editor that holds its lock

job == <<id, status, dataset>>
registry == <<present, frozen>>

VARIABLES
    pc, want, victim,      \* per client: where it is, its dataset, the trainer it signals
    run, mine, verdict,    \* per job thread: where it is, its dataset, its outcome
    trainer,               \* per job: its trainer process
    watch                  \* per job: the watchdog; once not "watching", timed_out is set

clientVars == <<pc, want, victim>>
threadVars == <<run, mine, verdict>>

VARIABLES                  \* history
    changed,               \* datasets edited since they were last validated
    cancelled,             \* cancel() said yes before the current job looked
    delivered              \* a model or weights left the current job

history == <<changed, cancelled, delivered>>
vars == <<job, jobDataset, process, cancelRequested, lock, registry, dsLock, clientVars,
          threadVars, trainer, watch, history>>

Terminal == {"done", "failed", "canceled"}

(* is_active.                                                              *)
Active == status \notin {"idle"} \cup Terminal

Alive(j) == trainer[j] \in {"booting", "running", "stopping", "hung"}

(* "ok" is exit code 0 with best.pt announced, "err" is anything else.     *)
Exited(j) == trainer[j] \in {"ok", "err"}

Unlocked == lock = None

(* Variant: nobody looks whether an editor is in the dataset.              *)
Ignored(d) == TRUE

DsUnlocked(d) == dsLock[d] = None

Init ==
    /\ id = 0 /\ status = "idle" /\ dataset = None
    /\ jobDataset = None /\ process = 0 /\ cancelRequested = FALSE /\ lock = None
    /\ present = Datasets /\ frozen = {}
    /\ dsLock = [d \in Datasets |-> None]
    /\ pc = [c \in Clients |-> "idle"] /\ want = [c \in Clients |-> None]
    /\ victim = [c \in Clients |-> 0]
    /\ run = [j \in Jobs |-> "none"] /\ mine = [j \in Jobs |-> None]
    /\ verdict = [j \in Jobs |-> "failed"]
    /\ trainer = [j \in Jobs |-> "none"] /\ watch = [j \in Jobs |-> "watching"]
    /\ changed = {} /\ cancelled = FALSE /\ delivered = FALSE

Goto(c, where) == pc' = [pc EXCEPT ![c] = where]

-----------------------------------------------------------------------------
(* TrainingService.start: under _lock the dataset is frozen ...            *)
StartClaim(c) ==
    /\ pc[c] = "idle" /\ Unlocked /\ ~Active /\ id < MaxJobs
    /\ \E d \in present \ frozen :
        /\ frozen' = frozen \cup {d}
        /\ want' = [want EXCEPT ![c] = d]
    /\ lock' = c
    /\ Goto(c, "validate")
    /\ UNCHANGED <<job, jobDataset, process, cancelRequested, present, dsLock, victim,
                   threadVars, trainer, watch, history>>

(* Variant: a refused start leaves its dataset frozen.                     *)
KeepFrozen(d) == frozen

(* What a start that is refused gives back.                                *)
Unfreeze(d) == frozen \ {d}

(* ... then validated under its own lock, and the job set up ...           *)
StartValidate(c) ==
    /\ pc[c] = "validate" /\ DsUnlocked(want[c])
    /\ lock' = None
    /\ \/ /\ frozen' = Unfreeze(want[c])
          /\ Goto(c, "idle")
          /\ UNCHANGED <<job, jobDataset, cancelRequested, history>>
       \/ /\ id' = id + 1 /\ status' = "preparing" /\ dataset' = want[c]
          /\ jobDataset' = want[c]
          /\ cancelRequested' = FALSE
          /\ changed' = changed \ {want[c]}
          /\ cancelled' = FALSE /\ delivered' = FALSE
          /\ Goto(c, "spawn")
          /\ UNCHANGED frozen
    /\ want' = [want EXCEPT ![c] = None]
    /\ UNCHANGED <<process, present, dsLock, victim, threadVars, trainer, watch>>

(* ... and, once SAM is unloaded, its thread started.                      *)
StartThread(c) ==
    /\ pc[c] = "spawn"
    /\ run' = [run EXCEPT ![id] = "new"]
    /\ Goto(c, "idle")
    /\ UNCHANGED <<job, jobDataset, process, cancelRequested, lock, registry, dsLock, want,
                   victim, mine, verdict, trainer, watch, history>>

(* cancel: the flag under _lock, the signal outside.                       *)
Cancel(c) ==
    /\ pc[c] = "idle" /\ Unlocked /\ status \in {"preparing", "training"}
    /\ cancelRequested' = TRUE
    /\ victim' = [victim EXCEPT ![c] = process]
    /\ Goto(c, "kill")
    /\ cancelled' = (cancelled \/ run[id] \in {"none", "new", "build", "spawn", "consume", "judge"})
    /\ UNCHANGED <<job, jobDataset, process, lock, registry, dsLock, want, threadVars,
                   trainer, watch, changed, delivered>>

(* Send a signal to the trainer this client saw, if there is one.          *)
Signal(c, effect) ==
    /\ trainer' = IF victim[c] # 0 /\ Alive(victim[c])
                  THEN [trainer EXCEPT ![victim[c]] = effect] ELSE trainer
    /\ victim' = [victim EXCEPT ![c] = 0]
    /\ Goto(c, "idle")
    /\ UNCHANGED <<job, jobDataset, process, cancelRequested, lock, registry, dsLock, want,
                   threadVars, watch, history>>

CancelKill(c) == pc[c] = "kill" /\ Signal(c, "err")

(* finish_early: the trainer that has no handler for SIGUSR1 yet dies.     *)
FinishEarly(c) ==
    /\ pc[c] = "idle" /\ Unlocked /\ status = "training" /\ process # 0
    /\ victim' = [victim EXCEPT ![c] = process]
    /\ Goto(c, "nudge")
    /\ UNCHANGED <<job, jobDataset, process, cancelRequested, lock, registry, dsLock, want,
                   threadVars, trainer, watch, history>>

FinishNudge(c) ==
    /\ pc[c] = "nudge"
    /\ Signal(c, CASE trainer[victim[c]] = "booting" -> "err"
                   [] trainer[victim[c]] = "running" -> "stopping"
                   [] OTHER -> trainer[victim[c]])

-----------------------------------------------------------------------------
(* DatasetService: every edit checks the flag under the dataset's lock ... *)
Editable(d) == d \notin frozen

EditBegin(c) ==
    /\ pc[c] = "idle"
    /\ \E d \in present :
        /\ DsUnlocked(d) /\ Editable(d)
        /\ dsLock' = [dsLock EXCEPT ![d] = c]
        /\ want' = [want EXCEPT ![c] = d]
    /\ Goto(c, "write")
    /\ UNCHANGED <<job, jobDataset, process, cancelRequested, lock, registry, victim,
                   threadVars, trainer, watch, history>>

(* ... and writes files before it lets go.                                 *)
EditWrite(c) ==
    /\ pc[c] = "write"
    /\ changed' = changed \cup {want[c]}
    /\ dsLock' = [dsLock EXCEPT ![want[c]] = None]
    /\ want' = [want EXCEPT ![c] = None]
    /\ Goto(c, "idle")
    /\ UNCHANGED <<job, jobDataset, process, cancelRequested, lock, registry, victim, threadVars,
                   trainer, watch, cancelled, delivered>>

(* Variant: a dataset in use can be deleted.                               *)
Anything(d) == TRUE

Deletable(d) == d \notin frozen

(* DatasetRegistry.delete: the rename to a tombstone, under its lock.      *)
DeleteDataset(c) ==
    /\ pc[c] = "idle"
    /\ \E d \in present : Deletable(d) /\ present' = present \ {d}
    /\ UNCHANGED <<job, jobDataset, process, cancelRequested, lock, frozen, dsLock,
                   clientVars, threadVars, trainer, watch, history>>

-----------------------------------------------------------------------------
(* The job's thread: TrainingService._run and _run_face.                   *)

shared == <<id, dataset, jobDataset, process, cancelRequested, lock, registry, dsLock,
            clientVars, watch>>

GotoRun(j, where) == run' = [run EXCEPT ![j] = where]

(* assert dataset is not None: outside the try, the thread just dies.      *)
TakeDataset(j) ==
    /\ run[j] = "new"
    /\ mine' = [mine EXCEPT ![j] = jobDataset]
    /\ GotoRun(j, IF jobDataset = None THEN "dead" ELSE "build")
    /\ UNCHANGED <<status, shared, verdict, trainer, history>>

(* The split, or the package of a face dataset, is built under its lock.   *)
Build(j) ==
    /\ run[j] = "build"
    /\ \/ /\ DsUnlocked(mine[j]) /\ Unlocked
          /\ status' = IF mine[j] \in Faces THEN status ELSE "training"
          /\ GotoRun(j, IF mine[j] \in Faces THEN "judge" ELSE "spawn")
       \/ GotoRun(j, "fail") /\ UNCHANGED status
    /\ UNCHANGED <<shared, mine, verdict, trainer, history>>

Spawn(j) ==
    /\ run[j] = "spawn" /\ Unlocked
    /\ \/ /\ process' = j
          /\ trainer' = [trainer EXCEPT ![j] = "booting"]
          /\ GotoRun(j, "consume")
       \/ GotoRun(j, "fail") /\ UNCHANGED <<process, trainer>>
    /\ UNCHANGED <<job, jobDataset, cancelRequested, lock, registry, dsLock, clientVars,
                   watch, mine, verdict, history>>

(* Variant: the end of the output is taken for the end of the process.     *)
OutputClosed(j) == TRUE

WaitedFor(j) == Exited(j)

(* Its output is read to the end and the process waited for.               *)
Consume(j) ==
    /\ run[j] = "consume" /\ WaitedFor(j)
    /\ GotoRun(j, "judge")
    /\ UNCHANGED <<status, shared, mine, verdict, trainer, history>>

(* Variant: a cancellation counts only when the trainer died of it.        *)
CancelOfDead(j) == cancelRequested /\ trainer[j] = "err"

CancelSeen(j) == cancelRequested

(* Variant: the other spelling.                                            *)
CancelledStatus == "cancelled"

CanceledStatus == "canceled"

(* A timeout comes first, then a cancellation, then how the trainer ended. *)
Judge(j) ==
    /\ run[j] = "judge"
    /\ \/ watch[j] # "watching" /\ GotoRun(j, "fail") /\ UNCHANGED verdict
       \/ /\ watch[j] = "watching" /\ CancelSeen(j)
          /\ verdict' = [verdict EXCEPT ![j] = CanceledStatus]
          /\ GotoRun(j, "conclude")
       \/ /\ watch[j] = "watching" /\ ~CancelSeen(j)
          /\ GotoRun(j, IF trainer[j] = "err" THEN "fail" ELSE "deliver")
          /\ UNCHANGED verdict
    /\ UNCHANGED <<status, shared, mine, trainer, history>>

(* A federated round keeps its weights; everything else is uploaded ...    *)
Deliver(j) ==
    /\ run[j] = "deliver" /\ Unlocked
    /\ \/ /\ status' = "uploading"
          /\ GotoRun(j, "upload")
          /\ UNCHANGED <<verdict, delivered>>
       \/ /\ mine[j] \notin Faces
          /\ delivered' = TRUE
          /\ verdict' = [verdict EXCEPT ![j] = "done"]
          /\ GotoRun(j, "conclude")
          /\ UNCHANGED status
       \/ /\ mine[j] \notin Faces
          /\ GotoRun(j, "fail")
          /\ UNCHANGED <<status, verdict, delivered>>
    /\ UNCHANGED <<shared, mine, trainer, changed, cancelled>>

(* ... and may have arrived although the answer did not.                   *)
Upload(j) ==
    /\ run[j] = "upload"
    /\ \/ /\ delivered' = TRUE
          /\ \/ verdict' = [verdict EXCEPT ![j] = "done"] /\ GotoRun(j, "conclude")
             \/ UNCHANGED verdict /\ GotoRun(j, "fail")
       \/ GotoRun(j, "fail") /\ UNCHANGED <<verdict, delivered>>
    /\ UNCHANGED <<status, shared, mine, trainer, changed, cancelled>>

(* The handler of everything that is raised.                               *)
Fail(j) ==
    /\ run[j] = "fail"
    /\ verdict' = [verdict EXCEPT ![j] = IF cancelRequested THEN CanceledStatus ELSE "failed"]
    /\ GotoRun(j, "conclude")
    /\ UNCHANGED <<status, shared, mine, trainer, history>>

Conclude(j) ==
    /\ run[j] = "conclude" /\ Unlocked
    /\ status' = verdict[j]
    /\ GotoRun(j, "clear")
    /\ UNCHANGED <<shared, mine, verdict, trainer, history>>

(* finally: the job's traces go, then its dataset is released.             *)
Clear(j) ==
    /\ run[j] = "clear" /\ Unlocked
    /\ process' = 0 /\ jobDataset' = None
    /\ GotoRun(j, "release")
    /\ UNCHANGED <<job, cancelRequested, lock, registry, dsLock, clientVars, watch, mine,
                   verdict, trainer, history>>

ReleaseDataset(j) ==
    /\ run[j] = "release"
    /\ frozen' = frozen \ {mine[j]}
    /\ mine' = [mine EXCEPT ![j] = None]
    /\ verdict' = [verdict EXCEPT ![j] = "failed"]
    /\ GotoRun(j, "end")
    /\ UNCHANGED <<job, jobDataset, process, cancelRequested, lock, present, dsLock, clientVars,
                   watch, trainer, history>>

Thread(j) ==
    \/ TakeDataset(j) \/ Build(j) \/ Spawn(j) \/ Consume(j) \/ Judge(j) \/ Deliver(j) \/ Upload(j)
    \/ Fail(j) \/ Conclude(j) \/ Clear(j) \/ ReleaseDataset(j)

-----------------------------------------------------------------------------
(* The trainer: it sets up its signal handler, trains, and ends or hangs.  *)
TrainerTurns(j, from, to) ==
    /\ trainer[j] \in from
    /\ \E t \in to : trainer' = [trainer EXCEPT ![j] = t]
    /\ UNCHANGED <<job, jobDataset, process, cancelRequested, lock, registry, dsLock,
                   clientVars, threadVars, watch, history>>

TrainerGoesOn(j) ==
    \/ TrainerTurns(j, {"booting"}, {"running", "err"})
    \/ TrainerTurns(j, {"running", "stopping"}, {"ok", "err"})

TrainerHangs(j) == TrainerTurns(j, {"booting", "running", "stopping"}, {"hung"})

(* _watch_trainer looks every 15 seconds, sleeping between poll() and the  *)
(* clock: the trainer may just have ended ...                              *)
WatchExpires(j) ==
    /\ watch[j] = "watching" /\ run[j] \in {"consume", "judge"} /\ trainer[j] # "none"
    /\ watch' = [watch EXCEPT ![j] = "killing"]
    /\ UNCHANGED <<job, jobDataset, process, cancelRequested, lock, registry, dsLock,
                   clientVars, threadVars, trainer, history>>

(* Variant: the time-out is noted and nothing else.                        *)
Spared(j) == trainer

Killed(j) == IF Alive(j) THEN [trainer EXCEPT ![j] = "err"] ELSE trainer

(* ... and is killed after the reason was noted.                           *)
WatchKills(j) ==
    /\ watch[j] = "killing"
    /\ watch' = [watch EXCEPT ![j] = "over"]
    /\ trainer' = Killed(j)
    /\ UNCHANGED <<job, jobDataset, process, cancelRequested, lock, registry, dsLock,
                   clientVars, threadVars, history>>

-----------------------------------------------------------------------------

Progress(c) ==
    StartValidate(c) \/ StartThread(c) \/ CancelKill(c) \/ FinishNudge(c) \/ EditWrite(c)

Client(c) ==
    StartClaim(c) \/ Cancel(c) \/ FinishEarly(c) \/ EditBegin(c) \/ DeleteDataset(c) \/ Progress(c)

Watchdog(j) == WatchExpires(j) \/ WatchKills(j)

Next ==
    \/ \E c \in Clients : Client(c)
    \/ \E j \in Jobs : Thread(j) \/ TrainerGoesOn(j) \/ TrainerHangs(j) \/ Watchdog(j)

(* Threads are scheduled and get a lock that is free again and again, a    *)
(* trainer that does not hang ends, a request that has begun goes on.      *)
(* Nobody has to call.                                                     *)
Fairness ==
    /\ \A c \in Clients : WF_vars(Progress(c))
    /\ \A j \in Jobs : SF_vars(Thread(j)) /\ WF_vars(TrainerGoesOn(j)) /\ WF_vars(Watchdog(j))

Spec == Init /\ [][Next]_vars /\ Fairness

-----------------------------------------------------------------------------
(* Properties.                                                             *)

(* Every variable holds a value the code can give it; the status is one of *)
(* those every reader of the job compares with.                            *)
TypeOK ==
    /\ id \in 0..MaxJobs /\ dataset \in Datasets \cup {None}
    /\ status \in {"idle", "preparing", "training", "uploading"} \cup Terminal
    /\ jobDataset \in Datasets \cup {None} /\ process \in 0..MaxJobs
    /\ cancelRequested \in BOOLEAN /\ lock \in Clients \cup {None}
    /\ present \subseteq Datasets /\ frozen \subseteq Datasets
    /\ dsLock \in [Datasets -> Clients \cup {None}]
    /\ pc \in [Clients -> {"idle", "validate", "spawn", "kill", "nudge", "write"}]
    /\ want \in [Clients -> Datasets \cup {None}] /\ victim \in [Clients -> 0..MaxJobs]
    /\ run \in [Jobs -> {"none", "new", "dead", "build", "spawn", "consume", "judge", "deliver",
                         "upload", "fail", "conclude", "clear", "release", "end"}]
    /\ mine \in [Jobs -> Datasets \cup {None}] /\ verdict \in [Jobs -> Terminal]
    /\ trainer \in [Jobs -> {"none", "booting", "running", "stopping", "hung", "ok", "err"}]
    /\ watch \in [Jobs -> {"watching", "killing", "over"}]
    /\ changed \subseteq Datasets /\ cancelled \in BOOLEAN /\ delivered \in BOOLEAN

(* "freeze() claims the dataset atomically against delete(), so it cannot  *)
(* vanish": the dataset of an active job is frozen and registered.         *)
ClaimedWhileActive == Active => dataset \in frozen \cap present

(* A job trains on the very content that was validated, although editors   *)
(* check the frozen flag under another lock than the one it is set under.  *)
TrainsWhatWasValidated == Active => dataset \notin changed

(* A cancellation accepted before the job looks for one is never followed  *)
(* by a model: "SIGTERM, which the parent uses to hard-cancel and discard". *)
CancelDiscards == ~(cancelled /\ delivered)

(* When no job is active and no thread is left over, nothing is frozen,    *)
(* no process is remembered and no dataset is taken.                       *)
NothingLeft ==
    ~Active /\ lock = None /\ (\A j \in Jobs : run[j] \in {"none", "end"}) =>
        frozen = {} /\ process = 0 /\ jobDataset = None

(* The status everybody asks for covers the life of the trainer.           *)
Lease ==
    INSTANCE GpuLease WITH lease <-
        IF ~Active THEN "free"
        ELSE IF trainer[id] = "none" THEN "held" ELSE IF Alive(id) THEN "busy" ELSE "spent"

HonoursLease == Lease!Spec

(* The assertion of _run: every job finds the dataset it was started for.  *)
DatasetThere == \A j \in Jobs : run[j] # "dead"

(* A job that has taken its dataset ends, even one whose trainer hangs.    *)
JobEnds == \A j \in Jobs : run[j] = "build" ~> run[j] = "end"
=============================================================================
