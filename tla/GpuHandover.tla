------------------------------ MODULE GpuHandover ------------------------------
(***************************************************************************)
(* Who has the one GPU: the api-gateway's training routes                  *)
(* (training/session.py, training/jobs.py), its Start and Stop routes      *)
(* (controllers/detection.py) and its watchdog (training/orphan.py),       *)
(* between the inference-service, whose operations under _op_lock are      *)
(* single steps here (DetectionControl), and the training-service, whose   *)
(* job is the abstract one of GpuLease (TrainingJob implements it).        *)
(*                                                                         *)
(* The services answer; labeling assistants and model selection are left   *)
(* out.                                                                    *)
(***************************************************************************)
EXTENDS Naturals

CONSTANTS
    Routes,         \* request threads of the gateway
    MaxRequests,    \* bound: requests in one behaviour
    MaxRestarts     \* bound: restarts of the gateway

ASSUME HandoverAssumption == MaxRequests \in Nat /\ MaxRestarts \in Nat

VARIABLES
    lease,          \* the training job, as GpuLease has it
    running,        \* DetectionService.is_running
    released,       \* ModelService._runtime_released
    conversion,     \* an active conversion: "none", the "job"'s model, an"other"
    uploaded,       \* the current job has uploaded its result
    armed, idle,    \* OrphanTracker._armed, and _last_activity is too long ago
    pc,             \* per route: where it is
    watch,          \* the watchdog: where it is
    requests, restarts

VARIABLES           \* history
    reopened,       \* detection was started since the GPU was last released
    raced           \* somebody had looked for a job before this one was there

service == <<running, released>>
tracker == <<armed, idle>>
history == <<reopened, raced>>
vars == <<lease, service, conversion, uploaded, tracker, pc, watch, requests, restarts, history>>

Job == INSTANCE GpuLease

(* Variants: readers that forget a status of ACTIVE_JOB_STATUSES.          *)
NotPreparing == lease \in {"busy", "spent"}
NotUploading == lease \in {"held", "busy"}

(* ACTIVE_JOB_STATUSES: preparing, training, uploading.                    *)
JobActive == lease # "free"

(* Variant: the finished conversions of the list count too.                *)
ConversionKnown == uploaded \/ conversion # "none"

(* ACTIVE_CONVERSION_STATUSES of the listed conversions.                   *)
ConversionActive == conversion # "none"

Init ==
    /\ Job!Init
    /\ running \in BOOLEAN /\ released = FALSE /\ conversion = "none" /\ uploaded = FALSE
    /\ armed = FALSE /\ idle = FALSE
    /\ pc = [r \in Routes |-> "idle"] /\ watch = "sleep"
    /\ requests = 0 /\ restarts = 0
    /\ reopened = FALSE /\ raced = FALSE

Goto(r, where) == pc' = [pc EXCEPT ![r] = where]

-----------------------------------------------------------------------------
(* The inference-service, under _op_lock.                                  *)

(* ModelService.release_runtime.                                           *)
Release ==
    /\ running' = FALSE /\ released' = TRUE
    /\ reopened' = FALSE

(* ModelService.resume_runtime and start_detection: both clear the mark.   *)
Reopen ==
    /\ running' = TRUE /\ released' = FALSE
    /\ reopened' = TRUE

(* resume_runtime that fails, or has no model, or keeps detection stopped. *)
EndHandover == released' = FALSE /\ UNCHANGED <<running, reopened>>

-----------------------------------------------------------------------------
(* Requests of the training blueprint first touch the tracker.             *)
Touch == idle' = (idle /\ ~armed)

Begin(r, where) ==
    /\ pc[r] = "idle" /\ requests < MaxRequests
    /\ requests' = requests + 1
    /\ Goto(r, where)
    /\ UNCHANGED <<lease, service, conversion, uploaded, armed, watch, restarts, history>>

BeginTraining(r) ==
    \E where \in {"enter", "train", "exit", "exit_stopped"} : Begin(r, where) /\ Touch

(* /start looks whether detection runs already.                            *)
BeginStart(r) == ~running /\ Begin(r, "probe_job") /\ UNCHANGED idle

(* training_heartbeat and every other training request only touch.         *)
Heartbeat(r) == Begin(r, "idle") /\ Touch

(* stop_detection.                                                         *)
Stop(r) ==
    /\ pc[r] = "idle" /\ requests < MaxRequests /\ running
    /\ requests' = requests + 1
    /\ running' = FALSE
    /\ UNCHANGED <<lease, released, conversion, uploaded, tracker, pc, watch, restarts, history>>

(* training_enter, and the first half of training_start.                   *)
ReleaseRuntime(r) ==
    /\ pc[r] \in {"enter", "train"}
    /\ IF conversion # "none"
       THEN Goto(r, "idle") /\ UNCHANGED <<service, reopened>>
       ELSE Goto(r, IF pc[r] = "enter" THEN "arm" ELSE "start_training") /\ Release
    /\ UNCHANGED <<lease, conversion, uploaded, tracker, watch, requests, restarts, raced>>

(* Threads that looked for a job, found none and have not acted on it yet. *)
PastProbe ==
    \/ \E r \in Routes : pc[r] \in {"probe_conversion", "start", "resume", "resume_stopped"}
    \/ watch \in {"conversion", "recheck", "exit", "resume"}

(* StartTraining, which may be refused for any reason of its own.          *)
StartTraining(r) ==
    /\ pc[r] = "start_training"
    /\ \/ /\ Job!Claim
          /\ uploaded' = FALSE
          /\ raced' = ((raced /\ conversion # "none") \/ reopened \/ PastProbe)
          /\ Goto(r, "arm")
       \/ Goto(r, "idle") /\ UNCHANGED <<lease, uploaded, raced>>
    /\ UNCHANGED <<service, conversion, tracker, watch, requests, restarts, reopened>>

Arm(r) ==
    /\ pc[r] = "arm"
    /\ armed' = TRUE /\ idle' = FALSE
    /\ Goto(r, "idle")
    /\ UNCHANGED <<lease, service, conversion, uploaded, watch, requests, restarts, reopened, raced>>

(* start_detection: no job, no conversion, then the Start RPC.             *)
ProbeJob(r) ==
    /\ pc[r] = "probe_job"
    /\ Goto(r, IF JobActive THEN "idle" ELSE "probe_conversion")
    /\ UNCHANGED <<lease, service, conversion, uploaded, tracker, watch, requests, restarts, history>>

ProbeConversion(r) ==
    /\ pc[r] = "probe_conversion"
    /\ Goto(r, IF ConversionActive THEN "idle" ELSE "start")
    /\ UNCHANGED <<lease, service, conversion, uploaded, tracker, watch, requests, restarts, history>>

Start(r) ==
    /\ pc[r] = "start"
    /\ Reopen \/ UNCHANGED <<service, reopened>>
    /\ Goto(r, "idle")
    /\ UNCHANGED <<lease, conversion, uploaded, tracker, watch, requests, restarts, raced>>

(* _do_exit, asked to resume detection or to leave it stopped.             *)
ExitProbe(r) ==
    /\ pc[r] \in {"exit", "exit_stopped"}
    /\ Goto(r, IF JobActive THEN "disarm" ELSE IF pc[r] = "exit" THEN "resume" ELSE "resume_stopped")
    /\ UNCHANGED <<lease, service, conversion, uploaded, tracker, watch, requests, restarts,
                   reopened, raced>>

(* An exit that resumes does not look for conversions: its client does.    *)
ResumeRuntime(r) ==
    /\ pc[r] \in {"resume", "resume_stopped"}
    /\ \/ pc[r] = "resume" /\ Reopen /\ raced' = (raced \/ conversion = "job")
       \/ EndHandover /\ UNCHANGED raced
    /\ \/ Goto(r, "disarm")
       \/ pc[r] = "resume" /\ ~running' /\ Goto(r, "idle")
    /\ UNCHANGED <<lease, conversion, uploaded, tracker, watch, requests, restarts>>

Disarm(r) ==
    /\ pc[r] = "disarm"
    /\ armed' = FALSE
    /\ Goto(r, "idle")
    /\ UNCHANGED <<lease, service, conversion, uploaded, idle, watch, requests, restarts, history>>

Route(r) ==
    \/ ReleaseRuntime(r) \/ StartTraining(r) \/ Arm(r)
    \/ ProbeJob(r) \/ ProbeConversion(r) \/ Start(r)
    \/ ExitProbe(r) \/ ResumeRuntime(r) \/ Disarm(r)

-----------------------------------------------------------------------------
(* OrphanTracker.check_once.                                               *)
Expired == armed /\ idle

Watch(from, to) ==
    /\ watch = from /\ watch' = to
    /\ UNCHANGED <<lease, conversion, uploaded, pc, requests, restarts>>

Tick == Expired /\ Watch("sleep", "job") /\ UNCHANGED <<service, tracker, reopened, raced>>

(* An active job or conversion counts as activity.                         *)
WatchJob ==
    /\ \/ JobActive /\ Watch("job", "sleep") /\ Touch
       \/ ~JobActive /\ Watch("job", "conversion") /\ UNCHANGED idle
    /\ UNCHANGED <<service, armed, reopened, raced>>

WatchConversion ==
    /\ \/ ConversionActive /\ Watch("conversion", "sleep") /\ Touch
       \/ ~ConversionActive /\ Watch("conversion", "recheck") /\ UNCHANGED idle
    /\ UNCHANGED <<service, armed, reopened, raced>>

Recheck ==
    /\ Watch("recheck", IF Expired THEN "exit" ELSE "sleep")
    /\ UNCHANGED <<service, tracker, reopened, raced>>

WatchExit ==
    /\ Watch("exit", IF JobActive THEN "disarm" ELSE "resume")
    /\ UNCHANGED <<service, tracker, reopened, raced>>

WatchResume ==
    /\ \/ Reopen /\ Watch("resume", "disarm")
       \/ EndHandover /\ \E to \in {"disarm", "sleep"} : Watch("resume", to)
    /\ UNCHANGED <<tracker, raced>>

WatchDisarm ==
    /\ Watch("disarm", "sleep")
    /\ armed' = FALSE
    /\ UNCHANGED <<service, idle, reopened, raced>>

Watchdog == Tick \/ WatchJob \/ WatchConversion \/ Recheck \/ WatchExit \/ WatchResume \/ WatchDisarm

(* TRAINING_ORPHAN_TIMEOUT_SEC without a request.                          *)
TimePasses ==
    /\ armed /\ ~idle
    /\ idle' = TRUE
    /\ UNCHANGED <<lease, service, conversion, uploaded, armed, pc, watch, requests, restarts, history>>

-----------------------------------------------------------------------------
(* The gateway restarts: its threads are gone, and the tracker arms again  *)
(* (_recover) if the training-service answers and has an active job.       *)
Restart ==
    /\ restarts < MaxRestarts
    /\ restarts' = restarts + 1
    /\ pc' = [r \in Routes |-> "idle"] /\ watch' = "sleep"
    /\ idle' = FALSE
    /\ \/ JobActive /\ armed' = TRUE
       \/ armed' = FALSE
    /\ UNCHANGED <<lease, service, conversion, uploaded, requests, reopened, raced>>

-----------------------------------------------------------------------------
(* The job goes on; at most once it uploads a model, which is converted.   *)
Launch == ~uploaded /\ Job!Launch

JobUpload ==
    /\ lease \in {"held", "spent"} /\ ~uploaded /\ conversion = "none"
    /\ uploaded' = TRUE /\ conversion' = "job"
    /\ UNCHANGED <<lease, service, tracker, pc, watch, requests, restarts, history>>

JobStep ==
    /\ Launch \/ Job!Exit \/ Job!Conclude
    /\ UNCHANGED <<service, conversion, uploaded, tracker, pc, watch, requests, restarts, history>>

(* upload_model of somebody else's model, at any time.                     *)
OtherUpload ==
    /\ conversion = "none" /\ requests < MaxRequests
    /\ conversion' = "other" /\ requests' = requests + 1
    /\ UNCHANGED <<lease, service, uploaded, tracker, pc, watch, restarts, history>>

ConversionEnds ==
    /\ conversion # "none"
    /\ conversion' = "none"
    /\ UNCHANGED <<lease, service, uploaded, tracker, pc, watch, requests, restarts, history>>

-----------------------------------------------------------------------------

Next ==
    \/ \E r \in Routes :
        BeginTraining(r) \/ BeginStart(r) \/ Heartbeat(r) \/ Stop(r) \/ Route(r)
    \/ Watchdog \/ TimePasses \/ Restart
    \/ JobStep \/ JobUpload \/ OtherUpload \/ ConversionEnds

(* Requests are served, the watchdog keeps ticking, time passes, and jobs  *)
(* (TrainingJob, JobEnds) and conversions end.                             *)
Fairness ==
    /\ \A r \in Routes : WF_vars(Route(r))
    /\ WF_vars(Watchdog) /\ WF_vars(TimePasses)
    /\ WF_vars(JobStep) /\ WF_vars(ConversionEnds)

Spec == Init /\ [][Next]_vars /\ Fairness

-----------------------------------------------------------------------------
(* Properties.                                                             *)

(* Every variable holds a value the code can give it.                      *)
Flags ==
    /\ running \in BOOLEAN /\ released \in BOOLEAN /\ uploaded \in BOOLEAN
    /\ armed \in BOOLEAN /\ idle \in BOOLEAN
    /\ reopened \in BOOLEAN /\ raced \in BOOLEAN

Places ==
    /\ lease \in {"free", "held", "busy", "spent"} /\ conversion \in {"none", "job", "other"}
    /\ pc \in [Routes -> {"idle", "enter", "train", "exit", "exit_stopped", "start_training", "arm",
                          "probe_job", "probe_conversion", "start", "resume", "resume_stopped",
                          "disarm"}]
    /\ watch \in {"sleep", "job", "conversion", "recheck", "exit", "resume", "disarm"}
    /\ requests \in 0..MaxRequests /\ restarts \in 0..MaxRestarts

TypeOK == Flags /\ Places

(* The mark that keeps the application type and tells clients that the GPU *)
(* is handed over is only there while detection is stopped.                *)
ReleasedIsStopped == released => ~running

(* Whoever looks for a job before it starts detection keeps detection off  *)
(* while a trainer lives, but for those who looked before it was there.    *)
TrainerAlone == lease = "busy" /\ ~raced => ~running

(* The same for the conversion of the job's model: the job is looked for   *)
(* first and only ends after its conversion has begun, so there is no gap. *)
(* A client that resumes detection during the conversion is excepted too.  *)
BuildAlone == conversion = "job" /\ ~raced => ~running

(* "While a training job is active the GPU stays with the trainer"         *)
(* (docs/services/training-service.md), without exception.                 *)
NeverBoth == lease = "busy" => ~running

(* As long as the tracker is armed, the GPU finds its way back to the      *)
(* inference-service once everybody has gone silent.                       *)
HandedBack == armed /\ released ~> ~released \/ ~armed
=============================================================================
