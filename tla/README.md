# Conecsa System Vision: specification and verification

Conecsa System Vision is an edge device that looks at a camera, runs neural
networks on what it sees and reports to a hub. It is a handful of processes
around one camera and one GPU. These TLA+ modules describe the parts of it in
which threads, processes and requests meet; TLC checks them on small instances
and TLAPS proves the properties that matter most for every size.

Paths below are relative to the repository. Line numbers are in
`PROJECT.json`, which maps every definition to the code it stands for.

| Core | Modules | Proofs |
|---|---|---|
| camera frames in shared memory | `CameraRing`, implementing `LatestFrame` | `CameraRingProofs` |
| detection and model swaps | `Pipeline`, `DetectionControl` | `DetectionProofs` |
| a training job | `TrainingJob`, implementing `GpuLease` | `TrainingJobProofs` |
| who has the GPU | `GpuHandover`, using `GpuLease` | `GpuHandoverProofs` |
| a flow's subscription to the device | `EventStream`, implementing `Subscription` | `EventStreamProofs` |
| the Node-RED nodes | `FlowNode`, `FlowCommands`, `FlowFeeds`, `FlowNodes` | `FlowProofs` |
| frames of a browser's webcam | `WebcamProcessor` | `WebcamProofs` |
| who may edit flows | `EditorAccess` | `EditorProofs` |

## 1. Inventory

For each component: the state it keeps, what it does (and how it meets the
others), what is hard about it, and what makes it correct. **M** marks what is
modelled, **P** what the plan (section 2) still has, **–** what stays out.

### Camera frame ring — M
*`os-base/conecsa_shm/camera_ring.py`, `webcam-server/src/webcam_server/shm.rs`*

State: one POSIX shared memory segment (sequence counter, active slot, frame
metadata, geometry, two slots), and per reader object its mapping, the inode it
mapped, an offset and the largest number it has handed out. Operations: the
Rust producer creates a new inode on every start and publishes; Python readers
map, remap and copy. Consumers are a thread of the inference-service and the
streaming threads of the api-gateway. Hard: no locks across processes; the
producer laps readers, changes geometry, dies between two stores; a fresh
segment counts from 0. Correct: no torn frame; frames only get newer; a reader
comes back after a producer restart.

### Camera configuration and health — P (`ConfigChannel`)
*`video_service.py`, `consumer_service.py`, the config and health regions of the segment*

State: desired config, device-level source in a file, whether a publication is
wanted, the generation of the mapping last seen. The config is written in place
while the producer polls; it is written again when the segment is mapped again.
Hard: torn or overwritten payloads, a restart between persist and publish.
Correct: the producer ends up with the config saved last; memory, file and
segment agree after a failed update.

### Processed frame ring — P
*`conecsa_shm/processed_ring.py`, `gateway/media.py`*

The pipeline's output for the gateway, by the same protocol, but the segment is
rewritten in place by the next process and readers never remap. Correct: as the
camera ring, except across a restart of the writer.

### Detection pipeline — M
*`inference-service/api/services/processing_pipeline.py`*

State: four kinds of stage threads, three bounded queues, the in-flight count,
the drain gate, the newest frame grabbed and published, the frozen picture,
statistics. It reads `DetectionService`'s attributes without its lock. Hard:
everything interleaves with everything, frames are dropped at a dozen places,
and a model swap must wait until no frame is inside. Correct: the count is
exact; every frame is run and decoded by one model; the drain ends.

### Detection control and model lifecycle — M, files P (`ModelFiles`)
*`detection_service.py`, `model_service.py`, `composition.py`*

State: the loaded runtime, its generation, `is_running`, the current model,
whether the runtime is released to a training, two locks. Operations: start,
stop, activate with rollback, release, resume, change of the application; also
upload, delete, settings and publication of a rebuilt model, which are about
files. Hard: the Stop RPC takes only one of the locks, loads fail half way.
Correct: workers are only touched in silence; the state after an operation
agrees with itself.

### Inference worker process — P (`WorkerProcess`)
*`runtime_management/worker_client.py`, `worker_server.py`*

State: process, connection, shared tensor buffer, the model to reload. Hard:
timeouts, restarts in the middle of a request, a worker that never comes up.
Correct: an answer belongs to its request; a restarted worker holds the model
its client believes in; a client is never stuck without a worker.

### Model conversion — P (with `ModelFiles`)
*`conversion_service.py`*

State: a table of jobs. Uploads a build to a thread and publishes its result
under the lifecycle lock. Correct: no two builds own one file; statuses end.
`GpuHandover` has conversions as active or not.

### Training job — M
*`training-service/service/training_service.py`, `_yolo_trainer.py`*

State: one job record, the dataset it claims, the trainer process, a flag for
cancellation; per job a thread and a watchdog. Operations: start, cancel,
finish early, edit and delete datasets. It uploads its model to the gateway.
Hard: three threads judge one process, the trainer may hang, crash or be
signalled at any moment, clean-up follows the terminal status. Correct: one
trainer at a time and only while a job is reported active; a job's data stay
as validated; a cancelled job delivers nothing; a job ends.

### Dataset registry and datasets — the claim M, storage –
*`dataset_registry.py`, `dataset_service.py`, `dataset_import.py`*

State: registered datasets, a frozen flag, one lock each; images and labels on
disk. What concerns a job is in `TrainingJob`. Storage and import are
sequential file handling under one lock per dataset.

### SAM and labeling assistants — P (holders of `GpuHandover`)
*`sam_service.py`, `labeling_service.py`*

Two more processes on the GPU with idle timers. Correct: neither lives beside a
trainer.

### GPU hand-over — M
*`gateway/training/*.py`, `gateway/controllers/detection.py`, `controllers/models.py`*

State: an orphan tracker (armed, last activity) in memory. The gateway's routes
ask one service and then order another. Hard: nothing is atomic across RPCs;
clients disappear; the gateway restarts. Correct: detection and a trainer do
not share the GPU; the GPU comes back when everybody has gone.

### Offline detection buffer and audit queue — P (`OfflineBuffer`)
*`detection_buffer.py`, `conecsa_common/bounded_sqlite.py`, `gateway/audit.py`*

State: a bounded SQLite ring, counts, the hub's last visit, a change signature.
Operations: observe, page, ack, evict, quarantine. Hard: the hub comes and goes
while a record is encoded; acks arrive late; the store breaks. Correct: an ack
deletes what was collected and nothing else; a change seen while offline is
recorded; counts match the table.

### Event buses — the gateway's M, the others P (`EventBus`)
*`gateway/events.py`, `gateway/controllers/streams.py`, `conecsa_common/events.py`*

State: a version, a bounded replay buffer, latest statistics; per stream a
generator with the version it has got to. Hard: slow subscribers, streams that
break, restarts of either end of a relay. Correct: a subscriber learns of every
change or is told to reconcile. `EventStream` has the gateway's bus; the other
services' buses and the relay between them are planned.

### Transport of the flow nodes — M
*`flow/nodes/conecsa-system-vision/lib/http-client.js`*

`request` (one answer or one error to one callback) and `subscribeSSE` (one
connection, one reconnection timer, a `closed` flag). Hard: a refused, broken
or ended stream, a body that goes on after its status was turned down, a close
at any of these moments, a connection that dies without a word. Correct: one
stream at a time; nothing skipped; after any failure word of everything, in the
end.

### Node-RED flow nodes — M
*`flow/nodes/conecsa-system-vision/nodes/*/*.js`, `lib/node-base.js`*

State: what a node believes of its device (`isRunning`, `currentLevel`,
`node.value`, ...), its badge, its timers, its target (through a hub, named, by
an environment variable, or the gateway). Each callback (message of the flow,
event, answer, timer, close) runs alone; anything comes between two. Hard:
answers that overtake events, a node's own doings that come back as events,
several steps of which one fails, other clients. Correct: a flow is told once
and truly; a badge is right in the end; a removed node rests.

### Flow editor access — M
*`flow/admin-token.js`, `flow/settings.js`, `gateway/flow_token.py`*

State: the secrets in two processes' environments, a token with its end, the
clock. The gateway mints, Node-RED verifies. Hard: either restarts on a changed
environment, each falls back to another secret, the hub sets the clock.
Correct: both sides agree; a token ends on time; the editor is open only by
choice.

### Webcam processor of the web interface — M
*`system-vision/public/opencv-processor.js`*

State: `window.webcamStream`, `window.opencvProcessor`, per processor a flag, an
animation frame and OpenCV matrices that must be deleted by hand. Hard:
everything is awaited (permission, play, OpenCV, detection), and start, stop,
another initialisation or a clean-up may come meanwhile. Correct: one loop,
pictures that do not go back, nothing left allocated or switched on.

### Access point and network agent — P (`AccessPoint`)
*`os-base/agent/ap_agent.py`, `network_agent.py`*

State: active, in transition, joined, a join deadline with its timer thread, a
watcher thread, the radio lock. Hard: timers and watchers of a previous access
point, Wi-Fi changes and stops that meet a start, roll-back after each step.
Correct: the radio ends as a station after every failure; an access point
nobody joined goes away; a Wi-Fi change never meets an access point.

### The rest — –
Enrollment (two files installed under one lock), time, GPIO and system agents
(one host call each), gateway routes and RPC servicers (translation),
postprocessing and tiling (numeric), camera capture (device input), the Rust
pages of the web interface (clients of modelled routes), OpenCV.js (vendored),
the OS image. The hub is not in the repository; its behaviour appears as
requests.

## 2. Plan

Order of work, most important first. Each line names the module, what it
composes with and the property it is for.

1. `LatestFrame`, `CameraRing` — done.
2. `Pipeline`, `DetectionControl` (which extends it) — done.
3. `GpuLease`, `TrainingJob` (which implements it), `GpuHandover` (which is
   built on it) — done.
4. `Subscription`, `EventStream` (which implements it) — done.
5. `FlowNode`, `FlowCommands`, `FlowFeeds`, composed by `FlowNodes` — done.
6. `WebcamProcessor`, `EditorAccess` — done.
7. `OfflineBuffer` against an abstract specification *MailBox* (a record is
   delivered before it disappears, unless evicted): observe, pull, list, ack,
   evict, quarantine, power loss.
8. `AccessPoint` with `NetworkAgent`'s radio lock: deadline and watcher threads
   that outlive their access point, roll-back at each step of a start.
9. `WorkerProcess`, implementing the worker `DetectionControl` assumes
   (`engine`, `modelPath`).
10. `ConfigChannel` in the ring's segment; the processed ring as a second
    implementation of `LatestFrame`.
11. `EventBus`: the services' buses and the gateway's relay as two in a row.
12. `ModelFiles`: uploads, deletes, conversions and publications.
13. SAM and the labeling engine as further holders in `GpuHandover`.

Abstract specifications: `LatestFrame`, `GpuLease` and `Subscription` exist;
*MailBox* (7) and the worker that always holds what was loaded last (9) are to
come.

Runs: the table of section 4; as components are added, their passing runs take
the place of the more special ones. Bounds stay at two of everything that
interacts and three of what is sequential, enlarged where a hazard needs it.

Theorems: every safety property of the runs that hold is proved (section 5),
and so are all three refinements. Still to prove: the theorems of the modules
to come (7 to 13), first that `OfflineBuffer` implements *MailBox*.

## 3. Modules and code

### `LatestFrame`, `CameraRing`
A frame is its number, and its bytes are two halves, so that a copy can be
torn. Each memory access that another process can come between is a step:
`OpenWindow`, `CopyLow`, `CopyHigh`, `WriteDims`, `WriteMeta`, `FlipActive`,
`CloseWindow` are `publish_frame`; `Unlink`, `Create`, `WriteMagic`,
`WriteGeometry` are `ShmProducer::new`; `Crash` may happen anywhere (the
producer installs no signal handler, so a stop is a crash too). `StatPath`,
`Unmap`, `ShiftOffset`, `OpenPath`, `MapSegment` are
`_reopen_if_recreated` and `open`; `ReadSeq` to `Accept` are
`get_latest_frame` with its retries. `Obj` says which reader object a thread
uses: objects may be shared, as in the gateway. What a camera delivers is a
choice among `Scripts`. `LatestFrame` says what all this promises: published
frames only, ever newer.

### `Pipeline`, `DetectionControl`
`Pipeline` has the stage threads: per lane one A (claim, gate, bind, check,
enqueue) and one B (check, infer), one C (finish) and one D (encode, publish,
read the gate, record timings: all of it outside the in-flight count). Each read
of a `DetectionService` attribute that other code may change meanwhile is a
step of its own, and so is a read of the drain gate before statistics are
written. `strays` is a history of the statistics: when they were zeroed, or a
stopped path was opened, D had a frame whose timings it might yet record. A model stands for its engine, labels and preprocessing; a
frame for its camera number. `DetectionControl` extends it with the callers:
per gRPC thread an operation (`start`, `stop`, `activate`, `release`,
`resume`, `task`) and its place in it; both locks; failed loads and the
roll-back. `Stalls` says whether a frame may outlast the time limit of the
drain.

Simplifications: `model_manager` and `postprocessor` are assigned together;
the loop over a frame's tiles is one call; `_handoff`'s two-second limit is a
choice between put and drop; of the statistics, what C adds to (`runStats`: the counters and its own timing)
and what D adds to (`timings`: encoding, frame age) are each zero or not; the
overlay of a frame while detection is off encodes; the generation after boot
counts as 0; the background warm-up is left out.

### `GpuLease`, `TrainingJob`
`TrainingJob` has gRPC threads (`StartClaim`, `StartValidate`, `StartThread`,
`Cancel`, `CancelKill`, `FinishEarly`, `FinishNudge`, `EditBegin`,
`EditWrite`, `DeleteDataset`), one thread per job that goes through `_run`, one
trainer process and one watchdog per job. Content of a dataset is whether it
changed since validation; splits, uploads and stashed weights succeed or fail.
The trainer is taken to write what `_yolo_trainer.py` documents, and
`sam.unload()` not to raise. `GpuLease` is what others may rely on: a trainer
lives only while a job is reported active.

### `GpuHandover`
The routes of the gateway with one step per RPC they make, the orphan
watchdog's `check_once` with one step per probe, the job as `GpuLease`, the
inference-service's operations as single steps (they run under `_op_lock`;
`DetectionControl` is their detail), and conversions. `Restart` loses the
gateway's threads and tracker; an RPC under way then has happened or not.
The services answer: probes that fail are not modelled. The variables
`reopened` and `raced` are history: who started detection when, and who had
looked for a job before there was one.

### `Subscription`, `EventStream`
One action per callback of `subscribeSSE`: `Reconnect` is the timer,
`Unreachable` and `LateError` the two lives of `req.on("error")`, `Refused` a
status other than 200 with its body still to come (`Drained`), `Tell` a
complete event, `Ended` the end or break of a stream, `Vanished` a peer that is
gone without a word. `ScheduleReconnect` and `Destroyed` are its two helpers.
On the gateway's side `Publish` appends to the bounded history, `Accepted`
takes snapshot and version together, `Woken` is one turn of the generator and
`Replay` what `wait_for_changes` hands it. `Subscription` is what this
promises a node: word of what was published, nothing else, nothing after close.
The history variables say what excuses a miss: `evicted` (left the replay
buffer), `silent` (no time-out), `stray` (a second connection made by a late
error).

### `FlowNode`, `FlowCommands`, `FlowFeeds`, `FlowNodes`
`FlowNode` has what all nodes share: how a target is found (`ResolveTarget`,
`InferenceBaseUrl`, `HubTarget`), the life of a request (`Read`, `Carry`,
`Announce`, `Refuse`, `Fail`), the device's resources and its other clients
(`Change`, `PublishChange`: a change and its event are two steps, and two
events may change places). `FlowCommands` has, for each node that orders
something, what it does with a message (`...Input`), an event (`...Hear`) and
an answer (`...Reply`); `FlowFeeds` the nodes that listen, and all timers;
`FlowNodes` chooses one setup of `Setups` and lets everything interleave. A
request is a record of what its callback is for (`then`), the resource, the
value ordered, and where it is; ages tell an old answer from a new one in the
three kinds of nodes where nothing makes up for it. `sent` and `earned` count
messages, `unfounded` marks one that claims what was not carried out,
`slips` notes what a node has no way to find out.

### `WebcamProcessor`
The k-th call of `initWebcamAndProcessor` opens stream k and makes processor
k: `Ask`, `Granted`, `Install`, and the failures `Denied`, `NotPlaying`,
`TimedOut` are the pieces between its awaits. A `loop` is one chain of
`processFrame`: `Callback` (the part up to the detection: `Capture` or
`ReadFails`), `Drawn` and `Undetected` (the part after it), `Continue` its end.
`Start`, `Stop`, `Cleanup` are the functions of `window`. OpenCV may or may not
be loaded at the beginning. `Announced` is `opencv-ready`, sent by the page that
has loaded OpenCV: every call that waits goes on, and makes its processor's
matrices whether or not the page still has that processor (`late` is a history
of those it no longer had). The page may as well never send it, and the script's
own dispatch comes before anyone listens: then a call ends in `TimedOut`.
OpenCV's allocations succeed.

### `EditorAccess`
An environment has the dedicated secret, the credential secret (each a key or
nothing, padded with spaces or not) and the switch for authentication.
`GatewaySecret` strips before it chooses, `FlowSecret` does not. `Mint` is the
gateway's route, `Verify` and `PermissionsFor` are `admin-token.js`, `Starts`
is what `settings.js` insists on. `Configure` changes the file and no process;
`RestartGateway` and `RestartFlow` take it up one by one; `SetClock` is the
hub. Signatures are ideal: they agree exactly if the secrets do.

## 4. Runs

| Run | Checks | Result |
|---|---|---|
| `camera_ring` | `NoTornFrame`, `FreshSegmentAhead`, `ImplementsLatestFrame`, `ReadersCatchUp` | holds |
| `detection` | `InflightExact`, `RightRuntime`, `QuietWhileSwapping`, `StoppedRunStaysZero`, `RunningIsOpen`, `StopReturns` | holds |
| `detection_wide` | `RightRuntime`, `QuietWhileSwapping`, two callers and two lanes | holds |
| `training` | `TypeOK`, `ClaimedWhileActive`, `TrainsWhatWasValidated`, `CancelDiscards`, `NothingLeft`, `HonoursLease`, `JobEnds` | holds |
| `training_restart` | `DatasetThere` | violated |
| `handover` | `TrainerAlone`, `BuildAlone`, `HandedBack` | holds |
| `handover_race` | `NeverBoth` | violated |
| `flow_stream` | `OneStream`, `NothingSkipped`, `ImplementsSubscription`, `StaysInformed` | holds |
| `flow_nodes` | `TypeOK`, `NothingTwice`, `DoneMeansDone`, `Settles`, `CloseEnds` | holds |
| `flow_badge` | `BadgeReflects` | violated |
| `webcam` | `OneLoop`, `KeepsGoing`, `NothingForgotten`, `FramesFreed`, `NeverBack`, `ComesToRest` | holds |
| `editor` | `SignedAlike`, `NoLongerThanTtl`, `OpenOnlyByChoice` | holds |

What the violated ones show, each a statement of the repository the code does
not keep:

- `training_restart`: the next job, started between the terminal status and the
  clean-up of the last, loses its dataset, dies on an assertion, and the
  service stays busy.
- `handover_race`: asking for a job and starting detection are two RPCs; a
  training that starts in between shares the GPU.
- `flow_badge`: two clients' changes are published in the other order, or the
  answer to a node's first read is overtaken by an event; the node applies what
  comes last, and its badge is wrong until the next change or reconnection.

Where a property holds only beside such a flaw, it says so itself, in its
formula (`ReadersCatchUp` excepts the blank segment, `TrainerAlone` those who
looked before, `Settles` a start-stop node something slipped past, `OneStream`
the late error, `NothingForgotten` the stream a second initialisation
displaced and the processor OpenCV came too late for, `StoppedRunStaysZero` the
timings of a frame stage D already had), or the run keeps to an instance without it:

- A reader that maps a segment before its slot size is written caches 0 and sees
  nothing until the producer restarts again (`camera_ring.py:128`); this is the
  blank segment `ReadersCatchUp` excepts.
- Stage D reads the gate and records its timings outside the in-flight count, so
  no drain waits for it: a frame past the gate when the statistics are zeroed
  fills `encode_*` and `frame_age_*` again, and `/stats` of stopped detection
  reports them (`processing_pipeline.py:575`, whose comment says "no stats for a
  stopping run"). Likewise a frame that D still has when `resume` opens the path
  of stopped detection. Without `strays` in `StoppedRunStaysZero`, TLC finds the
  first of these.
- A call of `initWebcamAndProcessor` that waits for OpenCV does not ask, when the
  signal comes, whether a clean-up or another call has taken its processor away
  (`opencv-processor.js:59`): it makes matrices nothing will delete. This is
  `late` in `NothingForgotten`.
- One thread per reader object in `camera_ring`. With one for two
  (`media.py:37`) `NoTornFrame` fails: one thread remaps between two loads of
  the other, and equal counters of two segments let a mixed frame pass.
- `Stalls = FALSE` in `detection`. A drain that times out lets a frame be run
  with the new engine before the generation moves, and `RightRuntime` fails.
- One caller in `detection`. With two, a Start between the halves of a Stop ends
  with detection running and its path closed: `RunningIsOpen` fails. A Stop
  between the drain and the restart of an activation is undone by it.
- No `resume` among the operations of `detection_wide`. With two callers, a
  resume that finds detection stopped loads the engine without a drain of its
  own, while a Stop that has cleared `is_running` is still waiting for the last
  frames: `QuietWhileSwapping` fails (`model_service.py`, `resume_runtime`).
- `MaxFailures = 1`. If the roll-back's own load fails, `model_manager` and the
  worker disagree, and `RightRuntime` fails.

What the code leaves open and the models can show without a property of their
own: a cancel accepted after the job has looked is forgotten; `finish_early`
kills a trainer that has no handler yet; a training refused after the release
leaves detection stopped without a watchdog (`jobs.py:55`); an exit disarms a
training mode entered meanwhile (`session.py:110`); an activation while the
GPU is released loads an engine all the same; the frozen picture has writers
without an order; the answer to an order for the other threshold becomes
`node.value` (`threshold.js:105`).

### Bounds
- Ring: two producer starts and three frames: a crash inside a publication, a
  restart, a lap over both slots and a change of geometry fit; two retries let
  both outcomes of a retry happen. One thread per object suffices where objects
  are not shared, since readers write nothing another reads.
- Detection: three operations of one caller reach release-then-activate and
  failure-then-start; two callers with two operations, two lanes and two frames
  reach overtaking on both sides. Two models, since a mix-up needs two. One
  failed load reaches the roll-back.
- Training: two jobs (clean-up of one against the start of the next), two
  clients, a dataset that is trained on and one that is packaged.
- Hand-over: two routes and four requests reach enter, train, exit and start in
  any overlap; one restart.
- Subscription: four connections allow a refusal whose late error overlaps the
  next connection, then a close or a break; three events overflow a buffer of
  two.
- Flow nodes: seventeen setups cover each kind of node, on-change and interval,
  and each way to a device, right and wrong; a message's own action takes the
  place of a configured one, so that all of these occur. Two deeds (messages or changes by others, mixed)
  make two that overtake each other; one fault; two requests under way, so that
  answers change places; polls are added while fewer than `PollBound` are out,
  two only for the detection node, whose interval is shorter than an answer may
  take. `flow_badge` has no fault: nothing is lost and yet the badge is wrong.
- Webcam: two calls make a replacement; three starts and three pictures a loop
  that overlaps, is stopped and overlapped again.
- Editor: two keys (equal, different, missing, padded on either side), one
  change of environment or clock with any restarts, a life of two ticks and a
  clock of three, so that a token is seen one tick before its end, at it and
  after it.

### Fairness
- Ring: threads run on (WF), an opened publication goes on or the process dies.
  No fairness makes cameras deliver or producers start.
- Detection: WF on each stage thread and on each caller's steps. `StopReturns`
  begins where an operation has its locks already, so WF is enough; nobody has
  to call, nothing has to arrive.
- Training: WF on requests that have begun, on the trainer's own progress (a
  hung one has none) and on the watchdog; SF on a job's thread, which shares its
  locks with requests that come again and again.
- Hand-over: WF on requests, the watchdog, the passing of time, the job (whose
  end `JobEnds` shows) and conversions.
- Subscription: WF on the reconnection timer, on each attempt's outcome, on the
  generator and on delivery over a connection that lives; none that connections
  succeed, last or are noticed when they die.
- Flow nodes: WF on the oldest request and its callback, delivery of events,
  publication by others, reconnection, timers, and a closed hub being opened
  again. No message, change or fault has to happen.
- Webcam: WF on animation frames only; `fetch` has no time limit, so nothing is
  promised of the detection. The editor has no liveness property.

Deadlock is not checked: systems without callers, frames or restarts left may
rest, and liveness properties say what must not.

## 5. Proofs

All for every value of the constants, under the named assumptions of the
modules (`RingAssumption`, `PipelineAssumption`, `ControlAssumption`,
`TrainingAssumption`, `HandoverAssumption`, `StreamAssumption`,
`FlowAssumption`, `SetupAssumption`, `WebcamAssumption`, `EditorAssumption`): lanes finite and
not empty, `None` not a model, bounds natural numbers, setups such as the
editor's forms can produce. A theorem that needs more says so in its `ASSUME`.
Each inductive invariant was first checked by TLC, on the instance of the
module's run and on larger or different ones.

**`CameraRingProofs`.** `TypeCorrect` (`[]TypeOK`) from `TypeInv`, which adds
to the types that the pointers used for indexing are in range where they are
used. The rest is for reader objects that no two threads share (`Unshared`).

`NoTorn` (`[]NoTornFrame`) from `WholeInv`: the counter is odd exactly while a
publication is open (`Parity`), what an open one has written (`Window`), a slot
is whole when the counter is even (`Stable`), and, the core of it, as long as
the counter still has the value a reader loaded, what it has read since is that
one state (`Loads`). `NoTornFrame` alone is not inductive, as it says nothing
of copies under way. One lemma per side: a producer step (`Frozen`,
`LoadsKept`), a reader's own step (`OwnStep`), another reader's (`Bystander`,
where `Unshared` is needed).

`FreshSegmentAheadHolds` and `LatestFrameImplemented` (the refinement of
`LatestFrame`) from `OrderInv`, which adds the order of frames. `Order`: frames
are numbered through all segments, a later segment has later ones, and what an
even counter stands for was published whole. `Was(f, i, n)`: frame `f` was the
newest of segment `i` when its counter was at `n`, so that a larger even count
means a newer frame; `WasKept` shows that the producer never undoes it.
`Cursor` ties the number a caller holds to the frame it was shown, by `Was` as
long as its mapping is the one the frame came from, and by the offset after a
remap; `Gone` (an inode that left its name never comes back) gives that the
next mapping is a later segment. `Newer` is what the second load of the counter
has established when a copy is accepted. Without `Unshared`, one thread moves
the offset while another is about to move the cursor past it.

**`DetectionProofs`.** `TypeCorrect`: every queue within its depth, no frame
with a generation to come; stage by stage, then caller by caller.
`CountExact` (`[]InflightExact`): the in-flight count is the number of frames
on the path. Strengthened by `OwnInv`, which says at which places a lane owns
a count; the cardinality lemmas (`OwnersGrow`, `BusyShrink`, ...) turn each
step into plus or minus one. It holds with stalls and failures.

The other four build on it. `ZeroIsCalm`: an exact count of zero means an empty
path (`Calm`), which is what a drain that does not time out has waited for.

| Theorem | Invariant | Hypotheses |
|---|---|---|
| `StoppedRunStaysZeroHolds` | `Drained`: stopped detection is empty and every timing accounted for (`Accounted`: recorded or yet to be, it is of a frame D had), or a stop is at it | `Stalls = FALSE` |
| `RunningIsOpenHolds` | `Opening`: who closes the path has stopped detection, and running detection with its path closed has a caller about to reopen it | one caller, or no Stop RPC (`NoStopBeside`) |
| `QuietWhileSwappingHolds` | `SwapInv`: past its drain the holder of `_op_lock` has silence (`AtRest`, `Resting`), and so has a released runtime or none | `DrainsMeetNoLoad` |
| `RightRuntimeHolds` | `EngineInv`: the worker's engine is the service's model's but at named places of a swap; `PathInv`: a frame that is not stale was prepared for that model | `DrainsMeetNoLoad`, `MaxFailures <= 1` |

`LockInv` (who is in an operation holds its lock) is common to the last three.
`DrainsMeetNoLoad` is `Stalls = FALSE` and one caller, or no Stop RPC, or no
resume. The hypotheses are those the code needs: TLC finds each of the
properties broken without its own, in the ways section 4 lists. That
`RightRuntime` needs the second half of `DrainsMeetNoLoad` is not known: the
proof does, no counterexample was found with two callers.

**`TrainingJobProofs`.** `TypeCorrect`, `ClaimedWhileActiveHolds`,
`TrainsWhatWasValidatedHolds`, `CancelDiscardsHolds`, `NothingLeftHolds` and
the refinement of `GpuLease` (`LeaseHonoured`), for any number of clients, jobs
and datasets. One invariant, `IInv`, says who answers for what: only the
current job can be active and the older are on their way out (`Places`), a
start that validates has the lock and one that has a job has no thread yet
(`Starts`), whoever needs a dataset has it frozen and registered (`Claims`) and
no two have the same (`Apart`), an editor holds the lock of its dataset
(`Editors`), what is frozen is so for somebody (`Accounted`), a cancellation
that counts is remembered (`Cancels`), a trainer lives only while its thread
reads its output (`Trainers`). `ClaimedWhileActive` is not inductive: it
forgets the job that is over and still to clean up, and the start that has
claimed and not yet begun.

**`GpuHandoverProofs`.** `TypeCorrect`, `ReleasedStopped`
(`[]ReleasedIsStopped`), `TrainerKept` (`[]TrainerAlone`), `BuildKept`
(`[]BuildAlone`) from one invariant: `StartedSince` (detection that runs
although the GPU was released for a training about to start has been started
since), `JobAlone` (while a job nobody had missed is there, nobody is past the
probe either) and `ConversionAlone` (the same past the second probe).
`TrainerAlone` is not inductive: it forgets the threads that have looked and
not yet acted.

**`EventStreamProofs`.** `TypeCorrect`, `OneStreamHolds`, `NothingSkippedHolds`
and the refinement of `Subscription` (`Implements`) from one invariant, the conjunction
of types, `OneStream`, `NothingSkipped` and `Deliverable` (what is on its way
was published). `OneStream` is inductive since it also says that no timer is
set beside a connection; `NothingSkipped` rests on the lemma `ReplayComplete`:
what a generator is given covers all it is behind, but for what left the
buffer. `Deliverable` is what the refinement needs: a node hears of nothing
that was not published.

**`FlowProofs`.** `TypeCorrect`, `DoneMeansDoneHolds`, `NothingTwiceHolds`, for
any set of setups and any number of orders, changes and requests.
`SetupAssumption` asks that a setup's mode is one its node's form in the editor
offers (`Choices`, from the HTML files); a node of another mode would do
nothing or something undefined. `Sound` says what a request under way may be: one that was
answered was carried out, and a read that was answered has what the device had;
with it `DoneMeansDone` is inductive. `NothingTwice` is three arguments. Nodes
that answer owe one message for each request that may end in one (`Balance`).
The detection node compares what it sees with what it saw (`Looking`: at most
one message for each age of the scene it got past). A node that is told has
what it knows, what it has yet to hear and what the device has in one line
(`Listening`), and sends at most one message for each place where the line
turns; `TurnsBetween` finds such a place between two values that differ, by the
cardinality of a set of indices, since the provers have no induction over a
sequence.

**`WebcamProofs`.** `OneLoopHolds`, `KeepsGoingHolds`, `FramesFreedHolds`,
`NeverBackHolds`, `NothingForgottenHolds`, `TypeCorrect`. `OneLoop` forgets
what keeps it true, that a scheduled loop is the one its processor's timer
stands for (`Single`), so that stop cancels the right one; `Places` says who
may hold matrices and loops, `InHand` that a frame under way has matrices to
fall back on or met a clean-up, `Newest` that it is the latest picture read.
`StoppedHalts` and `MoveKeepsLoops` carry the argument through stop, clean-up
and replacement, and through each step of a loop. `Waiters` is what the signal
of OpenCV needs: a call that waits for it has no matrices yet, and no
frame of one that got them late is ever at the detection. `Displaced` is the camera's
half of `NothingForgotten`: one that is on and no longer the page's has another
call to blame.

**`EditorProofs`.** `TypeCorrect`, `SignedAlikeHolds`, `NoLongerHolds`,
`OpenOnlyHolds` from `Dated` (a token is as far from its end as its age says, while the clock is
left alone) and `Started` (Node-RED runs only with a credential secret), with
the lemma `SecretsAgree`: without spaces both sides choose the same secret.

Type correctness (and `InflightExact` for two lanes and callers,
`ReleasedIsStopped`) is mostly left to these proofs and not checked again by a
run; `training` and `flow_nodes` check `TypeOK` as well.

Only model-checked: liveness (`ReadersCatchUp`, `StopReturns`, `JobEnds`,
`HandedBack`, `StaysInformed`, `Settles`, `CloseEnds`, `ComesToRest`), which the
prover does not do under fairness; and the three violations, which are
counterexamples. What the proofs' hypotheses exclude (shared reader objects,
drains that time out, a second failed load) is excluded because the property
fails there, except for the one case named under `DetectionProofs`.

## 6. Not modelled

Memory is sequentially consistent in the ring: the Rust side uses fences, the
Python side relies on aligned accesses of the machine. Timeouts are choices,
not clocks. Pixels, tensors, text, logs and configuration values are data
without influence on the properties. The parser of an event stream is taken to
yield complete events, `new cv.Mat()` not to run out of memory
(`opencv-processor.js:89`), and a request of a node to end: a response that breaks
off in its middle would never call back (`http-client.js:106`). Of `hub.js` the
list of devices for the editor (one read) is left out, of `settings.js` what
only configures Node-RED. Components marked **P** or **–** above
are not modelled; `PROJECT.json` has the reason for each. Hazards that wait for
the planned ones: a store replaced after corruption starts its ids anew while an
ack is under way (`bounded_sqlite.py:215`), a change lost when the hub answers
during its encoding (`detection_buffer.py:204`), a worker process without a
connection (`worker_client.py:381`), a camera config written while the producer
polls (`camera_ring.py:273`), SAM loading beside a start
(`training_grpc.py:752`).

## 7. Running

```
tlc -workers 2 -config CameraRing.cfg MCCameraRing.tla
tlc -workers 2 -config Detection.cfg MCDetection.tla
tlc -workers 2 -config TrainingJob.cfg MCTrainingJob.tla
tlc -workers 2 -config GpuHandover.cfg GpuHandover.tla
tlc -workers 2 -config EventStream.cfg EventStream.tla
tlc -workers 2 -config FlowNodes.cfg MCFlowNodes.tla
tlc -workers 2 -config WebcamProcessor.cfg WebcamProcessor.tla
tlc -workers 2 -config EditorAccess.cfg EditorAccess.tla
tlapm CameraRingProofs.tla
tlapm DetectionProofs.tla
tlapm TrainingJobProofs.tla
tlapm GpuHandoverProofs.tla
tlapm EventStreamProofs.tla
tlapm FlowProofs.tla
tlapm WebcamProofs.tla
tlapm EditorProofs.tla
```
