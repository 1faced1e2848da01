---------------------------- MODULE WebcamProcessor ----------------------------
(***************************************************************************)
(* opencv-processor.js: a page opens the webcam, has frames sent for       *)
(* detection one after the other, stops and cleans up.  Everything the     *)
(* code awaits is a point where the page's other calls come in.  A picture *)
(* is its number; the k-th call opens stream k and makes processor k.      *)
(***************************************************************************)
EXTENDS Integers

CONSTANTS
    MaxCalls,       \* bound: calls of initWebcamAndProcessor
    MaxStarts,      \* bound: effective calls of start
    MaxShots        \* bound: pictures read from the camera

ASSUME WebcamAssumption ==
    MaxCalls \in Nat \ {0} /\ MaxStarts \in Nat \ {0} /\ MaxShots \in Nat

Calls == 1..MaxCalls
Loops == 1..MaxStarts
Gone == -1          \* null, where a Mat would be

VARIABLES
    ready,          \* cv is there, with its Mat (announced or not)
    call,           \* per call: how far it is
    camera,         \* per stream: its tracks are live
    stream,         \* window.webcamStream, 0 for null
    processor,      \* window.opencvProcessor, 0 for null
    on,             \* per processor: isProcessing
    timer,          \* per processor: the loop animationFrameId stands for, or 0
    src,            \* per processor: the picture in its Mats, or Gone
    loop,           \* per effective start: its chain of processFrame calls
    started,        \* how many there were
    shots,          \* the latest picture read
    shown           \* the picture on the canvas

VARIABLES           \* history
    overlapped,     \* a start found a frame still under way
    cut,            \* a processor was cleaned up with a frame under way
    lost,           \* the Mat of a frame was dropped without delete()
    late            \* processors initialised when they were no longer the page's

page == <<ready, call, camera, stream, processor>>
frames == <<on, timer, src, loop, started, shots, shown>>
history == <<overlapped, cut, lost, late>>
vars == <<page, frames, history>>

CallStates == {"none", "asking", "denied", "playing", "waiting", "done", "failed"}
LoopStates == {"none", "scheduled", "asked", "over"}

(* Constructor: nothing runs, no Mats.                                     *)
Init ==
    /\ ready \in BOOLEAN
    /\ call = [k \in Calls |-> "none"]
    /\ camera = [k \in Calls |-> FALSE]
    /\ stream = 0 /\ processor = 0
    /\ on = [k \in Calls |-> FALSE]
    /\ timer = [k \in Calls |-> 0]
    /\ src = [k \in Calls |-> Gone]
    /\ loop = [j \in Loops |-> [of |-> 0, at |-> "none", shot |-> 0]]
    /\ started = 0 /\ shots = 0 /\ shown = 0
    /\ overlapped = FALSE /\ cut = FALSE /\ lost = FALSE /\ late = {}

-----------------------------------------------------------------------------
(* A processor.                                                            *)

UnderWay == {j \in Loops : loop[j].at = "asked"}

(* Variant: a callback that is due is left to come.                        *)
NotCancelled(p) == loop

(* cancelAnimationFrame: a callback that is due does not come.             *)
Cancelled(p) ==
    IF timer[p] # 0 /\ loop[timer[p]].at = "scheduled"
    THEN [loop EXCEPT ![timer[p]].at = "over"] ELSE loop

Stopped(p) ==
    /\ on' = [on EXCEPT ![p] = FALSE]
    /\ timer' = [timer EXCEPT ![p] = 0]
    /\ loop' = Cancelled(p)

(* Variant: the Mats are dropped, not deleted.                             *)
MatsKept(p) == src

Emptied(p) == [src EXCEPT ![p] = Gone]

Cut(p) == cut' = (cut \/ \E j \in UnderWay : loop[j].of = p)

(* Variant: the Mats go, the processing is not stopped.                    *)
NotStopped(p) == UNCHANGED <<on, timer, loop>> /\ Cut(p)

(* cleanup; what becomes of the Mats is Emptied.                           *)
CleanedUp(p) == Stopped(p) /\ Cut(p)

(* Variant: an error ends the loop.                                        *)
GivesUp(j, p) ==
    /\ loop' = [loop EXCEPT ![j] = [of |-> p, at |-> "over", shot |-> 0]]
    /\ UNCHANGED timer

(* processFrame, whatever it met: again with the next animation frame.     *)
Continue(j, p) ==
    IF on'[p]
    THEN /\ loop' = [loop EXCEPT ![j] = [of |-> p, at |-> "scheduled", shot |-> 0]]
         /\ timer' = [timer EXCEPT ![p] = j]
    ELSE /\ loop' = [loop EXCEPT ![j] = [of |-> p, at |-> "over", shot |-> 0]]
         /\ UNCHANGED timer

(* The camera cannot be read, or the processor has none yet.               *)
ReadFails(j, p) ==
    /\ Continue(j, p)
    /\ UNCHANGED <<src, shots>>

(* The first part of processFrame: a picture is read, copied to a Mat of   *)
(* the frame's own and sent to the detection.                              *)
Capture(j, p) ==
    /\ src[p] # Gone /\ shots < MaxShots
    /\ shots' = shots + 1
    /\ src' = [src EXCEPT ![p] = shots + 1]
    /\ loop' = [loop EXCEPT ![j] = [of |-> p, at |-> "asked", shot |-> shots + 1]]
    /\ UNCHANGED timer

ProcessFrame(j, p) == Capture(j, p) \/ ReadFails(j, p)

(* The animation frame: processFrame of a loop.                            *)
Callback(j) ==
    LET p == loop[j].of IN
    /\ loop[j].at = "scheduled"
    /\ UNCHANGED on
    /\ IF on[p] THEN ProcessFrame(j, p)
       ELSE /\ loop' = [loop EXCEPT ![j].at = "over"]
            /\ UNCHANGED <<timer, src, shots>>
    /\ UNCHANGED <<page, started, shown, history>>

(* The detection's picture is drawn, the frame's Mat deleted.              *)
Drawn(j) ==
    /\ loop[j].at = "asked"
    /\ shown' = loop[j].shot
    /\ UNCHANGED on /\ Continue(j, loop[j].of)
    /\ UNCHANGED <<page, src, started, shots, history>>

(* Variant: only a frame that was detected is deleted.                     *)
FrameKept(p) == shown' = src[p] /\ lost' = TRUE

(* imshow of the original: without Mats it throws past frame.delete().     *)
ShowOriginal(p) ==
    IF src[p] # Gone THEN shown' = src[p] /\ UNCHANGED lost
    ELSE lost' = TRUE /\ UNCHANGED shown

(* No answer, a bad one, or one that is no picture.                        *)
Undetected(j) ==
    /\ loop[j].at = "asked"
    /\ ShowOriginal(loop[j].of)
    /\ UNCHANGED on /\ Continue(j, loop[j].of)
    /\ UNCHANGED <<page, src, started, shots, overlapped, cut, late>>

-----------------------------------------------------------------------------
(* The page: the functions of window.                                      *)

Loaded ==
    /\ ~ready /\ ready' = TRUE
    /\ UNCHANGED <<call, camera, stream, processor, frames, history>>

(* initWebcamAndProcessor, up to the question for the webcam.              *)
Ask(k) ==
    /\ call[k] = "none" /\ \A i \in 1..(k - 1) : call[i] # "none"
    /\ call' = [call EXCEPT ![k] = "asking"]
    /\ UNCHANGED <<ready, camera, stream, processor, frames, history>>

(* Variant: a call that failed forgets the stream.                         *)
Forgets == stream' = 0

(* A call that failed undoes nothing.                                      *)
Undone == UNCHANGED stream

Failed(k, how) ==
    /\ call' = [call EXCEPT ![k] = how]
    /\ Undone
    /\ UNCHANGED <<ready, camera, processor, frames, history>>

(* No such element, no webcam, no permission: nothing was opened.          *)
Denied(k) == call[k] = "asking" /\ Failed(k, "denied")

(* The video does not play.                                                *)
NotPlaying(k) == call[k] = "playing" /\ Failed(k, "failed")

(* The signal has not come within half a minute of the call's wait.        *)
TimedOut(k) == call[k] = "waiting" /\ Failed(k, "failed")

Granted(k) ==
    /\ call[k] = "asking"
    /\ call' = [call EXCEPT ![k] = "playing"]
    /\ camera' = [camera EXCEPT ![k] = TRUE]
    /\ stream' = k
    /\ UNCHANGED <<ready, processor, frames, history>>

(* initialize: the Mats, if OpenCV is there, else a wait for its signal.   *)
Initialized(k, mats) ==
    IF ready
    THEN call' = [call EXCEPT ![k] = "done"] /\ src' = [mats EXCEPT ![k] = 0]
    ELSE call' = [call EXCEPT ![k] = "waiting"] /\ src' = mats

(* The page that has loaded OpenCV says so (opencv-ready): every call that *)
(* waits goes on and makes its processor's Mats, whether the processor is  *)
(* still the page's or not.  (The script itself gives this signal only as  *)
(* it is loaded, before anyone listens.)                                   *)
Announced ==
    LET waiting == {k \in Calls : call[k] = "waiting"} IN
    /\ ready /\ waiting # {}
    /\ call' = [k \in Calls |-> IF k \in waiting THEN "done" ELSE call[k]]
    /\ src' = [k \in Calls |-> IF k \in waiting THEN 0 ELSE src[k]]
    /\ late' = late \cup (waiting \ {processor})
    /\ UNCHANGED <<ready, camera, stream, processor, on, timer, loop, started, shots, shown,
                   overlapped, cut, lost>>

(* The video plays: a new processor takes the place of the one before.     *)
Install(k) ==
    /\ call[k] = "playing"
    /\ processor' = k
    /\ IF processor = 0
       THEN Initialized(k, src) /\ UNCHANGED <<on, timer, loop, cut>>
       ELSE Initialized(k, Emptied(processor)) /\ CleanedUp(processor)
    /\ UNCHANGED <<ready, camera, stream, started, shots, shown, overlapped, lost, late>>

(* startOpenCVProcessing.                                                  *)
Start ==
    /\ processor # 0 /\ ~on[processor] /\ started < MaxStarts
    /\ on' = [on EXCEPT ![processor] = TRUE]
    /\ started' = started + 1
    /\ ProcessFrame(started + 1, processor)
    /\ overlapped' = (overlapped \/ UnderWay # {})
    /\ UNCHANGED <<page, shown, cut, lost, late>>

(* stopOpenCVProcessing.                                                   *)
Stop ==
    /\ processor # 0 /\ Stopped(processor)
    /\ UNCHANGED <<page, src, started, shots, shown, history>>

(* cleanupOpenCVProcessor.                                                 *)
Cleanup ==
    /\ processor' = 0 /\ stream' = 0
    /\ IF processor = 0
       THEN UNCHANGED <<on, timer, loop, src, cut>>
       ELSE src' = Emptied(processor) /\ CleanedUp(processor)
    /\ camera' = [k \in Calls |-> camera[k] /\ k # stream]
    /\ UNCHANGED <<ready, call, started, shots, shown, overlapped, lost, late>>

-----------------------------------------------------------------------------
Next ==
    \/ Loaded \/ Announced \/ Start \/ Stop \/ Cleanup
    \/ \E k \in Calls : Ask(k) \/ Denied(k) \/ Granted(k) \/ NotPlaying(k)
                        \/ Install(k) \/ TimedOut(k)
    \/ \E j \in Loops : Callback(j) \/ Drawn(j) \/ Undetected(j)

(* Animation frames come.  Nothing is promised of the detection: fetch has *)
(* no time limit.                                                          *)
Spec == Init /\ [][Next]_vars /\ \A j \in Loops : WF_vars(Callback(j))

-----------------------------------------------------------------------------
(* Properties.                                                             *)

TypeOK ==
    /\ ready \in BOOLEAN /\ call \in [Calls -> CallStates]
    /\ camera \in [Calls -> BOOLEAN]
    /\ stream \in 0..MaxCalls /\ processor \in 0..MaxCalls
    /\ on \in [Calls -> BOOLEAN] /\ timer \in [Calls -> 0..MaxStarts]
    /\ src \in [Calls -> Gone..MaxShots]
    /\ loop \in [Loops -> [of : 0..MaxCalls, at : LoopStates, shot : 0..MaxShots]]
    /\ started \in 0..MaxStarts
    /\ shots \in 0..MaxShots /\ shown \in 0..MaxShots
    /\ overlapped \in BOOLEAN /\ cut \in BOOLEAN /\ lost \in BOOLEAN /\ late \subseteq Calls

Alive == {j \in Loops : loop[j].at \in {"scheduled", "asked"}}

(* Through any starts, stops and new processors there is one loop at work, *)
(* unless a start came while a frame of an earlier one was under way: that *)
(* loop goes on beside the new one (stop() does not reach it).             *)
OneLoop == overlapped \/ \A i, j \in Alive : i = j

(* A processor that was started and not stopped has a loop, whatever went  *)
(* wrong with a frame or with its initialisation.                          *)
KeepsGoing == \A p \in Calls : on[p] => \E j \in Alive : loop[j].of = p

Opened(k) == call[k] \notin {"none", "asking", "denied"}

(* What holds memory or the camera can be let go by cleanup, except a      *)
(* stream whose place a later call took, and the Mats of a processor whose *)
(* OpenCV came only after it was cleaned up or another had taken its place *)
(* (nothing tells the waiting initialize()).                               *)
NothingForgotten ==
    \A k \in Calls :
        /\ src[k] # Gone => processor = k \/ k \in late
        /\ camera[k] /\ stream # k => \E i \in Calls \ {k} : Opened(i)

(* A frame's Mat is only lost where a clean-up met a frame under way.      *)
FramesFreed == lost => cut

(* The picture on the canvas never goes back to an older one, except that  *)
(* two loops at work overtake each other.                                  *)
NeverBack == [][shown' >= shown \/ overlapped]_vars

(* A processor that was replaced or cleaned up comes to rest: at most it   *)
(* waits for an answer.                                                    *)
ComesToRest ==
    \A p \in Calls :
        processor # p ~> \A j \in Loops : loop[j].of = p => loop[j].at # "scheduled"
=============================================================================
