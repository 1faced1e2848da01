--------------------------- MODULE GpuHandoverProofs ---------------------------
(***************************************************************************)
(* What GpuHandover guarantees for any number of request threads, requests *)
(* and restarts of the gateway.                                            *)
(***************************************************************************)
EXTENDS GpuHandover, TLAPS

USE DEF service, tracker, history

(* Detection that runs although the GPU was released for a training that   *)
(* is about to start has been started since.                               *)
StartedSince == (\E r \in Routes : pc[r] = "start_training") /\ running => reopened

(* While a job that nobody had missed is there, nobody is past the probe.  *)
JobAlone == JobActive /\ ~raced => ~running /\ ~PastProbe

(* While its model is converted, nobody is past the second probe.          *)
ConversionAlone ==
    conversion = "job" /\ ~raced =>
        /\ ~running
        /\ \A r \in Routes : pc[r] # "start"
        /\ watch \notin {"recheck", "exit", "resume"}

SafeInv == ReleasedIsStopped /\ StartedSince /\ JobAlone /\ ConversionAlone

IInv == TypeOK /\ SafeInv

-----------------------------------------------------------------------------
LEMMA InitType == Init => TypeOK
<1> SUFFICES ASSUME Init PROVE TypeOK
  OBVIOUS
<1>1. Flags
  BY Zenon DEF Init, Flags
<1>2. Places
  BY HandoverAssumption DEF HandoverAssumption, Init, Places, Job!Init
<1>3. QED
  BY <1>1, <1>2 DEF TypeOK

(* The inference-service and the training-service set flags only.          *)
LEMMA FlagsStay ==
  ASSUME Flags, [Next]_vars
  PROVE  Flags'
<1> USE DEF Flags
<1>1. ASSUME NEW r \in Routes, BeginTraining(r) \/ BeginStart(r) \/ Heartbeat(r) \/ Stop(r) PROVE Flags'
  BY <1>1, Zenon DEF BeginTraining, BeginStart, Heartbeat, Stop, Begin, Touch
<1>2. ASSUME NEW r \in Routes, ReleaseRuntime(r) PROVE Flags'
  BY <1>2, Zenon DEF ReleaseRuntime, Release
<1>3. ASSUME NEW r \in Routes, StartTraining(r) PROVE Flags'
  BY <1>3, Zenon DEF StartTraining
<1>4. ASSUME NEW r \in Routes, Arm(r) \/ ProbeJob(r) \/ ProbeConversion(r) \/ Start(r) PROVE Flags'
  BY <1>4, Zenon DEF Arm, ProbeJob, ProbeConversion, Start, Reopen
<1>5. ASSUME NEW r \in Routes, ExitProbe(r) \/ ResumeRuntime(r) \/ Disarm(r) PROVE Flags'
  BY <1>5, Zenon DEF ExitProbe, ResumeRuntime, Disarm, Reopen, EndHandover
<1>6. CASE Watchdog
  <2>1. CASE Tick \/ Recheck \/ WatchExit
    BY <2>1, Zenon DEF Watch, Tick, Recheck, WatchExit
  <2>2. CASE WatchJob
    BY <2>2, Zenon DEF Watch, WatchJob, Touch
  <2>3. CASE WatchConversion
    BY <2>3, Zenon DEF Watch, WatchConversion, Touch
  <2>4. CASE WatchResume
    BY <2>4, Zenon DEF Watch, WatchResume, Reopen, EndHandover
  <2>5. CASE WatchDisarm
    BY <2>5, Zenon DEF Watch, WatchDisarm
  <2>6. QED
    BY <1>6, <2>1, <2>2, <2>3, <2>4, <2>5 DEF Watchdog
<1>7. CASE TimePasses \/ Restart \/ OtherUpload \/ ConversionEnds \/ UNCHANGED vars
  BY <1>7, Zenon DEF TimePasses, Restart, OtherUpload, ConversionEnds, vars
<1>8. CASE JobStep \/ JobUpload
  BY <1>8, Zenon DEF JobStep, JobUpload
<1>9. QED
  BY <1>1, <1>2, <1>3, <1>4, <1>5, <1>6, <1>7, <1>8 DEF Next, Route

(* Everything that is no flag stays among its values.                      *)
LEMMA PlacesStay ==
  ASSUME Places, [Next]_vars
  PROVE  Places'
<1> USE HandoverAssumption DEF HandoverAssumption, Places
<1>1. ASSUME NEW r \in Routes, BeginTraining(r) \/ BeginStart(r) \/ Heartbeat(r) \/ Stop(r) PROVE Places'
  BY <1>1 DEF BeginTraining, BeginStart, Heartbeat, Stop, Begin, Goto
<1>2. ASSUME NEW r \in Routes, ReleaseRuntime(r) PROVE Places'
  BY <1>2 DEF ReleaseRuntime, Goto
<1>3. ASSUME NEW r \in Routes, StartTraining(r) PROVE Places'
  BY <1>3 DEF StartTraining, Goto, Job!Claim
<1>4. ASSUME NEW r \in Routes, Arm(r) \/ ProbeJob(r) \/ ProbeConversion(r) \/ Start(r) PROVE Places'
  BY <1>4 DEF Arm, ProbeJob, ProbeConversion, Start, Goto
<1>5. ASSUME NEW r \in Routes, ExitProbe(r) \/ ResumeRuntime(r) \/ Disarm(r) PROVE Places'
  BY <1>5 DEF ExitProbe, ResumeRuntime, Disarm, Goto
<1>6. CASE Watchdog
  BY <1>6 DEF Watchdog, Watch, Tick, WatchJob, WatchConversion, Recheck, WatchExit,
               WatchResume, WatchDisarm
<1>7. CASE TimePasses \/ Restart \/ OtherUpload \/ ConversionEnds \/ UNCHANGED vars
  BY <1>7 DEF TimePasses, Restart, OtherUpload, ConversionEnds, vars
<1>8. CASE JobStep \/ JobUpload
  BY <1>8 DEF JobStep, JobUpload, Launch, Job!Launch, Job!Exit, Job!Conclude
<1>9. QED
  BY <1>1, <1>2, <1>3, <1>4, <1>5, <1>6, <1>7, <1>8 DEF Next, Route

(* Type correctness: every variable keeps its type (training/session.py,   *)
(* training/orphan.py, controllers/detection.py).                          *)
THEOREM TypeCorrect == Spec => []TypeOK
<1>1. TypeOK /\ [Next]_vars => TypeOK'
  BY FlagsStay, PlacesStay DEF TypeOK
<1>2. QED
  BY InitType, <1>1, PTL DEF Spec

-----------------------------------------------------------------------------
(* One step preserves what keeps detection and the job apart: only those   *)
(* past the probe start detection, and nobody gets past it meanwhile.      *)
LEMMA SafeStep ==
  ASSUME TypeOK, SafeInv, [Next]_vars
  PROVE  SafeInv'
<1> USE DEF SafeInv, ReleasedIsStopped, StartedSince, JobAlone, ConversionAlone, PastProbe, JobActive
<1>0. pc \in [Routes -> {"idle", "enter", "train", "exit", "exit_stopped", "start_training", "arm",
                         "probe_job", "probe_conversion", "start", "resume", "resume_stopped",
                         "disarm"}]
  BY DEF TypeOK, Places
<1>1. ASSUME NEW r \in Routes, BeginTraining(r) \/ BeginStart(r) \/ Heartbeat(r) PROVE SafeInv'
  BY <1>0, <1>1 DEF BeginTraining, BeginStart, Heartbeat, Begin, Goto
<1>2. ASSUME NEW r \in Routes, Stop(r) PROVE SafeInv'
  BY <1>2 DEF Stop
<1>3. ASSUME NEW r \in Routes, ReleaseRuntime(r) PROVE SafeInv'
  BY <1>0, <1>3 DEF ReleaseRuntime, Release, Goto
<1>4. ASSUME NEW r \in Routes, StartTraining(r) PROVE SafeInv'
  BY <1>0, <1>4 DEF StartTraining, Goto, Job!Claim
<1>5. ASSUME NEW r \in Routes, Arm(r) \/ Disarm(r) PROVE SafeInv'
  BY <1>0, <1>5 DEF Arm, Disarm, Goto
<1>6. ASSUME NEW r \in Routes, ProbeJob(r) PROVE SafeInv'
  BY <1>0, <1>6 DEF ProbeJob, Goto
<1>7. ASSUME NEW r \in Routes, ProbeConversion(r) PROVE SafeInv'
  BY <1>0, <1>7 DEF ProbeConversion, Goto, ConversionActive
<1>8. ASSUME NEW r \in Routes, Start(r) PROVE SafeInv'
  BY <1>0, <1>8 DEF Start, Reopen, Goto
<1>9. ASSUME NEW r \in Routes, ExitProbe(r) PROVE SafeInv'
  BY <1>0, <1>9 DEF ExitProbe, Goto
<1>10. ASSUME NEW r \in Routes, ResumeRuntime(r) PROVE SafeInv'
  <2>1. (raced => raced') /\ (conversion = "job" => raced' \/ EndHandover)
    <3>1. CASE EndHandover /\ UNCHANGED raced
      BY <3>1
    <3>2. CASE Reopen /\ raced' = (raced \/ conversion = "job")
      <4>1. raced \/ conversion = "job" => raced' = TRUE
        BY <3>2, Zenon
      <4>2. QED
        BY <4>1
    <3>3. QED
      BY <1>10, <3>1, <3>2, Zenon DEF ResumeRuntime
  <2>2. /\ \/ pc[r] = "resume" /\ Reopen
           \/ EndHandover
        /\ pc[r] \in {"resume", "resume_stopped"}
        /\ \E to \in {"idle", "disarm"} : Goto(r, to)
        /\ UNCHANGED <<lease, conversion, watch>>
    BY <1>10 DEF ResumeRuntime
  <2>3. CASE pc[r] = "resume" /\ Reopen
    BY <1>0, <2>1, <2>2, <2>3 DEF Reopen, EndHandover, Goto
  <2>4. CASE EndHandover
    BY <1>0, <2>1, <2>2, <2>4 DEF EndHandover, Goto
  <2>5. QED
    BY <2>2, <2>3, <2>4
<1>11. CASE Tick \/ WatchJob \/ WatchConversion
  BY <1>11 DEF Watch, Tick, WatchJob, WatchConversion, ConversionActive
<1>12. CASE Recheck \/ WatchExit \/ WatchDisarm
  BY <1>12 DEF Watch, Recheck, WatchExit, WatchDisarm
<1>13. CASE WatchResume
  BY <1>13 DEF Watch, WatchResume, Reopen, EndHandover
<1>14. CASE Restart
  BY <1>14 DEF Restart
<1>15. CASE JobUpload
  BY <1>15 DEF JobUpload
<1>16. CASE JobStep
  BY <1>16 DEF JobStep, Launch, Job!Launch, Job!Exit, Job!Conclude
<1>17. CASE TimePasses \/ OtherUpload \/ ConversionEnds \/ UNCHANGED vars
  BY <1>17 DEF TimePasses, OtherUpload, ConversionEnds, vars
<1>18. QED
  BY <1>1, <1>2, <1>3, <1>4, <1>5, <1>6, <1>7, <1>8, <1>9, <1>10, <1>11, <1>12, <1>13, <1>14,
     <1>15, <1>16, <1>17 DEF Next, Route, Watchdog

LEMMA Safe == Spec => []IInv
<1>1. Init => IInv
  BY InitType DEF Init, IInv, SafeInv, ReleasedIsStopped, StartedSince, JobAlone,
              ConversionAlone, JobActive, Job!Init
<1>2. IInv /\ [Next]_vars => IInv'
  BY FlagsStay, PlacesStay, SafeStep DEF IInv, TypeOK
<1>3. QED
  BY <1>1, <1>2, PTL DEF Spec

(* The runtime counts as handed over only while detection is stopped       *)
(* (ModelService.release_runtime, resume_runtime, start_detection).        *)
THEOREM ReleasedStopped == Spec => []ReleasedIsStopped
<1>1. IInv => ReleasedIsStopped
  BY DEF IInv, SafeInv
<1>2. QED
  BY Safe, <1>1, PTL

(* Detection stays off while a trainer lives, but for those who had looked *)
(* before the job was there (start_detection, _do_exit, check_once).       *)
THEOREM TrainerKept == Spec => []TrainerAlone
<1>1. IInv => TrainerAlone
  BY DEF IInv, SafeInv, JobAlone, JobActive, TrainerAlone
<1>2. QED
  BY Safe, <1>1, PTL

(* The same for the conversion of the job's model: between the end of the  *)
(* job and the beginning of its conversion there is no gap to slip in.     *)
THEOREM BuildKept == Spec => []BuildAlone
<1>1. IInv => BuildAlone
  BY DEF IInv, SafeInv, ConversionAlone, BuildAlone
<1>2. QED
  BY Safe, <1>1, PTL
=============================================================================
