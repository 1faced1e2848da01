------------------------------- MODULE GpuLease -------------------------------
(***************************************************************************)
(* What the training-service promises whoever asks it for the state of its *)
(* job (GetTraining): a trainer only lives while a job is reported active. *)
(* The api-gateway decides on that answer who may use the GPU              *)
(* (training/helpers.py, ACTIVE_JOB_STATUSES).                             *)
(***************************************************************************)

VARIABLE lease    \* "free"; "held", no trainer yet; "busy", one lives; "spent", it is gone

Init == lease = "free"

Claim   == lease = "free" /\ lease' = "held"
Launch  == lease = "held" /\ lease' = "busy"
Exit    == lease = "busy" /\ lease' = "spent"
Conclude == lease \in {"held", "spent"} /\ lease' = "free"

Next == Claim \/ Launch \/ Exit \/ Conclude

Spec == Init /\ [][Next]_lease
=============================================================================
