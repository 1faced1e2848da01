---------------------------- MODULE MCCameraRing ----------------------------
(***************************************************************************)
(* Small instances of CameraRing for TLC.                                  *)
(***************************************************************************)
EXTENDS CameraRing

CONSTANTS t1, t2, o1, d1, d2

(* A resolution change, a change of format and back.                       *)
MixedScripts == {<<d1, d2, Jpeg>>, <<Jpeg, d1, d2>>, <<d2, Jpeg, d1>>}

(* One thread on its own object: the inference-service's reader thread.    *)
OneReader == [t \in {t1} |-> o1]

=============================================================================
