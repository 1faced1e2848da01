----------------------------- MODULE LatestFrame -----------------------------
(***************************************************************************)
(* What a frame ring promises, with no memory, slots or counters in it: a  *)
(* producer publishes ever newer frames, some of which it may never finish, *)
(* and every client is shown published frames only, each newer than the    *)
(* one before.  Clients may skip frames (latest wins) and never go back.   *)
(***************************************************************************)
EXTENDS Naturals

CONSTANTS Clients, Frame    \* Frame: the numbers frames are known by

VARIABLES
    published,   \* the frames completely published so far
    shown        \* per client: the frame it was shown last, 0 before the first

latestVars == <<published, shown>>

Init ==
    /\ published = {}
    /\ shown = [c \in Clients |-> 0]

(* A newer frame is complete.                                              *)
Publish(f) ==
    /\ \A g \in published : g < f
    /\ published' = published \cup {f}
    /\ UNCHANGED shown

(* A client is shown a frame newer than the one it has.                    *)
Show(c, f) ==
    /\ f \in published
    /\ f > shown[c]
    /\ shown' = [shown EXCEPT ![c] = f]
    /\ UNCHANGED published

Next == \E f \in Frame : Publish(f) \/ \E c \in Clients : Show(c, f)

Spec == Init /\ [][Next]_latestVars
=============================================================================
