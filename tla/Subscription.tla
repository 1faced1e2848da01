----------------------------- MODULE Subscription -----------------------------
(***************************************************************************)
(* What subscribeSSE promises a node: as long as it is open, word of what  *)
(* was published, and of nothing else, in any portions; nothing later.     *)
(***************************************************************************)
EXTENDS Naturals

VARIABLES
    published,      \* how many events there were
    told,           \* those the subscriber heard of, or can read about
    open

vars == <<published, told, open>>

Init == published = 0 /\ told = {} /\ open = TRUE

Publish == published' = published + 1 /\ UNCHANGED <<told, open>>

Tell ==
    /\ open
    /\ \E news \in SUBSET (1..published) : told' = told \cup news
    /\ UNCHANGED <<published, open>>

Close == open' = FALSE /\ UNCHANGED <<published, told>>

Next == Publish \/ Tell \/ Close

Spec == Init /\ [][Next]_vars
=============================================================================
