------------------------------- MODULE FlowNodes -------------------------------
(***************************************************************************)
(* Any one of the Conecsa nodes, the device and its other clients: the     *)
(* behaviours of FlowCommands and FlowFeeds, and what they promise.        *)
(***************************************************************************)
EXTENDS FlowFeeds, FiniteSets

(* What the editor's forms offer: an action, a scope, a threshold, a mode. *)
Choices(kind) ==
    CASE kind \in DOMAIN Modes -> Modes[kind]
      [] kind = "threshold" -> {"confidence", "overlay"}
      [] kind \in {"detection", "stats"} -> {"interval", "on-change"}
      [] kind = "system" -> {"on-demand", "interval"}

SetupType ==
    {c \in [kind : Kinds, mode : STRING, value : {0, 1, Unknown},
            hub : {"none", "deployed", "missing"}, named : BOOLEAN,
            key : STRING, ca : STRING, verify : BOOLEAN, url : STRING, env : STRING] :
        c.mode \in Choices(c.kind)}

ASSUME SetupAssumption == Setups \subseteq SetupType

Subscribes(c) == c.kind \in {"start-stop", "gpio", "threshold", "models", "stats"}

Init ==
    /\ setup \in Setups
    /\ hubOpen = TRUE /\ unannounced = {}
    /\ device = [r \in Resources |->
                    IF r \in {"counter", "frames", "overlay"} THEN 1
                    ELSE IF r = "stats" THEN Unknown ELSE 0]
    /\ requests = FirstRequests(setup)
    /\ stream = (IF Subscribes(setup) THEN "down" ELSE "none") /\ inbox = <<>>
    /\ cache = CASE setup.kind = "threshold" -> Configured(setup)
                 [] setup.kind = "stats" -> Never
                 [] OTHER -> Unknown
    /\ badge = Text("idle") /\ timers = TimersOf(setup) /\ closed = FALSE
    /\ deeds = 0 /\ faults = 0
    /\ age = 0 /\ seen = 0 /\ slips = {} /\ carried = {}
    /\ sent = 0 /\ earned = (IF setup.kind = "stats" THEN 1 ELSE 0)
    /\ unfounded = FALSE

-----------------------------------------------------------------------------
(* The subscription.                                                       *)

StreamError ==
    Text(CASE setup.kind = "start-stop" -> "unreachable"
           [] setup.kind = "stats" -> "error"
           [] OTHER -> "events unreachable")

(* A stream opens with a snapshot: go and look, or the statistics.         *)
Connect ==
    /\ stream = "down" /\ ~Blocked
    /\ stream' = "up"
    /\ inbox' = <<IF setup.kind = "stats" THEN Event("stats", device["stats"], FALSE, age)
                  ELSE Snapshot>>
    /\ UNCHANGED <<setup, world, requests, node, told, life, carried, deeds, faults>>

ConnectRefused ==
    /\ stream = "down" /\ Blocked
    /\ badge' = StreamError
    /\ UNCHANGED <<setup, world, requests, link, cache, output, told, life, carried, deeds, faults>>

(* It ends, or breaks with an error; what was on its way is lost.          *)
Drop ==
    /\ stream = "up" /\ faults < MaxFaults
    /\ faults' = faults + 1 /\ stream' = "down" /\ inbox' = <<>>
    /\ badge' \in {badge, StreamError}
    /\ UNCHANGED <<setup, world, requests, cache, output, told, life, carried, deeds>>

-----------------------------------------------------------------------------
(* The callbacks.                                                          *)

(* What the node learns of the device is as old as it is.                  *)
Compare(n) ==
    /\ seen' = IF n > seen THEN n ELSE seen
    /\ slips' = IF n < seen THEN Slip("overtaken") ELSE slips

(* The answers a node shows.                                               *)
Informs(q) == setup.kind = "start-stop" => q.then = "seed"

(* A message is due for what somebody else did, and a start-stop node      *)
(* hears of its own doings in no other way.                                *)
Due(e) == e.of # "snapshot" /\ setup.kind # "stats" /\ (e.own => setup.kind = "start-stop")

Hear ==
    /\ inbox # <<>> /\ Len(requests) < MaxOpen /\ inbox' = Tail(inbox)
    /\ LET e == Head(inbox) IN
        /\ \/ setup.kind = "start-stop" /\ StartStopHear(e, requests) /\ UNCHANGED timers
           \/ setup.kind = "gpio" /\ GpioHear(e, requests) /\ UNCHANGED timers
           \/ setup.kind = "threshold" /\ ThresholdHear(e, requests) /\ UNCHANGED timers
           \/ setup.kind = "models" /\ ModelsHear(e, requests) /\ UNCHANGED timers
           \/ setup.kind = "stats" /\ StatsHear(e, requests)
        /\ earned' = IF Due(e) THEN earned + 1 ELSE earned
        /\ IF e.of = "running" /\ setup.kind = "start-stop" THEN Compare(e.age)
           ELSE UNCHANGED <<seen, slips>>
    /\ UNCHANGED <<setup, world, stream, closed, carried, deeds, faults>>

Reply(i) ==
    LET q == requests[i]
        rest == Without(i)
    IN
    /\ Ok(q) \/ Failed(q)
    /\ \/ setup.kind = "start-stop" /\ StartStopReply(q, rest)
       \/ setup.kind = "gpio" /\ GpioReply(q, rest)
       \/ setup.kind = "threshold" /\ ThresholdReply(q, rest)
       \/ setup.kind = "models" /\ ModelsReply(q, rest)
       \/ setup.kind = "trigger" /\ TriggerReply(q, rest)
       \/ setup.kind = "reset" /\ ResetReply(q, rest)
       \/ setup.kind = "detection" /\ DetectionReply(q, rest)
       \/ setup.kind = "system" /\ SystemReply(q, rest)
    /\ \/ Failed(q) /\ slips' = Slip("failed") /\ UNCHANGED seen
       \/ Ok(q) /\ Informs(q) /\ Compare(q.age)
       \/ Ok(q) /\ ~Informs(q) /\ UNCHANGED <<seen, slips>>
    /\ UNCHANGED <<setup, world, link, earned, life, carried, deeds, faults>>

(* node.on("input"); a message of the node's is due for it, but not of a   *)
(* start-stop node, whose messages are about changes.                      *)
Input(m) ==
    /\ ~closed /\ deeds < MaxDeeds /\ Len(requests) < MaxOpen
    /\ deeds' = deeds + 1
    /\ \/ setup.kind = "start-stop" /\ StartStopInput(m, requests)
       \/ setup.kind = "gpio" /\ GpioInput(m, requests)
       \/ setup.kind = "threshold" /\ ThresholdInput(m, requests)
       \/ setup.kind = "models" /\ ModelsInput(m, requests)
       \/ setup.kind = "trigger" /\ TriggerInput(m, requests)
       \/ setup.kind = "reset" /\ ResetInput(m, requests)
       \/ setup.kind = "system" /\ SystemInput(m, requests)
    /\ earned' = IF setup.kind = "start-stop" THEN earned ELSE earned + 1
    /\ UNCHANGED <<setup, world, link, seen, slips, life, carried, faults>>

(* node.on("close"): answers under way still come.                         *)
Close ==
    /\ ~closed /\ closed' = TRUE
    /\ timers' = TimersLeft
    /\ stream' = "closed" /\ inbox' = <<>>
    /\ UNCHANGED <<setup, world, requests, node, told, carried, deeds, faults>>

-----------------------------------------------------------------------------
Transport(i) == Read(i) \/ Carry(i) \/ Announce(i) \/ Refuse(i)

Oldest == requests # <<>> /\ (Transport(1) \/ Reply(1))
Others == \E e \in unannounced : PublishChange(e)

Next ==
    \/ \E i \in DOMAIN requests : Transport(i) \/ Fail(i) \/ Reply(i)
    \/ \E r \in Resources, v \in 0..2, how \in {"request", "restart", "undone"} : Change(r, v, how)
    \/ Others \/ HubSwitch
    \/ Connect \/ ConnectRefused \/ Drop \/ Hear
    \/ \E m \in Messages(setup) : Input(m)
    \/ Poll \/ First \/ Flush \/ Close

(* Answers and events come, timers fire, connections are tried again, and  *)
(* a hub that was closed is opened.                                        *)
Fairness ==
    /\ WF_vars(Oldest) /\ WF_vars(Others) /\ WF_vars(Connect) /\ WF_vars(Hear)
    /\ WF_vars(Poll) /\ WF_vars(First) /\ WF_vars(~hubOpen /\ HubSwitch)

Spec == Init /\ [][Next]_vars /\ Fairness

-----------------------------------------------------------------------------
(* Properties.                                                             *)

(* What a node does with an answer.                                        *)
Callbacks == {"seed", "read", "event", "list", "toggle", "enable", "disable", "post",
              "counter", "stats", "all"}

RequestType ==
    [then : Callbacks, of : Resources, to : 0..2 \cup {Unknown},
     at : {"sent", "done", "answered", "failed"}, got : 0..2 \cup {Unknown}, age : Nat]

EventType == [of : Resources \cup {"snapshot"}, value : 0..2 \cup {Unknown}, own : BOOLEAN, age : Nat]

TypeOK ==
    /\ setup \in Setups /\ hubOpen \in BOOLEAN
    /\ \A r \in Resources : device[r] \in Values(r) \cup {Unknown}
    /\ \A e \in unannounced : e \in EventType
    /\ \A i \in DOMAIN requests : requests[i] \in RequestType
    /\ stream \in {"none", "down", "up", "closed"}
    /\ \A i \in DOMAIN inbox : inbox[i] \in EventType
    /\ cache \in IF setup.kind = "threshold" THEN 0..1 ELSE 0..2 \cup {Unknown, Never}
    /\ closed \in BOOLEAN
    /\ timers \subseteq {"poll", "first", "flush"}
    /\ slips \subseteq {"silent", "overtaken", "failed"}
    /\ {deeds, faults, age, seen, earned, sent} \subseteq Nat

(* A flow is told nothing twice: a node sends at most one message for what *)
(* it was asked, for what somebody else did and it heard of, and for what  *)
(* an on-change node found changed, whatever is polled, announced to it    *)
(* itself, or read again after a reconnection.  Reads of a detection node  *)
(* may overtake one another.                                               *)
NothingTwice == sent <= earned \/ (setup.kind = "detection" /\ "overtaken" \in slips)

(* A message that says the device did something is sent only when the      *)
(* device did all of it: each step of a reset, an order not turned away.   *)
DoneMeansDone == ~unfounded

(* What a node shows of its device in the end is true, whatever was lost,  *)
(* refused, changed by others or answered late on the way: always for the  *)
(* nodes that poll, for the others unless an answer or event came after a  *)
(* newer one, a request failed or a change was never announced.            *)
Watched ==
    CASE setup.kind = "start-stop" -> "running"
      [] setup.kind = "gpio" -> "pin"
      [] setup.kind = "threshold" -> setup.mode
      [] setup.kind = "models" -> "model"
      [] setup.kind = "detection" -> "scene"
      [] OTHER -> "stats"

InSync ==
    \/ closed
    \/ setup.kind \in {"gpio", "threshold", "start-stop", "models"}
        /\ badge \in {Shown(Watched, device[Watched]), Text("no model name")}
    \/ setup.kind \in {"detection", "stats"} /\ setup.mode = "on-change" /\ cache = device[Watched]
    \/ setup.kind \in {"trigger", "reset", "system"} \/ setup.mode = "interval"

(* A target nobody will ever answer for.                                   *)
Hopeless ==
    LET t == ResolveTarget(setup) IN
    t.base \notin {"gateway", "hub"} \/ (t.base = "hub" /\ ((t.verify /\ t.ca # "hub") \/ t.key # "right"))

Settles == <>[]InSync \/ Hopeless \/ (setup.kind \in {"start-stop", "models"} /\ <>(slips # {}))

(* A node that was removed comes to rest: nothing under way, no timer.     *)
CloseEnds == closed ~> [](requests = <<>> /\ timers = {})

(* "the badge reflects is_running in real time regardless of which client  *)
(* changed it" (start-stop.js:7): at least once changes stop, no request   *)
(* failed and no change was made without an event.                         *)
BadgeReflects ==
    <>[](closed \/ slips \cap {"failed", "silent"} # {} \/ badge = Shown("running", device["running"]))
=============================================================================
