------------------------------- MODULE FlowNode -------------------------------
(***************************************************************************)
(* A Conecsa node of a Node-RED flow and the device it works on: how the   *)
(* node finds the device (node-base.js, hub.js), request and subscribeSSE  *)
(* of http-client.js as a node sees them, the routes and events of the     *)
(* device's api-gateway, and its other clients.  FlowCommands and          *)
(* FlowFeeds have the nodes' own callbacks, FlowNodes puts all together.   *)
(*                                                                         *)
(* JavaScript runs one callback at a time: a callback is one action.       *)
(* Between two of them answers, events, messages and timers come in any    *)
(* order.  EventStream is a subscription in detail.                        *)
(***************************************************************************)
EXTENDS Integers, Sequences

CONSTANTS
    Setups,         \* the nodes looked at, see SetupType
    MaxDeeds,       \* bound: messages to the node, changes of the device by others
    MaxFaults,      \* bound: requests and event streams lost, hubs that close
    MaxOpen,        \* bound: requests under way when an event or message adds one
    MaxPolls        \* bound, by kind of node: requests under way when a timer adds one

Kinds == {"start-stop", "gpio", "threshold", "models", "trigger", "reset", "detection", "stats",
          "system"}

ASSUME FlowAssumption ==
    /\ {MaxDeeds, MaxFaults, MaxOpen} \subseteq Nat
    /\ \A kind \in Kinds : MaxPolls[kind] \in Nat

VARIABLES
    setup,          \* the node's configuration, fixed when it is deployed
    hubOpen,        \* the hub answers its Developer API
    device,         \* per resource, its value on the device
    unannounced,    \* changes by others whose event is not published yet
    requests,       \* requests under way, oldest first
    stream, inbox,  \* the subscription, and what it has yet to deliver
    cache,          \* isRunning, currentLevel, node.value, lastSignature, ...
    badge,          \* node.status
    timers,         \* the node's timers that are set
    closed,         \* the node was removed or redeployed
    deeds, faults

VARIABLES           \* history
    age,            \* changes of the device so far, whoever made them
    seen,           \* the age of the newest state the node was told
    slips,          \* what went wrong that nothing tells the node of
    carried,        \* <<resource, value>> orders of the node carried out
    earned, sent,   \* messages due so far, and sent
    unfounded       \* a message said the device did what it did not

world == <<hubOpen, device, unannounced, age>>
link == <<stream, inbox>>
output == <<sent, unfounded>>
node == <<cache, badge, output>>
told == <<seen, slips, earned>>
life == <<timers, closed>>
vars == <<setup, world, requests, link, node, told, life, carried, deeds, faults>>

Unknown == 9                      \* null or undefined ...
Never == 8                        \* ... and null where both occur
Resources == {"running", "pin", "trigger", "confidence", "overlay", "model",
              "counter", "frames", "scene", "stats", "metrics"}
Values(r) == IF r \in {"model", "scene", "stats"} THEN 0..2 ELSE 0..1

(* A badge: a text of its own, or what the node knows of a resource.       *)
Text(t) == <<t, Unknown>>
Shown(r, v) == <<r, v>>

-----------------------------------------------------------------------------
(* Finding the device.                                                     *)

(* inferenceBaseUrl: the node's address, INFERENCE_URL, the api-gateway.   *)
InferenceBaseUrl(c) ==
    IF c.url # "" THEN c.url ELSE IF c.env # "" THEN c.env ELSE "gateway"

(* HubNode.target: through the hub, with its API key and its CA.           *)
HubTarget(c) == [base |-> "hub", key |-> c.key, ca |-> c.ca, verify |-> c.verify]

(* resolveTarget: through the hub if it is deployed and a device is named, *)
(* directly in every other case.                                           *)
ResolveTarget(c) ==
    IF c.hub = "deployed" /\ c.named THEN HubTarget(c)
    ELSE [base |-> InferenceBaseUrl(c), key |-> "", ca |-> "", verify |-> FALSE]

(* Who turns a request away: nobody there, a certificate the CA that was   *)
(* loaded did not sign, 401 for the key, 503 while the hub is closed.      *)
TurnedAway(t) ==
    \/ t.base \notin {"gateway", "hub"}
    \/ t.base = "hub" /\ ((t.verify /\ t.ca # "hub") \/ t.key # "right" \/ ~hubOpen)

Blocked == TurnedAway(ResolveTarget(setup))

-----------------------------------------------------------------------------
(* request: its callback gets an error or the answer, once.                *)

Ask(then, r) == [then |-> then, of |-> r, to |-> Unknown, at |-> "sent", got |-> Unknown, age |-> 0]
Order(then, r, v) == [Ask(then, r) EXCEPT !.to = v]

Without(i) == SubSeq(requests, 1, i - 1) \o SubSeq(requests, i + 1, Len(requests))

Event(r, v, own, n) == [of |-> r, value |-> v, own |-> own, age |-> n]
Snapshot == Event("snapshot", Unknown, FALSE, 0)

(* EventService.publish: a stream that is open gets it.                    *)
Publish(e) == inbox' = IF stream = "up" THEN Append(inbox, e) ELSE inbox

(* The routes that refuse what is done already (400).                      *)
Declined(q) == q.of = "running" /\ q.to = device["running"]

(* Ages are kept where nothing makes up for an old answer.                 *)
Sensitive == {"start-stop", "models", "detection"}
Later == IF setup.kind \in Sensitive THEN age + 1 ELSE age

Slip(what) == IF setup.kind \in Sensitive THEN slips \cup {what} ELSE slips

(* A read is answered with what the device has at that moment ...          *)
Read(i) ==
    LET q == requests[i] IN
    /\ q.at = "sent" /\ q.to = Unknown /\ ~Blocked
    /\ requests' = [requests EXCEPT ![i].at = "answered", ![i].got = device[q.of], ![i].age = age]
    /\ UNCHANGED <<setup, world, link, node, told, life, carried, deeds, faults>>

(* ... an order is carried out ...                                         *)
Carry(i) ==
    LET q == requests[i] IN
    /\ q.at = "sent" /\ q.to # Unknown /\ ~Blocked /\ ~Declined(q)
    /\ device' = [device EXCEPT ![q.of] = q.to]
    /\ age' = Later
    /\ carried' = carried \cup {<<q.of, q.to>>}
    /\ requests' = [requests EXCEPT ![i].at = "done", ![i].got = q.to, ![i].age = Later]
    /\ UNCHANGED <<setup, hubOpen, unannounced, link, node, told, life, deeds, faults>>

(* ... and its event published before the answer goes out.                 *)
Announce(i) ==
    LET q == requests[i] IN
    /\ q.at = "done"
    /\ Publish(Event(q.of, q.to, TRUE, q.age))
    /\ requests' = [requests EXCEPT ![i].at = "answered"]
    /\ UNCHANGED <<setup, world, stream, node, told, life, carried, deeds, faults>>

(* Variant: an error status is handed over as an answer.                   *)
ErrorAnswered(q) == [q EXCEPT !.at = "answered", !.got = IF q.to = Unknown THEN 0 ELSE q.to]

(* httpError and req's "error": the callback will get an error.            *)
HttpError(q) == [q EXCEPT !.at = "failed"]

(* A status of 400 and more.                                               *)
Refuse(i) ==
    LET q == requests[i] IN
    /\ q.at = "sent" /\ (Blocked \/ (q.to # Unknown /\ Declined(q)))
    /\ requests' = [requests EXCEPT ![i] = HttpError(q)]
    /\ UNCHANGED <<setup, world, link, node, told, life, carried, deeds, faults>>

(* The connection fails before the gateway was reached, or (it makes a     *)
(* difference for an order) after.                                         *)
Fail(i) ==
    /\ requests[i].at = "sent" \/ (requests[i].at = "answered" /\ requests[i].to # Unknown)
    /\ faults < MaxFaults
    /\ faults' = faults + 1
    /\ requests' = [requests EXCEPT ![i].at = "failed"]
    /\ UNCHANGED <<setup, world, link, node, told, life, carried, deeds>>

Ok(q) == q.at = "answered"
Failed(q) == q.at = "failed"
-----------------------------------------------------------------------------
(* Others.                                                                 *)

Feeds == {"detection", "stats", "system"}

(* The resources that matter to a node.                                    *)
Concerns(c) ==
    CASE c.kind = "start-stop" -> {"running"}
      [] c.kind = "gpio"       -> {"pin"}
      [] c.kind = "threshold"  -> {"confidence", "overlay", "running"}
      [] c.kind = "models"     -> {"model"}
      [] c.kind = "trigger"    -> {"trigger"}
      [] c.kind = "reset"      -> {"counter", "frames"}
      [] c.kind = "detection"  -> {"scene"}
      [] c.kind = "stats"      -> {"stats"}
      [] c.kind = "system"     -> {"metrics"}

(* What is published at all.                                               *)
Announced == Resources \ {"counter", "frames", "scene", "metrics"}

(* Another client, or the device itself, changes something; its event, if  *)
(* there is one, is published later, and not in the order of the changes.  *)
(* How detection comes back from a restart of the inference-service is not *)
(* said, but the gateway passes on a snapshot when it is connected again;  *)
(* an activation that fails and cannot be undone ends it without a word.   *)
Change(r, v, how) ==
    /\ deeds < MaxDeeds /\ r \in Concerns(setup) /\ v \in Values(r) \ {device[r]}
    /\ how = "restart" => r = "running"
    /\ how = "undone" => r = "running" /\ v = 0
    /\ deeds' = deeds + 1 /\ age' = Later
    /\ device' = [device EXCEPT ![r] = v]
    /\ unannounced' = unannounced \cup
         (IF how = "restart" THEN {Snapshot}
          ELSE IF how = "undone" \/ r \notin Announced THEN {} ELSE {Event(r, v, FALSE, Later)})
    /\ slips' = IF how = "undone" THEN Slip("silent") ELSE slips
    /\ earned' = IF setup.kind \in Feeds THEN earned + 1 ELSE earned
    /\ UNCHANGED <<setup, hubOpen, requests, link, node, seen, life, carried, faults>>

(* The stats channel has no queue: what is sent is the latest value.       *)
PublishChange(e) ==
    /\ e \in unannounced
    /\ unannounced' = unannounced \ {e}
    /\ Publish(IF e.of = "stats" THEN [e EXCEPT !.value = device["stats"], !.age = age] ELSE e)
    /\ UNCHANGED <<setup, hubOpen, device, age, requests, stream, node, told,
                   life, carried, deeds, faults>>

HubSwitch ==
    /\ ResolveTarget(setup).base = "hub"
    /\ IF hubOpen THEN faults < MaxFaults /\ faults' = faults + 1 ELSE UNCHANGED faults
    /\ hubOpen' = ~hubOpen
    /\ UNCHANGED <<setup, device, unannounced, age, requests, link, node, told, life, carried,
                   deeds>>
=============================================================================
