----------------------------- MODULE FlowCommands -----------------------------
(***************************************************************************)
(* The nodes that change the device: start-stop.js, gpio.js, threshold.js, *)
(* detection-models.js, trigger.js and reset-stats.js.  For each, what it  *)
(* does with a message (Input), an event of its stream (Hear) and the end  *)
(* of a request (Reply).  `rest` are the requests that stay under way.     *)
(***************************************************************************)
EXTENDS FlowNode

(* The callback asks or orders something and shows nothing.                *)
Send(rest, q) == requests' = Append(rest, q) /\ UNCHANGED node

Show(rest, b) == requests' = rest /\ badge' = b /\ UNCHANGED <<cache, output>>

Ignore(rest) == requests' = rest /\ UNCHANGED node

(* The callback ends; the node knows r is v now, shows it, and sends a     *)
(* message if one is due: news, or what it had done.  Messages at an       *)
(* interval are not counted.                                               *)
Told(v) == [claims |-> {}, value |-> v]
Did(orders, v) == [claims |-> orders, value |-> v]
Emit(m) ==
    /\ sent' = IF setup.mode = "interval" THEN sent ELSE sent + 1
    /\ unfounded' = (unfounded \/ ~(m.claims \subseteq carried))

Learn(rest, r, v, due, m) ==
    /\ requests' = rest /\ cache' = v /\ badge' = Shown(r, v)
    /\ IF due THEN Emit(m) ELSE UNCHANGED output

(* Variant: the node's own writes are read back too.                       *)
Always(e) == TRUE

(* An event that invalidates what the node shows, if it is not its own.    *)
Invalidates(e) == ~e.own

(* The messages of a flow: an action or scope of its own or none, a truth  *)
(* value, a number or a name or none, a threshold type.                    *)
Modes == [kind \in {"start-stop", "gpio", "models", "trigger", "reset"} |->
            CASE kind = "start-stop" -> {"start", "stop", "toggle", "payload"}
              [] kind = "gpio" -> {"high", "low", "toggle", "payload"}
              [] kind = "models" -> {"list", "select"}
              [] kind = "trigger" -> {"enable", "disable", "toggle", "payload"}
              [] kind = "reset" -> {"counter", "stats", "all"}]

Messages(c) ==
    IF c.kind \in DOMAIN Modes
    THEN [mode : Modes[c.kind] \cup {""}, level : 0..1, value : {2, Unknown}, other : {FALSE}]
    ELSE [mode : {""}, level : {0}, value : {1, Unknown}, other : BOOLEAN]

Mode(m) == IF m.mode # "" THEN m.mode ELSE setup.mode

-----------------------------------------------------------------------------
(* start-stop                                                              *)

(* applyRunning.                                                           *)
ApplyRunning(rest, v, emit) ==
    Learn(rest, "running", v, emit /\ cache # Unknown /\ cache # v, Told(v))

(* Variant: the snapshot is ignored.                                       *)
EventsOnly(e, rest) ==
    \/ e.of = "snapshot" /\ Ignore(rest)
    \/ e.of = "running" /\ ApplyRunning(rest, e.value, TRUE)

(* seedFromStatus on a snapshot; a change comes with its value.            *)
StartStopHear(e, rest) ==
    \/ e.of = "snapshot" /\ Send(rest, Ask("seed", "running"))
    \/ e.of = "running" /\ ApplyRunning(rest, e.value, TRUE)

StartStopInput(m, rest) ==
    \/ Mode(m) = "start" /\ Send(rest, Order("post", "running", 1))
    \/ Mode(m) = "stop" /\ Send(rest, Order("post", "running", 0))
    \/ Mode(m) = "payload" /\ Send(rest, Order("post", "running", m.level))
    \/ /\ Mode(m) = "toggle"
       /\ IF cache = Unknown THEN Send(rest, Ask("toggle", "running"))
          ELSE Send(rest, Order("post", "running", 1 - cache))

StartStopReply(q, rest) ==
    \/ q.then = "seed" /\ Failed(q) /\ Ignore(rest)
    \/ q.then = "seed" /\ Ok(q) /\ ApplyRunning(rest, q.got, FALSE)
    \/ q.then = "toggle" /\ Failed(q) /\ Show(rest, Text("unreachable"))
    \/ q.then = "toggle" /\ Ok(q) /\ Send(rest, Order("post", "running", 1 - q.got))
    \/ q.then = "post" /\ Failed(q) /\ Show(rest, Text("error"))
    \/ q.then = "post" /\ Ok(q) /\ Ignore(rest)

-----------------------------------------------------------------------------
(* gpio                                                                    *)

GpioHear(e, rest) ==
    IF Invalidates(e)
    THEN Send(rest, Ask(IF e.of = "snapshot" THEN "read" ELSE "event", "pin"))
    ELSE Ignore(rest)

GpioInput(m, rest) ==
    \/ Mode(m) = "high" /\ Send(rest, Order("post", "pin", 1))
    \/ Mode(m) = "low" /\ Send(rest, Order("post", "pin", 0))
    \/ Mode(m) = "payload" /\ Send(rest, Order("post", "pin", m.level))
    \/ /\ Mode(m) = "toggle"
       /\ IF cache = Unknown THEN Send(rest, Ask("toggle", "pin"))
          ELSE Send(rest, Order("post", "pin", 1 - cache))

(* readPinFromStatus and setPin.                                           *)
GpioReply(q, rest) ==
    \/ q.then \in {"read", "event", "toggle"} /\ Failed(q) /\ Show(rest, Text("unreachable"))
    \/ /\ q.then \in {"read", "event"} /\ Ok(q)
       /\ Learn(rest, "pin", q.got, q.then = "event" /\ cache # Unknown /\ cache # q.got, Told(q.got))
    \/ q.then = "toggle" /\ Ok(q) /\ Send(rest, Order("post", "pin", 1 - q.got))
    \/ q.then = "post" /\ Failed(q) /\ Show(rest, Text("error"))
    \/ q.then = "post" /\ Ok(q) /\ Learn(rest, q.of, q.to, TRUE, Did({<<q.of, q.to>>}, q.to))

-----------------------------------------------------------------------------
(* threshold                                                               *)

OtherType(t) == IF t = "confidence" THEN "overlay" ELSE "confidence"

(* Variant: what does not parse is taken as it is.                         *)
Unparsed(c) == c.value

(* node.value starts as what was configured: 0.5 (here 1) if that is no    *)
(* number, and if it is 0.                                                 *)
Configured(c) == IF c.value \in {0, Unknown} THEN 1 ELSE c.value

ThresholdHear(e, rest) ==
    IF Invalidates(e)
    THEN Send(rest, Ask(IF e.of = "snapshot" THEN "read" ELSE "event", setup.mode))
    ELSE Ignore(rest)

(* Without a number in the message, what the node synchronised last goes.  *)
ThresholdInput(m, rest) ==
    Send(rest, Order("post", IF m.other THEN OtherType(setup.mode) ELSE setup.mode,
                     IF m.value = Unknown THEN cache ELSE m.value))

(* readCurrentThresholdFromStatus, and the answer to an order: its value   *)
(* becomes the node's, whichever threshold it was for.                     *)
ThresholdReply(q, rest) ==
    \/ q.then \in {"read", "event"} /\ Failed(q) /\ Show(rest, Text("unreachable"))
    \/ q.then \in {"read", "event"} /\ Ok(q) /\ Learn(rest, q.of, q.got, q.then = "event", Told(q.got))
    \/ q.then = "post" /\ Failed(q) /\ Show(rest, Text("error"))
    \/ q.then = "post" /\ Ok(q) /\ Learn(rest, q.of, q.to, TRUE, Did({<<q.of, q.to>>}, q.to))

-----------------------------------------------------------------------------
(* detection-models                                                        *)

ModelsHear(e, rest) ==
    IF Invalidates(e)
    THEN Send(rest, Ask(IF e.of = "snapshot" THEN "read" ELSE "event", "model"))
    ELSE Ignore(rest)

ModelsInput(m, rest) ==
    \/ Mode(m) = "list" /\ Send(rest, Ask("list", "model"))
    \/ /\ Mode(m) = "select"
       /\ IF m.value = Unknown THEN Show(rest, Text("no model name"))
          ELSE Send(rest, Order("post", "model", m.value))

(* fetchModels, and the answer to a selection.                             *)
ModelsReply(q, rest) ==
    \/ Failed(q) /\ Show(rest, Text("error"))
    \/ q.then # "post" /\ Ok(q) /\ Learn(rest, "model", q.got, q.then # "read", Told(q.got))
    \/ q.then = "post" /\ Ok(q) /\ Learn(rest, q.of, q.to, TRUE, Did({<<q.of, q.to>>}, q.to))

-----------------------------------------------------------------------------
(* trigger                                                                 *)

(* The state is read before whatever the message asks for.                 *)
TriggerInput(m, rest) ==
    Send(rest, Ask(IF Mode(m) = "payload" THEN IF m.level = 1 THEN "enable" ELSE "disable"
                   ELSE Mode(m), "trigger"))

TriggerReply(q, rest) ==
    \/ q.then = "toggle" /\ Failed(q) /\ Show(rest, Text("unreachable"))
    \/ q.then = "toggle" /\ Ok(q) /\ Send(rest, Order("post", "trigger", 1 - q.got))
    \/ q.then = "enable" /\ Send(rest, Order("post", "trigger", 1))
    \/ q.then = "disable" /\ Send(rest, Order("post", "trigger", 0))
    \/ q.then = "post" /\ Failed(q) /\ Show(rest, Text("error"))
    \/ q.then = "post" /\ Ok(q) /\ Learn(rest, q.of, q.to, TRUE, Did({<<q.of, q.to>>}, q.to))

-----------------------------------------------------------------------------
(* reset-stats                                                             *)

ResetInput(m, rest) ==
    \/ Mode(m) = "counter" /\ Send(rest, Order("counter", "counter", 0))
    \/ Mode(m) = "stats" /\ Send(rest, Order("stats", "frames", 0))
    \/ Mode(m) = "all" /\ Send(rest, Order("all", "counter", 0))

(* What a message about a scope says was reset.                            *)
Resets(scope) ==
    CASE scope = "counter" -> {<<"counter", 0>>}
      [] scope = "stats" -> {<<"frames", 0>>}
      [] scope = "all" -> {<<"counter", 0>>, <<"frames", 0>>}

(* resetCounter, resetStats and done.                                      *)
ResetReply(q, rest) ==
    \/ Failed(q) /\ Show(rest, Text("error"))
    \/ Ok(q) /\ q.of = "counter" /\ q.then = "all" /\ Send(rest, Order("all", "frames", 0))
    \/ Ok(q) /\ ~(q.of = "counter" /\ q.then = "all") /\ Learn(rest, q.of, 0, TRUE, Did(Resets(q.then), 0))
=============================================================================
