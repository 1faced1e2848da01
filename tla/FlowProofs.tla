------------------------------ MODULE FlowProofs ------------------------------
(***************************************************************************)
(* What holds of every Conecsa node, however it is configured, for any     *)
(* number of messages, changes by others, failures and requests under way. *)
(***************************************************************************)
EXTENDS FlowNodes, FiniteSetTheorems, SequenceTheorems, TLAPS

-----------------------------------------------------------------------------
(* The inductive invariant, in named parts.                                *)

(* What a resource is worth on the device.                                 *)
Worth(r) == IF r = "stats" THEN 0..2 \cup {Unknown} ELSE Values(r)

Events == {e \in EventType : e.of \in Resources => e.value \in Worth(e.of)}

(* The callbacks a node's requests may have.                               *)
CallbacksOf(kind) ==
    CASE kind = "start-stop" -> {"seed", "toggle", "post"}
      [] kind = "gpio"       -> {"read", "event", "toggle", "post"}
      [] kind = "threshold"  -> {"read", "event", "post"}
      [] kind = "models"     -> {"read", "event", "list", "post"}
      [] kind = "trigger"    -> {"toggle", "enable", "disable", "post"}
      [] kind = "reset"      -> {"counter", "stats", "all"}
      [] kind \in {"detection", "system"} -> {"read"}
      [] kind = "stats"      -> {}

(* A reset of everything is under way in two steps: the second was asked   *)
(* for once the first was done.                                            *)
ResetForm(q) ==
    /\ q.to = 0
    /\ \/ q.then = "counter" /\ q.of = "counter"
       \/ q.then = "stats" /\ q.of = "frames"
       \/ q.then = "all" /\ q.of = "counter"
       \/ q.then = "all" /\ q.of = "frames" /\ <<"counter", 0>> \in carried

(* The requests that can be under way: an order that was answered was      *)
(* carried out, and a read that was answered has what the device had.      *)
Sound ==
    {q \in RequestType :
        /\ q.of \in Concerns(setup) /\ q.to \in Values(q.of) \cup {Unknown}
        /\ q.then \in CallbacksOf(setup.kind)
        /\ setup.kind = "reset" => ResetForm(q)
        /\ setup.kind # "reset" => (q.to # Unknown <=> q.then = "post")
        /\ q.at = "done" => q.to # Unknown
        /\ q.at \in {"done", "answered"} =>
              IF q.to = Unknown THEN q.got \in Values(q.of) ELSE <<q.of, q.to>> \in carried}

Device ==
    /\ setup \in Setups /\ hubOpen \in BOOLEAN
    /\ device \in [Resources -> 0..2 \cup {Unknown}]
    /\ \A r \in Resources : device[r] \in Worth(r)
    /\ unannounced \subseteq Events

Line == requests \in Seq(Sound)

Link == stream \in {"none", "down", "up", "closed"} /\ inbox \in Seq(Events)

(* A node only knows what its resource can be.                             *)
Cache ==
    cache \in CASE setup.kind = "threshold" -> 0..1
                [] setup.kind \in {"start-stop", "gpio"} -> 0..1 \cup {Unknown}
                [] OTHER -> 0..2 \cup {Unknown, Never}

Timers ==
    /\ closed \in BOOLEAN
    /\ timers \subseteq {"poll", "first", "flush"}
    /\ "poll" \in timers => setup.kind \in {"gpio", "threshold", "detection", "system"}
    /\ "first" \in timers => setup.kind \in {"detection", "system"}
    /\ setup.kind = "system" /\ timers # {} => setup.mode = "interval"
    /\ "flush" \in timers => setup.kind = "stats" /\ setup.mode = "interval"

Counts ==
    /\ slips \subseteq {"silent", "overtaken", "failed"}
    /\ deeds \in Nat /\ faults \in Nat /\ age \in Nat /\ seen \in Nat /\ earned \in Nat /\ sent \in Nat

Inv == Device /\ Line /\ Link /\ Cache /\ Timers /\ Counts /\ DoneMeansDone

-----------------------------------------------------------------------------
(* Its second half is about the messages of a node.                        *)

(* The nodes that send a message for what they were asked, or heard of.    *)
Answering == {"gpio", "threshold", "models", "trigger", "reset", "system"}

(* The requests of theirs that may end in one.                             *)
Owes(q) == q.then # "read" \/ setup.kind = "system"
Debts(s) == {i \in DOMAIN s : Owes(s[i])}

Balance ==
    /\ setup.mode = "interval" => sent = 0
    /\ setup.kind = "start-stop" => sent <= earned
    /\ setup.kind \in Answering /\ setup.mode # "interval" =>
          sent + Cardinality(Debts(requests)) <= earned

(* What is known of the scene at an age: by the device, an answer under    *)
(* way, and the node.  At the start there is nothing to see.               *)
Saw(n, v) ==
    \/ n = 0 /\ v = 0
    \/ n = age /\ v = device["scene"]
    \/ \E i \in DOMAIN requests : Ok(requests[i]) /\ n = requests[i].age /\ v = requests[i].got
    \/ cache # Unknown /\ n = seen /\ v = cache

Agreed == \A n \in 0..age, v, w \in 0..9 : Saw(n, v) /\ Saw(n, w) => v = w

(* A node that compares what it sees with what it saw: while no answer was *)
(* overtaken it sent at most one message for each age it got past.         *)
Looking ==
    setup.kind = "detection" =>
        /\ seen <= age /\ earned = age
        /\ \A i \in DOMAIN requests : requests[i].age <= age
        /\ setup.mode = "on-change" /\ "overtaken" \notin slips =>
              Agreed /\ sent <= seen /\ (cache = Unknown => seen = 0)

(* A node that is told: what it knows, what it has yet to hear, and what   *)
(* the device has, in this order, and where one differs from the next.     *)
Heard ==
    [k \in 0..(Len(inbox) + 1) |->
        IF k = 0 THEN cache ELSE IF k <= Len(inbox) THEN inbox[k].value ELSE device["stats"]]

Turns(h, n) == {k \in 0..n : h[k] # h[k + 1]}

Listening ==
    /\ stream # "up" => inbox = <<>>
    /\ setup.kind = "stats" => \A e \in unannounced : e.of = "stats"
    /\ setup.kind = "stats" /\ setup.mode = "on-change" =>
          sent + Cardinality(Turns(Heard, Len(inbox))) <= earned

IInv == Inv /\ Balance /\ Looking /\ Listening

-----------------------------------------------------------------------------
(* Requests and events.                                                    *)

LEMMA WithoutSeq ==
  ASSUME NEW S, requests \in Seq(S), NEW i \in DOMAIN requests
  PROVE  Without(i) \in Seq(S)
  BY DEF Without

LEMMA SetupTypes ==
  ASSUME setup \in Setups
  PROVE  setup \in SetupType /\ setup.kind \in Kinds /\ setup.mode \in Choices(setup.kind)
  BY SetupAssumption DEF SetupType

(* More orders carried out do no harm to a request.                        *)
LEMMA SoundGrows ==
  ASSUME setup' = setup, carried \subseteq carried'
  PROVE  Sound \subseteq Sound'
  BY DEF Sound, ResetForm

LEMMA CallbackTypes ==
  ASSUME setup.kind \in Kinds
  PROVE  CallbacksOf(setup.kind) \subseteq Callbacks
  BY DEF CallbacksOf, Callbacks, Kinds

LEMMA AskSound ==
  ASSUME setup.kind \in Kinds, NEW r \in Concerns(setup), r \in Resources, setup.kind # "reset",
         NEW then \in CallbacksOf(setup.kind), then # "post"
  PROVE  Ask(then, r) \in Sound
  BY CallbackTypes DEF Ask, Sound, RequestType

LEMMA OrderSound ==
  ASSUME setup.kind \in Kinds, NEW r \in Concerns(setup), r \in Resources, NEW v \in Values(r), setup.kind # "reset",
         "post" \in CallbacksOf(setup.kind)
  PROVE  Order("post", r, v) \in Sound
  <1>1. v \in 0..2 /\ v # Unknown
    BY DEF Values, Unknown
  <1>2. Order("post", r, v) = [then |-> "post", of |-> r, to |-> v, at |-> "sent", got |-> Unknown, age |-> 0]
    BY DEF Order, Ask
  <1>3. Order("post", r, v) \in RequestType
    BY <1>1, <1>2 DEF RequestType, Callbacks
  <1>4. Order("post", r, v).at = "sent" /\ Order("post", r, v).to = v /\ Order("post", r, v).of = r
        /\ Order("post", r, v).then = "post"
    BY <1>2
  <1> QED
    BY <1>1, <1>3, <1>4 DEF Sound

LEMMA ResetSound ==
  ASSUME NEW r \in {"counter", "frames"}, setup.kind = "reset", NEW then \in {"counter", "stats", "all"},
         ResetForm(Order(then, r, 0))
  PROVE  Order(then, r, 0) \in Sound
  <1>1. Order(then, r, 0) = [then |-> then, of |-> r, to |-> 0, at |-> "sent", got |-> Unknown, age |-> 0]
    BY DEF Order, Ask
  <1>2. r \in Resources /\ r \in Concerns(setup) /\ then \in CallbacksOf(setup.kind) /\ 0 \in Values(r)
    BY DEF Resources, Concerns, CallbacksOf, Values
  <1> QED
    <2>1. Order(then, r, 0) \in RequestType
      BY <1>1, <1>2 DEF RequestType, Callbacks
    <2>2. Order(then, r, 0).at = "sent" /\ Order(then, r, 0).to = 0 /\ Order(then, r, 0).of = r
          /\ Order(then, r, 0).then = then
      BY <1>1
    <2> QED
      BY <1>2, <2>1, <2>2 DEF Sound, Unknown

-----------------------------------------------------------------------------
(* What a callback may do: at most one request more, one message, and the  *)
(* node believes what its resource can be.                                 *)
Reacts(rest) ==
    /\ requests' = rest \/ \E q \in Sound : requests' = Append(rest, q)
    /\ Cache' /\ ~unfounded' /\ (sent' = sent \/ (sent' = sent + 1 /\ setup.mode # "interval"))

LEMMA SendReacts ==
  ASSUME Inv, setup' = setup, NEW rest, NEW q \in Sound, Send(rest, q)
  PROVE  Reacts(rest)
  BY DEF Inv, Send, Reacts, Cache, DoneMeansDone, node, output

LEMMA ShowReacts ==
  ASSUME Inv, setup' = setup, NEW rest, NEW b, Show(rest, b) \/ Ignore(rest)
  PROVE  Reacts(rest)
  BY DEF Inv, Show, Ignore, Reacts, Cache, DoneMeansDone, node, output

LEMMA LearnReacts ==
  ASSUME Inv, setup' = setup, NEW rest, NEW r, NEW v, NEW due, NEW m,
         Learn(rest, r, v, due, m), m.claims \subseteq carried,
         v \in CASE setup.kind = "threshold" -> 0..1
                 [] setup.kind \in {"start-stop", "gpio"} -> 0..1 \cup {Unknown}
                 [] OTHER -> 0..2 \cup {Unknown, Never}
  PROVE  Reacts(rest)
  <1>1. Cache'
    BY DEF Learn, Cache
  <1>2. ~unfounded' /\ (sent' = sent \/ (sent' = sent + 1 /\ setup.mode # "interval"))
    BY DEF Inv, Learn, Emit, DoneMeansDone, output
  <1> QED
    BY <1>1, <1>2 DEF Learn, Reacts

LEMMA StartStopReacts ==
  ASSUME Inv, setup' = setup, setup.kind = "start-stop", NEW rest
  PROVE  /\ \A e \in Events : StartStopHear(e, rest) => Reacts(rest)
         /\ \A m \in Messages(setup) : StartStopInput(m, rest) => Reacts(rest)
         /\ \A q \in Sound : (Ok(q) \/ Failed(q)) /\ StartStopReply(q, rest) => Reacts(rest)
  <1>1. "running" \in Concerns(setup) /\ "running" \in Resources /\ Values("running") = 0..1
    BY DEF Concerns, Resources, Values
  <1>2. \A then \in {"seed", "toggle"} : Ask(then, "running") \in Sound
    <2>1. CallbacksOf(setup.kind) = {"seed", "toggle", "post"}
      BY DEF CallbacksOf
    <2> QED
      BY <1>1, <2>1, AskSound DEF Kinds
  <1>3. \A v \in 0..1 : Order("post", "running", v) \in Sound
    BY <1>1, OrderSound DEF CallbacksOf, Kinds
  <1>4. ASSUME NEW v \in 0..1, NEW emit, ApplyRunning(rest, v, emit) PROVE Reacts(rest)
    <2>1. Told(v).claims \subseteq carried
      BY DEF Told
    <2> QED
      BY <1>4, <2>1, LearnReacts DEF ApplyRunning
  <1>5. ASSUME NEW e \in Events, StartStopHear(e, rest) PROVE Reacts(rest)
    <2>1. CASE e.of = "running"
      BY <1>1, <1>4, <1>5, <2>1 DEF StartStopHear, Events, Worth
    <2> QED
      BY <1>2, <1>5, <2>1, SendReacts DEF StartStopHear
  <1>6. ASSUME NEW m \in Messages(setup), StartStopInput(m, rest) PROVE Reacts(rest)
    <2>1. m.level \in 0..1
      BY DEF Messages, Modes
    <2>2. cache \in 0..1 \cup {Unknown}
      BY DEF Inv, Cache
    <2>3. CASE cache = Unknown
      BY <1>2, <1>3, <1>6, <2>1, <2>3, SendReacts DEF StartStopInput
    <2>4. CASE cache \in 0..1
      <3>1. 1 - cache \in 0..1 /\ cache # Unknown
        BY <2>4 DEF Unknown
      <3> QED
        BY <1>2, <1>3, <1>6, <2>1, <3>1, SendReacts DEF StartStopInput
    <2> QED
      BY <2>2, <2>3, <2>4
  <1>7. ASSUME NEW q \in Sound, Ok(q) \/ Failed(q), StartStopReply(q, rest) PROVE Reacts(rest)
    <2>1. q.of = "running"
      BY DEF Sound, Concerns
    <2>2. q.then # "post" /\ Ok(q) => q.got \in 0..1 /\ 1 - q.got \in 0..1
      BY <1>1, <2>1 DEF Sound, Ok
    <2>3. CASE q.then = "seed" /\ Ok(q)
      BY <1>4, <1>7, <2>2, <2>3 DEF StartStopReply, Ok, Failed
    <2>4. CASE q.then = "toggle" /\ Ok(q)
      BY <1>3, <1>7, <2>2, <2>4, SendReacts DEF StartStopReply, Ok, Failed
    <2> QED
      BY <1>7, <2>3, <2>4, ShowReacts DEF StartStopReply
  <1> QED
    BY <1>5, <1>6, <1>7

(* A request that ended well, and what it was for.                         *)
LEMMA Answered ==
  ASSUME NEW q \in Sound, Ok(q)
  PROVE  /\ q.to = Unknown => q.got \in Values(q.of)
         /\ q.to # Unknown => q.to \in Values(q.of) /\ <<q.of, q.to>> \in carried
  BY DEF Sound, Ok

(* The message about an order that was answered tells the truth.           *)
LEMMA PostReacts ==
  ASSUME Inv, setup' = setup, NEW rest, NEW q \in Sound, Ok(q), q.then = "post", setup.kind # "reset",
         Learn(rest, q.of, q.to, TRUE, Did({<<q.of, q.to>>}, q.to)),
         setup.kind \in {"threshold", "start-stop", "gpio"} => Values(q.of) = 0..1
  PROVE  Reacts(rest)
  <1>1. q.to # Unknown
    BY DEF Sound
  <1>2. q.to \in Values(q.of) /\ Did({<<q.of, q.to>>}, q.to).claims \subseteq carried
    BY <1>1, Answered DEF Did
  <1>3. q.to \in 0..2
    BY <1>2 DEF Values
  <1> QED
    BY <1>2, <1>3, LearnReacts

(* The message about what a read found claims nothing.                     *)
LEMMA ReadReacts ==
  ASSUME Inv, setup' = setup, NEW rest, NEW r, NEW v, NEW due, NEW q \in Sound, Ok(q), q.to = Unknown,
         v = q.got, Learn(rest, r, v, due, Told(v)),
         setup.kind \in {"threshold", "start-stop", "gpio"} => Values(q.of) = 0..1
  PROVE  Reacts(rest)
  <1>1. q.got \in Values(q.of) /\ Told(v).claims \subseteq carried
    BY Answered DEF Told
  <1>2. q.got \in 0..2
    BY <1>1 DEF Values
  <1> QED
    BY <1>1, <1>2, LearnReacts

LEMMA GpioReacts ==
  ASSUME Inv, setup' = setup, setup.kind = "gpio", NEW rest
  PROVE  /\ \A e \in Events : GpioHear(e, rest) => Reacts(rest)
         /\ \A m \in Messages(setup) : GpioInput(m, rest) => Reacts(rest)
         /\ \A q \in Sound : (Ok(q) \/ Failed(q)) /\ GpioReply(q, rest) => Reacts(rest)
  <1>1. "pin" \in Concerns(setup) /\ "pin" \in Resources /\ Values("pin") = 0..1
    BY DEF Concerns, Resources, Values
  <1>2. \A then \in {"read", "event", "toggle"} : Ask(then, "pin") \in Sound
    <2>1. CallbacksOf(setup.kind) = {"read", "event", "toggle", "post"}
      BY DEF CallbacksOf
    <2> QED
      BY <1>1, <2>1, AskSound DEF Kinds
  <1>3. \A v \in 0..1 : Order("post", "pin", v) \in Sound
    BY <1>1, OrderSound DEF CallbacksOf, Kinds
  <1>4. ASSUME NEW e \in Events, GpioHear(e, rest) PROVE Reacts(rest)
    BY <1>2, <1>4, SendReacts, ShowReacts DEF GpioHear
  <1>5. ASSUME NEW m \in Messages(setup), GpioInput(m, rest) PROVE Reacts(rest)
    <2>1. m.level \in 0..1
      BY DEF Messages, Modes
    <2>2. cache \in 0..1 \cup {Unknown}
      BY DEF Inv, Cache
    <2>3. CASE cache = Unknown
      BY <1>2, <1>3, <1>5, <2>1, <2>3, SendReacts DEF GpioInput
    <2>4. CASE cache \in 0..1
      <3>1. 1 - cache \in 0..1 /\ cache # Unknown
        BY <2>4 DEF Unknown
      <3> QED
        BY <1>2, <1>3, <1>5, <2>1, <3>1, SendReacts DEF GpioInput
    <2> QED
      BY <2>2, <2>3, <2>4
  <1>6. ASSUME NEW q \in Sound, Ok(q) \/ Failed(q), GpioReply(q, rest) PROVE Reacts(rest)
    <2>1. q.of = "pin" /\ (q.to # Unknown <=> q.then = "post")
      BY DEF Sound, Concerns
    <2>2. CASE Failed(q)
      BY <1>6, <2>2, ShowReacts DEF GpioReply, Ok, Failed
    <2>3. CASE Ok(q) /\ q.then \in {"read", "event"}
      BY <1>1, <1>6, <2>1, <2>3, ReadReacts DEF GpioReply, Ok, Failed
    <2>4. CASE Ok(q) /\ q.then = "toggle"
      <3>1. q.got \in 0..1
        <4>1. q.to = Unknown
          BY <2>1, <2>4
        <4> QED
          BY <1>1, <2>1, <2>4, <4>1, Answered
      <3>2. 1 - q.got \in 0..1
        BY <3>1
      <3> QED
        BY <1>3, <1>6, <2>4, <3>2, SendReacts DEF GpioReply, Ok, Failed
    <2>5. CASE Ok(q) /\ q.then = "post"
      BY <1>1, <1>6, <2>1, <2>5, PostReacts DEF GpioReply, Ok, Failed
    <2> QED
      BY <1>6, <2>2, <2>3, <2>4, <2>5 DEF GpioReply
  <1> QED
    BY <1>4, <1>5, <1>6

LEMMA ThresholdReacts ==
  ASSUME Inv, setup' = setup, setup.kind = "threshold", NEW rest
  PROVE  /\ \A e \in Events : ThresholdHear(e, rest) => Reacts(rest)
         /\ \A m \in Messages(setup) : ThresholdInput(m, rest) => Reacts(rest)
         /\ \A q \in Sound : (Ok(q) \/ Failed(q)) /\ ThresholdReply(q, rest) => Reacts(rest)
  <1>1. setup.mode \in {"confidence", "overlay"}
    BY SetupTypes DEF Inv, Device, Choices, Modes
  <1>2. \A r \in Concerns(setup) : Values(r) = 0..1
    BY DEF Concerns, Values
  <1>3. {"confidence", "overlay"} \subseteq Concerns(setup) \cap Resources
    BY DEF Concerns, Resources
  <1>4. \A then \in {"read", "event"} : Ask(then, setup.mode) \in Sound
    <2>1. CallbacksOf(setup.kind) = {"read", "event", "post"}
      BY DEF CallbacksOf
    <2> QED
      BY <1>1, <1>3, <2>1, AskSound DEF Kinds
  <1>5. \A r \in {"confidence", "overlay"}, v \in 0..1 : Order("post", r, v) \in Sound
    BY <1>2, <1>3, OrderSound DEF CallbacksOf, Kinds
  <1>6. ASSUME NEW e \in Events, ThresholdHear(e, rest) PROVE Reacts(rest)
    BY <1>4, <1>6, SendReacts, ShowReacts DEF ThresholdHear
  <1>7. ASSUME NEW m \in Messages(setup), ThresholdInput(m, rest) PROVE Reacts(rest)
    <2>1. m.value \in {1, Unknown} /\ cache \in 0..1
      BY DEF Inv, Cache, Messages, Modes
    <2>2. OtherType(setup.mode) \in {"confidence", "overlay"}
      BY DEF OtherType
    <2> QED
      BY <1>1, <1>5, <1>7, <2>1, <2>2, SendReacts DEF ThresholdInput
  <1>8. ASSUME NEW q \in Sound, Ok(q) \/ Failed(q), ThresholdReply(q, rest) PROVE Reacts(rest)
    <2>1. Values(q.of) = 0..1 /\ (q.to # Unknown <=> q.then = "post")
      BY <1>2 DEF Sound
    <2>2. CASE Failed(q)
      BY <1>8, <2>2, ShowReacts DEF ThresholdReply, Ok, Failed
    <2>3. CASE Ok(q) /\ q.then \in {"read", "event"}
      BY <1>8, <2>1, <2>3, ReadReacts DEF ThresholdReply, Ok, Failed
    <2>4. CASE Ok(q) /\ q.then = "post"
      BY <1>8, <2>1, <2>4, PostReacts DEF ThresholdReply, Ok, Failed
    <2> QED
      BY <1>8, <2>2, <2>3, <2>4 DEF ThresholdReply
  <1> QED
    BY <1>6, <1>7, <1>8

LEMMA ModelsReacts ==
  ASSUME Inv, setup' = setup, setup.kind = "models", NEW rest
  PROVE  /\ \A e \in Events : ModelsHear(e, rest) => Reacts(rest)
         /\ \A m \in Messages(setup) : ModelsInput(m, rest) => Reacts(rest)
         /\ \A q \in Sound : (Ok(q) \/ Failed(q)) /\ ModelsReply(q, rest) => Reacts(rest)
  <1>1. "model" \in Concerns(setup) /\ "model" \in Resources /\ 2 \in Values("model")
    BY DEF Concerns, Resources, Values
  <1>2. \A then \in {"read", "event", "list"} : Ask(then, "model") \in Sound
    <2>1. CallbacksOf(setup.kind) = {"read", "event", "list", "post"}
      BY DEF CallbacksOf
    <2> QED
      BY <1>1, <2>1, AskSound DEF Kinds
  <1>3. Order("post", "model", 2) \in Sound
    BY <1>1, OrderSound DEF CallbacksOf, Kinds
  <1>4. ASSUME NEW e \in Events, ModelsHear(e, rest) PROVE Reacts(rest)
    BY <1>2, <1>4, SendReacts, ShowReacts DEF ModelsHear
  <1>5. ASSUME NEW m \in Messages(setup), ModelsInput(m, rest) PROVE Reacts(rest)
    <2>1. m.value \in {2, Unknown}
      BY DEF Messages, Modes
    <2> QED
      BY <1>2, <1>3, <1>5, <2>1, SendReacts, ShowReacts DEF ModelsInput
  <1>6. ASSUME NEW q \in Sound, Ok(q) \/ Failed(q), ModelsReply(q, rest) PROVE Reacts(rest)
    <2>1. q.to # Unknown <=> q.then = "post"
      BY DEF Sound
    <2>2. CASE Failed(q)
      BY <1>6, <2>2, ShowReacts DEF ModelsReply, Ok, Failed
    <2>3. CASE Ok(q) /\ q.then # "post"
      BY <1>6, <2>1, <2>3, ReadReacts DEF ModelsReply, Ok, Failed
    <2>4. CASE Ok(q) /\ q.then = "post"
      BY <1>6, <2>1, <2>4, PostReacts DEF ModelsReply, Ok, Failed
    <2> QED
      BY <1>6, <2>2, <2>3, <2>4
  <1> QED
    BY <1>4, <1>5, <1>6

LEMMA TriggerReacts ==
  ASSUME Inv, setup' = setup, setup.kind = "trigger", NEW rest
  PROVE  /\ \A m \in Messages(setup) : TriggerInput(m, rest) => Reacts(rest)
         /\ \A q \in Sound : (Ok(q) \/ Failed(q)) /\ TriggerReply(q, rest) => Reacts(rest)
  <1>1. "trigger" \in Concerns(setup) /\ "trigger" \in Resources /\ Values("trigger") = 0..1
    BY DEF Concerns, Resources, Values
  <1>2. \A then \in {"toggle", "enable", "disable"} : Ask(then, "trigger") \in Sound
    <2>1. CallbacksOf(setup.kind) = {"toggle", "enable", "disable", "post"}
      BY DEF CallbacksOf
    <2> QED
      BY <1>1, <2>1, AskSound DEF Kinds
  <1>3. \A v \in 0..1 : Order("post", "trigger", v) \in Sound
    BY <1>1, OrderSound DEF CallbacksOf, Kinds
  <1>4. ASSUME NEW m \in Messages(setup), TriggerInput(m, rest) PROVE Reacts(rest)
    <2>1. setup.mode \in Modes["trigger"]
      BY SetupTypes DEF Inv, Device, Choices, Modes
    <2>2. Mode(m) \in {"enable", "disable", "toggle", "payload"}
      BY <2>1 DEF Mode, Messages, Modes
    <2> QED
      BY <1>2, <1>4, <2>2, SendReacts DEF TriggerInput
  <1>5. ASSUME NEW q \in Sound, Ok(q) \/ Failed(q), TriggerReply(q, rest) PROVE Reacts(rest)
    <2>1. q.of = "trigger" /\ (q.to # Unknown <=> q.then = "post")
      BY DEF Sound, Concerns
    <2>2. CASE q.then \in {"enable", "disable"}
      <3>1. Send(rest, Order("post", "trigger", 0)) \/ Send(rest, Order("post", "trigger", 1))
        BY <1>5, <2>2 DEF TriggerReply
      <3>2. 0 \in 0..1 /\ 1 \in 0..1
        OBVIOUS
      <3> QED
        BY <1>3, <3>1, <3>2, SendReacts
    <2>3. CASE Failed(q) /\ q.then \notin {"enable", "disable"}
      BY <1>5, <2>3, ShowReacts DEF TriggerReply, Ok, Failed
    <2>4. CASE Ok(q) /\ q.then = "toggle"
      <3>1. q.got \in 0..1
        <4>1. q.to = Unknown
          BY <2>1, <2>4
        <4> QED
          BY <1>1, <2>1, <2>4, <4>1, Answered
      <3>2. 1 - q.got \in 0..1
        BY <3>1
      <3> QED
        BY <1>3, <1>5, <2>4, <3>2, SendReacts DEF TriggerReply, Ok, Failed
    <2>5. CASE Ok(q) /\ q.then = "post"
      BY <1>5, <2>1, <2>5, PostReacts DEF TriggerReply, Ok, Failed
    <2> QED
      BY <1>5, <2>2, <2>3, <2>4, <2>5 DEF TriggerReply
  <1> QED
    BY <1>4, <1>5

(* A reset of everything says so when both its steps were done.            *)
LEMMA ResetReacts ==
  ASSUME Inv, setup' = setup, setup.kind = "reset", NEW rest
  PROVE  /\ \A m \in Messages(setup) : ResetInput(m, rest) => Reacts(rest)
         /\ \A q \in Sound : (Ok(q) \/ Failed(q)) /\ ResetReply(q, rest) => Reacts(rest)
  <1>1. ASSUME NEW m \in Messages(setup), ResetInput(m, rest) PROVE Reacts(rest)
    <2>1. /\ Order("counter", "counter", 0) \in Sound
          /\ Order("stats", "frames", 0) \in Sound
          /\ Order("all", "counter", 0) \in Sound
      BY ResetSound DEF ResetForm, Order, Ask
    <2> QED
      BY <1>1, <2>1, SendReacts DEF ResetInput
  <1>2. ASSUME NEW q \in Sound, Ok(q) \/ Failed(q), ResetReply(q, rest) PROVE Reacts(rest)
    <2>1. ResetForm(q) /\ (Ok(q) => <<q.of, 0>> \in carried)
      BY DEF Sound, ResetForm, Ok, Unknown
    <2>2. CASE Failed(q)
      BY <1>2, <2>2, ShowReacts DEF ResetReply, Ok, Failed
    <2>3. CASE Ok(q) /\ q.of = "counter" /\ q.then = "all"
      <3>1. Order("all", "frames", 0) \in Sound
        BY <2>1, <2>3, ResetSound DEF ResetForm, Order, Ask
      <3> QED
        BY <1>2, <2>3, <3>1, SendReacts DEF ResetReply, Ok, Failed
    <2>4. CASE Ok(q) /\ ~(q.of = "counter" /\ q.then = "all")
      <3>1. Did(Resets(q.then), 0).claims \subseteq carried
        BY <2>1, <2>4 DEF Did, Resets, ResetForm
      <3> QED
        <4>1. Learn(rest, q.of, 0, TRUE, Did(Resets(q.then), 0))
          BY <1>2, <2>4 DEF ResetReply, Ok, Failed
        <4>2. 0 \in 0..2
          OBVIOUS
        <4> QED
          BY <3>1, <4>1, <4>2, LearnReacts
    <2> QED
      BY <1>2, <2>2, <2>3, <2>4
  <1> QED
    BY <1>1, <1>2

LEMMA FeedsReact ==
  ASSUME Inv, setup' = setup, NEW rest
  PROVE  /\ \A q \in Sound : setup.kind = "detection" /\ (Ok(q) \/ Failed(q)) /\ DetectionReply(q, rest)
                                => Reacts(rest)
         /\ \A e \in Events : setup.kind = "stats" /\ StatsHear(e, rest) => Reacts(rest)
         /\ \A m \in Messages(setup) : setup.kind = "system" /\ SystemInput(m, rest) => Reacts(rest)
         /\ \A q \in Sound : setup.kind = "system" /\ (Ok(q) \/ Failed(q)) /\ SystemReply(q, rest)
                                => Reacts(rest)
  <1>1. ASSUME NEW q \in Sound, setup.kind = "detection", Ok(q) \/ Failed(q), DetectionReply(q, rest)
        PROVE  Reacts(rest)
    <2>1. q.to = Unknown
      BY <1>1 DEF Sound, CallbacksOf
    <2> QED
      BY <1>1, <2>1, ReadReacts, ShowReacts DEF DetectionReply
  <1>2. ASSUME NEW e \in Events, setup.kind = "stats", StatsHear(e, rest) PROVE Reacts(rest)
    <2>1. e.value \in 0..2 \cup {Unknown, Never} /\ Told(e.value).claims \subseteq carried
      BY DEF Events, EventType, Told
    <2>2. CASE Learn(rest, "stats", e.value, TRUE, Told(e.value))
      BY <1>2, <2>1, <2>2, LearnReacts
    <2>3. CASE Ignore(rest)
      BY <2>3, ShowReacts
    <2>4. CASE requests' = rest /\ cache' = e.value /\ UNCHANGED <<badge, output>>
      BY <1>2, <2>1, <2>4 DEF Inv, Reacts, Cache, DoneMeansDone, output
    <2> QED
      BY <1>2, <2>2, <2>3, <2>4 DEF StatsHear
  <1>3. ASSUME NEW m \in Messages(setup), setup.kind = "system", SystemInput(m, rest) PROVE Reacts(rest)
    <2>1. Ask("read", "metrics") \in Sound
      BY <1>3, AskSound DEF Concerns, Resources, CallbacksOf, Kinds
    <2> QED
      BY <1>3, <2>1, SendReacts DEF SystemInput
  <1>4. ASSUME NEW q \in Sound, setup.kind = "system", Ok(q) \/ Failed(q), SystemReply(q, rest)
        PROVE  Reacts(rest)
    <2>1. q.to = Unknown
      BY <1>4 DEF Sound, CallbacksOf
    <2> QED
      BY <1>4, <2>1, ReadReacts, ShowReacts DEF SystemReply
  <1> QED
    BY <1>1, <1>2, <1>3, <1>4

-----------------------------------------------------------------------------
(* The steps.                                                              *)

(* A request that was changed in its place.                                *)
LEMMA InPlace ==
  ASSUME Inv, setup' = setup, carried \subseteq carried',
         NEW i \in DOMAIN requests, NEW q \in Sound', requests' = [requests EXCEPT ![i] = q]
  PROVE  Line'
  <1>1. requests \in Seq(Sound')
    BY SoundGrows DEF Inv, Line
  <1> QED
    BY <1>1 DEF Line

LEMMA EventSound ==
  ASSUME NEW r \in Resources, NEW v \in Worth(r), NEW own \in BOOLEAN, NEW n \in Nat
  PROVE  Event(r, v, own, n) \in Events
  BY DEF Event, Events, EventType, Worth, Values

LEMMA SnapshotSound == Snapshot \in Events
  BY DEF Snapshot, Event, Events, EventType, Resources

LEMMA PublishSound ==
  ASSUME Inv, NEW e \in Events, Publish(e)
  PROVE  inbox' \in Seq(Events)
  BY DEF Inv, Link, Publish

LEMMA LaterType == Inv => Later \in Nat
  BY DEF Inv, Counts, Later

LEMMA SlipType ==
  ASSUME Inv, NEW what \in {"silent", "overtaken", "failed"}
  PROVE  Slip(what) \subseteq {"silent", "overtaken", "failed"}
  BY DEF Inv, Counts, Slip

LEMMA TransportStep ==
  ASSUME Inv, NEW i \in DOMAIN requests, Transport(i) \/ Fail(i)
  PROVE  Inv'
  <1> DEFINE q == requests[i]
  <1>0. q \in Sound /\ q \in RequestType /\ setup.kind \in Kinds
    BY SetupTypes DEF Inv, Line, Sound, Device
  <1>1. CASE Read(i)
    <2> DEFINE p == [q EXCEPT !.at = "answered", !.got = device[q.of], !.age = age]
    <2>1. q.of \in Resources /\ q.of \in Concerns(setup) /\ q.to = Unknown /\ setup.kind # "stats"
      BY <1>0, <1>1 DEF Read, Sound, RequestType, CallbacksOf
    <2>2. device[q.of] \in Values(q.of) /\ device[q.of] \in 0..2 \cup {Unknown}
      BY <1>0, <2>1 DEF Inv, Device, Worth, Concerns, Kinds
    <2>3. p \in RequestType
      BY <1>0, <2>2 DEF RequestType, Inv, Counts
    <2>4. p.of = q.of /\ p.to = q.to /\ p.then = q.then /\ p.at = "answered" /\ p.got = device[q.of]
      BY <1>0 DEF RequestType
    <2>40. p \in Sound
      BY <1>0, <2>1, <2>2, <2>3, <2>4 DEF Sound, ResetForm
    <2>5. requests' = [requests EXCEPT ![i] = p] /\ setup' = setup /\ carried' = carried
      BY <1>1 DEF Read
    <2>6. Line'
      BY <2>40, <2>5, InPlace, SoundGrows
    <2> QED
      BY <1>1, <2>6 DEF Read, Inv, Device, Link, Cache, Timers, Counts, DoneMeansDone, world, link,
                        node, output, told, life
  <1>2. CASE Carry(i)
    <2> DEFINE p == [q EXCEPT !.at = "done", !.got = q.to, !.age = Later]
    <2>1. q.of \in Resources /\ q.to \in Values(q.of) /\ q.to # Unknown
      BY <1>0, <1>2 DEF Carry, Sound, RequestType
    <2>2. setup' = setup /\ carried' = carried \cup {<<q.of, q.to>>} /\ q \in Sound'
      BY <1>0, <1>2, SoundGrows DEF Carry
    <2>3. q.to \in 0..2
      BY <2>1 DEF Values
    <2>4. p \in RequestType
      BY <1>0, <2>3, LaterType DEF RequestType
    <2>5. p \in Sound'
      BY <1>0, <2>1, <2>2, <2>4 DEF Sound, ResetForm, RequestType
    <2>6. requests' = [requests EXCEPT ![i] = p]
      BY <1>2 DEF Carry
    <2>7. Line'
      BY <2>2, <2>5, <2>6, InPlace
    <2>8. Device'
      BY <1>2, <2>1, <2>3 DEF Carry, Inv, Device, Worth
    <2>9. Counts'
      BY <1>2, LaterType DEF Carry, Inv, Counts, told, node, output
    <2> QED
      BY <1>2, <2>7, <2>8, <2>9 DEF Carry, Inv, Link, Cache, Timers, DoneMeansDone, link, node, output, life
  <1>3. CASE Announce(i)
    <2> DEFINE p == [q EXCEPT !.at = "answered"]
    <2>1. q.of \in Resources /\ q.to \in Values(q.of) /\ q.age \in Nat
      BY <1>0, <1>3 DEF Announce, Sound, RequestType
    <2>2. Event(q.of, q.to, TRUE, q.age) \in Events
      BY <2>1, EventSound DEF Worth, Values
    <2>3. p \in Sound
      BY <1>0, <1>3 DEF Announce, Sound, ResetForm, RequestType
    <2>4. requests' = [requests EXCEPT ![i] = p] /\ setup' = setup /\ carried' = carried
      BY <1>3 DEF Announce
    <2>5. Line'
      BY <2>3, <2>4, InPlace, SoundGrows
    <2>6. inbox' \in Seq(Events)
      BY <1>3, <2>2, PublishSound DEF Announce
    <2> QED
      BY <1>3, <2>5, <2>6 DEF Announce, Inv, Device, Link, Cache, Timers, Counts, DoneMeansDone, world,
                              node, output, told, life
  <1>4. CASE Refuse(i) \/ Fail(i)
    <2> DEFINE p == [q EXCEPT !.at = "failed"]
    <2>1. p \in Sound
      BY <1>0 DEF Sound, ResetForm, RequestType
    <2>2. requests' = [requests EXCEPT ![i] = p] /\ setup' = setup /\ carried' = carried
      BY <1>4 DEF Refuse, Fail, HttpError
    <2>3. Line'
      BY <2>1, <2>2, InPlace, SoundGrows
    <2>4. faults' \in Nat
      BY <1>4 DEF Refuse, Fail, Inv, Counts
    <2> QED
      BY <1>4, <2>3, <2>4 DEF Refuse, Fail, Inv, Device, Link, Cache, Timers, Counts, DoneMeansDone, world,
                              link, node, output, told, life
  <1> QED
    BY <1>1, <1>2, <1>3, <1>4 DEF Transport

(* A callback leaves the requests, what the node believes and what it said *)
(* in order.                                                               *)
LEMMA Callback ==
  ASSUME Inv, setup' = setup, carried' = carried, NEW rest \in Seq(Sound), Reacts(rest)
  PROVE  Line' /\ Cache' /\ DoneMeansDone' /\ sent' \in Nat
  <1>1. Sound \subseteq Sound'
    BY SoundGrows
  <1>2. requests' \in Seq(Sound)
    BY DEF Reacts
  <1>3. requests' \in Seq(Sound')
    BY <1>1, <1>2
  <1> QED
    BY <1>3 DEF Reacts, Line, DoneMeansDone, Inv, Counts

LEMMA CompareType ==
  ASSUME Inv, NEW n \in Nat, Compare(n)
  PROVE  seen' \in Nat /\ slips' \subseteq {"silent", "overtaken", "failed"}
  BY SlipType DEF Inv, Counts, Compare

LEMMA HearStep ==
  ASSUME Inv, Hear
  PROVE  Inv'
  <1> DEFINE e == Head(inbox)
  <1>1. e \in Events /\ inbox' \in Seq(Events) /\ e.age \in Nat /\ requests \in Seq(Sound)
    BY DEF Hear, Inv, Link, Line, Events, EventType
  <1>2. setup' = setup /\ carried' = carried
    BY DEF Hear
  <1>3. Reacts(requests)
    BY <1>1, <1>2, StartStopReacts, GpioReacts, ThresholdReacts, ModelsReacts, FeedsReact DEF Hear
  <1>4. Line' /\ Cache' /\ DoneMeansDone' /\ sent' \in Nat
    BY <1>1, <1>2, <1>3, Callback
  <1>5. \/ timers' = timers
        \/ setup.kind = "stats" /\ setup.mode = "interval" /\ timers' = timers \cup {"flush"}
    BY DEF Hear, StatsHear
  <1>6. seen' \in Nat /\ slips' \subseteq {"silent", "overtaken", "failed"}
    BY <1>1, CompareType DEF Hear, Inv, Counts
  <1>7. earned' \in Nat
    BY DEF Hear, Inv, Counts
  <1>8. Timers'
    BY <1>2, <1>5 DEF Hear, Inv, Timers
  <1> QED
    BY <1>1, <1>4, <1>6, <1>7, <1>8 DEF Hear, Inv, Device, Link, Counts, world

LEMMA ReplyStep ==
  ASSUME Inv, NEW i \in DOMAIN requests, Reply(i)
  PROVE  Inv'
  <1> DEFINE q == requests[i]
             rest == Without(i)
  <1>1. q \in Sound /\ rest \in Seq(Sound) /\ q.age \in Nat
    BY WithoutSeq DEF Inv, Line, Sound, RequestType
  <1>2. setup' = setup /\ carried' = carried /\ (Ok(q) \/ Failed(q))
    BY DEF Reply
  <1> HIDE DEF rest
  <1>3. Reacts(rest)
    BY <1>1, <1>2, StartStopReacts, GpioReacts, ThresholdReacts, ModelsReacts, TriggerReacts,
       ResetReacts, FeedsReact DEF Reply, rest
  <1>4. Line' /\ Cache' /\ DoneMeansDone' /\ sent' \in Nat
    BY <1>1, <1>2, <1>3, Callback
  <1>5. seen' \in Nat /\ slips' \subseteq {"silent", "overtaken", "failed"}
    <2>1. CASE slips' = Slip("failed") /\ UNCHANGED seen
      BY <2>1, SlipType DEF Inv, Counts
    <2> QED
      BY <1>1, <2>1, CompareType DEF Reply, Inv, Counts
  <1> QED
    BY <1>4, <1>5 DEF Reply, Inv, Device, Link, Timers, Counts, world, link, life

LEMMA InputStep ==
  ASSUME Inv, NEW m \in Messages(setup), Input(m)
  PROVE  Inv'
  <1>1. setup' = setup /\ carried' = carried /\ requests \in Seq(Sound)
    BY DEF Input, Inv, Line
  <1>2. Reacts(requests)
    BY <1>1, StartStopReacts, GpioReacts, ThresholdReacts, ModelsReacts, TriggerReacts, ResetReacts,
       FeedsReact DEF Input
  <1>3. Line' /\ Cache' /\ DoneMeansDone' /\ sent' \in Nat
    BY <1>1, <1>2, Callback
  <1> QED
    BY <1>3 DEF Input, Inv, Device, Link, Timers, Counts, world, link, life

(* The timers ask what the node reads, and send what it has.               *)
LEMMA PollSound ==
  ASSUME Inv, setup.kind \in {"gpio", "threshold", "detection", "system"}
  PROVE  PollOf(setup) \in Sound
  <1>0. setup.kind \in Kinds
    BY DEF Kinds
  <1>1. CASE setup.kind = "threshold"
    <2>1. setup.mode \in {"confidence", "overlay"}
      BY <1>1, SetupTypes DEF Inv, Device, Choices, Modes
    <2>2. CallbacksOf(setup.kind) = {"read", "event", "post"}
      BY <1>1 DEF CallbacksOf
    <2>3. setup.mode \in Concerns(setup) /\ setup.mode \in Resources
      BY <1>1, <2>1 DEF Concerns, Resources
    <2>4. PollOf(setup) = Ask("read", setup.mode)
      BY <1>1 DEF PollOf
    <2> QED
      BY <1>0, <1>1, <2>2, <2>3, <2>4, AskSound
  <1>2. ASSUME NEW r \in {"pin", "scene", "metrics"}, PollOf(setup) = Ask("read", r), r \in Concerns(setup),
               setup.kind # "reset"
        PROVE  PollOf(setup) \in Sound
    <2>1. "read" \in CallbacksOf(setup.kind)
      BY DEF CallbacksOf
    <2> QED
      BY <1>0, <1>2, <2>1, AskSound DEF Resources
  <1> QED
    BY <1>1, <1>2 DEF PollOf, Concerns

LEMMA TimerStep ==
  ASSUME Inv, Poll \/ First \/ Flush
  PROVE  Inv'
  <1>1. setup' = setup /\ carried' = carried /\ requests \in Seq(Sound)
    BY DEF Poll, First, Flush, Inv, Line
  <1>2. Reacts(requests)
    <2>1. CASE Poll \/ First
      BY <1>1, <2>1, PollSound, SendReacts DEF Poll, First, Inv, Timers
    <2>2. CASE Flush
      <3>1. Told(cache).claims \subseteq carried
        BY DEF Told
      <3> QED
        BY <1>1, <2>2, <3>1, LearnReacts DEF Flush, Inv, Cache
    <2> QED
      BY <2>1, <2>2
  <1>3. Line' /\ Cache' /\ DoneMeansDone' /\ sent' \in Nat
    BY <1>1, <1>2, Callback
  <1> QED
    BY <1>3 DEF Poll, First, Flush, Inv, Device, Link, Timers, Counts, world, link, told, life

-----------------------------------------------------------------------------
LEMMA ChangeStep ==
  ASSUME Inv, NEW r \in Resources, NEW v \in 0..2, NEW how, Change(r, v, how)
  PROVE  Inv'
  <1>1. v \in Values(r) /\ setup' = setup /\ carried' = carried
    BY DEF Change
  <1>2. Device'
    <2>1. Event(r, v, FALSE, Later) \in Events
      BY <1>1, EventSound, LaterType DEF Worth, Values
    <2>2. unannounced' \subseteq Events
      BY <2>1, SnapshotSound DEF Change, Inv, Device
    <2> QED
      BY <1>1, <2>2 DEF Change, Inv, Device, Worth, Values
  <1>3. Counts'
    <2>1. slips' \subseteq {"silent", "overtaken", "failed"}
      BY SlipType DEF Change, Inv, Counts
    <2>2. age' \in Nat /\ earned' \in Nat /\ deeds' \in Nat
      BY LaterType DEF Change, Inv, Counts
    <2> QED
      BY <2>1, <2>2 DEF Change, Inv, Counts, node, output
  <1>4. Line'
    BY <1>1, SoundGrows DEF Change, Inv, Line
  <1> QED
    BY <1>2, <1>3, <1>4 DEF Change, Inv, Link, Cache, Timers, DoneMeansDone, link, node, output, life

LEMMA PublishChangeStep ==
  ASSUME Inv, NEW e \in unannounced, PublishChange(e)
  PROVE  Inv'
  <1>1. e \in Events
    BY DEF Inv, Device
  <1>2. CASE e.of = "stats"
    <2> DEFINE f == [e EXCEPT !.value = device["stats"], !.age = age]
    <2>1. device["stats"] \in 0..2 \cup {Unknown} /\ device["stats"] \in Worth("stats") /\ age \in Nat
      BY DEF Inv, Device, Counts, Resources
    <2>2. f \in EventType
      BY <1>1, <2>1 DEF Events, EventType
    <2>3. f \in Events
      BY <1>1, <1>2, <2>1, <2>2 DEF Events, EventType
    <2>4. Publish(f)
      BY <1>2 DEF PublishChange
    <2> HIDE DEF f
    <2>5. inbox' \in Seq(Events)
      BY <2>3, <2>4, PublishSound
    <2> QED
      BY <2>5, SoundGrows DEF PublishChange, Inv, Device, Line, Link, Cache, Timers, Counts, DoneMeansDone,
                              node, output, told, life
  <1>3. CASE e.of # "stats"
    <2>1. inbox' \in Seq(Events)
      BY <1>1, <1>3, PublishSound DEF PublishChange
    <2> QED
      BY <2>1, SoundGrows DEF PublishChange, Inv, Device, Line, Link, Cache, Timers, Counts, DoneMeansDone,
                              node, output, told, life
  <1> QED
    BY <1>2, <1>3

(* The subscription, the hub and the end of the node.                      *)
LEMMA StreamStep ==
  ASSUME Inv, HubSwitch \/ Connect \/ ConnectRefused \/ Drop \/ Close
  PROVE  Inv'
  <1>1. setup' = setup /\ carried' = carried /\ UNCHANGED <<requests, cache, output>>
    BY DEF HubSwitch, Connect, ConnectRefused, Drop, Close, node
  <1>2. Line'
    BY <1>1, SoundGrows DEF Inv, Line
  <1>3. Device'
    BY DEF HubSwitch, Connect, ConnectRefused, Drop, Close, Inv, Device, world
  <1>4. Link'
    <2>1. CASE Connect
      <3>1. Event("stats", device["stats"], FALSE, age) \in Events
        <4>1. "stats" \in Resources /\ device["stats"] \in Worth("stats") /\ age \in Nat
          BY DEF Inv, Device, Counts, Resources
        <4> QED
          BY <4>1, EventSound
      <3>2. PICK e \in Events : inbox' = <<e>>
        BY <2>1, <3>1, SnapshotSound DEF Connect
      <3>3. <<e>> \in Seq(Events)
        OBVIOUS
      <3>4. stream' = "up"
        BY <2>1 DEF Connect
      <3> QED
        BY <3>2, <3>3, <3>4 DEF Link
    <2>2. CASE Drop \/ Close
      <3>1. stream' \in {"down", "closed"} /\ inbox' = <<>>
        BY <2>2 DEF Drop, Close
      <3>2. <<>> \in Seq(Events)
        OBVIOUS
      <3> QED
        BY <3>1, <3>2 DEF Link
    <2>3. CASE HubSwitch \/ ConnectRefused
      BY <2>3 DEF HubSwitch, ConnectRefused, Inv, Link, link
    <2> QED
      BY <2>1, <2>2, <2>3
  <1>5. Cache' /\ DoneMeansDone'
    BY <1>1 DEF Inv, Cache, DoneMeansDone, output
  <1>6. Timers'
    BY DEF HubSwitch, Connect, ConnectRefused, Drop, Close, Inv, Timers, life, TimersLeft
  <1>7. Counts'
    <2>1. faults' \in Nat
      <3>1. faults' = faults \/ faults' = faults + 1
        BY DEF HubSwitch, Connect, ConnectRefused, Drop, Close
      <3> QED
        BY <3>1 DEF Inv, Counts
    <2>2. UNCHANGED <<age, told, deeds, output>>
      BY <1>1 DEF HubSwitch, Connect, ConnectRefused, Drop, Close, world
    <2> QED
      BY <2>1, <2>2 DEF Inv, Counts, told, output
  <1> QED
    BY <1>2, <1>3, <1>4, <1>5, <1>6, <1>7 DEF Inv

LEMMA InitInv == Init => Inv
  <1> SUFFICES ASSUME Init PROVE Inv
    OBVIOUS
  <1>1. setup \in Setups /\ setup \in SetupType /\ setup.kind \in Kinds
    BY SetupTypes DEF Init
  <1>2. Device
    BY <1>1 DEF Init, Device, Worth, Values, Resources
  <1>3. Cache
    <2>1. setup.value \in {0, 1, Unknown}
      BY <1>1 DEF SetupType
    <2> QED
      BY <2>1 DEF Init, Cache, Configured, Never, Unknown
  <1>4. Timers
    BY <1>1 DEF Init, Timers, TimersOf, Kinds
  <1>5. Counts /\ DoneMeansDone /\ Link
    BY DEF Init, Counts, DoneMeansDone, Link
  <1>6. Line
    <2>1. CASE setup.kind \in {"gpio", "threshold"}
      <3>1. PollOf(setup) \in Sound
        <4>1. CASE setup.kind = "gpio"
          <5>1. "pin" \in Concerns(setup) /\ "pin" \in Resources /\ "read" \in CallbacksOf(setup.kind)
            BY <4>1 DEF Concerns, Resources, CallbacksOf
          <5> QED
            BY <1>1, <4>1, <5>1, AskSound DEF PollOf
        <4>2. CASE setup.kind = "threshold"
          <5>1. setup.mode \in {"confidence", "overlay"}
            BY <1>1, <4>2, SetupTypes DEF Choices, Modes
          <5>2. setup.mode \in Concerns(setup) /\ setup.mode \in Resources /\ "read" \in CallbacksOf(setup.kind)
            BY <4>2, <5>1 DEF Concerns, Resources, CallbacksOf
          <5> QED
            BY <1>1, <4>2, <5>2, AskSound DEF PollOf
        <4> QED
          BY <2>1, <4>1, <4>2
      <3> QED
        BY <2>1, <3>1 DEF Init, FirstRequests, Line
    <2>2. CASE setup.kind \notin {"gpio", "threshold"}
      BY <2>2 DEF Init, FirstRequests, Line
    <2> QED
      BY <2>1, <2>2
  <1> QED
    BY <1>2, <1>3, <1>4, <1>5, <1>6 DEF Inv

LEMMA InvStep == Inv /\ [Next]_vars => Inv'
  <1>1. CASE Inv /\ Next
    BY <1>1, TransportStep, HearStep, ReplyStep, InputStep, TimerStep, ChangeStep, PublishChangeStep,
       StreamStep DEF Next, Others
  <1>2. CASE Inv /\ UNCHANGED vars
    BY <1>2, SoundGrows DEF vars, world, link, node, output, told, life, Inv, Device, Line, Link, Cache,
                            Timers, Counts, DoneMeansDone
  <1> QED
    BY <1>1, <1>2

-----------------------------------------------------------------------------
(* Messages of the nodes that answer.                                      *)

LEMMA DebtsFinite ==
  ASSUME NEW S, NEW s \in Seq(S)
  PROVE  IsFiniteSet(Debts(s)) /\ Cardinality(Debts(s)) \in Nat
  <1>1. DOMAIN s = 1..Len(s) /\ Len(s) \in Nat
    OBVIOUS
  <1>2. IsFiniteSet(1..Len(s))
    BY <1>1, FS_Interval
  <1>3. Debts(s) \in SUBSET (1..Len(s))
    BY <1>1 DEF Debts
  <1> QED
    BY <1>2, <1>3, FS_Subset, FS_CardinalityType

LEMMA DebtsAppend ==
  ASSUME NEW S, NEW s \in Seq(S), NEW q \in S
  PROVE  /\ ~Owes(q) => Cardinality(Debts(Append(s, q))) = Cardinality(Debts(s))
         /\ Owes(q) => Cardinality(Debts(Append(s, q))) = Cardinality(Debts(s)) + 1
  <1>1. /\ DOMAIN s = 1..Len(s) /\ Len(s) \in Nat /\ DOMAIN Append(s, q) = 1..(Len(s) + 1)
        /\ Append(s, q)[Len(s) + 1] = q /\ \A k \in 1..Len(s) : Append(s, q)[k] = s[k]
    OBVIOUS
  <1>2. \A k \in 1..(Len(s) + 1) : k \in 1..Len(s) \/ k = Len(s) + 1
    BY <1>1
  <1>3. Debts(Append(s, q)) = IF Owes(q) THEN Debts(s) \cup {Len(s) + 1} ELSE Debts(s)
    BY <1>1, <1>2 DEF Debts
  <1>4. Len(s) + 1 \notin Debts(s)
    BY <1>1 DEF Debts
  <1> QED
    BY <1>3, <1>4, DebtsFinite, FS_AddElement

LEMMA WithoutAt ==
  ASSUME NEW S, requests \in Seq(S), NEW i \in DOMAIN requests
  PROVE  /\ DOMAIN Without(i) = 1..(Len(requests) - 1)
         /\ \A k \in DOMAIN Without(i) :
               Without(i)[k] = IF k < i THEN requests[k] ELSE requests[k + 1]
  <1> DEFINE a == SubSeq(requests, 1, i - 1)
             b == SubSeq(requests, i + 1, Len(requests))
  <1>1. Len(requests) \in Nat /\ i \in 1..Len(requests)
    OBVIOUS
  <1>2. a \in Seq(S) /\ Len(a) = i - 1 /\ \A k \in 1..(i - 1) : a[k] = requests[k]
    BY <1>1
  <1>3. b \in Seq(S) /\ Len(b) = Len(requests) - i
        /\ \A k \in 1..(Len(requests) - i) : b[k] = requests[k + i]
    BY <1>1
  <1>4. Without(i) = a \o b
    BY DEF Without
  <1> HIDE DEF a, b
  <1>5. /\ a \o b \in Seq(S) /\ Len(a \o b) = Len(requests) - 1
        /\ \A k \in 1..(Len(requests) - 1) : (a \o b)[k] = IF k <= i - 1 THEN a[k] ELSE b[k - (i - 1)]
    BY <1>1, <1>2, <1>3, ConcatProperties
  <1>6. ASSUME NEW k \in 1..(Len(requests) - 1)
        PROVE  (a \o b)[k] = IF k < i THEN requests[k] ELSE requests[k + 1]
    <2>1. CASE k < i
      BY <1>1, <1>2, <1>5, <2>1
    <2>2. CASE ~(k < i)
      <3>1. (a \o b)[k] = b[k - (i - 1)] /\ k - (i - 1) \in 1..(Len(requests) - i)
        BY <1>1, <1>5, <2>2
      <3> QED
        BY <1>1, <1>3, <2>2, <3>1
    <2> QED
      BY <2>1, <2>2
  <1>7. DOMAIN (a \o b) = 1..(Len(requests) - 1)
    BY <1>5
  <1> QED
    BY <1>4, <1>6, <1>7

LEMMA DebtsWithout ==
  ASSUME NEW S, requests \in Seq(S), NEW i \in DOMAIN requests
  PROVE  /\ Cardinality(Debts(Without(i))) <= Cardinality(Debts(requests))
         /\ Owes(requests[i]) => Cardinality(Debts(Without(i))) + 1 <= Cardinality(Debts(requests))
  <1> DEFINE D == Debts(requests)
             E == Debts(Without(i))
             g == [k \in E |-> IF k < i THEN k ELSE k + 1]
  <1>1. DOMAIN requests = 1..Len(requests) /\ Len(requests) \in Nat /\ i \in 1..Len(requests)
    OBVIOUS
  <1>2. \A k \in E : k \in 1..(Len(requests) - 1) /\ g[k] \in D \ {i}
    BY <1>1, WithoutAt DEF Debts
  <1>3. \A k, l \in E : g[k] = g[l] => k = l
    BY <1>1, <1>2
  <1>4. g \in Injection(E, D \ {i})
    BY <1>2, <1>3 DEF Injection, IsInjective
  <1>5. IsFiniteSet(D) /\ Cardinality(D) \in Nat /\ IsFiniteSet(D \ {i})
        /\ Cardinality(D \ {i}) = IF i \in D THEN Cardinality(D) - 1 ELSE Cardinality(D)
    BY DebtsFinite, FS_RemoveElement
  <1>6. Cardinality(E) <= Cardinality(D \ {i}) /\ Cardinality(E) \in Nat
    BY <1>4, <1>5, FS_Injection, DebtsFinite, WithoutSeq
  <1>7. Owes(requests[i]) => i \in D
    BY DEF Debts
  <1> QED
    BY <1>5, <1>6, <1>7

LEMMA DebtsNext == setup' = setup => Debts(requests)' = Debts(requests')
  BY DEF Debts, Owes

(* What a node that answers may do with a request that ended: one message  *)
(* or one request more, if that one may end in a message.                  *)
Pays(q, rest) ==
    \/ requests' = rest /\ (sent' = sent \/ (sent' = sent + 1 /\ Owes(q)))
    \/ \E p \in Sound : requests' = Append(rest, p) /\ sent' = sent /\ (Owes(p) => Owes(q))

LEMMA LearnPays ==
  ASSUME NEW rest, NEW r, NEW v, NEW due, NEW m, NEW q, Learn(rest, r, v, due, m), due => Owes(q)
  PROVE  Pays(q, rest)
  BY DEF Learn, Emit, Pays, output

LEMMA ShowPays ==
  ASSUME NEW rest, NEW b, NEW q, Show(rest, b) \/ Ignore(rest)
  PROVE  Pays(q, rest)
  BY DEF Show, Ignore, Pays, node, output

(* A request that follows another was sound: what Reacts says of it.       *)
LEMMA SendPays ==
  ASSUME Inv, NEW rest \in Seq(Sound), NEW q, NEW p, Owes(q), Send(rest, p), Reacts(rest)
  PROVE  Pays(q, rest)
  BY DEF Send, Reacts, Pays, node, output

LEMMA ReplyPays ==
  ASSUME Inv, setup' = setup, NEW rest \in Seq(Sound), NEW q \in Sound, Ok(q) \/ Failed(q),
         Reacts(rest),
         \/ setup.kind = "gpio" /\ GpioReply(q, rest)
         \/ setup.kind = "threshold" /\ ThresholdReply(q, rest)
         \/ setup.kind = "models" /\ ModelsReply(q, rest)
         \/ setup.kind = "trigger" /\ TriggerReply(q, rest)
         \/ setup.kind = "reset" /\ ResetReply(q, rest)
         \/ setup.kind = "system" /\ SystemReply(q, rest)
  PROVE  Pays(q, rest)
  <1>1. CASE setup.kind = "gpio" /\ GpioReply(q, rest)
    BY <1>1, LearnPays, ShowPays, SendPays DEF GpioReply, Owes
  <1>2. CASE setup.kind = "threshold" /\ ThresholdReply(q, rest)
    BY <1>2, LearnPays, ShowPays DEF ThresholdReply, Owes
  <1>3. CASE setup.kind = "models" /\ ModelsReply(q, rest)
    BY <1>3, LearnPays, ShowPays DEF ModelsReply, Owes
  <1>4. CASE setup.kind = "trigger" /\ TriggerReply(q, rest)
    BY <1>4, LearnPays, ShowPays, SendPays DEF TriggerReply, Owes
  <1>5. CASE setup.kind = "reset" /\ ResetReply(q, rest)
    <2>1. Owes(q)
      BY <1>5 DEF Sound, ResetForm, Owes
    <2> QED
      BY <1>5, <2>1, LearnPays, ShowPays, SendPays DEF ResetReply
  <1>6. CASE setup.kind = "system" /\ SystemReply(q, rest)
    BY <1>6, LearnPays, ShowPays DEF SystemReply, Owes
  <1> QED
    BY <1>1, <1>2, <1>3, <1>4, <1>5, <1>6

(* An event makes such a node ask at most once, for a message if it is due. *)
LEMMA HearOwes ==
  ASSUME Inv, setup' = setup, NEW e \in Events, Reacts(requests),
         \/ setup.kind = "gpio" /\ GpioHear(e, requests)
         \/ setup.kind = "threshold" /\ ThresholdHear(e, requests)
         \/ setup.kind = "models" /\ ModelsHear(e, requests)
  PROVE  /\ sent' = sent
         /\ \/ requests' = requests
            \/ \E p \in Sound : requests' = Append(requests, p) /\ (Owes(p) => Due(e))
  <1>1. CASE Ignore(requests)
    BY <1>1 DEF Ignore, node, output
  <1>2. ASSUME NEW r, Send(requests, Ask(IF e.of = "snapshot" THEN "read" ELSE "event", r)), ~e.own
        PROVE  /\ sent' = sent
               /\ \/ requests' = requests
                  \/ \E p \in Sound : requests' = Append(requests, p) /\ (Owes(p) => Due(e))
    <2> DEFINE p == Ask(IF e.of = "snapshot" THEN "read" ELSE "event", r)
    <2>1. requests' = Append(requests, p) /\ sent' = sent
      BY <1>2 DEF Send, node, output
    <2>2. Owes(p) => Due(e)
      BY <1>2 DEF Owes, Due, Ask
    <2>3. \E o \in Sound : requests' = Append(requests, o)
      BY <2>1 DEF Reacts
    <2> QED
      BY <2>1, <2>2, <2>3
  <1> QED
    BY <1>1, <1>2 DEF GpioHear, ThresholdHear, ModelsHear, Invalidates

(* A message makes a node ask at most once, and say nothing yet.           *)
LEMMA InputSilent ==
  ASSUME NEW m, Input(m)
  PROVE  sent' = sent
  BY DEF Input, StartStopInput, GpioInput, ThresholdInput, ModelsInput, TriggerInput, ResetInput,
         SystemInput, Send, Show, node, output
-----------------------------------------------------------------------------
(* The account of messages due and sent is kept, action by action.         *)

(* Nothing is sent, and no request more may end in a message than there    *)
(* are messages due.                                                       *)
LEMMA BalanceKept ==
  ASSUME Inv, Inv', Balance, setup' = setup, sent' = sent,
         setup.kind \in Answering /\ setup.mode # "interval" =>
            Cardinality(Debts(requests')) - Cardinality(Debts(requests)) <= earned' - earned,
         earned <= earned'
  PROVE  Balance'
  <1>1. Cardinality(Debts(requests)) \in Nat /\ Cardinality(Debts(requests')) \in Nat
    BY DebtsFinite DEF Inv, Line
  <1>2. Debts(requests)' = Debts(requests')
    BY DebtsNext
  <1> QED
    BY <1>1, <1>2 DEF Inv, Counts, Balance, Answering

LEMMA TransportBalance ==
  ASSUME Inv, Inv', Balance, NEW i \in DOMAIN requests, Transport(i) \/ Fail(i)
  PROVE  Balance'
  <1>1. setup' = setup /\ sent' = sent /\ earned' = earned
    BY DEF Transport, Read, Carry, Announce, Refuse, Fail, node, told, output
  <1>2. DOMAIN requests' = DOMAIN requests /\ \A k \in DOMAIN requests : requests'[k].then = requests[k].then
    <2> DEFINE q == requests[i]
    <2>0. q \in Sound /\ requests \in Seq(Sound)
      BY DEF Inv, Line
    <2>1. q \in RequestType
      BY <2>0 DEF Sound
    <2>2. PICK p : requests' = [requests EXCEPT ![i] = p] /\ p.then = q.then
      <3>1. CASE Read(i)
        <4> DEFINE f == [q EXCEPT !.at = "answered", !.got = device[q.of], !.age = age]
        <4>1. requests' = [requests EXCEPT ![i] = f]
          BY <3>1 DEF Read
        <4>2. f.then = q.then
          BY <2>1 DEF RequestType
        <4> HIDE DEF f
        <4> QED
          BY <4>1, <4>2
      <3>2. CASE Carry(i)
        <4> DEFINE f == [q EXCEPT !.at = "done", !.got = q.to, !.age = Later]
        <4>1. requests' = [requests EXCEPT ![i] = f]
          BY <3>2 DEF Carry
        <4>2. f.then = q.then
          BY <2>1 DEF RequestType
        <4> HIDE DEF f
        <4> QED
          BY <4>1, <4>2
      <3>3. CASE Announce(i)
        <4> DEFINE f == [q EXCEPT !.at = "answered"]
        <4>1. requests' = [requests EXCEPT ![i] = f]
          BY <3>3 DEF Announce
        <4>2. f.then = q.then
          BY <2>1 DEF RequestType
        <4> HIDE DEF f
        <4> QED
          BY <4>1, <4>2
      <3>4. CASE Refuse(i) \/ Fail(i)
        <4> DEFINE f == [q EXCEPT !.at = "failed"]
        <4>1. requests' = [requests EXCEPT ![i] = f]
          BY <3>4 DEF Refuse, Fail, HttpError
        <4>2. f.then = q.then
          BY <2>1 DEF RequestType
        <4> HIDE DEF f
        <4> QED
          BY <4>1, <4>2
      <3> QED
        BY <3>1, <3>2, <3>3, <3>4 DEF Transport
    <2> QED
      BY <2>0, <2>2
  <1>3. Debts(requests') = Debts(requests)
    BY <1>2 DEF Debts, Owes
  <1>4. Cardinality(Debts(requests)) \in Nat
    BY DebtsFinite DEF Inv, Line
  <1> QED
    BY <1>1, <1>3, <1>4, BalanceKept DEF Inv, Counts

LEMMA ReplyBalance ==
  ASSUME Inv, Inv', Balance, NEW i \in DOMAIN requests, Reply(i)
  PROVE  Balance'
  <1> DEFINE q == requests[i]
             rest == Without(i)
  <1>1. q \in Sound /\ rest \in Seq(Sound) /\ requests \in Seq(Sound)
    BY WithoutSeq DEF Inv, Line
  <1>2. setup' = setup /\ carried' = carried /\ earned' = earned /\ (Ok(q) \/ Failed(q))
    BY DEF Reply
  <1>3. /\ Cardinality(Debts(rest)) <= Cardinality(Debts(requests))
        /\ Owes(q) => Cardinality(Debts(rest)) + 1 <= Cardinality(Debts(requests))
    BY <1>1, DebtsWithout
  <1>4. Cardinality(Debts(rest)) \in Nat /\ Cardinality(Debts(requests)) \in Nat
    BY <1>1, DebtsFinite
  <1> HIDE DEF rest
  <1>5. Reacts(rest)
    BY <1>1, <1>2, StartStopReacts, GpioReacts, ThresholdReacts, ModelsReacts, TriggerReacts,
       ResetReacts, FeedsReact DEF Reply, rest
  <1>6. CASE setup.kind \in Answering /\ setup.mode # "interval"
    <2>1. Pays(q, rest)
      BY <1>1, <1>2, <1>5, <1>6, ReplyPays DEF Reply, rest, Answering
    <2>2. sent' + Cardinality(Debts(requests')) <= sent + Cardinality(Debts(requests))
      <3>1. CASE requests' = rest
        BY <1>3, <1>4, <2>1, <3>1, DebtsAppend DEF Pays, Inv, Counts
      <3>2. ASSUME NEW p \in Sound, requests' = Append(rest, p), sent' = sent, Owes(p) => Owes(q)
            PROVE  sent' + Cardinality(Debts(requests')) <= sent + Cardinality(Debts(requests))
        <4>1. /\ ~Owes(p) => Cardinality(Debts(requests')) = Cardinality(Debts(rest))
              /\ Owes(p) => Cardinality(Debts(requests')) = Cardinality(Debts(rest)) + 1
          BY <1>1, <3>2, DebtsAppend
        <4> QED
          BY <1>3, <1>4, <3>2, <4>1 DEF Inv, Counts
      <3> QED
        BY <2>1, <3>1, <3>2 DEF Pays
    <2>3. Cardinality(Debts(requests')) \in Nat
      BY DebtsFinite DEF Inv, Line
    <2>4. Debts(requests)' = Debts(requests')
      BY <1>2, DebtsNext
    <2> QED
      BY <1>2, <1>4, <1>6, <2>2, <2>3, <2>4 DEF Inv, Counts, Balance, Answering
  <1>7. CASE setup.mode = "interval"
    <2>1. sent' = sent
      BY <1>5, <1>7 DEF Reacts
    <2> QED
      BY <1>2, <1>7, <2>1, BalanceKept DEF Inv, Counts
  <1>8. CASE setup.kind \notin Answering
    <2>1. setup.kind = "start-stop" => sent' = sent
      BY <1>2 DEF Reply, StartStopReply, ApplyRunning, Learn, Show, Ignore, Send, node, output
    <2>2. setup.mode = "interval" => sent' = sent
      BY <1>5 DEF Reacts
    <2> QED
      BY <1>2, <1>8, <2>1, <2>2 DEF Balance, Answering
  <1> QED
    BY <1>6, <1>7, <1>8

LEMMA HearBalance ==
  ASSUME Inv, Inv', Balance, Hear
  PROVE  Balance'
  <1> DEFINE e == Head(inbox)
  <1>1. e \in Events /\ requests \in Seq(Sound)
    BY DEF Hear, Inv, Link, Line
  <1>2. setup' = setup /\ earned' = IF Due(e) THEN earned + 1 ELSE earned
    BY DEF Hear
  <1> HIDE DEF e
  <1>3. Reacts(requests)
    BY <1>1, <1>2, StartStopReacts, GpioReacts, ThresholdReacts, ModelsReacts, FeedsReact DEF Hear, e
  <1>4. CASE setup.kind \in Answering
    <2>1. sent' = sent /\ (requests' = requests
             \/ \E p \in Sound : requests' = Append(requests, p) /\ (Owes(p) => Due(e)))
      BY <1>1, <1>2, <1>3, <1>4, HearOwes DEF Hear, e, Answering
    <2>2. Cardinality(Debts(requests')) - Cardinality(Debts(requests)) <= earned' - earned
      <3>1. Cardinality(Debts(requests)) \in Nat
        BY <1>1, DebtsFinite
      <3>2. earned \in Nat
        BY DEF Inv, Counts
      <3>3. ASSUME NEW p \in Sound, requests' = Append(requests, p), Owes(p) => Due(e)
            PROVE  Cardinality(Debts(requests')) - Cardinality(Debts(requests)) <= earned' - earned
        <4>1. /\ ~Owes(p) => Cardinality(Debts(requests')) = Cardinality(Debts(requests))
              /\ Owes(p) => Cardinality(Debts(requests')) = Cardinality(Debts(requests)) + 1
          BY <1>1, <3>3, DebtsAppend
        <4> QED
          BY <1>2, <3>1, <3>2, <3>3, <4>1
      <3>4. CASE requests' = requests
        BY <1>2, <3>1, <3>2, <3>4
      <3> QED
        BY <2>1, <3>3, <3>4
    <2> QED
      BY <1>2, <2>1, <2>2, BalanceKept DEF Inv, Counts
  <1>5. CASE setup.kind = "start-stop"
    <2>1. CASE e.of = "running"
      <3>1. Due(e)
        BY <1>5, <2>1 DEF Due
      <3> QED
        BY <1>2, <1>3, <1>5, <3>1 DEF Reacts, Balance, Inv, Counts, Answering
    <2>2. CASE e.of # "running"
      <3>1. sent' = sent
        BY <1>5, <2>2 DEF Hear, e, StartStopHear, Send, node, output
      <3> QED
        BY <1>2, <1>5, <3>1, BalanceKept DEF Inv, Counts, Answering
    <2> QED
      BY <2>1, <2>2
  <1>6. CASE setup.kind \notin Answering \cup {"start-stop"}
    BY <1>2, <1>3, <1>6 DEF Reacts, Balance
  <1> QED
    BY <1>4, <1>5, <1>6

LEMMA InputBalance ==
  ASSUME Inv, Inv', Balance, NEW m \in Messages(setup), Input(m)
  PROVE  Balance'
  <1>1. setup' = setup /\ carried' = carried /\ requests \in Seq(Sound)
    BY DEF Input, Inv, Line
  <1>2. sent' = sent
    BY InputSilent
  <1>3. earned' = IF setup.kind = "start-stop" THEN earned ELSE earned + 1
    BY DEF Input
  <1>4. Reacts(requests)
    BY <1>1, StartStopReacts, GpioReacts, ThresholdReacts, ModelsReacts, TriggerReacts, ResetReacts,
       FeedsReact DEF Input
  <1>5. Cardinality(Debts(requests)) \in Nat
    BY <1>1, DebtsFinite
  <1>6. Cardinality(Debts(requests')) - Cardinality(Debts(requests)) <= 1
    <2>1. CASE requests' = requests
      BY <1>5, <2>1
    <2>2. ASSUME NEW p \in Sound, requests' = Append(requests, p)
          PROVE  Cardinality(Debts(requests')) - Cardinality(Debts(requests)) <= 1
      <3>1. Cardinality(Debts(requests')) \in {Cardinality(Debts(requests)), Cardinality(Debts(requests)) + 1}
        BY <1>1, <2>2, DebtsAppend
      <3> QED
        BY <1>5, <3>1
    <2> QED
      BY <1>4, <2>1, <2>2 DEF Reacts
  <1> QED
    BY <1>1, <1>2, <1>3, <1>6, BalanceKept DEF Inv, Counts, Answering

LEMMA TimerBalance ==
  ASSUME Inv, Inv', Balance, Poll \/ First \/ Flush
  PROVE  Balance'
  <1>1. setup' = setup /\ earned' = earned /\ requests \in Seq(Sound)
    BY DEF Poll, First, Flush, Inv, Line, told
  <1>2. CASE Poll \/ First
    <2>1. setup.kind \in {"gpio", "threshold", "detection", "system"}
          /\ (setup.kind = "system" => setup.mode = "interval")
      BY <1>2 DEF Poll, First, Inv, Timers
    <2>2. requests' = Append(requests, PollOf(setup)) /\ sent' = sent /\ PollOf(setup) \in Sound
      BY <1>2, <2>1, PollSound DEF Poll, First, Send, node, output
    <2>3. setup.kind # "system" => ~Owes(PollOf(setup))
      BY <2>1 DEF PollOf, Ask, Owes
    <2>4. Cardinality(Debts(requests)) \in Nat
      BY <1>1, DebtsFinite
    <2>5. setup.kind # "system" => Cardinality(Debts(requests')) = Cardinality(Debts(requests))
      BY <1>1, <2>2, <2>3, DebtsAppend
    <2> QED
      BY <1>1, <2>1, <2>2, <2>4, <2>5, BalanceKept DEF Inv, Counts
  <1>3. CASE Flush
    <2>1. setup.mode = "interval"
      BY <1>3 DEF Flush, Inv, Timers
    <2>2. sent' = sent
      BY <1>3, <2>1 DEF Flush, Learn, Emit, output
    <2> QED
      BY <1>1, <2>1, <2>2, BalanceKept DEF Inv, Counts
  <1> QED
    BY <1>2, <1>3

LEMMA OtherBalance ==
  ASSUME Inv, Inv', Balance,
         \/ \E r \in Resources, v \in 0..2, how \in {"request", "restart", "undone"} : Change(r, v, how)
         \/ Others \/ HubSwitch \/ Connect \/ ConnectRefused \/ Drop \/ Close
  PROVE  Balance'
  <1>1. setup' = setup /\ requests' = requests /\ sent' = sent
    BY DEF Change, Others, PublishChange, HubSwitch, Connect, ConnectRefused, Drop, Close, node, output
  <1>2. earned <= earned'
    <2>1. earned' \in {earned, earned + 1}
      BY DEF Change, Others, PublishChange, HubSwitch, Connect, ConnectRefused, Drop, Close, told
    <2> QED
      BY <2>1 DEF Inv, Counts
  <1>3. Cardinality(Debts(requests)) \in Nat
    BY DebtsFinite DEF Inv, Line
  <1> QED
    BY <1>1, <1>2, <1>3, BalanceKept DEF Inv, Counts

LEMMA BalanceStep == Inv /\ Balance /\ [Next]_vars => Balance'
  <1> SUFFICES ASSUME Inv, Balance, [Next]_vars PROVE Balance'
    OBVIOUS
  <1>1. Inv'
    BY InvStep
  <1>2. CASE Next
    BY <1>1, <1>2, TransportBalance, ReplyBalance, HearBalance, InputBalance, TimerBalance, OtherBalance
       DEF Next
  <1>3. CASE UNCHANGED vars
    BY <1>3 DEF vars, node, told, output, Balance, Debts, Owes
  <1> QED
    BY <1>2, <1>3

LEMMA InitBalance == Init => Balance
  <1> SUFFICES ASSUME Init PROVE Balance
    OBVIOUS
  <1>1. CASE setup.kind \in Answering
    <2>1. \A i \in DOMAIN requests : ~Owes(requests[i])
      BY <1>1 DEF Init, FirstRequests, PollOf, Ask, Owes
    <2>2. Debts(requests) = {}
      BY <2>1 DEF Debts
    <2> QED
      BY <1>1, <2>2, FS_EmptySet DEF Init, Balance, Answering
  <1>2. CASE setup.kind \notin Answering
    BY <1>2 DEF Init, Balance, Answering
  <1> QED
    BY <1>1, <1>2
-----------------------------------------------------------------------------
(* Messages of a node that looks.                                          *)

LEMMA DetectionRequest ==
  ASSUME Inv, setup.kind = "detection", NEW i \in DOMAIN requests
  PROVE  /\ requests[i] \in RequestType /\ requests[i].to = Unknown /\ requests[i].of = "scene"
         /\ requests[i].at # "done" /\ requests[i].age \in Nat
         /\ Ok(requests[i]) => requests[i].got \in 0..2
  <1>1. requests[i] \in Sound
    BY DEF Inv, Line
  <1>2. requests[i] \in RequestType /\ requests[i].of = "scene" /\ requests[i].then = "read"
    BY <1>1 DEF Sound, Concerns, CallbacksOf
  <1> QED
    BY <1>1, <1>2 DEF Sound, RequestType, Ok, Values

(* A step after which nothing is known that was not.                       *)
LEMMA LookingKept ==
  ASSUME Inv, Looking, setup' = setup, UNCHANGED <<age, earned, seen, cache, sent>>, slips \subseteq slips',
         setup.kind = "detection" => device'["scene"] = device["scene"],
         setup.kind = "detection" =>
            \A k \in DOMAIN requests' :
               /\ requests'[k].age <= age
               /\ Ok(requests'[k]) => Saw(requests'[k].age, requests'[k].got)
  PROVE  Looking'
  <1> SUFFICES ASSUME setup.kind = "detection"
               PROVE  Looking'
    BY DEF Looking
  <1>1. \A n, v : Saw(n, v)' => Saw(n, v)
    BY DEF Saw, Ok
  <1>2. Agreed => Agreed'
    BY <1>1 DEF Agreed
  <1> QED
    BY <1>2 DEF Looking

LEMMA TransportLooking ==
  ASSUME Inv, Looking, NEW i \in DOMAIN requests, Transport(i) \/ Fail(i)
  PROVE  Looking'
  <1> SUFFICES ASSUME setup.kind = "detection"
               PROVE  Looking'
    BY DEF Looking, Transport, Read, Carry, Announce, Refuse, Fail
  <1> DEFINE q == requests[i]
  <1>1. q \in RequestType /\ q.to = Unknown /\ q.of = "scene" /\ q.at # "done" /\ requests \in Seq(Sound)
    BY DetectionRequest DEF Inv, Line
  <1>2. \A k \in DOMAIN requests : requests[k].age <= age
                                   /\ (Ok(requests[k]) => Saw(requests[k].age, requests[k].got))
    BY DEF Looking, Saw
  <1>3. CASE Read(i)
    <2> DEFINE f == [q EXCEPT !.at = "answered", !.got = device[q.of], !.age = age]
    <2>1. requests' = [requests EXCEPT ![i] = f]
      BY <1>3 DEF Read
    <2>2. f.age = age /\ f.got = device["scene"] /\ age <= age /\ Saw(f.age, f.got)
      BY <1>1 DEF RequestType, Saw, Inv, Counts
    <2> HIDE DEF f
    <2>3. \A k \in DOMAIN requests' : requests'[k].age <= age
                                      /\ (Ok(requests'[k]) => Saw(requests'[k].age, requests'[k].got))
      BY <1>1, <1>2, <2>1, <2>2
    <2> QED
      BY <1>3, <2>3, LookingKept DEF Read, world, node, told, output
  <1>4. CASE Refuse(i) \/ Fail(i)
    <2> DEFINE f == [q EXCEPT !.at = "failed"]
    <2>1. requests' = [requests EXCEPT ![i] = f]
      BY <1>4 DEF Refuse, Fail, HttpError
    <2>2. f.age = q.age /\ ~Ok(f)
      BY <1>1 DEF RequestType, Ok
    <2> HIDE DEF f
    <2>3. \A k \in DOMAIN requests' : requests'[k].age <= age
                                      /\ (Ok(requests'[k]) => Saw(requests'[k].age, requests'[k].got))
      BY <1>1, <1>2, <2>1, <2>2
    <2> QED
      BY <1>4, <2>3, LookingKept DEF Refuse, Fail, world, node, told, output
  <1> QED
    BY <1>1, <1>3, <1>4 DEF Transport, Carry, Announce

LEMMA ReplyLooking ==
  ASSUME Inv, Looking, NEW i \in DOMAIN requests, Reply(i)
  PROVE  Looking'
  <1> SUFFICES ASSUME setup.kind = "detection"
               PROVE  Looking'
    BY DEF Looking, Reply
  <1> DEFINE q == requests[i]
             rest == Without(i)
  <1>1. q.age \in Nat /\ q.age <= age /\ (Ok(q) => q.got \in 0..2) /\ requests \in Seq(Sound)
    BY DetectionRequest DEF Inv, Line, Looking
  <1>2. setup' = setup /\ device' = device /\ age' = age /\ earned' = earned /\ DetectionReply(q, rest)
    BY DEF Reply, world
  <1>3. \A k \in DOMAIN rest : \E l \in DOMAIN requests : rest[k] = requests[l]
    <2>1. /\ DOMAIN rest = 1..(Len(requests) - 1)
          /\ \A k \in DOMAIN rest : rest[k] = IF k < i THEN requests[k] ELSE requests[k + 1]
      BY <1>1, WithoutAt
    <2>2. Len(requests) \in Nat /\ DOMAIN requests = 1..Len(requests)
      BY <1>1
    <2>3. \A k \in 1..(Len(requests) - 1) : k \in 1..Len(requests) /\ k + 1 \in 1..Len(requests)
      BY <2>2
    <2> QED
      BY <2>1, <2>2, <2>3
  <1> HIDE DEF rest
  <1>4. requests' = rest
    BY <1>2 DEF DetectionReply, Show, Ignore, Learn
  <1>5. \A k \in DOMAIN requests' : requests'[k].age <= age
                                    /\ (Ok(requests'[k]) => Saw(requests'[k].age, requests'[k].got))
    BY <1>3, <1>4 DEF Looking, Saw
  <1>6. CASE Failed(q)
    <2>1. cache' = cache /\ sent' = sent
      BY <1>2, <1>6 DEF DetectionReply, Show, Ok, Failed, output
    <2>2. seen' = seen /\ slips \subseteq slips'
      BY <1>6 DEF Reply, Ok, Failed, Slip
    <2> QED
      BY <1>2, <1>5, <2>1, <2>2, LookingKept
  <1>7. CASE Ok(q)
    <2>1. Compare(q.age)
      BY <1>7 DEF Reply, Ok, Failed, Informs
    <2>2. seen \in Nat /\ age \in Nat /\ sent \in Nat /\ seen <= age
      BY DEF Inv, Counts, Looking
    <2>3. seen' <= age
      BY <1>1, <2>1, <2>2 DEF Compare
    <2>4. ASSUME setup.mode = "on-change", "overtaken" \notin slips'
          PROVE  Agreed' /\ sent' <= seen' /\ (cache' = Unknown => seen' = 0)
      <3>1. seen <= q.age /\ seen' = q.age /\ slips' = slips
        BY <1>1, <2>1, <2>2, <2>4 DEF Compare, Slip, Sensitive
      <3>2. Agreed /\ sent <= seen /\ (cache = Unknown => seen = 0)
        BY <2>4, <3>1 DEF Looking
      <3>3. Saw(q.age, q.got)
        BY <1>7 DEF Saw
      <3>4. cache' = q.got
        BY <1>2, <1>7 DEF DetectionReply, SameSignature, Ignore, Learn, Ok, Failed, node
      <3>5. \A n, v : Saw(n, v)' => Saw(n, v)
        BY <1>2, <1>5, <3>1, <3>3, <3>4 DEF Saw, Ok
      <3>6. Agreed'
        BY <1>2, <3>2, <3>5 DEF Agreed
      <3>7. sent' <= seen'
        <4>1. CASE q.age = seen
          <5>1. CASE cache = Unknown
            <6>1. Saw(q.age, 0)
              BY <3>2, <4>1, <5>1 DEF Saw
            <6>2. q.got = 0
              BY <1>1, <1>7, <2>2, <3>2, <3>3, <6>1 DEF Agreed
            <6>3. sent' = sent
              BY <1>2, <1>7, <6>2 DEF DetectionReply, Learn, Ignore, Ok, Failed, node, output
            <6> QED
              BY <3>1, <3>2, <4>1, <6>3
          <5>2. CASE cache # Unknown
            <6>1. cache \in 0..9
              BY DEF Inv, Cache, Unknown, Never
            <6>2. Saw(q.age, cache)
              BY <4>1, <5>2 DEF Saw
            <6>3. q.got = cache
              BY <1>1, <1>7, <2>2, <3>2, <3>3, <6>1, <6>2 DEF Agreed
            <6>4. sent' = sent
              BY <1>2, <1>7, <2>4, <6>3 DEF DetectionReply, SameSignature, Ignore, Ok, Failed, node, output
            <6> QED
              BY <3>1, <3>2, <4>1, <6>4
          <5> QED
            BY <5>1, <5>2
        <4>2. CASE seen < q.age
          <5>1. sent' = sent \/ sent' = sent + 1
            BY <1>2 DEF DetectionReply, Learn, Emit, Show, Ignore, node, output
          <5> QED
            BY <1>1, <2>2, <3>1, <3>2, <4>2, <5>1
        <4> QED
          BY <1>1, <2>2, <3>1, <4>1, <4>2
      <3>8. cache' # Unknown
        BY <1>1, <1>7, <3>4 DEF Unknown
      <3> QED
        BY <3>6, <3>7, <3>8
    <2> QED
      BY <1>2, <1>5, <2>3, <2>4 DEF Looking
  <1> QED
    BY <1>6, <1>7 DEF Reply

LEMMA ChangeLooking ==
  ASSUME Inv, Looking, NEW r \in Resources, NEW v \in 0..2, NEW how, Change(r, v, how)
  PROVE  Looking'
  <1> SUFFICES ASSUME setup.kind = "detection"
               PROVE  Looking'
    BY DEF Looking, Change
  <1>1. r = "scene" /\ setup' = setup
    BY DEF Change, Concerns
  <1>2. age' = age + 1 /\ earned' = earned + 1 /\ device'["scene"] = v /\ slips' = slips
        /\ UNCHANGED <<requests, cache, sent, seen>>
    BY <1>1 DEF Change, Later, Sensitive, Feeds, Inv, Device, node, output
  <1>3. age \in Nat /\ seen \in Nat /\ earned \in Nat /\ v \in 0..9
    BY DEF Inv, Counts
  <1>4. \A i \in DOMAIN requests : requests[i].age \in Nat /\ requests[i].age <= age
    BY DetectionRequest DEF Looking
  <1>5. seen <= age /\ earned = age
    BY DEF Looking
  <1>6. Agreed => Agreed'
    <2>1. \A n \in 0..(age + 1) : \A x : Saw(n, x)' => (n \in 0..age /\ Saw(n, x)) \/ (n = age + 1 /\ x = v)
      BY <1>2, <1>3, <1>4, <1>5 DEF Saw, Ok
    <2>0. \A n \in 0..age : n \in 0..(age + 1) /\ n # age + 1
      BY <1>3
    <2>2. \A n \in 0..age : \A x : Saw(n, x)' => Saw(n, x)
      BY <2>0, <2>1
    <2>3. \A n \in 0..(age + 1) : \A x : n = age + 1 /\ Saw(n, x)' => x = v
      BY <1>3, <2>1
    <2>4. \A n \in 0..(age + 1) : n \in 0..age \/ n = age + 1
      BY <1>3
    <2> SUFFICES ASSUME Agreed, NEW n \in 0..(age + 1), NEW x \in 0..9, NEW y \in 0..9, Saw(n, x)', Saw(n, y)'
                 PROVE  x = y
      BY <1>2 DEF Agreed
    <2>5. CASE n \in 0..age
      BY <2>2, <2>5 DEF Agreed
    <2> QED
      BY <2>3, <2>4, <2>5
  <1>7. \A i \in DOMAIN requests : requests[i].age <= age + 1
    BY <1>3, <1>4
  <1> QED
    BY <1>1, <1>2, <1>3, <1>5, <1>6, <1>7 DEF Looking

LEMMA OtherLooking ==
  ASSUME Inv, Looking,
         \/ Hear \/ \E m \in Messages(setup) : Input(m)
         \/ Poll \/ First \/ Flush
         \/ Others \/ HubSwitch \/ Connect \/ ConnectRefused \/ Drop \/ Close
  PROVE  Looking'
  <1> SUFFICES ASSUME setup.kind = "detection"
               PROVE  Looking'
    BY DEF Looking, Hear, Input, Poll, First, Flush, Others, PublishChange, HubSwitch, Connect,
           ConnectRefused, Drop, Close
  <1>1. ~Hear /\ ~Flush /\ \A m \in Messages(setup) : ~Input(m)
    BY DEF Hear, Input, Flush, Inv, Timers
  <1>2. \A k \in DOMAIN requests : requests[k].age <= age
                                   /\ (Ok(requests[k]) => Saw(requests[k].age, requests[k].got))
    BY DEF Looking, Saw
  <1>3. CASE Poll \/ First
    <2>1. requests' = Append(requests, PollOf(setup)) /\ requests \in Seq(Sound)
      BY <1>3 DEF Poll, First, Send, Inv, Line
    <2>2. PollOf(setup).age = 0 /\ ~Ok(PollOf(setup)) /\ 0 <= age
      BY DEF PollOf, Ask, Ok, Inv, Counts
    <2>3. \A k \in DOMAIN requests' : (k \in DOMAIN requests /\ requests'[k] = requests[k])
                                      \/ requests'[k] = PollOf(setup)
      BY <2>1
    <2>4. \A k \in DOMAIN requests' : requests'[k].age <= age
                                      /\ (Ok(requests'[k]) => Saw(requests'[k].age, requests'[k].got))
      BY <1>2, <2>2, <2>3
    <2> QED
      BY <1>3, <2>4, LookingKept DEF Poll, First, Send, world, node, told, output
  <1>4. CASE Others \/ HubSwitch \/ Connect \/ ConnectRefused \/ Drop \/ Close
    <2>1. setup' = setup /\ requests' = requests /\ device' = device
          /\ UNCHANGED <<age, earned, seen, cache, sent, slips>>
      BY <1>4 DEF Others, PublishChange, HubSwitch, Connect, ConnectRefused, Drop, Close, world, node, told, output
    <2> QED
      BY <1>2, <2>1, LookingKept
  <1> QED
    BY <1>1, <1>3, <1>4

LEMMA LookingStep == Inv /\ Looking /\ [Next]_vars => Looking'
  <1> SUFFICES ASSUME Inv, Looking, [Next]_vars PROVE Looking'
    OBVIOUS
  <1>1. CASE Next
    BY <1>1, TransportLooking, ReplyLooking, ChangeLooking, OtherLooking DEF Next
  <1>2. CASE UNCHANGED vars
    BY <1>2 DEF vars, world, node, told, output, Looking, Agreed, Saw
  <1> QED
    BY <1>1, <1>2

LEMMA InitLooking == Init => Looking
  BY DEF Init, Looking, Agreed, Saw, FirstRequests, Resources, Unknown
-----------------------------------------------------------------------------
(* Messages of a node that is told.                                        *)

LEMMA TurnsFinite ==
  ASSUME NEW h, NEW n \in Nat
  PROVE  IsFiniteSet(Turns(h, n)) /\ Cardinality(Turns(h, n)) \in Nat
  <1>1. IsFiniteSet(0..n)
    BY FS_Interval
  <1>2. Turns(h, n) \subseteq 0..n
    BY DEF Turns
  <1> QED
    BY <1>1, <1>2, FS_Subset, FS_CardinalityType

(* The device changes: one turn more at most, the last one.                *)
LEMMA TurnsChange ==
  ASSUME NEW h, NEW g, NEW n \in Nat, \A k \in 0..n : g[k] = h[k]
  PROVE  Cardinality(Turns(g, n)) <= Cardinality(Turns(h, n)) + 1
  <1>1. \A k \in 0..n : k = n \/ k + 1 \in 0..n
    OBVIOUS
  <1>2. Turns(g, n) \subseteq Turns(h, n) \cup {n}
    BY <1>1 DEF Turns
  <1>3. /\ IsFiniteSet(Turns(h, n) \cup {n})
        /\ Cardinality(Turns(h, n) \cup {n}) \in {Cardinality(Turns(h, n)), Cardinality(Turns(h, n)) + 1}
    BY TurnsFinite, FS_AddElement
  <1>4. Cardinality(Turns(g, n)) <= Cardinality(Turns(h, n) \cup {n})
    BY <1>2, <1>3, FS_Subset
  <1> QED
    BY <1>3, <1>4, TurnsFinite

(* What the device has is sent: no turn more.                              *)
LEMMA TurnsSend ==
  ASSUME NEW h, NEW g, NEW n \in Nat, \A k \in 0..(n + 1) : g[k] = h[k], g[n + 2] = h[n + 1]
  PROVE  Turns(g, n + 1) = Turns(h, n)
  <1>1. \A k : k \in 0..(n + 1) <=> (k \in 0..n \/ k = n + 1)
    OBVIOUS
  <1>2. \A k \in 0..n : k \in 0..(n + 1) /\ k + 1 \in 0..(n + 1)
    OBVIOUS
  <1>3. g[n + 1] = g[(n + 1) + 1]
    OBVIOUS
  <1> QED
    BY <1>1, <1>2, <1>3 DEF Turns

(* The first event is heard: the first turn is gone.                       *)
LEMMA TurnsHear ==
  ASSUME NEW h, NEW g, NEW n \in Nat, \A k \in 0..(n + 1) : g[k] = h[k + 1]
  PROVE  Cardinality(Turns(g, n)) + (IF h[0] # h[1] THEN 1 ELSE 0) <= Cardinality(Turns(h, n + 1))
  <1> DEFINE T == Turns(h, n + 1)
             f == [k \in Turns(g, n) |-> k + 1]
  <1>1. \A k \in 0..n : k + 1 \in 0..(n + 1) /\ k \in 0..(n + 1) /\ k + 1 # 0
    OBVIOUS
  <1>2. \A k \in Turns(g, n) : k \in 0..n /\ k + 1 \in T \ {0}
    BY <1>1 DEF Turns
  <1>3. f \in Injection(Turns(g, n), T \ {0})
    BY <1>2 DEF Injection, IsInjective
  <1>4. IsFiniteSet(T) /\ Cardinality(T) \in Nat
    BY TurnsFinite
  <1>5. IsFiniteSet(T \ {0}) /\ Cardinality(T \ {0}) = IF 0 \in T THEN Cardinality(T) - 1 ELSE Cardinality(T)
    BY <1>4, FS_RemoveElement
  <1>6. Cardinality(Turns(g, n)) <= Cardinality(T \ {0}) /\ Cardinality(Turns(g, n)) \in Nat
    BY <1>3, <1>5, FS_Injection, TurnsFinite
  <1>7. h[0] # h[1] => 0 \in T
    BY DEF Turns
  <1> QED
    BY <1>4, <1>5, <1>6, <1>7

(* Where the ends differ there is a turn: without one, what equals the     *)
(* first is as many again without the first.                               *)
LEMMA TurnsBetween ==
  ASSUME NEW h, NEW n \in Nat, h[0] # h[n + 1]
  PROVE  1 <= Cardinality(Turns(h, n))
  <1> SUFFICES ASSUME Turns(h, n) = {}
               PROVE  FALSE
    BY TurnsFinite, FS_EmptySet
  <1> DEFINE E == {k \in 0..(n + 1) : h[k] = h[0]}
             f == [k \in E |-> k + 1]
  <1>1. \A k \in 0..n : h[k] = h[k + 1]
    BY DEF Turns
  <1>2. \A k \in 0..(n + 1) : k \in 0..n \/ k = n + 1
    OBVIOUS
  <1>3. \A k \in E : k \in Nat /\ k + 1 \in E \ {0}
    BY <1>1, <1>2
  <1>4. f \in Injection(E, E \ {0})
    BY <1>3 DEF Injection, IsInjective
  <1>5. IsFiniteSet(E)
    <2>1. IsFiniteSet(0..(n + 1)) /\ E \subseteq 0..(n + 1)
      BY FS_Interval
    <2> QED
      BY <2>1, FS_Subset
  <1>6. 0 \in E
    OBVIOUS
  <1>7. IsFiniteSet(E \ {0}) /\ Cardinality(E \ {0}) = Cardinality(E) - 1 /\ Cardinality(E) \in Nat
    BY <1>5, <1>6, FS_RemoveElement, FS_CardinalityType
  <1>8. Cardinality(E) <= Cardinality(E \ {0})
    BY <1>4, <1>7, FS_Injection
  <1> QED
    BY <1>7, <1>8

(* And it is gone when nothing is left to hear.                            *)
LEMMA TurnsDrop ==
  ASSUME NEW h, NEW g, NEW n \in Nat, g[0] = h[0], g[1] = h[n + 1]
  PROVE  Cardinality(Turns(g, 0)) <= Cardinality(Turns(h, n))
  <1>1. CASE h[0] = h[n + 1]
    <2>1. Turns(g, 0) = {}
      BY <1>1 DEF Turns
    <2> QED
      BY <2>1, FS_EmptySet, TurnsFinite
  <1>2. CASE h[0] # h[n + 1]
    <2>1. Turns(g, 0) = {0}
      BY <1>2 DEF Turns
    <2>2. Cardinality({0}) = 1
      BY FS_Singleton
    <2> QED
      BY <1>2, <2>1, <2>2, TurnsBetween
  <1> QED
    BY <1>1, <1>2

(* Such a node asks for nothing.                                           *)
LEMMA StatsQuiet ==
  ASSUME Inv, setup.kind = "stats"
  PROVE  /\ DOMAIN requests = {} /\ ~Poll /\ ~First /\ \A m \in Messages(setup) : ~Input(m)
         /\ setup.mode = "on-change" => ~Flush
  <1>1. \A i \in DOMAIN requests : requests[i] \in Sound
    BY DEF Inv, Line
  <1>2. Sound = {}
    BY DEF Sound, CallbacksOf
  <1> QED
    BY <1>1, <1>2 DEF Poll, First, Flush, Input, Inv, Timers

LEMMA HeardShape ==
  ASSUME Inv
  PROVE  /\ Len(inbox) \in Nat /\ inbox \in Seq(Events)
         /\ \A k \in 0..(Len(inbox) + 1) :
               Heard[k] = IF k = 0 THEN cache ELSE IF k <= Len(inbox) THEN inbox[k].value ELSE device["stats"]
         /\ Cardinality(Turns(Heard, Len(inbox))) \in Nat
         /\ Heard[0] = cache /\ Heard[Len(inbox) + 1] = device["stats"]
  <1>1. inbox \in Seq(Events) /\ Len(inbox) \in Nat
    BY DEF Inv, Link
  <1> QED
    BY <1>1, TurnsFinite DEF Heard

LEMMA HearListening ==
  ASSUME Inv, Inv', Listening, Hear, setup.kind = "stats", setup.mode = "on-change"
  PROVE  sent' + Cardinality(Turns(Heard', Len(inbox'))) <= earned'
  <1> DEFINE n == Len(inbox) - 1
  <1>1. Len(inbox) \in Nat /\ Len(inbox) # 0 /\ n \in Nat /\ n + 1 = Len(inbox) /\ Len(inbox') = n
        /\ \A k \in 1..n : inbox'[k] = inbox[k + 1]
    BY HeardShape DEF Hear
  <1>2. device' = device /\ setup' = setup
    BY DEF Hear, world
  <1>3. earned' = earned
    BY DEF Hear, Due
  <1>4. cache' = inbox[1].value /\ sent' = IF cache # cache' THEN sent + 1 ELSE sent
    <2>1. StatsHear(inbox[1], requests)
      BY <1>1, HeardShape DEF Hear
    <2> QED
      BY <2>1 DEF StatsHear, Learn, Emit, Ignore, node, output
  <1>5. Heard[0] = cache /\ Heard[1] = cache'
    BY <1>1, <1>4, HeardShape
  <1>6. \A k \in 0..(n + 1) : Heard'[k] = Heard[k + 1]
    <2> SUFFICES ASSUME NEW k \in 0..(n + 1)
                 PROVE  Heard'[k] = Heard[k + 1]
      OBVIOUS
    <2>0. k + 1 \in 0..(Len(inbox) + 1) /\ k \in 0..(Len(inbox') + 1)
      BY <1>1
    <2>1. Heard[k + 1] = IF k + 1 <= Len(inbox) THEN inbox[k + 1].value ELSE device["stats"]
      BY <2>0, HeardShape
    <2>2. Heard'[k] = IF k = 0 THEN cache' ELSE IF k <= n THEN inbox'[k].value ELSE device["stats"]
      BY <1>1, <1>2, <2>0 DEF Heard
    <2> QED
      BY <1>1, <1>4, <2>1, <2>2
  <1> HIDE DEF n
  <1>7. Cardinality(Turns(Heard', n)) + (IF Heard[0] # Heard[1] THEN 1 ELSE 0)
           <= Cardinality(Turns(Heard, Len(inbox)))
    BY <1>1, <1>6, TurnsHear
  <1>8. Cardinality(Turns(Heard', n)) \in Nat /\ Cardinality(Turns(Heard, Len(inbox))) \in Nat
    BY <1>1, TurnsFinite
  <1>9. sent + Cardinality(Turns(Heard, Len(inbox))) <= earned
    BY DEF Listening
  <1> QED
    BY <1>1, <1>3, <1>4, <1>5, <1>7, <1>8, <1>9 DEF Inv, Counts

LEMMA ChangeListening ==
  ASSUME Inv, Listening, NEW r \in Resources, NEW v \in 0..2, NEW how, Change(r, v, how),
         setup.kind = "stats"
  PROVE  /\ \A e \in unannounced' : e.of = "stats"
         /\ setup.mode = "on-change" => sent' + Cardinality(Turns(Heard', Len(inbox'))) <= earned'
  <1>1. r = "stats" /\ how \notin {"restart", "undone"}
    BY DEF Change, Concerns
  <1>2. \A e \in unannounced' : e.of = "stats"
    BY <1>1 DEF Change, Listening, Event
  <1>3. earned' = earned + 1 /\ UNCHANGED <<inbox, cache, sent>>
    BY DEF Change, Feeds, link, node, output
  <1>4. \A k \in 0..Len(inbox) : Heard'[k] = Heard[k]
    BY <1>3, HeardShape DEF Heard
  <1>5. Cardinality(Turns(Heard', Len(inbox))) <= Cardinality(Turns(Heard, Len(inbox))) + 1
    BY <1>4, HeardShape, TurnsChange
  <1>6. Cardinality(Turns(Heard', Len(inbox))) \in Nat
    BY HeardShape, TurnsFinite
  <1>7. setup.mode = "on-change" => sent + Cardinality(Turns(Heard, Len(inbox))) <= earned
    BY DEF Listening
  <1> QED
    BY <1>2, <1>3, <1>5, <1>6, <1>7, HeardShape DEF Inv, Counts

(* What the device has goes into the stream.                               *)
LEMMA SendListening ==
  ASSUME Inv, NEW e, inbox' = Append(inbox, e), e.value = device["stats"], cache' = cache, device' = device
  PROVE  Turns(Heard', Len(inbox')) = Turns(Heard, Len(inbox))
  <1> DEFINE n == Len(inbox)
  <1>1. inbox \in Seq(Events \cup {e}) /\ n \in Nat
    BY HeardShape
  <1>2. Len(inbox') = n + 1 /\ inbox'[n + 1] = e /\ \A k \in 1..n : inbox'[k] = inbox[k]
    BY <1>1
  <1>3. \A k \in 0..(n + 1) : Heard[k] = IF k = 0 THEN cache ELSE IF k <= n THEN inbox[k].value ELSE device["stats"]
    BY HeardShape
  <1>4. \A k \in 0..(n + 2) : Heard'[k] = IF k = 0 THEN cache ELSE IF k <= n + 1 THEN inbox'[k].value
                                          ELSE device["stats"]
    BY <1>1, <1>2 DEF Heard
  <1> HIDE DEF n
  <1>5. \A k \in 0..(n + 1) : Heard'[k] = Heard[k]
    <2> SUFFICES ASSUME NEW k \in 0..(n + 1)
                 PROVE  Heard'[k] = Heard[k]
      OBVIOUS
    <2>1. CASE k = 0
      BY <1>1, <1>3, <1>4, <2>1
    <2>2. CASE k \in 1..n
      BY <1>1, <1>2, <1>3, <1>4, <2>2
    <2>3. CASE k = n + 1
      BY <1>1, <1>2, <1>3, <1>4, <2>3
    <2> QED
      BY <1>1, <2>1, <2>2, <2>3
  <1>6. Heard'[n + 2] = device["stats"] /\ Heard[n + 1] = device["stats"]
    BY <1>1, <1>3, <1>4
  <1>7. Turns(Heard', n + 1) = Turns(Heard, n)
    BY <1>1, <1>5, <1>6, TurnsSend
  <1> QED
    BY <1>2, <1>7 DEF n

LEMMA StreamListening ==
  ASSUME Inv, Listening, setup.kind = "stats",
         Others \/ HubSwitch \/ Connect \/ ConnectRefused \/ Drop \/ Close
  PROVE  /\ \A e \in unannounced' : e.of = "stats"
         /\ setup.mode = "on-change" => sent' + Cardinality(Turns(Heard', Len(inbox'))) <= earned'
  <1>1. UNCHANGED <<device, cache, sent, earned>> /\ unannounced' \subseteq unannounced
    BY DEF Others, PublishChange, HubSwitch, Connect, ConnectRefused, Drop, Close, world, node, told, output
  <1>2. Cardinality(Turns(Heard', Len(inbox'))) <= Cardinality(Turns(Heard, Len(inbox)))
        /\ Cardinality(Turns(Heard', Len(inbox'))) \in Nat
    <2>0. Cardinality(Turns(Heard, Len(inbox))) \in Nat
      BY HeardShape
    <2>1. CASE inbox' = inbox
      <3>1. Heard' = Heard
        BY <1>1, <2>1 DEF Heard
      <3> QED
        BY <2>0, <2>1, <3>1
    <2>2. ASSUME NEW e \in unannounced, PublishChange(e), stream = "up"
          PROVE  Cardinality(Turns(Heard', Len(inbox'))) = Cardinality(Turns(Heard, Len(inbox)))
      <3> DEFINE f == [e EXCEPT !.value = device["stats"], !.age = age]
      <3>1. e \in EventType /\ e.of = "stats"
        BY <2>2 DEF Inv, Device, Events, Listening
      <3>2. inbox' = Append(inbox, f) /\ f.value = device["stats"]
        BY <2>2, <3>1 DEF PublishChange, Publish, EventType
      <3> HIDE DEF f
      <3> QED
        BY <1>1, <3>2, SendListening
    <2>3. CASE Connect
      <3> DEFINE f == Event("stats", device["stats"], FALSE, age)
      <3>1. inbox = <<>> /\ inbox' = <<f>> /\ f.value = device["stats"]
        BY <2>3 DEF Connect, Listening, Event
      <3>2. inbox' = Append(inbox, f)
        BY <3>1
      <3> HIDE DEF f
      <3> QED
        BY <1>1, <2>0, <3>1, <3>2, SendListening
    <2>4. CASE inbox' = <<>>
      <3>1. Len(inbox') = 0 /\ Len(inbox) \in Nat
        BY <2>4, HeardShape
      <3>2. Heard'[0] = cache /\ Heard'[1] = device["stats"]
        BY <1>1, <3>1 DEF Heard
      <3> QED
        BY <3>1, <3>2, HeardShape, TurnsDrop, TurnsFinite
    <2>5. CASE Others
      <3>1. PICK e \in unannounced : PublishChange(e)
        BY <2>5 DEF Others
      <3>2. CASE stream = "up"
        BY <2>0, <2>2, <3>1, <3>2
      <3>3. CASE stream # "up"
        <4>1. inbox' = inbox
          BY <3>1, <3>3 DEF PublishChange, Publish
        <4> QED
          BY <2>1, <4>1
      <3> QED
        BY <3>2, <3>3
    <2>6. CASE HubSwitch \/ ConnectRefused
      BY <2>1, <2>6 DEF HubSwitch, ConnectRefused, link
    <2>7. CASE Drop \/ Close
      BY <2>4, <2>7 DEF Drop, Close
    <2> QED
      BY <2>3, <2>5, <2>6, <2>7
  <1>3. setup.mode = "on-change" => sent + Cardinality(Turns(Heard, Len(inbox))) <= earned
    BY DEF Listening
  <1> QED
    BY <1>1, <1>2, <1>3, HeardShape DEF Listening, Inv, Counts

LEMMA OpenStream ==
  ASSUME stream # "up" => inbox = <<>>, Next
  PROVE  stream' # "up" => inbox' = <<>>
  <1>1. CASE UNCHANGED <<stream, inbox>>
    BY <1>1
  <1>2. ASSUME NEW e, Publish(e), stream' = stream
        PROVE  stream' # "up" => inbox' = <<>>
    BY <1>2 DEF Publish
  <1>3. CASE \E i \in DOMAIN requests : Transport(i) \/ Fail(i) \/ Reply(i)
    BY <1>1, <1>2, <1>3 DEF Transport, Read, Carry, Announce, Refuse, Fail, Reply, link
  <1>4. CASE Hear
    BY <1>4 DEF Hear
  <1>5. CASE Others \/ HubSwitch \/ Connect \/ ConnectRefused \/ Drop \/ Close
    BY <1>1, <1>2, <1>5 DEF Others, PublishChange, HubSwitch, Connect, ConnectRefused, Drop, Close, link
  <1>6. ASSUME NEW m, Input(m)
        PROVE  UNCHANGED <<stream, inbox>>
    BY <1>6 DEF Input, link
  <1>7. ASSUME NEW r, NEW v, NEW how, Change(r, v, how)
        PROVE  UNCHANGED <<stream, inbox>>
    BY <1>7 DEF Change, link
  <1>8. CASE Poll \/ First \/ Flush
    BY <1>1, <1>8 DEF Poll, First, Flush, link
  <1> QED
    BY <1>1, <1>3, <1>4, <1>5, <1>6, <1>7, <1>8 DEF Next

LEMMA ListeningStep == Inv /\ Listening /\ [Next]_vars => Listening'
  <1> SUFFICES ASSUME Inv, Listening, [Next]_vars PROVE Listening'
    OBVIOUS
  <1>1. Inv'
    BY InvStep
  <1>2. CASE Next
    <2>1. stream' # "up" => inbox' = <<>>
      BY <1>2, OpenStream DEF Listening
    <2>2. setup' = setup
      BY <1>2 DEF Next, Transport, Read, Carry, Announce, Refuse, Fail, Reply, Change, Others, PublishChange,
                  HubSwitch, Connect, ConnectRefused, Drop, Hear, Input, Poll, First, Flush, Close
    <2>3. CASE setup.kind # "stats"
      BY <2>1, <2>2, <2>3 DEF Listening
    <2>4. CASE setup.kind = "stats"
      <3>1. /\ \A e \in unannounced' : e.of = "stats"
            /\ setup.mode = "on-change" => sent' + Cardinality(Turns(Heard', Len(inbox'))) <= earned'
        <4>1. CASE Hear
          <5>1. unannounced' = unannounced
            BY <4>1 DEF Hear, world
          <5> QED
            BY <1>1, <2>4, <4>1, <5>1, HearListening DEF Listening
        <4>2. CASE Flush
          BY <2>4, <4>2, StatsQuiet, SetupTypes DEF Listening, Flush, world, Inv, Timers
        <4> QED
          BY <1>2, <2>4, <4>1, <4>2, StatsQuiet, ChangeListening, StreamListening DEF Next
      <3> QED
        BY <2>1, <2>2, <2>4, <3>1 DEF Listening
    <2> QED
      BY <2>3, <2>4
  <1>3. CASE UNCHANGED vars
    BY <1>3 DEF vars, world, link, node, told, output, Listening, Heard
  <1> QED
    BY <1>2, <1>3

LEMMA InitListening == Init => Listening
  <1> SUFFICES ASSUME Init
               PROVE  Listening
    OBVIOUS
  <1>1. Len(inbox) = 0 /\ inbox = <<>> /\ unannounced = {} /\ sent = 0
    BY DEF Init
  <1>2. Turns(Heard, 0) \subseteq {0}
    BY DEF Turns
  <1>3. IsFiniteSet({0}) /\ Cardinality({0}) = 1
    BY FS_Singleton
  <1>4. Cardinality(Turns(Heard, Len(inbox))) \in 0..1
    BY <1>1, <1>2, <1>3, FS_Subset, TurnsFinite
  <1>5. setup.kind = "stats" => earned = 1
    BY DEF Init
  <1> QED
    BY <1>1, <1>4, <1>5 DEF Listening

LEMMA IInvStep == IInv /\ [Next]_vars => IInv'
  BY InvStep, BalanceStep, LookingStep, ListeningStep DEF IInv
LEMMA InitIInv == Init => IInv
  BY InitInv, InitBalance, InitLooking, InitListening DEF IInv

THEOREM Invariance == Spec => []IInv
  BY InitIInv, IInvStep, PTL DEF Spec

(* Whatever is asked, answered, announced and lost, a node only believes,  *)
(* asks for and shows values its resource can have.                        *)
THEOREM TypeCorrect == Spec => []TypeOK
  <1>1. IInv => TypeOK
    <2> SUFFICES ASSUME Inv PROVE TypeOK
      BY DEF IInv
    <2>1. \A r \in Resources : device[r] \in Values(r) \cup {Unknown}
      BY DEF Inv, Device, Worth, Values
    <2>2. \A i \in DOMAIN requests : requests[i] \in RequestType
      <3>1. \A i \in DOMAIN requests : requests[i] \in Sound
        BY DEF Inv, Line
      <3> QED
        BY <3>1 DEF Sound
    <2>3. \A i \in DOMAIN inbox : inbox[i] \in EventType
      BY DEF Inv, Link, Events
    <2>4. \A e \in unannounced : e \in EventType
      BY DEF Inv, Device, Events
    <2>5. cache \in IF setup.kind = "threshold" THEN 0..1 ELSE 0..2 \cup {Unknown, Never}
      BY DEF Inv, Cache
    <2>6. {deeds, faults, age, seen, earned, sent} \subseteq Nat
      BY DEF Inv, Counts
    <2> QED
      BY <2>1, <2>2, <2>3, <2>4, <2>5, <2>6 DEF Inv, Device, Link, Timers, Counts, TypeOK
  <1> QED
    BY Invariance, <1>1, PTL

(* A message that says the device did something is about orders the device *)
(* carried out, both of them for a reset of everything.                    *)
THEOREM DoneMeansDoneHolds == Spec => []DoneMeansDone
  <1>1. IInv => DoneMeansDone
    BY DEF IInv, Inv
  <1> QED
    BY Invariance, <1>1, PTL

(* However many requests, polls and events there are, and whoever changes  *)
(* the device in between, a node sends no more messages than it was asked  *)
(* for and than others gave it reason to; of a node that looks while reads *)
(* do not overtake one another.                                            *)
THEOREM NothingTwiceHolds == Spec => []NothingTwice
  <1>1. IInv => NothingTwice
    <2> SUFFICES ASSUME IInv PROVE NothingTwice
      OBVIOUS
    <2>0. setup.kind \in Kinds /\ setup.mode \in Choices(setup.kind) /\ sent \in Nat /\ earned \in Nat
      BY SetupTypes DEF IInv, Inv, Device, Counts
    <2>1. CASE setup.mode = "interval"
      BY <2>0, <2>1 DEF IInv, Balance, NothingTwice
    <2>2. CASE setup.kind \in Answering /\ setup.mode # "interval"
      <3>1. Cardinality(Debts(requests)) \in Nat
        BY DebtsFinite DEF IInv, Inv, Line
      <3> QED
        BY <2>0, <2>2, <3>1 DEF IInv, Balance, NothingTwice
    <2>3. CASE setup.kind = "start-stop"
      BY <2>3 DEF IInv, Balance, NothingTwice
    <2>4. CASE setup.kind = "detection" /\ setup.mode = "on-change"
      BY <2>0, <2>4 DEF IInv, Inv, Counts, Looking, NothingTwice
    <2>5. CASE setup.kind = "stats" /\ setup.mode = "on-change"
      BY <2>0, <2>5, HeardShape DEF IInv, Listening, NothingTwice
    <2>6. setup.kind \in {"detection", "stats"} => setup.mode \in {"interval", "on-change"}
      BY <2>0 DEF Choices, Modes
    <2> QED
      BY <2>0, <2>1, <2>2, <2>3, <2>4, <2>5, <2>6 DEF Kinds, Answering
  <1> QED
    BY Invariance, <1>1, PTL
=============================================================================
