------------------------------ MODULE MCFlowNodes ------------------------------
(* Small instances of FlowNodes.                                           *)
EXTENDS FlowNodes

(* A detection node polls every 300 ms, the others every few seconds.      *)
PollBound == [kind \in Kinds |-> IF kind = "detection" THEN 2 ELSE 1]

Direct(kind, mode) ==
    [kind |-> kind, mode |-> mode, value |-> 0, hub |-> "none", named |-> FALSE,
     key |-> "right", ca |-> "hub", verify |-> TRUE, url |-> "", env |-> ""]

Hub(kind, mode) == [Direct(kind, mode) EXCEPT !.hub = "deployed", !.named = TRUE]

AllSetups ==
    { Direct("start-stop", "toggle"), Direct("gpio", "toggle"),
      [Direct("threshold", "confidence") EXCEPT !.value = Unknown], Direct("models", "select"), Direct("trigger", "toggle"),
      Direct("detection", "on-change"), Direct("detection", "interval"),
      Direct("stats", "on-change"), Direct("stats", "interval"),
      Direct("system", "on-demand"), Direct("system", "interval"),
      Hub("reset", "all"), Hub("stats", "on-change"),
      [Hub("reset", "all") EXCEPT !.key = "wrong"],
      [Hub("trigger", "enable") EXCEPT !.ca = ""],
      [Hub("reset", "all") EXCEPT !.hub = "missing", !.env = "elsewhere"],
      [Hub("system", "on-demand") EXCEPT !.named = FALSE, !.url = "gateway"] }

(* Every request answered, no stream broken.                               *)
BadgeSetups == {Direct("start-stop", "toggle")}
=============================================================================
