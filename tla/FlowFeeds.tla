------------------------------- MODULE FlowFeeds -------------------------------
(***************************************************************************)
(* The nodes that only listen: detection.js, stats.js and                  *)
(* system-status.js, and the timers of all nodes.  An object list, a       *)
(* snapshot of the statistics and the metrics are a value each; what       *)
(* on-change compares (buildSignature, detections) is all of it.           *)
(***************************************************************************)
EXTENDS FlowCommands

(* buildSignature: the same objects as in the last message.                *)
SameSignature(q) == setup.mode = "on-change" /\ q.got = cache

(* fetchSnapshot.  In interval mode nobody looks at the cache.             *)
DetectionReply(q, rest) ==
    \/ Failed(q) /\ Show(rest, Text("error"))
    \/ Ok(q) /\ SameSignature(q) /\ Ignore(rest)
    \/ Ok(q) /\ ~SameSignature(q) /\ Learn(rest, "scene", q.got, q.got > 0, Told(q.got))

(* handleEvent: a change is sent on at once, or kept for the timer that    *)
(* the first one starts.                                                   *)
StatsHear(e, rest) ==
    \/ setup.mode = "on-change" /\ e.value = cache /\ Ignore(rest) /\ UNCHANGED timers
    \/ /\ setup.mode = "on-change" /\ e.value # cache
       /\ Learn(rest, "stats", e.value, TRUE, Told(e.value)) /\ UNCHANGED timers
    \/ /\ setup.mode = "interval"
       /\ cache' = e.value /\ timers' = timers \cup {"flush"}
       /\ requests' = rest /\ UNCHANGED <<badge, output>>

(* fetchStatus.                                                            *)
SystemInput(m, rest) == setup.mode = "on-demand" /\ Send(rest, Ask("read", "metrics"))

SystemReply(q, rest) ==
    \/ Failed(q) /\ Show(rest, Text("error"))
    \/ Ok(q) /\ Learn(rest, "metrics", q.got, TRUE, Told(q.got))

-----------------------------------------------------------------------------
(* Timers.                                                                 *)

(* What the constructor sets, and the read it begins with.                 *)
TimersOf(c) ==
    CASE c.kind \in {"gpio", "threshold"} -> {"poll"}
      [] c.kind = "detection" -> {"poll", "first"}
      [] c.kind = "system" /\ c.mode = "interval" -> {"poll", "first"}
      [] OTHER -> {}

PollOf(c) ==
    CASE c.kind = "threshold" -> Ask("read", c.mode)
      [] c.kind = "gpio" -> Ask("read", "pin")
      [] c.kind = "detection" -> Ask("read", "scene")
      [] c.kind = "system" -> Ask("read", "metrics")

FirstRequests(c) == IF c.kind \in {"gpio", "threshold"} THEN <<PollOf(c)>> ELSE <<>>

(* setInterval of a read: the last one need not have come back.            *)
Poll ==
    /\ "poll" \in timers /\ Len(requests) < MaxPolls[setup.kind]
    /\ Send(requests, PollOf(setup))
    /\ UNCHANGED <<setup, world, link, told, life, carried, deeds, faults>>

(* The setTimeout of the first read: nothing clears it.                    *)
First ==
    /\ "first" \in timers
    /\ timers' = timers \ {"first"}
    /\ Send(requests, PollOf(setup))
    /\ UNCHANGED <<setup, world, link, told, closed, carried, deeds, faults>>

(* The interval of a stats node: the latest snapshot again and again.      *)
Flush ==
    /\ "flush" \in timers
    /\ Learn(requests, "stats", cache, TRUE, Told(cache))
    /\ UNCHANGED <<setup, world, link, told, life, carried, deeds, faults>>

(* Variant: the interval is not cleared.                                   *)
KeepTimers == timers

(* node.on("close"): the intervals are cleared.                            *)
TimersLeft == timers \cap {"first"}
=============================================================================
