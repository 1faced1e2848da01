------------------------------ MODULE EventStream ------------------------------
(***************************************************************************)
(* subscribeSSE of http-client.js against the event stream of the gateway  *)
(* (EventService in gateway/events.py, stream_events in                    *)
(* gateway/controllers/streams.py): a connection at a time, a timer that   *)
(* makes the next one, a close.  An event is its number; of the bytes on   *)
(* their way only matters which events they complete.                      *)
(***************************************************************************)
EXTENDS Integers, Sequences

CONSTANTS
    MaxConns,       \* bound: connections tried
    MaxEvents,      \* bound: events published
    HistoryLimit    \* events the gateway can replay

ASSUME StreamAssumption == MaxConns \in Nat \ {0} /\ MaxEvents \in Nat /\ HistoryLimit \in Nat

Conns == 1..MaxConns

VARIABLES
    conn,           \* per connection: where it is
    req,            \* the latest one
    timers,         \* reconnectTimer: how many are set
    closed,
    published,      \* EventService._version
    at,             \* per connection: the version its generator has got to
    pending         \* per connection: what was yielded or is about to be

VARIABLES           \* history
    told,           \* events the node heard of, or that a snapshot covered
    evicted,        \* events that left the replay buffer too early for a stream
    stray,          \* a late error made a connection beside a working one
    silent          \* a connection died and nobody noticed

client == <<conn, req, timers, closed>>
server == <<published, at, pending>>
history == <<told, evicted, stray, silent>>
vars == <<client, server, history>>

States == {"none", "connecting", "live", "refused", "over", "dead"}

(* The connections that can still bring something.                         *)
Talking(c) == conn[c] \in {"connecting", "live"}

(* An event is itself; a snapshot makes the node read everything so far.   *)
One(n) == [from |-> n, upto |-> n]
Snapshot(n) == [from |-> 1, upto |-> n]
Covers(item) == item.from..item.upto

Init ==
    /\ conn = [c \in Conns |-> IF c = 1 THEN "connecting" ELSE "none"]
    /\ req = 1 /\ timers = 0 /\ closed = FALSE
    /\ published = 0 /\ at = [c \in Conns |-> 0] /\ pending = [c \in Conns |-> <<>>]
    /\ told = {} /\ evicted = {} /\ stray = FALSE /\ silent = FALSE

-----------------------------------------------------------------------------
(* The client.                                                             *)

(* Variant: every error sets a timer of its own.                           *)
TimerEach == IF closed THEN timers ELSE timers + 1

(* scheduleReconnect: one timer at a time, none once closed.               *)
ScheduleReconnect == IF closed \/ timers > 0 THEN timers ELSE 1

(* Variant: a stream the server ends is not tried again.                   *)
NotAgain == timers

(* What "end" and "error" of a response do.                                *)
AfterEnd == ScheduleReconnect

(* Variant: close() leaves the connection alone.                           *)
LeftAlone(c) == conn[c]

(* req.destroy().                                                          *)
Destroyed(c) == IF conn[c] = "none" THEN "none" ELSE "over"

Becomes(c, state) == conn' = [conn EXCEPT ![c] = state]

(* The timer: connect().                                                   *)
Reconnect ==
    /\ timers > 0 /\ timers' = timers - 1
    /\ ~closed /\ req < MaxConns
    /\ req' = req + 1
    /\ Becomes(req + 1, "connecting")
    /\ UNCHANGED <<closed, server, history>>

(* No connection, or one that fails before an answer.                      *)
Unreachable(c) ==
    /\ conn[c] = "connecting"
    /\ Becomes(c, "over") /\ timers' = ScheduleReconnect
    /\ UNCHANGED <<req, closed, server, history>>

(* A status other than 200: its body is still read to the end ...          *)
Refused(c) ==
    /\ conn[c] = "connecting"
    /\ Becomes(c, "refused") /\ timers' = ScheduleReconnect
    /\ UNCHANGED <<req, closed, server, history>>

(* ... and comes to it ...                                                 *)
Drained(c) ==
    /\ conn[c] = "refused"
    /\ Becomes(c, "over")
    /\ UNCHANGED <<req, timers, closed, server, history>>

(* ... or breaks off, when the next connection may have been made.         *)
LateError(c) ==
    /\ conn[c] = "refused"
    /\ Becomes(c, "over") /\ timers' = ScheduleReconnect
    /\ stray' = (stray \/ (~closed /\ timers = 0))
    /\ UNCHANGED <<req, closed, server, told, evicted, silent>>

(* "data" with a complete event: onEvent, or onError if that throws.       *)
Tell(c) ==
    /\ conn[c] = "live" /\ pending[c] # <<>>
    /\ told' = told \cup Covers(Head(pending[c]))
    /\ pending' = [pending EXCEPT ![c] = Tail(@)]
    /\ UNCHANGED <<client, published, at, evicted, stray, silent>>

(* The stream ends or breaks: what was on its way is lost.                 *)
Ended(c) ==
    /\ conn[c] = "live"
    /\ Becomes(c, "over") /\ timers' = AfterEnd
    /\ pending' = [pending EXCEPT ![c] = <<>>]
    /\ UNCHANGED <<req, closed, published, at, history>>

(* The other side is gone without a word: there is no time-out.            *)
Vanished(c) ==
    /\ conn[c] = "live"
    /\ Becomes(c, "dead")
    /\ pending' = [pending EXCEPT ![c] = <<>>]
    /\ silent' = TRUE
    /\ UNCHANGED <<req, timers, closed, published, at, told, evicted, stray>>

(* close(): the timer, and the latest connection.                          *)
Close ==
    /\ ~closed /\ closed' = TRUE
    /\ timers' = 0
    /\ Becomes(req, Destroyed(req))
    /\ UNCHANGED <<req, server, history>>

-----------------------------------------------------------------------------
(* The gateway.                                                            *)

Publish ==
    /\ published < MaxEvents /\ published' = published + 1
    /\ UNCHANGED <<client, at, pending, history>>

(* stream_events: the snapshot and its version are taken together.         *)
Accepted(c) ==
    /\ conn[c] = "connecting"
    /\ Becomes(c, "live")
    /\ at' = [at EXCEPT ![c] = published]
    /\ pending' = [pending EXCEPT ![c] = <<Snapshot(published)>>]
    /\ UNCHANGED <<req, timers, closed, published, history>>

Buffered == {n \in 1..published : n > published - HistoryLimit}

(* Variant: of several events only the newest is sent.                     *)
NewestOnly(c) == <<One(published)>>

(* wait_for_changes: the buffered events that are news, or a snapshot.     *)
Replay(c) ==
    LET first == IF at[c] < published - HistoryLimit THEN published - HistoryLimit ELSE at[c] IN
    IF first = published THEN <<Snapshot(published)>>
    ELSE [i \in 1..(published - first) |-> One(first + i)]

(* The generator, when it is through with what it got last.                *)
Woken(c) ==
    /\ conn[c] = "live" /\ pending[c] = <<>> /\ at[c] < published
    /\ pending' = [pending EXCEPT ![c] = Replay(c)]
    /\ at' = [at EXCEPT ![c] = published]
    /\ evicted' = IF Buffered = {} THEN evicted
                  ELSE evicted \cup ((at[c] + 1)..published \ Buffered)
    /\ UNCHANGED <<client, published, told, stray, silent>>

-----------------------------------------------------------------------------
Next ==
    \/ Reconnect \/ Close \/ Publish
    \/ \E c \in Conns : Unreachable(c) \/ Refused(c) \/ Drained(c) \/ LateError(c) \/ Tell(c)
                        \/ Ended(c) \/ Vanished(c) \/ Accepted(c) \/ Woken(c)

(* Timers fire; a connection that was not made is accepted or fails; what  *)
(* is sent on a connection that lives arrives.                             *)
Fairness ==
    /\ WF_vars(Reconnect)
    /\ \A c \in Conns :
        /\ WF_vars(Accepted(c) \/ Unreachable(c) \/ Refused(c))
        /\ WF_vars(Tell(c)) /\ WF_vars(Woken(c))

Spec == Init /\ [][Next]_vars /\ Fairness

-----------------------------------------------------------------------------
(* Properties.                                                             *)

Items == [from : Nat, upto : Nat]

TypeOK ==
    /\ conn \in [Conns -> States] /\ req \in Conns
    /\ timers \in 0..1 /\ closed \in BOOLEAN
    /\ published \in Nat /\ at \in [Conns -> Nat]
    /\ pending \in [Conns -> Seq(Items)]
    /\ told \subseteq 1..published /\ evicted \subseteq 1..published
    /\ stray \in BOOLEAN /\ silent \in BOOLEAN

(* However errors, ends and timers come, a node has one connection, and    *)
(* none once it closed it, except that the late error of a refused one     *)
(* makes a second, which nobody closes.                                    *)
OneStream ==
    \/ stray
    \/ \A c \in Conns : Talking(c) => c = req /\ timers = 0 /\ ~closed

(* A stream that is behind has nothing behind it: whatever was published   *)
(* before its place was told, is on its way, or left the replay buffer     *)
(* before a slow subscriber came to it.                                    *)
NothingSkipped ==
    \A c \in Conns : conn[c] = "live" =>
        \A n \in 1..at[c] :
            n \in told \cup evicted \/ \E i \in DOMAIN pending[c] : n \in Covers(pending[c][i])

(* The connection as a subscription; one that nobody will close goes on.   *)
Subscribed == INSTANCE Subscription WITH open <- ~closed \/ stray
ImplementsSubscription == Subscribed!Spec

(* A node hears of everything in the end, over any number of refusals and  *)
(* breaks, unless it closed its stream, the tries run out (the bound), an  *)
(* event left the replay buffer, or the connection died silently.          *)
StaysInformed ==
    \A n \in 1..MaxEvents :
        n <= published ~> \/ n \in told \cup evicted \/ closed \/ silent
                          \/ req = MaxConns /\ ~Talking(req)
=============================================================================
