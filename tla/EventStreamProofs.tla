--------------------------- MODULE EventStreamProofs ---------------------------
(***************************************************************************)
(* For any number of connections, events and places in the replay buffer:  *)
(* one connection, nothing skipped, and the promise of Subscription.       *)
(***************************************************************************)
EXTENDS EventStream, TLAPS

(* What is on its way was published.                                       *)
Deliverable ==
    \A c \in Conns : \A i \in DOMAIN pending[c] :
        pending[c][i].from >= 1 /\ pending[c][i].upto <= published

IInv == TypeOK /\ OneStream /\ Deliverable /\ NothingSkipped

USE StreamAssumption DEF StreamAssumption

LEMMA InitIInv == Init => IInv
<1> SUFFICES ASSUME Init PROVE IInv
  OBVIOUS
<1> USE DEF Init, Conns
<1>1. [c \in Conns |-> <<>>] \in [Conns -> Seq(Items)]
  OBVIOUS
<1>2. conn \in [Conns -> States] /\ req \in Conns
  BY DEF States
<1>6. told \subseteq 1..published /\ evicted \subseteq 1..published
  OBVIOUS
<1>7. at \in [Conns -> Nat] /\ published \in Nat /\ timers \in 0..1
  OBVIOUS
<1>8. TypeOK BY <1>1, <1>2, <1>6, <1>7 DEF TypeOK
<1>3. OneStream BY DEF OneStream, Talking
<1>4. Deliverable BY DEF Deliverable
<1>5. NothingSkipped BY DEF NothingSkipped
<1> QED BY <1>8, <1>3, <1>4, <1>5 DEF IInv

-----------------------------------------------------------------------------
(* What wait_for_changes hands out is made of published events.            *)
LEMMA ReplayType ==
  ASSUME TypeOK, NEW c \in Conns, at[c] < published
  PROVE  /\ Replay(c) \in Seq(Items)
         /\ \A i \in DOMAIN Replay(c) : Replay(c)[i].from >= 1 /\ Replay(c)[i].upto <= published
<1> DEFINE first == IF at[c] < published - HistoryLimit THEN published - HistoryLimit ELSE at[c]
<1>1. first \in Nat /\ first <= published
  BY DEF TypeOK
<1>2. CASE first = published
  <2>1. Replay(c) = <<Snapshot(published)>>
    BY <1>2 DEF Replay
  <2>2. Snapshot(published) \in Items
    BY DEF Snapshot, Items, TypeOK
  <2> QED BY <2>1, <2>2 DEF Snapshot, TypeOK
<1>3. CASE first # published
  <2>1. Replay(c) = [i \in 1..(published - first) |-> One(first + i)]
    BY <1>3 DEF Replay
  <2>2. \A i \in 1..(published - first) :
            One(first + i) \in Items /\ first + i >= 1 /\ first + i <= published
    BY <1>1 DEF One, Items, TypeOK
  <2>3. published - first \in Nat
    BY <1>1 DEF TypeOK
  <2>4. Replay(c) \in Seq(Items)
    BY <2>1, <2>2, <2>3
  <2>5. \A i \in DOMAIN Replay(c) : Replay(c)[i].from >= 1 /\ Replay(c)[i].upto <= published
    BY <2>1, <2>2 DEF One
  <2> QED BY <2>4, <2>5
<1> QED BY <1>2, <1>3

(* Every event after a stream's place is handed out or was evicted.        *)
LEMMA ReplayComplete ==
  ASSUME TypeOK, NEW c \in Conns, at[c] < published, NEW n \in (at[c] + 1)..published
  PROVE  \/ \E i \in DOMAIN Replay(c) : n \in Covers(Replay(c)[i])
         \/ Buffered # {} /\ n \notin Buffered
<1> DEFINE first == IF at[c] < published - HistoryLimit THEN published - HistoryLimit ELSE at[c]
<1>1. first \in Nat /\ first <= published
  BY DEF TypeOK
<1>2. CASE first = published
  BY <1>2 DEF Replay, Snapshot, Covers, TypeOK
<1>3. CASE first # published /\ n > first
  <2>1. Replay(c) = [i \in 1..(published - first) |-> One(first + i)]
    BY <1>3 DEF Replay
  <2>2. n - first \in 1..(published - first) /\ first + (n - first) = n
    BY <1>1, <1>3 DEF TypeOK
  <2>3. n \in Covers(Replay(c)[n - first])
    BY <2>1, <2>2 DEF One, Covers, TypeOK
  <2> QED BY <2>1, <2>2, <2>3
<1>4. CASE first # published /\ n <= first
  <2>1. first = published - HistoryLimit /\ n <= published - HistoryLimit /\ HistoryLimit > 0
    BY <1>1, <1>4 DEF TypeOK
  <2>2. published \in Buffered /\ n \notin Buffered
    BY <1>1, <1>4, <2>1 DEF Buffered, TypeOK
  <2> QED BY <2>2
<1> QED BY <1>2, <1>3, <1>4, <1>1 DEF TypeOK

-----------------------------------------------------------------------------
LEMMA TypePreserved == IInv /\ [Next]_vars => TypeOK'
<1> SUFFICES ASSUME IInv, [Next]_vars PROVE TypeOK'
  OBVIOUS
<1> USE DEF IInv, TypeOK, Conns, States, Becomes, ScheduleReconnect
<1>1. CASE Reconnect BY <1>1 DEF Reconnect, server, history
<1>2. CASE Close BY <1>2 DEF Close, server, history, Destroyed
<1>3. CASE Publish BY <1>3 DEF Publish, client, history
<1>4. ASSUME NEW c \in Conns, Unreachable(c) \/ Refused(c) \/ Drained(c) PROVE TypeOK'
  <2>1. CASE Unreachable(c) BY <2>1 DEF Unreachable, server, history
  <2>2. CASE Refused(c) BY <2>2 DEF Refused, server, history
  <2>3. CASE Drained(c) BY <2>3 DEF Drained, server, history
  <2> QED BY <1>4, <2>1, <2>2, <2>3
<1>5. ASSUME NEW c \in Conns, LateError(c) PROVE TypeOK'
  BY <1>5 DEF LateError, server
<1>6. ASSUME NEW c \in Conns, Tell(c) PROVE TypeOK'
  <2>1. Head(pending[c]) \in Items /\ Head(pending[c]) = pending[c][1]
        /\ 1 \in DOMAIN pending[c] /\ Tail(pending[c]) \in Seq(Items)
    BY <1>6 DEF Tell
  <2>2. Covers(Head(pending[c])) \subseteq 1..published
    BY <2>1 DEF Covers, Deliverable, Items
  <2>3. \A d \in Conns : pending'[d] \in Seq(Items)
    BY <1>6, <2>1 DEF Tell
  <2>4. told' \subseteq 1..published'
    BY <1>6, <2>2 DEF Tell
  <2> QED BY <1>6, <2>3, <2>4 DEF Tell, client
<1>7. ASSUME NEW c \in Conns, Ended(c) \/ Vanished(c) PROVE TypeOK'
  <2>1. <<>> \in Seq(Items) /\ [pending EXCEPT ![c] = <<>>] \in [Conns -> Seq(Items)]
    OBVIOUS
  <2>2. CASE Ended(c) BY <2>1, <2>2 DEF Ended, AfterEnd, history
  <2>3. CASE Vanished(c) BY <2>1, <2>3 DEF Vanished
  <2> QED BY <1>7, <2>2, <2>3
<1>8. ASSUME NEW c \in Conns, Accepted(c) PROVE TypeOK'
  <2>1. <<Snapshot(published)>> \in Seq(Items)
    BY DEF Snapshot, Items
  <2> QED BY <1>8, <2>1 DEF Accepted, history
<1>9. ASSUME NEW c \in Conns, Woken(c) PROVE TypeOK'
  <2>1. Replay(c) \in Seq(Items)
    BY <1>9, ReplayType DEF Woken
  <2>2. (at[c] + 1)..published \subseteq 1..published
    OBVIOUS
  <2>3. evicted' \subseteq 1..published'
    BY <1>9, <2>2 DEF Woken
  <2>4. \A d \in Conns : pending'[d] \in Seq(Items)
    BY <1>9, <2>1 DEF Woken
  <2> QED BY <1>9, <2>3, <2>4 DEF Woken, client
<1>10. CASE UNCHANGED vars BY <1>10 DEF vars, client, server, history
<1> QED BY <1>1, <1>2, <1>3, <1>4, <1>5, <1>6, <1>7, <1>8, <1>9, <1>10 DEF Next

LEMMA OneStreamPreserved == IInv /\ [Next]_vars => OneStream'
<1> SUFFICES ASSUME IInv, [Next]_vars PROVE OneStream'
  OBVIOUS
<1> USE DEF IInv, TypeOK, OneStream, Talking, Conns, States, Becomes, ScheduleReconnect
<1>1. CASE Reconnect BY <1>1 DEF Reconnect, history
<1>2. CASE Close BY <1>2 DEF Close, history, Destroyed
<1>3. CASE Publish BY <1>3 DEF Publish, client, history
<1>4. ASSUME NEW c \in Conns, Unreachable(c) \/ Refused(c) \/ Drained(c) PROVE OneStream'
  BY <1>4 DEF Unreachable, Refused, Drained, history
<1>5. ASSUME NEW c \in Conns, LateError(c) PROVE OneStream'
  BY <1>5 DEF LateError
<1>6. ASSUME NEW c \in Conns, Tell(c) \/ Woken(c) PROVE OneStream'
  BY <1>6 DEF Tell, Woken, client
<1>7. ASSUME NEW c \in Conns, Ended(c) \/ Vanished(c) PROVE OneStream'
  BY <1>7 DEF Ended, Vanished, AfterEnd, history
<1>8. ASSUME NEW c \in Conns, Accepted(c) PROVE OneStream'
  BY <1>8 DEF Accepted, history
<1>10. CASE UNCHANGED vars BY <1>10 DEF vars, client, history
<1> QED BY <1>1, <1>2, <1>3, <1>4, <1>5, <1>6, <1>7, <1>8, <1>10 DEF Next

LEMMA DeliverablePreserved == IInv /\ [Next]_vars => Deliverable'
<1> SUFFICES ASSUME IInv, [Next]_vars PROVE Deliverable'
  OBVIOUS
<1> USE DEF IInv, TypeOK, Deliverable
<1>1. ASSUME NEW c \in Conns, Tell(c) PROVE Deliverable'
  <2>1. \A i \in DOMAIN Tail(pending[c]) :
            i + 1 \in DOMAIN pending[c] /\ Tail(pending[c])[i] = pending[c][i + 1]
    BY <1>1 DEF Tell
  <2> QED BY <1>1, <2>1 DEF Tell
<1>2. ASSUME NEW c \in Conns, Ended(c) \/ Vanished(c) PROVE Deliverable'
  <2>1. pending' = [pending EXCEPT ![c] = <<>>] /\ published' = published
    BY <1>2 DEF Ended, Vanished
  <2>2. DOMAIN <<>> = {}
    OBVIOUS
  <2>3. \A d \in Conns : pending'[d] = pending[d] \/ pending'[d] = <<>>
    BY <2>1
  <2> QED BY <2>1, <2>2, <2>3
<1>3. ASSUME NEW c \in Conns, Accepted(c) PROVE Deliverable'
  <2> SUFFICES ASSUME NEW d \in Conns, NEW i \in DOMAIN pending'[d]
               PROVE pending'[d][i].from >= 1 /\ pending'[d][i].upto <= published
    BY <1>3 DEF Accepted
  <2>1. CASE d = c
    <3>1. pending'[d] = <<Snapshot(published)>> /\ i = 1
      BY <1>3, <2>1 DEF Accepted
    <3> QED BY <3>1 DEF Snapshot
  <2>2. CASE d # c
    BY <1>3, <2>2 DEF Accepted
  <2> QED BY <2>1, <2>2
<1>4. ASSUME NEW c \in Conns, Woken(c) PROVE Deliverable'
  BY <1>4, ReplayType DEF Woken
<1>5. CASE Publish
  <2> SUFFICES ASSUME NEW d \in Conns, NEW i \in DOMAIN pending[d]
               PROVE pending[d][i].from >= 1 /\ pending[d][i].upto <= published + 1
    BY <1>5 DEF Publish
  <2>1. pending[d][i] \in Items
    OBVIOUS
  <2>2. pending[d][i].upto \in Nat /\ published \in Nat
    BY <2>1 DEF Items
  <2> QED BY <2>2
<1>6. CASE UNCHANGED server BY <1>6 DEF server
<1>7. CASE Reconnect \/ Close \/ UNCHANGED vars
  BY <1>6, <1>7 DEF Reconnect, Close, vars
<1>8. ASSUME NEW c \in Conns, Unreachable(c) \/ Refused(c) \/ Drained(c) \/ LateError(c)
      PROVE Deliverable'
  BY <1>6, <1>8 DEF Unreachable, Refused, Drained, LateError
<1> QED BY <1>1, <1>2, <1>3, <1>4, <1>5, <1>7, <1>8 DEF Next

LEMMA NothingSkippedPreserved == IInv /\ [Next]_vars => NothingSkipped'
<1> SUFFICES ASSUME IInv, [Next]_vars PROVE NothingSkipped'
  OBVIOUS
<1> USE DEF IInv, TypeOK, NothingSkipped, Becomes
<1>1. ASSUME NEW c \in Conns, Tell(c) PROVE NothingSkipped'
  <2>1. /\ 1 \in DOMAIN pending[c] /\ Head(pending[c]) = pending[c][1]
        /\ \A i \in DOMAIN pending[c] : i = 1 \/
              (i - 1 \in DOMAIN Tail(pending[c]) /\ Tail(pending[c])[i - 1] = pending[c][i])
    BY <1>1 DEF Tell
  <2> SUFFICES ASSUME NEW d \in Conns, conn[d] = "live", NEW n \in 1..at[d]
               PROVE n \in told' \cup evicted \/ \E i \in DOMAIN pending'[d] : n \in Covers(pending'[d][i])
    BY <1>1 DEF Tell, client
  <2>2. CASE n \in told \cup evicted
    BY <1>1, <2>2 DEF Tell
  <2>3. ASSUME NEW i \in DOMAIN pending[d], n \in Covers(pending[d][i])
        PROVE n \in told' \/ \E j \in DOMAIN pending'[d] : n \in Covers(pending'[d][j])
    <3>1. CASE d # c
      BY <1>1, <2>3, <3>1 DEF Tell
    <3>2. CASE d = c /\ i = 1
      BY <1>1, <2>1, <2>3, <3>2 DEF Tell
    <3>3. CASE d = c /\ i # 1
      <4>1. pending'[d] = Tail(pending[c])
        BY <1>1, <3>3 DEF Tell
      <4>2. i - 1 \in DOMAIN pending'[d] /\ pending'[d][i - 1] = pending[d][i]
        BY <2>1, <3>3, <4>1
      <4> QED BY <2>3, <4>2
    <3> QED BY <3>1, <3>2, <3>3
  <2> QED BY <2>2, <2>3
<1>2. ASSUME NEW c \in Conns, Ended(c) \/ Vanished(c) PROVE NothingSkipped'
  BY <1>2 DEF Ended, Vanished, history
<1>3. ASSUME NEW c \in Conns, Accepted(c) PROVE NothingSkipped'
  <2>1. \A n \in 1..published : n \in Covers(<<Snapshot(published)>>[1])
    BY DEF Snapshot, Covers
  <2> QED BY <1>3, <2>1 DEF Accepted, history
<1>4. ASSUME NEW c \in Conns, Woken(c) PROVE NothingSkipped'
  <2> SUFFICES ASSUME NEW d \in Conns, conn[d] = "live", NEW n \in 1..at'[d]
               PROVE n \in told \cup evicted' \/ \E i \in DOMAIN pending'[d] : n \in Covers(pending'[d][i])
    BY <1>4 DEF Woken, client
  <2>1. evicted \subseteq evicted'
    BY <1>4 DEF Woken
  <2>2. CASE d # c
    BY <1>4, <2>1, <2>2 DEF Woken
  <2>3. CASE d = c /\ n <= at[c]
    <3>1. n \in told \cup evicted
      BY <1>4, <2>3 DEF Woken
    <3> QED BY <2>1, <3>1
  <2>4. CASE d = c /\ n > at[c]
    <3>1. n \in (at[c] + 1)..published /\ pending'[d] = Replay(c) /\ at[c] < published
      BY <1>4, <2>4 DEF Woken
    <3>2. CASE \E i \in DOMAIN Replay(c) : n \in Covers(Replay(c)[i])
      BY <3>1, <3>2
    <3>3. CASE Buffered # {} /\ n \notin Buffered
      BY <1>4, <3>1, <3>3 DEF Woken
    <3> QED BY <3>1, <3>2, <3>3, ReplayComplete
  <2> QED BY <2>2, <2>3, <2>4
<1>5. CASE Publish BY <1>5 DEF Publish, client, history
<1>6. CASE Reconnect \/ Close BY <1>6 DEF Reconnect, Close, Destroyed, server, history
<1>7. ASSUME NEW c \in Conns, Unreachable(c) \/ Refused(c) \/ Drained(c) \/ LateError(c)
      PROVE NothingSkipped'
  BY <1>7 DEF Unreachable, Refused, Drained, LateError, server, history
<1>8. CASE UNCHANGED vars BY <1>8 DEF vars, client, server, history
<1> QED BY <1>1, <1>2, <1>3, <1>4, <1>5, <1>6, <1>7, <1>8 DEF Next

THEOREM Invariance == Spec => []IInv
<1>1. IInv /\ [Next]_vars => IInv'
  BY TypePreserved, OneStreamPreserved, DeliverablePreserved, NothingSkippedPreserved DEF IInv
<1> QED BY InitIInv, <1>1, PTL DEF Spec

(* Every connection, timer and event keeps its type; at most one timer is  *)
(* set (scheduleReconnect).                                                *)
THEOREM TypeCorrect == Spec => []TypeOK
<1>1. IInv => TypeOK
  BY DEF IInv
<1> QED BY Invariance, <1>1, PTL

(* However connections fail, end and are retried, a node has one stream,   *)
(* and none after it closed it.                                            *)
THEOREM OneStreamHolds == Spec => []OneStream
<1>1. IInv => OneStream
  BY DEF IInv
<1> QED BY Invariance, <1>1, PTL

(* Nothing a stream has passed was skipped, for any replay buffer.         *)
THEOREM NothingSkippedHolds == Spec => []NothingSkipped
<1>1. IInv => NothingSkipped
  BY DEF IInv
<1> QED BY Invariance, <1>1, PTL

-----------------------------------------------------------------------------
(* subscribeSSE and the gateway keep the promise of Subscription.          *)
THEOREM Implements == Spec => ImplementsSubscription
<1>1. Init => Subscribed!Init
  BY DEF Init, Subscribed!Init
<1>2. IInv /\ [Next]_vars => [Subscribed!Next]_(Subscribed!vars)
  <2> SUFFICES ASSUME IInv, [Next]_vars PROVE [Subscribed!Next]_(Subscribed!vars)
    OBVIOUS
  <2> USE DEF IInv, TypeOK, Subscribed!Next, Subscribed!vars
  <2>1. CASE Publish BY <2>1 DEF Publish, client, history, Subscribed!Publish
  <2>2. CASE Close BY <2>2 DEF Close, server, history, Subscribed!Close
  <2>3. ASSUME NEW c \in Conns, Tell(c) PROVE Subscribed!Next
    <3>1. Head(pending[c]) = pending[c][1] /\ 1 \in DOMAIN pending[c]
      BY <2>3 DEF Tell
    <3>2. Covers(Head(pending[c])) \subseteq 1..published
      <4>1. pending[c][1].from >= 1 /\ pending[c][1].upto <= published
        BY <3>1 DEF Deliverable
      <4>2. pending[c][1] \in Items
        BY <3>1
      <4>3. pending[c][1].from \in Nat /\ pending[c][1].upto \in Nat
        BY <4>2 DEF Items
      <4> QED BY <3>1, <4>1, <4>3 DEF Covers
    <3>3. ~closed \/ stray
      BY <2>3 DEF Tell, OneStream, Talking
    <3> QED BY <2>3, <3>2, <3>3 DEF Tell, client, Subscribed!Tell
  <2>4. ASSUME NEW c \in Conns, LateError(c) PROVE UNCHANGED Subscribed!vars
    BY <2>4 DEF LateError, server
  <2>5. ASSUME Reconnect \/ UNCHANGED vars \/ \E c \in Conns :
                 Unreachable(c) \/ Refused(c) \/ Drained(c) \/ Ended(c) \/ Vanished(c)
                 \/ Accepted(c) \/ Woken(c)
        PROVE UNCHANGED Subscribed!vars
    BY <2>5 DEF Reconnect, Unreachable, Refused, Drained, Ended, Vanished, Accepted, Woken,
                vars, client, server, history
  <2> QED BY <2>1, <2>2, <2>3, <2>4, <2>5 DEF Next
<1> QED BY Invariance, <1>1, <1>2, PTL DEF Spec, ImplementsSubscription, Subscribed!Spec
=============================================================================
