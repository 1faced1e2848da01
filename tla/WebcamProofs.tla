----------------------------- MODULE WebcamProofs -----------------------------
(***************************************************************************)
(* For any number of calls, starts and pictures: one loop at work, pictures*)
(* that do not go back, and no frame lost unless a clean-up met it.        *)
(***************************************************************************)
EXTENDS WebcamProcessor, TLAPS

Installed(k) == call[k] \in {"waiting", "done", "failed"}

(* Only the processor of the page works or has Mats, but one that came by  *)
(* them late; loops and timers belong to processors that were installed.   *)
Places ==
    /\ processor # 0 => Installed(processor)
    /\ \A p \in Calls : on[p] => processor = p
    /\ \A p \in Calls : src[p] # Gone => processor = p \/ p \in late
    /\ \A p \in Calls : timer[p] # 0 => loop[timer[p]].of = p
    /\ \A j \in Loops :
        /\ loop[j].at # "none" => loop[j].of \in Calls /\ Installed(loop[j].of)
        /\ j > started => loop[j].at = "none" /\ loop[j].of = 0

(* Who waits for OpenCV has no Mats; who got them late has done nothing    *)
(* with them: neither ever has a frame under way.                          *)
Waiters ==
    /\ \A k \in Calls : call[k] = "waiting" => src[k] = Gone
    /\ \A k \in late : call[k] = "done" /\ processor # k
    /\ \A j \in UnderWay : call[loop[j].of] # "waiting" /\ loop[j].of \notin late

(* Without an overlap, the loop at work is the one its timer stands for.   *)
Single ==
    \/ overlapped
    \/ /\ \A i, j \in Alive : i = j
       /\ \A j \in Loops :
            loop[j].at = "scheduled" => on[loop[j].of] /\ timer[loop[j].of] = j

(* A frame under way has Mats to fall back on, or met a clean-up.          *)
InHand == \A j \in UnderWay : src[loop[j].of] = Gone => cut

(* Without an overlap, the frame under way is the latest picture.          *)
Newest ==
    \/ overlapped
    \/ /\ shown <= shots
       /\ \A j \in UnderWay :
            /\ shown <= loop[j].shot /\ loop[j].shot <= shots
            /\ src[loop[j].of] \in {Gone, loop[j].shot}

IInv == TypeOK /\ Places /\ Waiters /\ Single /\ KeepsGoing /\ InHand /\ FramesFreed /\ Newest

USE WebcamAssumption DEF WebcamAssumption

LEMMA InitIInv == Init => IInv
<1> SUFFICES ASSUME Init PROVE IInv
  OBVIOUS
<1> USE DEF Init, Calls, Loops, Gone, Alive, UnderWay
<1>7. /\ call \in [Calls -> CallStates] /\ camera \in [Calls -> BOOLEAN]
      /\ on \in [Calls -> BOOLEAN] /\ timer \in [Calls -> 0..MaxStarts]
  BY DEF CallStates
<1>8. loop \in [Loops -> [of : 0..MaxCalls, at : LoopStates, shot : 0..MaxShots]]
  <2>1. 0 \in 0..MaxCalls /\ "none" \in LoopStates /\ 0 \in 0..MaxShots
    BY DEF LoopStates
  <2> QED BY <2>1
<1>9. src \in [Calls -> Gone..MaxShots]
  OBVIOUS
<1>10. /\ stream \in 0..MaxCalls /\ processor \in 0..MaxCalls /\ started \in 0..MaxStarts
       /\ shots \in 0..MaxShots /\ shown \in 0..MaxShots
  OBVIOUS
<1>1. TypeOK BY <1>7, <1>8, <1>9, <1>10 DEF TypeOK
<1>11. Waiters BY DEF Waiters
<1>2. Places BY DEF Places
<1>3. Single BY DEF Single
<1>4. KeepsGoing BY DEF KeepsGoing
<1>5. InHand /\ FramesFreed BY DEF InHand, FramesFreed
<1>6. Newest BY DEF Newest
<1> QED BY <1>1, <1>2, <1>3, <1>4, <1>5, <1>6, <1>11 DEF IInv

-----------------------------------------------------------------------------
(* The calls of the page that leave the frames alone.                      *)
Elsewhere ==
    \/ Loaded
    \/ \E k \in Calls : Ask(k) \/ Denied(k) \/ Granted(k) \/ NotPlaying(k) \/ TimedOut(k)

LEMMA ElsewherePreserves == IInv /\ (Elsewhere \/ UNCHANGED vars) => IInv'
<1> SUFFICES ASSUME IInv, Elsewhere \/ UNCHANGED vars PROVE IInv'
  OBVIOUS
<1>1. UNCHANGED <<processor, on, timer, src, loop, started, shots, shown, overlapped, cut, lost, late>>
  BY DEF Elsewhere, Loaded, Ask, Denied, Granted, NotPlaying, TimedOut, Failed, vars, page, frames, history
<1>2. TypeOK'
  <2> USE <1>1 DEF IInv, TypeOK
  <2>1. CASE Loaded
    BY <2>1 DEF Loaded
  <2>2. CASE UNCHANGED vars
    BY <2>2 DEF vars, page
  <2>3. ASSUME NEW k \in Calls, Ask(k) PROVE TypeOK'
    BY <2>3 DEF Ask, CallStates
  <2>4. ASSUME NEW k \in Calls, Granted(k) PROVE TypeOK'
    BY <2>4 DEF Granted, CallStates, Calls
  <2>5. ASSUME NEW k \in Calls, Denied(k) \/ NotPlaying(k) \/ TimedOut(k) PROVE TypeOK'
    BY <2>5 DEF Denied, NotPlaying, TimedOut, Failed, Undone, CallStates
  <2> QED BY <2>1, <2>2, <2>3, <2>4, <2>5 DEF Elsewhere
<1>3. \A k \in Calls : Installed(k) => Installed(k)'
  BY DEF IInv, TypeOK, Installed, Elsewhere, Loaded, Ask, Denied, Granted, NotPlaying, TimedOut, Failed,
         vars, page
<1>4. Places'
  BY <1>1, <1>3 DEF IInv, TypeOK, Places, Calls
<1>6. Waiters'
  <2>1. ASSUME NEW k \in Calls
        PROVE  /\ call'[k] = "waiting" => call[k] = "waiting"
               /\ call[k] = "done" => call'[k] = "done"
    BY DEF IInv, TypeOK, Elsewhere, Loaded, Ask, Denied, Granted, NotPlaying, TimedOut, Failed, vars, page
  <2>2. \A k \in late : k \in Calls
    BY DEF IInv, TypeOK
  <2>3. \A j \in UnderWay : loop[j].of \in Calls
    BY DEF IInv, Places, UnderWay
  <2> QED BY <1>1, <2>1, <2>2, <2>3 DEF IInv, Waiters, UnderWay
<1>5. Single' /\ KeepsGoing' /\ InHand' /\ FramesFreed' /\ Newest'
  BY <1>1 DEF IInv, Single, KeepsGoing, InHand, FramesFreed, Newest, Alive, UnderWay
<1> QED BY <1>2, <1>4, <1>5, <1>6 DEF IInv

(* OpenCV is announced: the Mats that come late belong to processors that  *)
(* do nothing.                                                             *)
LEMMA AnnouncedPreserves == IInv /\ Announced => IInv'
<1> SUFFICES ASSUME IInv, Announced PROVE IInv'
  OBVIOUS
<1>1. UNCHANGED <<ready, camera, stream, processor, on, timer, loop, started, shots, shown, overlapped, cut, lost>>
  BY DEF Announced
<1>2. /\ \A k \in Calls : call[k] = "waiting" => call'[k] = "done" /\ src'[k] = 0 /\ (k # processor => k \in late')
      /\ \A k \in Calls : call[k] # "waiting" => call'[k] = call[k] /\ src'[k] = src[k]
      /\ \A k \in late' : k \in late \/ (k \in Calls /\ call[k] = "waiting" /\ k # processor)
      /\ late \subseteq late' /\ late' \subseteq Calls
  BY DEF Announced, IInv, TypeOK
<1>3. TypeOK'
  <2>1. call' \in [Calls -> CallStates]
    BY DEF Announced, IInv, TypeOK, CallStates
  <2>2. src' \in [Calls -> Gone..MaxShots]
    BY DEF Announced, IInv, TypeOK, Gone
  <2> QED BY <1>1, <1>2, <2>1, <2>2 DEF IInv, TypeOK
<1>4. \A k \in Calls : Installed(k) => Installed(k)'
  BY <1>2 DEF Installed
<1>5. Places'
  <2>1. processor # 0 => processor \in Calls
    BY DEF IInv, TypeOK, Calls
  <2>2. ASSUME NEW p \in Calls, src'[p] # Gone PROVE processor = p \/ p \in late'
    BY <1>2, <2>2 DEF IInv, Places
  <2> QED BY <1>1, <1>4, <2>1, <2>2 DEF IInv, Places
<1>6. \A j \in UnderWay : loop[j].of \in Calls /\ call[loop[j].of] # "waiting" /\ loop[j].of \notin late
  BY DEF IInv, Places, Waiters, UnderWay
<1>7. Waiters'
  <2>1. \A j \in UnderWay' : call'[loop'[j].of] # "waiting" /\ loop'[j].of \notin late'
    BY <1>1, <1>2, <1>6 DEF UnderWay
  <2>2. \A k \in late' : call'[k] = "done" /\ processor' # k
    BY <1>1, <1>2 DEF IInv, Waiters, TypeOK
  <2>3. \A k \in Calls : call'[k] = "waiting" => src'[k] = Gone
    BY <1>2
  <2> QED BY <2>1, <2>2, <2>3 DEF Waiters
<1>8. InHand' /\ Newest'
  BY <1>1, <1>2, <1>6 DEF IInv, InHand, Newest, Alive, UnderWay
<1>9. Single' /\ KeepsGoing' /\ FramesFreed'
  BY <1>1 DEF IInv, Single, KeepsGoing, FramesFreed, Alive
<1> QED BY <1>3, <1>5, <1>7, <1>8, <1>9 DEF IInv

-----------------------------------------------------------------------------
(* stop() and what it leaves.                                              *)
Halted(p) ==
    /\ on' \in [Calls -> BOOLEAN] /\ timer' \in [Calls -> 0..MaxStarts]
    /\ loop' \in [Loops -> [of : 0..MaxCalls, at : LoopStates, shot : 0..MaxShots]]
    /\ ~on'[p] /\ timer'[p] = 0
    /\ \A q \in Calls : q # p => on'[q] = on[q] /\ timer'[q] = timer[q]
    /\ \A j \in Loops :
         /\ loop'[j].of = loop[j].of /\ loop'[j].shot = loop[j].shot
         /\ \/ loop'[j].at = loop[j].at
            \/ loop[j].at = "scheduled" /\ loop'[j].at = "over" /\ loop[j].of = p
         /\ j = timer[p] => loop'[j].at # "scheduled"

LEMMA StoppedHalts == ASSUME IInv, NEW p \in Calls, Stopped(p) PROVE Halted(p)
<1>1. /\ on \in [Calls -> BOOLEAN] /\ timer \in [Calls -> 0..MaxStarts]
      /\ loop \in [Loops -> [of : 0..MaxCalls, at : LoopStates, shot : 0..MaxShots]]
      /\ timer[p] # 0 => loop[timer[p]].of = p
  BY DEF IInv, TypeOK, Places
<1>4. /\ on' = [on EXCEPT ![p] = FALSE] /\ timer' = [timer EXCEPT ![p] = 0]
      /\ loop' = Cancelled(p)
  BY DEF Stopped
<1>2. CASE timer[p] # 0 /\ loop[timer[p]].at = "scheduled"
  <2>1. timer[p] \in Loops /\ loop[timer[p]].of = p
    BY <1>1, <1>2 DEF Loops
  <2>2. loop' = [loop EXCEPT ![timer[p]].at = "over"]
    BY <1>2, <1>4 DEF Cancelled
  <2>3. "over" \in LoopStates
    BY DEF LoopStates
  <2>4. loop' \in [Loops -> [of : 0..MaxCalls, at : LoopStates, shot : 0..MaxShots]]
    BY <1>1, <2>1, <2>2, <2>3
  <2>5. ASSUME NEW j \in Loops
        PROVE  /\ loop'[j].of = loop[j].of /\ loop'[j].shot = loop[j].shot
               /\ \/ loop'[j].at = loop[j].at
                  \/ loop[j].at = "scheduled" /\ loop'[j].at = "over" /\ loop[j].of = p
               /\ j = timer[p] => loop'[j].at # "scheduled"
    BY <1>1, <1>2, <2>1, <2>2
  <2> QED BY <1>1, <1>4, <2>4, <2>5 DEF Halted
<1>3. CASE ~(timer[p] # 0 /\ loop[timer[p]].at = "scheduled")
  BY <1>1, <1>3, <1>4 DEF Cancelled, Halted, Loops
<1> QED BY <1>2, <1>3

(* A halt leaves the loops in order.                                       *)
LEMMA HaltKeepsLoops ==
  ASSUME IInv, NEW p \in Calls, Stopped(p), overlapped' = overlapped
  PROVE  /\ Single' /\ KeepsGoing'
         /\ \A q \in Calls : timer'[q] # 0 => loop'[timer'[q]].of = q
         /\ UnderWay' = UnderWay
<1>0. Halted(p)
  BY StoppedHalts
<1> USE <1>0 DEF IInv, Halted
<1>1. \A i \in Loops : i \in Alive' => i \in Alive
  BY DEF Alive
<1>2. Single'
  <2>1. CASE overlapped
    BY <2>1 DEF Single
  <2>2. CASE ~overlapped
    <3>1. \A i, j \in Alive' : i = j
      BY <1>1, <2>2 DEF Single, Alive
    <3>2. ASSUME NEW j \in Loops, loop'[j].at = "scheduled"
          PROVE on'[loop'[j].of] /\ timer'[loop'[j].of] = j
      <4>1. loop[j].at = "scheduled" /\ loop[j].of \in Calls
        BY <3>2 DEF Places
      <4>2. on[loop[j].of] /\ timer[loop[j].of] = j
        BY <2>2, <4>1 DEF Single
      <4>3. loop[j].of # p
        BY <3>2, <4>2
      <4> QED BY <4>1, <4>2, <4>3
    <3> QED BY <3>1, <3>2 DEF Single
  <2> QED BY <2>1, <2>2
<1>3. KeepsGoing'
  <2> SUFFICES ASSUME NEW q \in Calls, on'[q] PROVE \E j \in Alive' : loop'[j].of = q
    BY DEF KeepsGoing
  <2>1. q # p
    OBVIOUS
  <2>3. on[q]
    BY <2>1
  <2>2. PICK j \in Alive : loop[j].of = q
    BY <2>3 DEF KeepsGoing
  <2> QED BY <2>1, <2>2 DEF Alive
<1>4. \A q \in Calls : timer'[q] # 0 => loop'[timer'[q]].of = q
  <2> SUFFICES ASSUME NEW q \in Calls, timer'[q] # 0 PROVE loop'[timer'[q]].of = q
    OBVIOUS
  <2>1. q # p /\ timer'[q] = timer[q] /\ timer[q] \in Loops
    BY DEF Loops
  <2> QED BY <2>1 DEF Places
<1>5. UnderWay' = UnderWay
  BY DEF UnderWay
<1> QED BY <1>2, <1>3, <1>4, <1>5

LEMMA StopPreserves == IInv /\ Stop => IInv'
<1> SUFFICES ASSUME IInv, Stop PROVE IInv'
  OBVIOUS
<1>1. processor \in Calls /\ Stopped(processor)
      /\ UNCHANGED <<page, src, started, shots, shown, history>>
  BY DEF IInv, TypeOK, Stop, Calls
<1>2. Halted(processor) /\ Single' /\ KeepsGoing' /\ UnderWay' = UnderWay
      /\ \A q \in Calls : timer'[q] # 0 => loop'[timer'[q]].of = q
  BY <1>1, StoppedHalts, HaltKeepsLoops DEF history
<1> USE <1>1, <1>2 DEF IInv, Halted, page, history
<1>3. TypeOK' BY DEF TypeOK
<1>4. Places' BY DEF Places, TypeOK, Installed
<1>5. Waiters' BY DEF Waiters, UnderWay
<1>7. InHand' /\ FramesFreed' BY DEF InHand, FramesFreed, UnderWay
<1>8. Newest' BY DEF Newest, UnderWay
<1> QED BY <1>3, <1>4, <1>5, <1>7, <1>8

(* cleanup() of the page.                                                  *)
LEMMA CleanupPreserves == IInv /\ Cleanup => IInv'
<1> SUFFICES ASSUME IInv, Cleanup PROVE IInv'
  OBVIOUS
<1> USE DEF IInv
<1>1. CASE processor = 0
  <2> USE <1>1 DEF Cleanup
  <2>1. TypeOK' BY DEF TypeOK
  <2>2. Places' BY DEF Places, TypeOK, Installed
  <2>3. Single' /\ KeepsGoing' BY DEF Single, KeepsGoing, Alive
  <2>4. InHand' /\ FramesFreed' BY DEF InHand, FramesFreed, UnderWay
  <2>5. Newest' BY DEF Newest, UnderWay
  <2>6. Waiters' BY DEF Waiters, UnderWay
  <2> QED BY <2>1, <2>2, <2>3, <2>4, <2>5, <2>6
<1>2. CASE processor # 0
  <2>1. processor \in Calls /\ Stopped(processor) /\ Cut(processor) /\ src' = Emptied(processor)
        /\ UNCHANGED <<call, ready, started, shots, shown, overlapped, lost, late>>
        /\ processor' = 0 /\ stream' = 0 /\ camera' = [k \in Calls |-> camera[k] /\ k # stream]
    BY <1>2 DEF TypeOK, Calls, Cleanup, CleanedUp
  <2>2. \A q \in Calls : src'[q] = IF q = processor THEN Gone ELSE src[q]
    BY <2>1 DEF Emptied, TypeOK
  <2>8. Halted(processor) /\ Single' /\ KeepsGoing' /\ UnderWay' = UnderWay
        /\ \A q \in Calls : timer'[q] # 0 => loop'[timer'[q]].of = q
    BY <2>1, StoppedHalts, HaltKeepsLoops
  <2> USE <2>1, <2>2, <2>8 DEF Halted
  <2>3. src' \in [Calls -> Gone..MaxShots]
    BY DEF Emptied, TypeOK, Gone
  <2>4. TypeOK' BY <2>3 DEF TypeOK, Cut
  <2>5. Places' BY DEF Places, TypeOK, Installed
  <2>10. ASSUME NEW j \in UnderWay
         PROVE  /\ loop'[j].of = loop[j].of /\ loop'[j].shot = loop[j].shot
                /\ loop[j].of \in Calls /\ loop[j].of \notin late /\ call[loop[j].of] # "waiting"
                /\ src[loop[j].of] = Gone \/ loop[j].of = processor
    BY DEF UnderWay, Places, Waiters
  <2>6. InHand' /\ FramesFreed'
    <3>1. cut => cut'
      BY DEF Cut
    <3>2. ASSUME NEW j \in UnderWay PROVE cut'
      BY <2>10, <3>1, <3>2 DEF InHand, Cut
    <3> QED BY <3>1, <3>2 DEF InHand, FramesFreed
  <2>7. Newest'
    BY <2>10 DEF Newest
  <2>9. Waiters'
    <3>1. \A k \in late : k \in Calls /\ call[k] = "done"
      BY DEF Waiters, TypeOK
    <3>2. \A k \in Calls : processor' # k
      BY DEF Calls
    <3>3. \A k \in Calls : call[k] = "waiting" => src'[k] = Gone
      BY DEF Waiters
    <3> QED BY <2>10, <3>1, <3>2, <3>3 DEF Waiters
  <2> QED BY <2>4, <2>5, <2>6, <2>7, <2>9
<1> QED BY <1>1, <1>2

(* A new processor in the place of the one before.                         *)
LEMMA InstallPreserves == ASSUME IInv, NEW k \in Calls, Install(k) PROVE IInv'
<1> DEFINE mats == IF processor = 0 THEN src ELSE Emptied(processor)
<1> USE DEF IInv
<1>1. /\ call[k] = "playing" /\ processor' = k /\ Initialized(k, mats)
      /\ UNCHANGED <<ready, camera, stream, started, shots, shown, overlapped, lost, late>>
  BY DEF Install
<1>11. ~Installed(k)
  BY <1>1 DEF Installed
<1>2. /\ processor \in 0..MaxCalls /\ k # processor
      /\ \A j \in Loops : loop[j].at # "none" => loop[j].of # k
      /\ k \notin late
  BY <1>1, <1>11 DEF TypeOK, Places, Waiters, Calls
<1>3. /\ call' \in [Calls -> CallStates]
      /\ \A i \in Calls : Installed(i) \/ i = k => Installed(i)'
      /\ \A i \in Calls : i # k => call'[i] = call[i]
  BY <1>1 DEF Initialized, TypeOK, Installed, CallStates
<1>4. mats \in [Calls -> Gone..MaxShots] /\ \A q \in Calls : mats[q] = Gone \/ q \in late
  <2>1. Gone \in Gone..MaxShots
    BY DEF Gone
  <2>2. CASE processor = 0
    BY <2>2 DEF TypeOK, Places, Calls
  <2>3. CASE processor # 0
    BY <2>1, <2>3 DEF Emptied, TypeOK, Places
  <2> QED BY <2>2, <2>3
<1>5. /\ src' \in [Calls -> Gone..MaxShots]
      /\ \A q \in Calls : q # k => src'[q] = mats[q]
      /\ call'[k] = "waiting" => src'[k] = Gone
  BY <1>1, <1>2, <1>4 DEF Initialized, Gone, TypeOK
<1>12. \A q \in Calls : q # k => src'[q] = Gone \/ q \in late
  BY <1>4, <1>5
<1>13. \A q \in Calls : call[q] = "waiting" /\ q # k => src'[q] = Gone
  BY <1>12 DEF Waiters
<1>6. /\ on' \in [Calls -> BOOLEAN] /\ timer' \in [Calls -> 0..MaxStarts]
      /\ loop' \in [Loops -> [of : 0..MaxCalls, at : LoopStates, shot : 0..MaxShots]]
      /\ \A q \in Calls : ~on'[q]
      /\ \A j \in Loops : /\ loop'[j].of = loop[j].of /\ loop'[j].shot = loop[j].shot
                          /\ loop[j].at = "none" <=> loop'[j].at = "none"
      /\ Single' /\ KeepsGoing' /\ UnderWay' = UnderWay
      /\ \A q \in Calls : timer'[q] # 0 => loop'[timer'[q]].of = q
      /\ cut' \in BOOLEAN /\ (cut => cut')
      /\ \A j \in UnderWay : processor # 0 /\ loop[j].of = processor => cut'
  <2>1. CASE processor = 0
    <3>1. UNCHANGED <<on, timer, loop, cut>>
      BY <2>1 DEF Install
    <3>2. \A q \in Calls : ~on[q]
      BY <2>1 DEF Places, Calls
    <3> QED BY <1>1, <2>1, <3>1, <3>2 DEF TypeOK, Places, Single, KeepsGoing, Alive, UnderWay
  <2>2. CASE processor # 0
    <3>1. processor \in Calls /\ Stopped(processor) /\ Cut(processor)
      BY <1>2, <2>2 DEF Calls, Install, CleanedUp
    <3>2. Halted(processor) /\ Single' /\ KeepsGoing' /\ UnderWay' = UnderWay
          /\ \A q \in Calls : timer'[q] # 0 => loop'[timer'[q]].of = q
      BY <1>1, <3>1, StoppedHalts, HaltKeepsLoops
    <3>3. \A q \in Calls : ~on'[q]
      BY <3>2 DEF Places, Halted
    <3>4. cut' \in BOOLEAN /\ (cut => cut') /\ \A j \in UnderWay : loop[j].of = processor => cut'
      BY <3>1 DEF Cut, TypeOK
    <3> QED BY <3>2, <3>3, <3>4 DEF Halted
  <2> QED BY <2>1, <2>2
<1> HIDE DEF mats
<1>7. TypeOK'
  <2>1. processor' \in 0..MaxCalls
    BY <1>1 DEF Calls
  <2>2. UNCHANGED <<ready, camera, stream, started, shots, shown, overlapped, lost, late>>
    BY <1>1
  <2> QED BY <2>1, <2>2, <1>3, <1>5, <1>6 DEF TypeOK
<1>8. Places'
  BY <1>1, <1>3, <1>6, <1>12 DEF Places
<1>14. Waiters'
  <2>1. \A q \in Calls : call'[q] = "waiting" => src'[q] = Gone
    BY <1>3, <1>5, <1>13
  <2>2. \A q \in late' : call'[q] = "done" /\ processor' # q
    BY <1>1, <1>2, <1>3 DEF Waiters, TypeOK
  <2>3. ASSUME NEW j \in UnderWay' PROVE call'[loop'[j].of] # "waiting" /\ loop'[j].of \notin late'
    <3>1. j \in UnderWay /\ loop'[j].of = loop[j].of /\ loop[j].of \in Calls /\ loop[j].of # k
      BY <1>2, <1>6, <2>3 DEF UnderWay, Places
    <3> QED BY <1>1, <1>3, <3>1 DEF Waiters
  <2> QED BY <2>1, <2>2, <2>3 DEF Waiters
<1>9. InHand' /\ FramesFreed'
  <2> SUFFICES ASSUME NEW j \in UnderWay PROVE cut'
    BY <1>1, <1>6 DEF InHand, FramesFreed
  <2>1. loop[j].of \in Calls
    BY DEF Places, UnderWay
  <2>2. src[loop[j].of] = Gone \/ loop[j].of = processor
    BY <2>1 DEF Places, Waiters
  <2>3. processor = loop[j].of => processor # 0
    BY <2>1 DEF Calls
  <2> QED BY <1>6, <2>2, <2>3 DEF InHand
<1>10. Newest'
  <2> SUFFICES ASSUME ~overlapped, NEW j \in UnderWay PROVE src'[loop[j].of] = Gone
    BY <1>1, <1>6 DEF Newest, UnderWay
  <2> QED BY <1>2, <1>12 DEF Places, Waiters, UnderWay
<1> QED BY <1>6, <1>7, <1>8, <1>9, <1>10, <1>14

-----------------------------------------------------------------------------
(* One loop moves on.                                                      *)
LoopMoved(j, p) ==
    /\ loop' \in [Loops -> [of : 0..MaxCalls, at : LoopStates, shot : 0..MaxShots]]
    /\ timer' \in [Calls -> 0..MaxStarts]
    /\ \A i \in Loops : i # j => loop'[i] = loop[i]
    /\ \A q \in Calls : q # p => timer'[q] = timer[q]
    /\ loop'[j].of = p
    /\ \/ loop'[j].at = "scheduled" /\ on'[p] /\ timer'[p] = j
       \/ loop'[j].at = "over" /\ ~on'[p] /\ timer'[p] = timer[p]
       \/ loop'[j].at = "asked" /\ timer'[p] = timer[p]

LEMMA ContinueMoves ==
  ASSUME IInv, NEW j \in Loops, NEW p \in Calls, Continue(j, p)
  PROVE  LoopMoved(j, p) /\ loop'[j].at # "asked"
<1> USE DEF IInv, TypeOK, Continue, LoopMoved
<1>1. p \in 0..MaxCalls /\ 0 \in 0..MaxShots /\ j \in 0..MaxStarts
  BY DEF Calls, Loops
<1>2. CASE on'[p]
  <2>1. [of |-> p, at |-> "scheduled", shot |-> 0] \in [of : 0..MaxCalls, at : LoopStates, shot : 0..MaxShots]
    BY <1>1 DEF LoopStates
  <2> QED BY <1>1, <1>2, <2>1
<1>3. CASE ~on'[p]
  <2>1. [of |-> p, at |-> "over", shot |-> 0] \in [of : 0..MaxCalls, at : LoopStates, shot : 0..MaxShots]
    BY <1>1 DEF LoopStates
  <2> QED BY <1>1, <1>3, <2>1
<1> QED BY <1>2, <1>3

LEMMA CaptureMoves ==
  ASSUME IInv, NEW j \in Loops, NEW p \in Calls, Capture(j, p)
  PROVE  /\ LoopMoved(j, p) /\ loop'[j] = [of |-> p, at |-> "asked", shot |-> shots + 1]
         /\ shots' = shots + 1 /\ shots' \in 0..MaxShots
         /\ src' \in [Calls -> Gone..MaxShots] /\ src[p] # Gone /\ src'[p] = shots + 1
         /\ \A q \in Calls : q # p => src'[q] = src[q]
<1> USE DEF IInv, TypeOK, Capture, LoopMoved
<1>1. p \in 0..MaxCalls /\ shots + 1 \in 0..MaxShots /\ shots + 1 \in Gone..MaxShots
  BY DEF Calls, Gone
<1>2. [of |-> p, at |-> "asked", shot |-> shots + 1] \in [of : 0..MaxCalls, at : LoopStates, shot : 0..MaxShots]
  BY <1>1 DEF LoopStates
<1> QED BY <1>1, <1>2

LEMMA MoveKeepsLoops ==
  ASSUME IInv, NEW j \in Loops, NEW p \in Calls, LoopMoved(j, p), loop[j].of \in {0, p},
         \A q \in Calls : q # p => on'[q] = on[q],
         ~overlapped' => ~overlapped /\ Alive \subseteq {j}
  PROVE  /\ Single' /\ KeepsGoing'
         /\ \A q \in Calls : timer'[q] # 0 => loop'[timer'[q]].of = q
         /\ UnderWay' = IF loop'[j].at = "asked" THEN UnderWay \cup {j} ELSE UnderWay \ {j}
<1> USE DEF IInv, LoopMoved
<1>1. Single'
  <2> SUFFICES ASSUME ~overlapped' PROVE (\A i, k \in Alive' : i = k) /\
          \A i \in Loops : loop'[i].at = "scheduled" => on'[loop'[i].of] /\ timer'[loop'[i].of] = i
    BY DEF Single
  <2>1. Alive' \subseteq {j}
    BY DEF Alive
  <2> QED BY <2>1 DEF Alive
<1>2. KeepsGoing'
  <2> SUFFICES ASSUME NEW q \in Calls, on'[q] PROVE \E i \in Alive' : loop'[i].of = q
    BY DEF KeepsGoing
  <2>1. CASE q = p
    BY <2>1 DEF Alive
  <2>2. CASE q # p
    <3>1. on[q]
      BY <2>2
    <3>2. PICK i \in Alive : loop[i].of = q
      BY <3>1 DEF KeepsGoing
    <3>3. i # j
      BY <2>2, <3>2 DEF Calls
    <3> QED BY <3>2, <3>3 DEF Alive
  <2> QED BY <2>1, <2>2
<1>3. ASSUME NEW q \in Calls, timer'[q] # 0 PROVE loop'[timer'[q]].of = q
  <2>1. timer'[q] \in Loops
    BY <1>3 DEF Loops
  <2>2. CASE timer'[q] = j /\ q = p
    BY <2>2
  <2>3. CASE timer'[q] = timer[q]
    <3>1. loop[timer[q]].of = q
      BY <1>3, <2>3 DEF Places
    <3>2. CASE timer[q] = j
      BY <2>3, <3>1, <3>2 DEF Calls
    <3>3. CASE timer[q] # j
      BY <2>1, <2>3, <3>1, <3>3
    <3> QED BY <3>2, <3>3
  <2> QED BY <2>2, <2>3
<1>4. UnderWay' = IF loop'[j].at = "asked" THEN UnderWay \cup {j} ELSE UnderWay \ {j}
  BY DEF UnderWay
<1> QED BY <1>1, <1>2, <1>3, <1>4

(* What the actions that move loop j of processor p have in common.        *)
Moving(j, p) ==
    /\ Installed(p) /\ loop[j].of \in {0, p} /\ j <= started'
    /\ started' \in 0..MaxStarts /\ started <= started'
    /\ on' \in [Calls -> BOOLEAN] /\ (on'[p] => processor = p)
    /\ \A q \in Calls : q # p => on'[q] = on[q]
    /\ overlapped' \in BOOLEAN
    /\ ~overlapped' => ~overlapped /\ Alive \subseteq {j}
    /\ UNCHANGED <<ready, call, camera, stream, processor, cut, late>>

LEMMA MovedPlaces ==
  ASSUME IInv, NEW j \in Loops, NEW p \in Calls, LoopMoved(j, p), Moving(j, p),
         \A q \in Calls : src'[q] # Gone => src[q] # Gone
  PROVE  Places'
<1> USE DEF IInv, LoopMoved, Moving
<1>1. \A q \in Calls : timer'[q] # 0 => loop'[timer'[q]].of = q
  BY MoveKeepsLoops
<1>2. \A q \in Calls : (on'[q] => processor = q) /\ (src'[q] # Gone => processor = q \/ q \in late)
  BY DEF Places
<1>4. ASSUME NEW i \in Loops
      PROVE  /\ loop'[i].at # "none" => loop'[i].of \in Calls
                    /\ call'[loop'[i].of] \in {"waiting", "done", "failed"}
             /\ i > started' => loop'[i].at = "none" /\ loop'[i].of = 0
  <2>1. CASE i = j
    BY <2>1 DEF Installed, Loops
  <2>2. CASE i # j
    <3>1. loop'[i] = loop[i] /\ call' = call
      BY <2>2
    <3>2. i > started' => i > started
      BY DEF Loops, TypeOK
    <3>3. /\ loop[i].at # "none" => loop[i].of \in Calls /\ Installed(loop[i].of)
          /\ i > started => loop[i].at = "none" /\ loop[i].of = 0
      BY DEF Places
    <3> QED BY <3>1, <3>2, <3>3 DEF Installed
  <2> QED BY <2>1, <2>2
<1> QED BY <1>1, <1>2, <1>4 DEF Places, Installed

LEMMA CaptureKeeps ==
  ASSUME IInv, NEW j \in Loops, NEW p \in Calls, Capture(j, p), Moving(j, p), processor = p,
         UNCHANGED <<shown, lost>>
  PROVE  IInv'
<1>1. /\ LoopMoved(j, p) /\ loop'[j] = [of |-> p, at |-> "asked", shot |-> shots + 1]
      /\ shots' = shots + 1 /\ shots' \in 0..MaxShots
      /\ src' \in [Calls -> Gone..MaxShots] /\ src[p] # Gone /\ src'[p] = shots + 1
      /\ \A q \in Calls : q # p => src'[q] = src[q]
  BY CaptureMoves
<1>2. Places'
  BY <1>1, MovedPlaces
<1>3. Single' /\ KeepsGoing' /\ UnderWay' = UnderWay \cup {j}
  BY <1>1, MoveKeepsLoops DEF Moving
<1> USE DEF IInv, LoopMoved, Moving
<1>4. TypeOK'
  BY <1>1 DEF TypeOK
<1>5. InHand' /\ FramesFreed'
  <2> SUFFICES ASSUME NEW i \in UnderWay', src'[loop'[i].of] = Gone PROVE cut
    BY DEF InHand, FramesFreed
  <2>1. i # j
    BY <1>1, <1>4 DEF TypeOK, Gone
  <2>2. i \in UnderWay /\ loop'[i] = loop[i] /\ loop[i].of \in Calls
    BY <1>1, <1>3, <2>1 DEF Places, UnderWay
  <2> QED BY <1>1, <2>2 DEF InHand, Gone
<1>6. Newest'
  <2> SUFFICES ASSUME ~overlapped' PROVE Newest'
    BY DEF Newest
  <2>1. UnderWay' \subseteq {j}
    BY <1>3 DEF UnderWay, Alive
  <2>2. shown <= shots
    BY DEF Newest
  <2> QED BY <1>1, <2>1, <2>2 DEF Newest, TypeOK
<1>7. Waiters'
  <2>1. \A q \in Calls : call[q] = "waiting" => q # p /\ src'[q] = Gone
    BY <1>1 DEF Waiters
  <2>2. ASSUME NEW i \in UnderWay' PROVE call[loop'[i].of] # "waiting" /\ loop'[i].of \notin late
    <3>1. CASE i = j
      BY <1>1, <2>1, <3>1 DEF Waiters
    <3>2. CASE i # j
      <4>1. i \in UnderWay
        BY <1>3, <2>2, <3>2
      <4>2. loop'[i] = loop[i]
        BY <1>1, <3>2, <4>1 DEF UnderWay
      <4> QED BY <4>1, <4>2 DEF Waiters
    <3> QED BY <3>1, <3>2
  <2> QED BY <2>1, <2>2 DEF Waiters
<1> QED BY <1>2, <1>3, <1>4, <1>5, <1>6, <1>7

LEMMA MoveKeeps ==
  ASSUME IInv, NEW j \in Loops, NEW p \in Calls, LoopMoved(j, p), loop'[j].at # "asked",
         Moving(j, p), UNCHANGED <<src, shots>>, shown' \in 0..MaxShots, lost' \in BOOLEAN,
         lost' => cut, shown' = shown \/ overlapped' \/ shown' <= shots
  PROVE  IInv'
<1>1. Places'
  BY MovedPlaces
<1>2. Single' /\ KeepsGoing' /\ UnderWay' = UnderWay \ {j}
  BY MoveKeepsLoops DEF Moving
<1> USE DEF IInv, LoopMoved, Moving
<1>3. TypeOK'
  BY DEF TypeOK
<1>4. InHand' /\ FramesFreed'
  BY <1>2 DEF InHand, FramesFreed, UnderWay
<1>5. Newest'
  <2> SUFFICES ASSUME ~overlapped' PROVE Newest'
    BY DEF Newest
  <2>1. UnderWay' = {}
    BY <1>2 DEF UnderWay, Alive
  <2> QED BY <2>1 DEF Newest
<1>6. Waiters'
  BY <1>2 DEF Waiters, UnderWay
<1> QED BY <1>1, <1>2, <1>3, <1>4, <1>5, <1>6

LEMMA CallbackPreserves == ASSUME IInv, NEW j \in Loops, Callback(j) PROVE IInv'
<1> DEFINE p == loop[j].of
<1>1. /\ loop[j].at = "scheduled" /\ p \in Calls /\ UNCHANGED on
      /\ UNCHANGED <<ready, call, camera, stream, processor, started, shown, overlapped, cut, lost, late>>
  BY DEF IInv, Places, Callback, page, history
<1>2. Moving(j, p)
  <2>1. Installed(p) /\ (on[p] => processor = p) /\ j <= started
    BY <1>1 DEF IInv, Places, TypeOK, Loops
  <2>2. ~overlapped => Alive \subseteq {j}
    BY <1>1 DEF IInv, Single, Alive
  <2> QED BY <1>1, <2>1, <2>2 DEF IInv, TypeOK, Moving
<1>3. CASE ~on[p]
  <2>1. loop' = [loop EXCEPT ![j].at = "over"] /\ UNCHANGED <<timer, src, shots>>
    BY <1>3 DEF Callback
  <2>2. LoopMoved(j, p) /\ loop'[j].at # "asked"
    BY <1>1, <1>3, <2>1 DEF IInv, TypeOK, LoopMoved, LoopStates
  <2> QED BY <1>1, <1>2, <2>1, <2>2, MoveKeeps DEF IInv, TypeOK, FramesFreed
<1>4. CASE on[p] /\ Capture(j, p)
  <2>1. processor = p
    BY <1>1, <1>4 DEF IInv, Places
  <2> QED BY <1>1, <1>2, <1>4, <2>1, CaptureKeeps
<1>5. CASE on[p] /\ ReadFails(j, p)
  <2>1. LoopMoved(j, p) /\ loop'[j].at # "asked" /\ UNCHANGED <<src, shots>>
    BY <1>1, <1>5, ContinueMoves DEF ReadFails
  <2> QED BY <1>1, <1>2, <2>1, MoveKeeps DEF IInv, TypeOK, FramesFreed
<1> QED BY <1>3, <1>4, <1>5 DEF Callback, ProcessFrame

LEMMA AnsweredPreserves == ASSUME IInv, NEW j \in Loops, Drawn(j) \/ Undetected(j) PROVE IInv'
<1> DEFINE p == loop[j].of
<1>1. /\ loop[j].at = "asked" /\ p \in Calls /\ UNCHANGED on /\ Continue(j, p)
      /\ UNCHANGED <<ready, call, camera, stream, processor, started, shots, src, overlapped, cut, late>>
  BY DEF IInv, Places, Drawn, Undetected, page, history
<1>2. Moving(j, p)
  <2>1. Installed(p) /\ (on[p] => processor = p) /\ j <= started
    BY <1>1 DEF IInv, Places, TypeOK, Loops
  <2>2. ~overlapped => Alive \subseteq {j}
    BY <1>1 DEF IInv, Single, Alive
  <2> QED BY <1>1, <2>1, <2>2 DEF IInv, TypeOK, Moving
<1>3. LoopMoved(j, p) /\ loop'[j].at # "asked"
  BY <1>1, ContinueMoves
<1>4. /\ shown' \in 0..MaxShots /\ lost' \in BOOLEAN /\ (lost' => cut)
      /\ shown' = shown \/ overlapped' \/ shown' <= shots
  <2>1. CASE Drawn(j)
    <3>1. shown' = loop[j].shot /\ UNCHANGED lost /\ j \in UnderWay
      BY <2>1, <1>1 DEF Drawn, history, UnderWay
    <3> QED BY <1>1, <3>1 DEF IInv, TypeOK, Newest, FramesFreed
  <2>2. CASE Undetected(j) /\ src[p] # Gone
    <3>1. shown' = src[p] /\ UNCHANGED lost /\ j \in UnderWay
      BY <2>2, <1>1 DEF Undetected, ShowOriginal, UnderWay
    <3>2. src[p] \in 0..MaxShots
      BY <1>1, <2>2 DEF IInv, TypeOK, Gone
    <3>3. overlapped \/ src[p] <= shots
      BY <2>2, <3>1 DEF IInv, Newest
    <3> QED BY <1>1, <3>1, <3>2, <3>3 DEF IInv, TypeOK, FramesFreed
  <2>3. CASE Undetected(j) /\ src[p] = Gone
    <3>1. UNCHANGED shown /\ j \in UnderWay /\ lost' = TRUE
      BY <2>3, <1>1 DEF Undetected, ShowOriginal, UnderWay
    <3> QED BY <2>3, <3>1 DEF IInv, TypeOK, InHand
  <2> QED BY <2>1, <2>2, <2>3
<1> QED BY <1>1, <1>2, <1>3, <1>4, MoveKeeps

LEMMA StartPreserves == IInv /\ Start => IInv'
<1> SUFFICES ASSUME IInv, Start PROVE IInv'
  OBVIOUS
<1> DEFINE p == processor
           j == started + 1
<1>1. /\ p \in Calls /\ j \in Loops /\ ~on[p] /\ started' = j
      /\ on' = [on EXCEPT ![p] = TRUE] /\ overlapped' = (overlapped \/ UnderWay # {})
      /\ ProcessFrame(j, p)
      /\ UNCHANGED <<ready, call, camera, stream, processor, shown, cut, lost, late>>
  BY DEF IInv, TypeOK, Start, page, Calls, Loops
<1>2. Moving(j, p)
  <2>1. Installed(p) /\ loop[j].of = 0 /\ started \in Nat /\ j <= MaxStarts
    BY <1>1 DEF IInv, TypeOK, Places, Loops, Calls
  <2>2. ASSUME ~overlapped' PROVE ~overlapped /\ Alive = {}
    <3>1. ~overlapped /\ UnderWay = {}
      BY <1>1, <2>2
    <3>2. ASSUME NEW i \in Alive PROVE FALSE
      <4>1. loop[i].at = "scheduled" /\ loop[i].of \in Calls
        BY <3>1 DEF IInv, Places, Alive, UnderWay
      <4>2. on[loop[i].of]
        BY <3>1, <4>1 DEF IInv, Single, Alive
      <4> QED BY <1>1, <4>1, <4>2 DEF IInv, Places
    <3> QED BY <3>1, <3>2
  <2> QED BY <1>1, <2>1, <2>2 DEF IInv, TypeOK, Moving
<1>3. CASE Capture(j, p)
  BY <1>1, <1>2, <1>3, CaptureKeeps
<1>4. CASE ReadFails(j, p)
  <2>1. LoopMoved(j, p) /\ loop'[j].at # "asked" /\ UNCHANGED <<src, shots>>
    BY <1>1, <1>4, ContinueMoves DEF ReadFails
  <2> QED BY <1>1, <1>2, <2>1, MoveKeeps DEF IInv, TypeOK, FramesFreed
<1> QED BY <1>1, <1>3, <1>4 DEF ProcessFrame

-----------------------------------------------------------------------------
LEMMA NextPreserves == IInv /\ [Next]_vars => IInv'
<1> SUFFICES ASSUME IInv, [Next]_vars PROVE IInv'
  OBVIOUS
<1>1. CASE Elsewhere \/ UNCHANGED vars BY <1>1, ElsewherePreserves
<1>2. CASE Stop BY <1>2, StopPreserves
<1>3. CASE Cleanup BY <1>3, CleanupPreserves
<1>4. CASE Start BY <1>4, StartPreserves
<1>5. ASSUME NEW k \in Calls, Install(k) PROVE IInv'
  BY <1>5, InstallPreserves
<1>6. ASSUME NEW j \in Loops, Callback(j) PROVE IInv'
  BY <1>6, CallbackPreserves
<1>7. ASSUME NEW j \in Loops, Drawn(j) \/ Undetected(j) PROVE IInv'
  BY <1>7, AnsweredPreserves
<1>8. CASE Announced BY <1>8, AnnouncedPreserves
<1> QED BY <1>1, <1>2, <1>3, <1>4, <1>5, <1>6, <1>7, <1>8 DEF Next, Elsewhere

THEOREM Invariance == Spec => []IInv
<1> QED BY InitIInv, NextPreserves, PTL DEF Spec

(* Mats, loops and timers of the page keep their types: a frame shows a    *)
(* picture that was read, a timer stands for a loop.                       *)
THEOREM TypeCorrect == Spec => []TypeOK
<1>1. IInv => TypeOK
  BY DEF IInv
<1> QED BY Invariance, <1>1, PTL

(* One loop at work, however starts, stops and new processors come.        *)
THEOREM OneLoopHolds == Spec => []OneLoop
<1>1. IInv => OneLoop
  BY DEF IInv, Single, OneLoop
<1> QED BY Invariance, <1>1, PTL

(* A processor that was started goes on through every error.               *)
THEOREM KeepsGoingHolds == Spec => []KeepsGoing
<1>1. IInv => KeepsGoing
  BY DEF IInv
<1> QED BY Invariance, <1>1, PTL

(* No frame's Mat is lost but where a clean-up met the frame.              *)
THEOREM FramesFreedHolds == Spec => []FramesFreed
<1>1. IInv => FramesFreed
  BY DEF IInv
<1> QED BY Invariance, <1>1, PTL

(* The picture on the canvas never goes back, but where loops overtake     *)
(* each other.                                                             *)
THEOREM NeverBackHolds == Spec => NeverBack
<1>1. IInv /\ [Next]_vars => [shown' >= shown \/ overlapped]_vars
  <2> SUFFICES ASSUME IInv, Next, ~overlapped PROVE shown' >= shown
    OBVIOUS
  <2> USE DEF IInv, TypeOK
  <2>1. shown \in Nat
    OBVIOUS
  <2>2. ASSUME NEW j \in Loops, Drawn(j) PROVE shown' >= shown
    <3>1. j \in UnderWay /\ shown' = loop[j].shot /\ loop[j].shot \in Nat
      BY <2>2 DEF Drawn, UnderWay
    <3> QED BY <2>1, <3>1 DEF Newest
  <2>3. ASSUME NEW j \in Loops, Undetected(j) PROVE shown' >= shown
    <3>1. j \in UnderWay /\ loop[j].shot \in Nat
      BY <2>3 DEF Undetected, UnderWay
    <3>2. CASE src[loop[j].of] = Gone
      BY <2>1, <2>3, <3>2 DEF Undetected, ShowOriginal
    <3>3. CASE src[loop[j].of] # Gone
      <4>1. shown' = loop[j].shot
        BY <2>3, <3>1, <3>3 DEF Undetected, ShowOriginal, Newest
      <4> QED BY <2>1, <3>1, <4>1 DEF Newest
    <3> QED BY <3>2, <3>3
  <2>4. ASSUME UNCHANGED shown PROVE shown' >= shown
    BY <2>1, <2>4
  <2>5. CASE Elsewhere BY <2>4, <2>5 DEF Elsewhere, Loaded, Ask, Denied, Granted, NotPlaying, TimedOut, Failed, frames
  <2>6. CASE Stop \/ Start \/ Cleanup \/ Announced BY <2>4, <2>6 DEF Stop, Start, Cleanup, Announced
  <2>7. ASSUME NEW k \in Calls, Install(k) PROVE shown' >= shown
    BY <2>4, <2>7 DEF Install
  <2>8. ASSUME NEW j \in Loops, Callback(j) PROVE shown' >= shown
    BY <2>4, <2>8 DEF Callback
  <2> QED BY <2>2, <2>3, <2>5, <2>6, <2>7, <2>8 DEF Next, Elsewhere
<1> QED BY Invariance, <1>1, PTL DEF NeverBack, Spec

-----------------------------------------------------------------------------
(* A camera that is on and no longer the page's has another call to blame: *)
(* what a call opened, it never takes back.                                *)
Displaced == \A k \in Calls : camera[k] /\ stream # k => \E i \in Calls \ {k} : Opened(i)

LEMMA OpenedStays == ASSUME TypeOK, Next, NEW i \in Calls, Opened(i) PROVE Opened(i)'
<1> USE DEF TypeOK, Opened
<1>1. CASE UNCHANGED call
  BY <1>1
<1>2. ASSUME NEW k \in Calls, Ask(k) \/ Denied(k) \/ Granted(k) PROVE Opened(i)'
  BY <1>2 DEF Ask, Denied, Granted, Failed
<1>3. ASSUME NEW k \in Calls, NotPlaying(k) \/ TimedOut(k) PROVE Opened(i)'
  BY <1>3 DEF NotPlaying, TimedOut, Failed
<1>4. ASSUME NEW k \in Calls, Install(k) PROVE Opened(i)'
  BY <1>4 DEF Install, Initialized
<1>5. CASE Announced
  BY <1>5 DEF Announced
<1> QED BY <1>1, <1>2, <1>3, <1>4, <1>5 DEF Next, Loaded, Start, Stop, Cleanup, Callback, Drawn, Undetected, page

LEMMA DisplacedStep == TypeOK /\ Displaced /\ [Next]_vars => Displaced'
<1> SUFFICES ASSUME TypeOK, Displaced, [Next]_vars, NEW k \in Calls, camera'[k], stream' # k
             PROVE  \E i \in Calls \ {k} : Opened(i)'
  BY DEF Displaced
<1>1. CASE UNCHANGED vars
  BY <1>1 DEF vars, page, Displaced, Opened
<1>2. CASE Next /\ camera[k] /\ stream # k
  BY <1>2, OpenedStays DEF Displaced
(* The stream was taken over, or taken back, in this very step.            *)
<1>3. CASE Next /\ ~(camera[k] /\ stream # k)
  <2>1. ~(UNCHANGED <<camera, stream>>)
    BY <1>3
  <2>2. ~Cleanup
    BY <1>3 DEF Cleanup
  <2>3. PICK i \in Calls : Granted(i)
    BY <1>3, <2>1, <2>2
       DEF Next, Loaded, Announced, Start, Stop, Ask, Denied, NotPlaying, TimedOut, Failed, Undone, Install,
           Callback, Drawn, Undetected, page
  <2>4. i # k /\ Opened(i)'
    BY <2>3 DEF Granted, Opened, TypeOK
  <2> QED BY <2>4
<1> QED BY <1>1, <1>2, <1>3

(* Only the processor of the page has Mats, or one that got them after it  *)
(* was cleaned up or replaced; a camera that is on is the page's unless a  *)
(* later call took its place.  Cleanup reaches what is the page's.         *)
THEOREM NothingForgottenHolds == Spec => []NothingForgotten
<1>1. Init => Displaced
  BY DEF Init, Displaced
<1>2. IInv => TypeOK
  BY DEF IInv
<1>3. IInv /\ Displaced => NothingForgotten
  BY DEF IInv, Places, Displaced, NothingForgotten
<1> QED BY Invariance, <1>1, <1>2, <1>3, DisplacedStep, PTL DEF Spec

=============================================================================
