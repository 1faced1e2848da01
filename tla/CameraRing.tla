------------------------------ MODULE CameraRing ------------------------------
(***************************************************************************)
(* The camera frame ring in POSIX shared memory.                           *)
(*                                                                         *)
(* One producer (webcam-server/src/webcam_server/shm.rs) creates a         *)
(* segment on every start and publishes frames into two slots under a      *)
(* sequence lock: the counter is odd while a publication is open and even  *)
(* once it is closed.  Readers (os-base/conecsa_shm/camera_ring.py) map    *)
(* the segment, copy the active slot between two loads of the counter, and *)
(* accept the copy only when the loads agree.  A reader notices a producer *)
(* restart by comparing inode numbers, remaps, and shifts the sequence     *)
(* numbers it hands out so that its callers never see them go back.        *)
(*                                                                         *)
(* A reader OBJECT holds the mapping; the THREADS that call it each hold   *)
(* the last sequence number they saw.  Obj tells which object a thread     *)
(* uses: one thread per object in the inference-service, one object shared *)
(* by all streaming threads in the api-gateway.                            *)
(*                                                                         *)
(* Memory is sequentially consistent here; the code asks the same of the   *)
(* machine (release fences in Rust, aligned accesses in Python).  A frame  *)
(* is its number; its bytes are two halves, so that a copy can be torn.    *)
(***************************************************************************)
EXTENDS Integers

CONSTANTS
    Threads,      \* threads that call get_latest_frame
    Objects,      \* CameraRingReader objects
    Obj,          \* [Threads -> Objects]
    Dims,         \* frame geometries (width x height)
    Jpeg,         \* the "geometry" of an MJPEG frame: none is written
    StartDims,    \* geometry the producer is started with
    Scripts,      \* what cameras may deliver: the kind of every frame, in order
    MaxFrames,    \* bound: publications in one behaviour
    MaxSegments,  \* bound: producer starts in one behaviour
    Retries       \* _READ_RETRIES

ASSUME RingAssumption ==
    /\ Obj \in [Threads -> Objects]
    /\ Jpeg \notin Dims
    /\ StartDims \in Dims
    /\ MaxFrames \in Nat
    /\ MaxSegments \in Nat
    /\ Scripts \subseteq [1..MaxFrames -> Dims \cup {Jpeg}]
    /\ Retries \in Nat \ {0}

Segments == 1..MaxSegments
Frames   == 1..MaxFrames
None     == 0              \* no inode, or no frame
Slots    == {0, 1}

VARIABLES
    kind,     \* kind[f]: the geometry of raw frame f, or Jpeg
    ppc,      \* where the producer is
    seg,      \* the producer's segment (inode)
    path,     \* inode behind /dev/shm/<name>, None if there is none
    nseg,     \* segments created so far
    frame,    \* frames begun so far; the one in flight while publishing
    header,   \* per segment: "blank", "magic" (no geometry yet) or "full"
    wseq,     \* per segment: FRAME_WRITE_SEQ
    active,   \* per segment: ACTIVE_SLOT
    meta,     \* per segment: the frame whose FORMAT_FLAG and FRAME_SIZE it holds
    dims,     \* per segment: WIDTH and HEIGHT
    slotLo,   \* per segment and slot: the frame its first half comes from
    slotHi,   \* per segment and slot: the frame its second half comes from
    closed    \* history: the frames whose publication was closed

producerVars == <<ppc, seg, path, nseg, frame, closed>>
memoryVars   == <<header, wseq, active, meta, dims, slotLo, slotHi>>

VARIABLES
    mm,       \* per object: the mapped segment (_mm), None when unmapped
    slotOK,   \* per object: _slot_size was read after MAX_FRAME_BYTES was written
    ident,    \* per object: _identity
    offset,   \* per object: _seq_offset
    maxAdj    \* per object: _max_adj_seq

objectVars == <<mm, slotOK, ident, offset, maxAdj>>

VARIABLES
    rpc,      \* per thread: where it is in get_latest_frame
    fd,       \* per thread: the inode open() opened
    tries,    \* per thread: iterations left of the retry loop
    raw,      \* per thread: raw_seq, the first load of the counter
    adj,      \* per thread: seq, the same with the offset added
    act,      \* per thread: the slot to copy
    fmt,      \* per thread: the frame whose format and size were read
    geo,      \* per thread: the geometry read
    src,      \* per thread: the segment the copy is made from
    lo, hi,   \* per thread: the two halves of the copy
    last,     \* per thread: last_seq, the caller's cursor
    out       \* per thread: the copy handed out last

localVars  == <<raw, adj, act, fmt, geo, src, lo, hi>>
threadVars == <<rpc, fd, tries, localVars, last, out>>
vars == <<kind, producerVars, memoryVars, objectVars, threadVars>>

NoFrame == [meta |-> None, dims |-> Jpeg, from |-> None, lo |-> None, hi |-> None]

Init ==
    /\ kind \in Scripts
    /\ ppc = "down" /\ seg = None /\ path = None /\ nseg = 0 /\ frame = 0
    /\ closed = {}
    /\ header = [i \in Segments |-> "blank"]
    /\ wseq = [i \in Segments |-> 0]
    /\ active = [i \in Segments |-> 0]
    /\ meta = [i \in Segments |-> None]
    /\ dims = [i \in Segments |-> StartDims]
    /\ slotLo = [i \in Segments |-> [s \in Slots |-> None]]
    /\ slotHi = [i \in Segments |-> [s \in Slots |-> None]]
    /\ mm = [o \in Objects |-> None]
    /\ slotOK = [o \in Objects |-> FALSE]
    /\ ident = [o \in Objects |-> None]
    /\ offset = [o \in Objects |-> 0]
    /\ maxAdj = [o \in Objects |-> 0]
    /\ rpc = [t \in Threads |-> "idle"]
    /\ fd = [t \in Threads |-> None]
    /\ tries = [t \in Threads |-> 0]
    /\ raw = [t \in Threads |-> 0]
    /\ adj = [t \in Threads |-> 0]
    /\ act = [t \in Threads |-> 0]
    /\ fmt = [t \in Threads |-> None]
    /\ geo = [t \in Threads |-> Jpeg]
    /\ src = [t \in Threads |-> None]
    /\ lo = [t \in Threads |-> None]
    /\ hi = [t \in Threads |-> None]
    /\ last = [t \in Threads |-> 0]
    /\ out = [t \in Threads |-> NoFrame]

-----------------------------------------------------------------------------
(* The producer: ShmProducer::new, then one publish_frame after another.   *)

(* A start unlinks the previous name first ...                             *)
Unlink ==
    /\ ppc = "down"
    /\ nseg < MaxSegments
    /\ ppc' = "unlinked"
    /\ path' = None
    /\ UNCHANGED <<kind, seg, nseg, frame, closed, memoryVars, objectVars, threadVars>>

(* ... then creates a new inode, sized and zeroed ...                      *)
Create ==
    /\ ppc = "unlinked"
    /\ nseg' = nseg + 1
    /\ seg' = nseg + 1
    /\ path' = nseg + 1
    /\ ppc' = "blank"
    /\ UNCHANGED <<kind, frame, closed, memoryVars, objectVars, threadVars>>

(* ... then writes MAGIC and VERSION, which is what readers look for ...   *)
WriteMagic ==
    /\ ppc = "blank"
    /\ header' = [header EXCEPT ![seg] = "magic"]
    /\ ppc' = "magic"
    /\ UNCHANGED <<kind, seg, path, nseg, frame, closed, wseq, active, meta, dims, slotLo, slotHi,
                   objectVars, threadVars>>

(* ... and only then WIDTH .. MAX_FRAME_BYTES, which is what they cache.   *)
WriteGeometry ==
    /\ ppc = "magic"
    /\ header' = [header EXCEPT ![seg] = "full"]
    /\ ppc' = "idle"
    /\ UNCHANGED <<kind, seg, path, nseg, frame, closed, wseq, active, meta, dims, slotLo, slotHi,
                   objectVars, threadVars>>

(* Variant: a publication that leaves the counter even while it is open.   *)
OpenWithoutOdd ==
    /\ ppc = "idle"
    /\ frame < MaxFrames
    /\ frame' = frame + 1
    /\ wseq' = [wseq EXCEPT ![seg] = @ + 2]
    /\ ppc' = "lo"
    /\ UNCHANGED <<kind, seg, path, nseg, closed, header, active, meta, dims, slotLo, slotHi,
                   objectVars, threadVars>>

(* publish_frame, step 1: the counter goes odd.                            *)
OpenWindow ==
    /\ ppc = "idle"
    /\ frame < MaxFrames
    /\ frame' = frame + 1
    /\ wseq' = [wseq EXCEPT ![seg] = @ + 1]
    /\ ppc' = "lo"
    /\ UNCHANGED <<kind, seg, path, nseg, closed, header, active, meta, dims, slotLo, slotHi,
                   objectVars, threadVars>>

(* Step 2: the payload goes into the other slot, in two halves ...         *)
CopyLow ==
    /\ ppc = "lo"
    /\ slotLo' = [slotLo EXCEPT ![seg] = [@ EXCEPT ![1 - active[seg]] = frame]]
    /\ ppc' = "hi"
    /\ UNCHANGED <<kind, seg, path, nseg, frame, closed, header, wseq, active, meta, dims, slotHi,
                   objectVars, threadVars>>

CopyHigh ==
    /\ ppc = "hi"
    /\ slotHi' = [slotHi EXCEPT ![seg] = [@ EXCEPT ![1 - active[seg]] = frame]]
    /\ ppc' = "dims"
    /\ UNCHANGED <<kind, seg, path, nseg, frame, closed, header, wseq, active, meta, dims, slotLo,
                   objectVars, threadVars>>

(* ... then the metadata: the geometry of a raw frame ...                  *)
WriteDims ==
    /\ ppc = "dims"
    /\ dims' = [dims EXCEPT ![seg] = IF kind[frame] = Jpeg THEN @ ELSE kind[frame]]
    /\ ppc' = "meta"
    /\ UNCHANGED <<kind, seg, path, nseg, frame, closed, header, wseq, active, meta, slotLo, slotHi,
                   objectVars, threadVars>>

(* ... its format and size ...                                             *)
WriteMeta ==
    /\ ppc = "meta"
    /\ meta' = [meta EXCEPT ![seg] = frame]
    /\ ppc' = "flip"
    /\ UNCHANGED <<kind, seg, path, nseg, frame, closed, header, wseq, active, dims, slotLo, slotHi,
                   objectVars, threadVars>>

(* ... and the slot it is in.                                              *)
FlipActive ==
    /\ ppc = "flip"
    /\ active' = [active EXCEPT ![seg] = 1 - @]
    /\ ppc' = "close"
    /\ UNCHANGED <<kind, seg, path, nseg, frame, closed, header, wseq, meta, dims, slotLo, slotHi,
                   objectVars, threadVars>>

(* Step 3: the counter goes even, which publishes everything above.        *)
CloseWindow ==
    /\ ppc = "close"
    /\ wseq' = [wseq EXCEPT ![seg] = @ + 1]
    /\ closed' = closed \cup {frame}
    /\ ppc' = "idle"
    /\ UNCHANGED <<kind, seg, path, nseg, frame, header, active, meta, dims, slotLo, slotHi,
                   objectVars, threadVars>>

(* The process is killed anywhere; the name and the memory stay behind.    *)
Crash ==
    /\ ppc # "down"
    /\ ppc' = "down"
    /\ UNCHANGED <<kind, seg, path, nseg, frame, closed, memoryVars, objectVars, threadVars>>

ProducerStep == Create \/ WriteMagic \/ WriteGeometry \/ CopyLow \/ CopyHigh
                \/ WriteDims \/ WriteMeta \/ FlipActive \/ CloseWindow

Producer == Unlink \/ OpenWindow \/ Crash \/ ProducerStep

-----------------------------------------------------------------------------
(* The readers: one call of get_latest_frame per trip round the loop.      *)

(* The locals of a call that has not loaded anything.                      *)
ClearLocals(t) ==
    /\ raw' = [raw EXCEPT ![t] = 0]
    /\ adj' = [adj EXCEPT ![t] = 0]
    /\ act' = [act EXCEPT ![t] = 0]
    /\ fmt' = [fmt EXCEPT ![t] = None]
    /\ geo' = [geo EXCEPT ![t] = Jpeg]
    /\ src' = [src EXCEPT ![t] = None]
    /\ lo' = [lo EXCEPT ![t] = None]
    /\ hi' = [hi EXCEPT ![t] = None]

(* The call returns None: nothing changes but the thread's own locals.     *)
ReturnNone(t) ==
    /\ rpc' = [rpc EXCEPT ![t] = "idle"]
    /\ fd' = [fd EXCEPT ![t] = None]
    /\ tries' = [tries EXCEPT ![t] = 0]
    /\ ClearLocals(t)
    /\ UNCHANGED <<last, out>>

(* The thread goes on; its cursor and its last result stay.                *)
Goto(t, where) ==
    /\ rpc' = [rpc EXCEPT ![t] = where]
    /\ UNCHANGED <<last, out>>

(* One iteration of the retry loop is used up.                             *)
Retry(t) ==
    /\ Goto(t, "seq")
    /\ tries' = [tries EXCEPT ![t] = @ - 1]
    /\ ClearLocals(t)
    /\ UNCHANGED fd

(* Variant: the mapping is taken to be current for ever.                   *)
NeverRemap(o) == TRUE

(* _segment_is_current: the mapped inode is the one behind the name.       *)
IsCurrent(o) == path # None /\ path = ident[o]

(* A call starts: os.stat, and what _reopen_if_recreated makes of it.      *)
StatPath(t) ==
    /\ rpc[t] = "idle"
    /\ Goto(t, IF mm[Obj[t]] = None THEN "open"
               ELSE IF IsCurrent(Obj[t]) THEN "seq" ELSE "close")
    /\ tries' = [tries EXCEPT ![t] = Retries]
    /\ UNCHANGED <<kind, producerVars, memoryVars, objectVars, fd, localVars>>

(* The name leads elsewhere: drop the mapping ...                          *)
Unmap(t) ==
    /\ rpc[t] = "close"
    /\ mm' = [mm EXCEPT ![Obj[t]] = None]
    /\ Goto(t, "offset")
    /\ UNCHANGED <<kind, producerVars, memoryVars, slotOK, ident, offset, maxAdj,
                   fd, tries, localVars>>

(* Variant: a fresh segment starts from offset 0 again.                    *)
OffsetForgotten(o) == 0

(* The offset of the sequence numbers handed out from the next segment.    *)
NextOffset(o) == maxAdj[o] + 2

(* ... move the offset past every number handed out, and map again.        *)
ShiftOffset(t) ==
    /\ rpc[t] = "offset"
    /\ offset' = [offset EXCEPT ![Obj[t]] = NextOffset(Obj[t])]
    /\ Goto(t, "open")
    /\ UNCHANGED <<kind, producerVars, memoryVars, mm, slotOK, ident, maxAdj,
                   fd, tries, localVars>>

(* open(): the inode behind the name, unless the object is mapped already. *)
OpenPath(t) ==
    /\ rpc[t] = "open"
    /\ \/ /\ mm[Obj[t]] # None
          /\ Goto(t, "seq")
          /\ UNCHANGED <<fd, tries, localVars>>
       \/ /\ mm[Obj[t]] = None /\ path = None
          /\ ReturnNone(t)
       \/ /\ mm[Obj[t]] = None /\ path # None
          /\ Goto(t, "map")
          /\ fd' = [fd EXCEPT ![t] = path]
          /\ UNCHANGED <<tries, localVars>>
    /\ UNCHANGED <<kind, producerVars, memoryVars, objectVars>>

(* open(), continued: reject a segment without MAGIC, else cache the slot  *)
(* size that the header holds at this moment.                              *)
MapSegment(t) ==
    /\ rpc[t] = "map"
    /\ LET o == Obj[t] IN
       \/ /\ header[fd[t]] = "blank"
          /\ ReturnNone(t)
          /\ UNCHANGED objectVars
       \/ /\ header[fd[t]] # "blank"
          /\ slotOK' = [slotOK EXCEPT ![o] = (header[fd[t]] = "full")]
          /\ ident' = [ident EXCEPT ![o] = fd[t]]
          /\ mm' = [mm EXCEPT ![o] = fd[t]]
          /\ Goto(t, "seq")
          /\ fd' = [fd EXCEPT ![t] = None]
          /\ UNCHANGED <<offset, maxAdj, tries, localVars>>
    /\ UNCHANGED <<kind, producerVars, memoryVars>>

(* First load of the counter.  An unmapped object makes the read raise,    *)
(* which the caller sees as None, like a loop that has run out.            *)
ReadSeq(t) ==
    /\ rpc[t] = "seq"
    /\ LET m == mm[Obj[t]] IN
       \/ /\ m = None \/ tries[t] = 0
          /\ ReturnNone(t)
       \/ /\ m # None /\ tries[t] # 0
          /\ wseq[m] % 2 = 1
          /\ Retry(t)
       \/ /\ m # None /\ tries[t] # 0
          /\ wseq[m] % 2 = 0
          /\ offset[Obj[t]] + wseq[m] <= last[t]
          /\ ReturnNone(t)
       \/ /\ m # None /\ tries[t] # 0
          /\ wseq[m] % 2 = 0
          /\ offset[Obj[t]] + wseq[m] > last[t]
          /\ raw' = [raw EXCEPT ![t] = wseq[m]]
          /\ adj' = [adj EXCEPT ![t] = offset[Obj[t]] + wseq[m]]
          /\ Goto(t, "active")
          /\ UNCHANGED <<fd, tries, act, fmt, geo, src, lo, hi>>
    /\ UNCHANGED <<kind, producerVars, memoryVars, objectVars>>

(* A load from a mapping that is gone raises, and the caller gets None.    *)
LoadRaises(t) == mm[Obj[t]] = None /\ ReturnNone(t)

ReadActive(t) ==
    /\ rpc[t] = "active"
    /\ \/ LoadRaises(t)
       \/ /\ mm[Obj[t]] # None
          /\ act' = [act EXCEPT ![t] = active[mm[Obj[t]]]]
          /\ Goto(t, "meta")
          /\ UNCHANGED <<fd, tries, raw, adj, fmt, geo, src, lo, hi>>
    /\ UNCHANGED <<kind, producerVars, memoryVars, objectVars>>

ReadMeta(t) ==
    /\ rpc[t] = "meta"
    /\ \/ LoadRaises(t)
       \/ /\ mm[Obj[t]] # None
          /\ fmt' = [fmt EXCEPT ![t] = meta[mm[Obj[t]]]]
          /\ Goto(t, "dims")
          /\ UNCHANGED <<fd, tries, raw, adj, act, geo, src, lo, hi>>
    /\ UNCHANGED <<kind, producerVars, memoryVars, objectVars>>

ReadDims(t) ==
    /\ rpc[t] = "dims"
    /\ \/ LoadRaises(t)
       \/ /\ mm[Obj[t]] # None
          /\ geo' = [geo EXCEPT ![t] = dims[mm[Obj[t]]]]
          /\ Goto(t, "lo")
          /\ UNCHANGED <<fd, tries, raw, adj, act, fmt, src, lo, hi>>
    /\ UNCHANGED <<kind, producerVars, memoryVars, objectVars>>

(* The header made sense: a frame of a size that fits the cached slot.     *)
Plausible(t) == fmt[t] # None /\ slotOK[Obj[t]]

(* The copy is one slice of one mapping; the producer runs meanwhile.      *)
CopySliceLow(t) ==
    /\ rpc[t] = "lo"
    /\ LET m == mm[Obj[t]] IN
       \/ /\ ~Plausible(t)
          /\ Retry(t)
       \/ /\ Plausible(t)
          /\ LoadRaises(t)
       \/ /\ Plausible(t) /\ m # None
          /\ src' = [src EXCEPT ![t] = m]
          /\ lo' = [lo EXCEPT ![t] = slotLo[m][act[t]]]
          /\ Goto(t, "hi")
          /\ UNCHANGED <<fd, tries, raw, adj, act, fmt, geo, hi>>
    /\ UNCHANGED <<kind, producerVars, memoryVars, objectVars>>

CopySliceHigh(t) ==
    /\ rpc[t] = "hi"
    /\ hi' = [hi EXCEPT ![t] = slotHi[src[t]][act[t]]]
    /\ Goto(t, "recheck")
    /\ UNCHANGED <<kind, producerVars, memoryVars, objectVars,
                   fd, tries, raw, adj, act, fmt, geo, src, lo>>

(* Variant: the copy is accepted unchecked.                                *)
NoRecheck(t) == TRUE

(* Nothing was published meanwhile: the two loads of the counter agree.    *)
SeqUnchanged(t) == wseq[mm[Obj[t]]] = raw[t]

(* Second load of the counter.                                             *)
Recheck(t) ==
    /\ rpc[t] = "recheck"
    /\ LET o == Obj[t] IN
       \/ LoadRaises(t)
       \/ /\ mm[o] # None /\ ~SeqUnchanged(t)
          /\ Retry(t)
       \/ /\ mm[o] # None /\ SeqUnchanged(t)
          /\ Goto(t, "accept")
          /\ UNCHANGED <<fd, tries, localVars>>
    /\ UNCHANGED <<kind, producerVars, memoryVars, objectVars>>

(* A raw frame is reshaped to the geometry just read: the byte count must  *)
(* be that of the geometry.                                                *)
Reshapes(t) == kind[fmt[t]] = Jpeg \/ kind[fmt[t]] = geo[t]

(* The copy is handed to the caller, which moves its cursor to it.         *)
Accept(t) ==
    /\ rpc[t] = "accept"
    /\ maxAdj' = [maxAdj EXCEPT ![Obj[t]] = IF adj[t] > @ THEN adj[t] ELSE @]
    /\ \/ /\ ~Reshapes(t)
          /\ Retry(t)
       \/ /\ Reshapes(t)
          /\ last' = [last EXCEPT ![t] = adj[t]]
          /\ out' = [out EXCEPT ![t] = [meta |-> fmt[t], dims |-> geo[t], from |-> src[t],
                                        lo |-> lo[t], hi |-> hi[t]]]
          /\ rpc' = [rpc EXCEPT ![t] = "idle"]
          /\ tries' = [tries EXCEPT ![t] = 0]
          /\ ClearLocals(t)
          /\ UNCHANGED fd
    /\ UNCHANGED <<kind, producerVars, memoryVars, mm, slotOK, ident, offset>>

Reader(t) ==
    \/ StatPath(t) \/ Unmap(t) \/ ShiftOffset(t) \/ OpenPath(t) \/ MapSegment(t)
    \/ ReadSeq(t) \/ ReadActive(t) \/ ReadMeta(t) \/ ReadDims(t)
    \/ CopySliceLow(t) \/ CopySliceHigh(t) \/ Recheck(t) \/ Accept(t)

Next == Producer \/ \E t \in Threads : Reader(t)

Spec == Init /\ [][Next]_vars

(* Threads are scheduled, and a publication or a start that has begun goes *)
(* on (or the process dies).  Nothing makes a camera deliver a frame, a    *)
(* crash happen, or a dead producer start again.                           *)
Fairness == WF_vars(ProducerStep) /\ \A t \in Threads : WF_vars(Reader(t))

FairSpec == Spec /\ Fairness

-----------------------------------------------------------------------------
(* Properties.                                                             *)

FrameOrNone == Frames \cup {None}
SegmentOrNone == Segments \cup {None}

CopyType == [meta : FrameOrNone, dims : Dims \cup {Jpeg}, from : SegmentOrNone,
             lo : FrameOrNone, hi : FrameOrNone]

ProducerPCs == {"down", "unlinked", "blank", "magic", "idle", "lo", "hi", "dims",
                "meta", "flip", "close"}
ReaderPCs == {"idle", "close", "offset", "open", "map", "seq", "active", "meta",
              "dims", "lo", "hi", "recheck", "accept"}

ProducerType ==
    /\ kind \in [Frames -> Dims \cup {Jpeg}]
    /\ ppc \in ProducerPCs
    /\ seg \in SegmentOrNone /\ path \in SegmentOrNone
    /\ nseg \in 0..MaxSegments /\ frame \in 0..MaxFrames
    /\ closed \in SUBSET Frames

MemoryType ==
    /\ header \in [Segments -> {"blank", "magic", "full"}]
    /\ wseq \in [Segments -> Nat]
    /\ active \in [Segments -> Slots]
    /\ meta \in [Segments -> FrameOrNone]
    /\ dims \in [Segments -> Dims]
    /\ slotLo \in [Segments -> [Slots -> FrameOrNone]]
    /\ slotHi \in [Segments -> [Slots -> FrameOrNone]]

ObjectType ==
    /\ mm \in [Objects -> SegmentOrNone]
    /\ slotOK \in [Objects -> BOOLEAN]
    /\ ident \in [Objects -> SegmentOrNone]
    /\ offset \in [Objects -> Nat]
    /\ maxAdj \in [Objects -> Nat]

LocalType ==
    /\ raw \in [Threads -> Nat] /\ adj \in [Threads -> Nat]
    /\ act \in [Threads -> Slots]
    /\ fmt \in [Threads -> FrameOrNone]
    /\ geo \in [Threads -> Dims \cup {Jpeg}]
    /\ src \in [Threads -> SegmentOrNone]
    /\ lo \in [Threads -> FrameOrNone] /\ hi \in [Threads -> FrameOrNone]

ThreadType ==
    /\ rpc \in [Threads -> ReaderPCs]
    /\ fd \in [Threads -> SegmentOrNone]
    /\ tries \in [Threads -> 0..Retries]
    /\ last \in [Threads -> Nat]
    /\ out \in [Threads -> CopyType]

(* Every variable has its type.                                            *)
TypeOK == ProducerType /\ MemoryType /\ ObjectType /\ LocalType /\ ThreadType

(* A copy whose halves, size and format are of one frame, with, for a raw  *)
(* frame, that frame's geometry.                                           *)
Whole(c) ==
    /\ c.lo = c.meta /\ c.hi = c.meta
    /\ c.meta # None => kind[c.meta] = Jpeg \/ kind[c.meta] = c.dims

(* No caller is ever handed a torn frame: not when the producer laps it,   *)
(* changes resolution or dies inside a publication, not across a remap     *)
(* (camera_ring.py get_latest_frame against shm.rs publish_frame).         *)
NoTornFrame == \A t \in Threads : Whole(out[t])

Shown(t) == out[t].meta

(* The ring is a LatestFrame: callers see frames whose publication was     *)
(* closed (never the one in flight, nor one that a crash cut off), each    *)
(* newer than the one before, across producer restarts too.                *)
Latest == INSTANCE LatestFrame WITH
    Clients <- Threads, Frame <- Frames,
    published <- closed, shown <- [t \in Threads |-> Shown(t)]

ImplementsLatestFrame == Latest!Spec

(* Whatever a remapped segment will hand out is numbered past the cursor   *)
(* of the caller, though the segment itself counts from 0 again            *)
(* (_reopen_if_recreated and _max_adj_seq).                                *)
FreshSegmentAhead ==
    \A t \in Threads :
        /\ mm[Obj[t]] # None
        /\ Shown(t) # None
        /\ out[t].from # mm[Obj[t]]
        => offset[Obj[t]] > last[t]

(* The newest frame of a live producer at rest is f.                       *)
Newest(f) == ppc = "idle" /\ meta[seg] = f

(* A caller has f or something newer, or the producer died.                *)
CaughtUp(t, f) == Shown(t) >= f \/ ppc = "down"

(* What the producer publishes last reaches every caller: a restart does   *)
(* not leave a reader waiting on a deleted inode, or for a counter that    *)
(* has to catch up with the one of the previous segment.  Excepted is a    *)
(* reader that mapped the segment before its geometry was written.         *)
ReadersCatchUp ==
    \A t \in Threads, f \in Frames :
        Newest(f) ~> \/ CaughtUp(t, f)
                     \/ mm[Obj[t]] = seg /\ ~slotOK[Obj[t]]
=============================================================================
