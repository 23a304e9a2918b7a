-------------------------------- MODULE Replay --------------------------------
(***************************************************************************)
(* The diagnostic recorder (src/mmx_replay.c).  It writes the inputs of    *)
(* every frame to segments and a snapshot of the machine at the start of a *)
(* segment and wherever the inputs do not continue each other: after a     *)
(* load, a rewind, a rollback or frames it did not see.  Old segments are  *)
(* evicted by number and by the bytes of their snapshots.  Any call of the *)
(* background writer may fail, which ends the recording until it is        *)
(* enabled again.                                                          *)
(***************************************************************************)
EXTENDS Integers, Sequences, FiniteSetsExt

CONSTANTS
    SegmentFrames, Segments,                  \* SEGMENT_FRAMES, SEGMENTS
    HistoryLimit, StateLimit, SnapshotLimit,  \* in one unit
    MaxFrame, MaxLoads, MaxSegment            \* bounds of the instance

ASSUME ReplayAssumption == Segments \in Nat \ {0} /\ MaxSegment \in Nat /\ MaxFrame \in Nat

VARIABLES
    frame, line,     \* the machine: its frame, and which of the timelines
                     \* that loads have made
    enabled, recording, failed,
    rows, nextFrame, \* of the segment: completed frames, frame to come
    newGeneration,   \* generation, load_sequence differ from those of the
    newLoad,         \* last recorded frame
    segment, oldest, \* numbers of the newest and the oldest segment kept
    segmentBytes, history, sizes,  \* snapshot bytes: of the segment, of all,
                                   \* of each (a ring of Segments)
    tape, last       \* the file of each segment: it "plays", is "broken", or is
                     \* "cut" by a call of the writer that failed; the last
                     \* item written to the newest

replayVars == <<frame, line, enabled, recording, failed, rows, nextFrame, newGeneration,
                newLoad, segment, oldest, segmentBytes, history, sizes, tape, last>>
store == <<segment, oldest, segmentBytes, history, sizes, tape, last>>

Snapshot == [kind |-> "S", line |-> line, frame |-> frame]
Input == [kind |-> "I", line |-> line, frame |-> frame]
Nothing == [kind |-> "none", line |-> 0, frame |-> 0]
Kept == oldest..segment

(* What playback_begin accepts: a snapshot first, and each input for the    *)
(* machine that the snapshot or the input before it has left.               *)
PlaysOn(before, item) ==
    /\ before.kind \in {"S", "I"}
    /\ before.line = item.line
    /\ item.frame = before.frame + (IF before.kind = "I" THEN 1 ELSE 0)

ReplayInit ==
    /\ frame = 0 /\ line = 0
    /\ enabled = TRUE /\ recording = FALSE /\ failed = FALSE
    /\ rows = 0 /\ nextFrame = 0
    /\ newGeneration = FALSE /\ newLoad = FALSE
    /\ segment = 0 /\ oldest = 1
    /\ segmentBytes = 0 /\ history = 0
    /\ sizes = [i \in 0..(Segments - 1) |-> 0]
    /\ tape = [s \in 1..MaxSegment |-> "none"]
    /\ last = Nothing

-----------------------------------------------------------------------------
(* Mutant: a rollback is taken for a continuation. *)
DiscontinuityOfGeneration == frame # nextFrame \/ newGeneration

Discontinuity == frame # nextFrame \/ newGeneration \/ newLoad
SegmentLimit == Min({HistoryLimit, StateLimit})

(* Whether record_begin must start a segment.                               *)
Starts ==
    \/ ~recording
    \/ rows >= SegmentFrames
    \/ Discontinuity /\ segmentBytes > SegmentLimit - SnapshotLimit

(* evict_segment for the segments before o: bytes they held, ring cleared.  *)
Freed(o) == MapThenSumSet(LAMBDA s : sizes[s % Segments], oldest..(o - 1))
Cleared(o) ==
    [i \in DOMAIN sizes |->
        IF \E s \in oldest..(o - 1) : s % Segments = i THEN 0 ELSE sizes[i]]

(* The oldest segment left by the loop of start_segment for segment s, and  *)
(* by the loop of write_snapshot for a snapshot of size bytes.              *)
ByNumber(s) == IF s - oldest >= Segments THEN s - Segments + 1 ELSE oldest
ByBytes(s, size) ==
    Min({o \in ByNumber(s)..s : o = s \/ history - Freed(o) + size <= HistoryLimit})

(* One frame with record_begin before it and MmxReplayEnd after it; stop is *)
(* the call of the writer that fails, if any.                               *)
RecordFrame(size, stop) ==
    LET current  == IF Starts THEN segment + 1 ELSE segment
        bytes    == IF Starts THEN 0 ELSE segmentBytes
        goes     == stop \in {"none", "end"}
        snaps    == Starts \/ rows = 0 \/ Discontinuity
        stored   == snaps /\ stop \notin {"begin", "snapshot"}
        left     == IF snaps /\ stop # "begin" THEN ByBytes(current, size)
                                               ELSE ByNumber(current)
        before   == IF stored THEN Snapshot ELSE IF Starts THEN Nothing ELSE last
        plays    == IF goes /\ ~PlaysOn(before, Input) THEN "broken"
                    ELSE IF stop # "none" THEN "cut"
                    ELSE IF Starts THEN "plays" ELSE tape[segment]
    IN  /\ enabled /\ ~failed
        /\ current <= MaxSegment /\ frame < MaxFrame
        /\ stop = "begin" => Starts
        /\ stop = "snapshot" => snaps
        /\ segment' = current /\ oldest' = left
        /\ segmentBytes' = bytes + (IF stored THEN size ELSE 0)
        /\ history' = history - Freed(left) + (IF stored THEN size ELSE 0)
        /\ sizes' = [Cleared(left) EXCEPT ![current % Segments] =
                        @ + (IF stored THEN size ELSE 0)]
        /\ last' = IF goes THEN Input ELSE before
        /\ tape' = [s \in DOMAIN tape |-> IF s < left THEN "none"
                                          ELSE IF s = current THEN plays ELSE tape[s]]
        /\ rows' = (IF Starts THEN 0 ELSE rows) + (IF goes THEN 1 ELSE 0)
        /\ nextFrame' = IF goes THEN frame + 1
                        ELSE IF Starts THEN frame ELSE nextFrame
        /\ newGeneration' = (newGeneration /\ stop = "snapshot" /\ ~Starts)
        /\ newLoad' = (newLoad /\ stop \in {"begin", "snapshot"})
        /\ recording' = (stop = "none") /\ failed' = (stop # "none")
        /\ frame' = frame + 1
        /\ UNCHANGED <<line, enabled>>

(* A frame that record_begin leaves alone: recording is off or has failed,  *)
(* or the frame is a speculative one, which closes the segment.             *)
FrameAlone ==
    /\ ~enabled \/ failed
    /\ frame < MaxFrame
    /\ frame' = frame + 1
    /\ UNCHANGED <<line, enabled, recording, failed, rows, nextFrame, newGeneration,
                   newLoad, store>>
FrameAhead ==
    /\ enabled /\ ~failed
    /\ frame < MaxFrame
    /\ frame' = frame + 1
    /\ recording' = FALSE /\ rows' = 0
    /\ UNCHANGED <<line, enabled, failed, nextFrame, newGeneration, newLoad, store>>

(* A state is loaded: a file or a rewind makes a new generation, netplay's  *)
(* rollback does not; the frame may be any.                                 *)
Load(f, generation) ==
    /\ line < MaxLoads
    /\ frame' = f /\ line' = line + 1
    /\ newLoad' = TRUE
    /\ newGeneration' = (newGeneration \/ generation)
    /\ UNCHANGED <<enabled, recording, failed, rows, nextFrame, store>>

(* MmxReplayEnable.                                                         *)
EnableOn ==
    /\ ~enabled
    /\ enabled' = TRUE /\ failed' = FALSE
    /\ UNCHANGED <<frame, line, recording, rows, nextFrame, newGeneration, newLoad, store>>
EnableOff ==
    /\ enabled
    /\ enabled' = FALSE
    /\ recording' = FALSE /\ rows' = 0
    /\ UNCHANGED <<frame, line, failed, nextFrame, newGeneration, newLoad, store>>

ReplayNext ==
    \/ \E size \in 1..SnapshotLimit, stop \in {"none", "begin", "snapshot", "input", "end"} :
          RecordFrame(size, stop)
    \/ FrameAlone \/ FrameAhead
    \/ \E f \in 0..MaxFrame, generation \in BOOLEAN : Load(f, generation)
    \/ EnableOn \/ EnableOff

ReplaySpec == ReplayInit /\ [][ReplayNext]_replayVars

-----------------------------------------------------------------------------
(* Every segment that is kept plays from its own beginning, through loads,  *)
(* rewinds, rollbacks, speculative frames, evictions and failures: to its   *)
(* end, or up to the call of the writer that failed, after which nothing is *)
(* recorded to it.                                                          *)
KeptSegmentsPlay ==
    /\ \A s \in Kept : tape[s] \in {"plays", "cut"}
    /\ recording => tape[segment] = "plays"
===============================================================================
