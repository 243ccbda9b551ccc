-------------------------- MODULE StreamGeometry --------------------------
(***************************************************************************)
(* Units and arithmetic shared by the streaming engine and its parts.      *)
(*                                                                         *)
(* Three grids run through the program: audio samples, mel frames (one per *)
(* Hop samples) and encoder frames (one per Sub mel frames).  The pinned   *)
(* front-end and model constants are given their real values: nothing in   *)
(* the code lets them vary, and the geometry of the stream, which does     *)
(* vary, is a record.                                                      *)
(***************************************************************************)
EXTENDS Integers

CONSTANTS
    NumSpeakers,       \* channels of the model (config num_speakers)
    SilFramesPerSpk,   \* silence frames the cache keeps per speaker
    PosEmbMaxLen       \* rows the relative position table can serve

ASSUME ModelConstants ==
    /\ NumSpeakers \in Nat \ {0}
    /\ SilFramesPerSpk \in Nat
    /\ PosEmbMaxLen \in Nat \ {0}

Hop == 160             \* samples per mel frame
HalfFft == 256         \* half of the 512-sample analysis window
Sub == 8               \* mel frames per encoder frame
PadMultiple == 32      \* tail windows are padded to this many mel frames

Min2(a, b) == IF a < b THEN a ELSE b
Max2(a, b) == IF a > b THEN a ELSE b

(***************************************************************************)
(* A stream geometry: five lengths in encoder frames and an update period. *)
(***************************************************************************)
Geometry ==
    [spkcache_len : Int, fifo_len : Int, chunk_len : Int,
     spkcache_update_period : Int,
     chunk_left_context : Int, chunk_right_context : Int]

Streaming ==
    [spkcache_len |-> 160, fifo_len |-> 80, chunk_len |-> 20,
     spkcache_update_period |-> 80,
     chunk_left_context |-> 0, chunk_right_context |-> 0]

OfflinePreset ==
    [spkcache_len |-> 312, fifo_len |-> 100, chunk_len |-> 100,
     spkcache_update_period |-> 100,
     chunk_left_context |-> 0, chunk_right_context |-> 0]

(* The window the geometry budgets for: cache, queue and a full chunk.     *)
WindowBudget(g) ==
    g.spkcache_len + g.fifo_len
        + g.chunk_left_context + g.chunk_len + g.chunk_right_context

(* A construction that fails any of these conjuncts throws: no engine      *)
(* exists with such a geometry.                                            *)
ValidGeometry(g) ==
    /\ g.chunk_len >= 1
    /\ g.spkcache_update_period >= 1
    /\ g.fifo_len >= 0
    /\ g.chunk_left_context >= 0
    /\ g.chunk_right_context >= 0
    /\ g.spkcache_len >= (1 + SilFramesPerSpk) * NumSpeakers
    /\ WindowBudget(g) <= PosEmbMaxLen

HopMel(g) == g.chunk_len * Sub
LcMelMax(g) == g.chunk_left_context * Sub
RcMelMax(g) == g.chunk_right_context * Sub

(***************************************************************************)
(* Encoder frames of a window of t mel frames: log2(Sub) stride-2 stages.  *)
(***************************************************************************)
StageLen(len) == (len + 2 - 3) \div 2 + 1

SubsampledLen(t) ==
    IF t <= 0 THEN 0 ELSE StageLen(StageLen(StageLen(t)))

(* A final window is rounded up to a multiple of PadMultiple mel frames.   *)
PaddedWindow(t) ==
    IF t <= 0 THEN 0
    ELSE ((t + PadMultiple - 1) \div PadMultiple) * PadMultiple

(* Context lengths in encoder frames, of non-negative mel lengths: the     *)
(* left one is rounded to the nearest (halves up), the right one up.       *)
LcEnc(lcMel) == (2 * lcMel + Sub) \div (2 * Sub)
RcEnc(rcMel) == (rcMel + Sub - 1) \div Sub

-----------------------------------------------------------------------------
(* The frames the FIFO and the speaker cache hold after an update that     *)
(* emits valid frames: the part of the AOSC state the scheduler sees.  l1  *)
(* and l2 are the frames of the cache and of the FIFO before it.           *)

(* Mutants of Popped: the period alone, whatever the FIFO holds; and a     *)
(* period that does not grow with an oversized chunk.                      *)
PoppedUnclamped(g, valid, l2) ==
    IF l2 + valid > g.fifo_len THEN g.spkcache_update_period ELSE 0

PoppedPeriodOnly(g, valid, l2) ==
    IF l2 + valid > g.fifo_len
    THEN Min2(g.spkcache_update_period, l2 + valid)
    ELSE 0

(* Frames that leave the FIFO for the cache.                               *)
Popped(g, valid, l2) ==
    IF l2 + valid > g.fifo_len
    THEN Min2(Max2(g.spkcache_update_period, valid - g.fifo_len + l2),
              l2 + valid)
    ELSE 0

FifoAfter(g, valid, l2) == l2 + valid - Popped(g, valid, l2)

(* Mutant of SpkAfter: the cache is never compressed.                      *)
SpkAfterUncompressed(g, valid, l1, l2) == l1 + Popped(g, valid, l2)

(* A cache beyond its capacity is compressed to exactly its capacity.      *)
SpkAfter(g, valid, l1, l2) == Min2(l1 + Popped(g, valid, l2), g.spkcache_len)

-----------------------------------------------------------------------------
(* Scheduling of mel frames over a trimmed audio buffer                    *)
(* (produce_new_mel_frames).  The buffer holds the samples base .. end-1   *)
(* of the stream; frame i is the analysis window of 2 * HalfFft samples    *)
(* centred on sample i * Hop.  A frame is represented by the absolute      *)
(* position of the first sample of its window, so that a frame computed    *)
(* at the wrong offset is a different frame.                               *)

(* Frames whose right edge lies in the audio received so far: i_max.       *)
FramesReady(end) == IF end >= HalfFft THEN (end - HalfFft) \div Hop + 1 ELSE 0

(* Near the start of the stream the whole buffer is computed again, with   *)
(* HalfFft zeros before it; later, from the left edge of the first frame.  *)
AtStreamStart(iStart) == iStart * Hop < HalfFft

(* Position in the buffer of the first sample handed to the extractor.     *)
FirstOffset(base, iStart) ==
    IF AtStreamStart(iStart) THEN 0 ELSE iStart * Hop - HalfFft - base

(* Frames the extractor returns for n samples, zeros after them included.  *)
ComputedFrames(n, padLeft) ==
    LET padded == n + HalfFft + (IF padLeft THEN HalfFft ELSE 0)
    IN  (padded - 2 * HalfFft) \div Hop + 1

(* Mutant of Skip: recomputed frames are appended again.                   *)
SkipNothing(iStart) == 0

(* Frames of the result that are already in the mel buffer.                *)
Skip(iStart) == IF AtStreamStart(iStart) THEN iStart ELSE 0

Take(base, end, iStart) ==
    LET n == end - base - FirstOffset(base, iStart)
    IN  Min2(ComputedFrames(n, AtStreamStart(iStart)) - Skip(iStart),
             FramesReady(end) - iStart)

(* First sample of the window of frame f of the extractor's result.        *)
WindowStart(base, iStart, f) ==
    base + FirstOffset(base, iStart) + f * Hop
        - (IF AtStreamStart(iStart) THEN HalfFft ELSE 0)

(* The frames to append to a mel buffer that ends before frame iStart.     *)
NewMelFrames(base, end, iStart) ==
    IF FramesReady(end) <= iStart \/ Take(base, end, iStart) <= 0
    THEN << >>
    ELSE [k \in 1 .. Take(base, end, iStart) |->
             WindowStart(base, iStart, Skip(iStart) + k - 1)]

(* Where the window of frame i belongs.                                    *)
GridStart(i) == i * Hop - HalfFft

=============================================================================
