------------------------ MODULE StreamEngineProofs ------------------------
(***************************************************************************)
(* Proofs about StreamEngine, for every set of geometries, every way of    *)
(* cutting the audio and every fault of a device route.                    *)
(***************************************************************************)
EXTENDS StreamEngine, SequenceTheorems, TLAPS

---------------------------------------------------------------------------
(* Arithmetic of the three grids.                                          *)

(* Three rounding halvings are one rounding division by eight.             *)
LEMMA SubsampledLenIsCeil ==
    ASSUME NEW t \in Nat
    PROVE  SubsampledLen(t) = (t + 7) \div 8
BY DEF SubsampledLen, StageLen

LEMMA PaddedWindowGrows ==
    ASSUME NEW t \in Nat
    PROVE  PaddedWindow(t) \in Nat /\ PaddedWindow(t) >= t
BY DEF PaddedWindow, PadMultiple

(* A left context is whole encoder frames; a right one is rounded up.      *)
LEMMA ContextFrames ==
    ASSUME NEW t \in Nat
    PROVE  /\ t % 8 = 0 => LcEnc(t) = t \div 8
           /\ RcEnc(t) = (t + 7) \div 8
BY DEF LcEnc, RcEnc, Sub

(* More audio never completes fewer mel frames.                            *)
LEMMA FramesReadyMonotone ==
    ASSUME NEW m \in Nat, NEW n \in Nat, m <= n
    PROVE  /\ FramesReady(m) \in Nat
           /\ FramesReady(m) <= FramesReady(n)
BY DEF FramesReady, HalfFft, Hop

(* The constructor's check leaves room in the cache.                       *)
LEMMA ValidGeometryLengths ==
    ASSUME NEW g \in Geometry, ValidGeometry(g)
    PROVE  /\ g.spkcache_len \in Nat
           /\ g.fifo_len \in Nat
           /\ g.chunk_len \in Nat /\ g.chunk_len >= 1
           /\ g.spkcache_update_period \in Nat
           /\ g.chunk_left_context \in Nat
           /\ g.chunk_right_context \in Nat
           /\ HopMel(g) = 8 * g.chunk_len
           /\ LcMelMax(g) = 8 * g.chunk_left_context
           /\ RcMelMax(g) = 8 * g.chunk_right_context
<1>1. (1 + SilFramesPerSpk) * NumSpeakers \in Nat
  BY ModelConstants
<1> QED
  BY <1>1 DEF Geometry, ValidGeometry, HopMel, LcMelMax, RcMelMax, Sub

---------------------------------------------------------------------------
(* The front-end scheduler delivers exactly the missing frames, in place.  *)
LEMMA NewMelFramesExact ==
    ASSUME NEW base \in Nat, NEW end \in Nat, NEW iStart \in Nat,
           iStart <= FramesReady(end),
           AtStreamStart(iStart) => base = 0,
           base <= end,
           ~AtStreamStart(iStart) => base <= iStart * Hop - HalfFft
    PROVE  LET new == NewMelFrames(base, end, iStart)
           IN  /\ new \in Seq(Int)
               /\ Len(new) = FramesReady(end) - iStart
               /\ \A k \in 1 .. Len(new) : new[k] = GridStart(iStart + k - 1)
<1> DEFINE take == FramesReady(end) - iStart
           new == NewMelFrames(base, end, iStart)
<1>1. FramesReady(end) \in Nat
  BY DEF FramesReady, HalfFft, Hop
<1>2. CASE take = 0
  BY <1>1, <1>2 DEF NewMelFrames
<1>3. CASE take > 0
  <2>1. end >= HalfFft /\ end >= (FramesReady(end) - 1) * Hop + HalfFft
    BY <1>3, <1>1 DEF FramesReady, HalfFft, Hop
  <2>2. Take(base, end, iStart) = take
    <3>1. CASE AtStreamStart(iStart)
      BY <1>1, <1>3, <2>1, <3>1
         DEF Take, FirstOffset, ComputedFrames, Skip, Min2, FramesReady,
             HalfFft, Hop
    <3>2. CASE ~AtStreamStart(iStart)
      BY <1>1, <1>3, <2>1, <3>2
         DEF Take, FirstOffset, ComputedFrames, Skip, Min2, FramesReady,
             HalfFft, Hop
    <3> QED  BY <3>1, <3>2
  <2>3. new = [k \in 1 .. take |->
                  WindowStart(base, iStart, Skip(iStart) + k - 1)]
    BY <1>1, <1>3, <2>2 DEF NewMelFrames
  <2>4. ASSUME NEW k \in 1 .. take
        PROVE  WindowStart(base, iStart, Skip(iStart) + k - 1)
                   = GridStart(iStart + k - 1)
    BY <1>1 DEF WindowStart, FirstOffset, Skip, GridStart, AtStreamStart,
                HalfFft, Hop
  <2>5. \A k \in 1 .. take : GridStart(iStart + k - 1) \in Int
    BY <1>1 DEF GridStart, HalfFft, Hop
  <2> HIDE DEF new
  <2>6. new = [k \in 1 .. take |-> GridStart(iStart + k - 1)]
    BY <2>3, <2>4
  <2>7. take \in Nat
    BY <1>1, <1>3
  <2> HIDE DEF take
  <2>8. new \in Seq(Int) /\ Len(new) = take
    BY <2>5, <2>6, <2>7
  <2> QED
    BY <2>6, <2>8 DEF new, take
<1> QED
  BY <1>1, <1>2, <1>3

---------------------------------------------------------------------------
(* The budget of the AOSC state after an update.                           *)
LEMMA BudgetKept ==
    ASSUME NEW g \in Geometry, ValidGeometry(g),
           NEW valid \in Nat, NEW l1 \in Nat, NEW l2 \in Nat
    PROVE  /\ FifoAfter(g, valid, l2) \in Nat
           /\ FifoAfter(g, valid, l2) <= g.fifo_len
           /\ SpkAfter(g, valid, l1, l2) \in Nat
           /\ SpkAfter(g, valid, l1, l2) <= g.spkcache_len
BY ValidGeometryLengths DEF FifoAfter, SpkAfter, Popped, Min2, Max2

---------------------------------------------------------------------------
(* The inductive invariant.  TypeOK and LabelledOnce are not inductive:    *)
(* where the next window starts, and which mel frames it reads, follows    *)
(* from how far the buffers were trimmed, which follows from the last      *)
(* chunk; and a chunk starts on the encoder grid unless the stream ended.  *)

Control ==
    /\ ValidGeometry(geo)
    /\ pc = "feeding" => ~finished
    /\ pc = "finishing" => finished

Caps ==
    /\ spkFrames <= geo.spkcache_len
    /\ fifoFrames <= geo.fifo_len

Trimmed ==
    /\ melConsumed <= MelProduced
    /\ melBase = Max2(melConsumed - LcMelMax(geo), 0)
    /\ audioBase = Max2(melBase * Hop - HalfFft, 0)

Grid ==
    /\ MelProduced = FramesReady(audioEnd)
    /\ \A k \in 1 .. Len(melBuf) : melBuf[k] = GridStart(melBase + k - 1)
    /\ melConsumed % Sub = 0 \/ (finished /\ melConsumed = MelProduced)

IndInv == TypeOK /\ Control /\ Caps /\ Trimmed /\ Grid /\ LabelledOnce

---------------------------------------------------------------------------
LEMMA InitIndInv == Init => IndInv
<1> SUFFICES ASSUME Init PROVE IndInv
  OBVIOUS
<1>1. geo \in Geometry /\ ValidGeometry(geo)
  BY EngineConstants DEF Init
<1>2. LcMelMax(geo) \in Nat /\ geo.spkcache_len \in Nat /\ geo.fifo_len \in Nat
  BY <1>1, ValidGeometryLengths
<1>3. TypeOK
  <2>1. << >> \in Seq(Int) /\ << >> \in Seq(Entry)
    BY EmptySeq
  <2> QED
    BY <1>1, <2>1 DEF Init, TypeOK
<1>4. Control /\ Caps
  BY <1>1, <1>2 DEF Init, Control, Caps
<1>5. MelProduced = 0
  BY DEF Init, MelProduced
<1>6. Trimmed
  BY <1>2, <1>5 DEF Init, Trimmed, Max2, Hop, HalfFft
<1>7. Grid
  BY <1>5 DEF Init, Grid, FramesReady, HalfFft, Sub
<1>8. LabelledOnce
  BY DEF Init, LabelledOnce, SubsampledLen
<1> QED
  BY <1>3, <1>4, <1>6, <1>7, <1>8 DEF IndInv

---------------------------------------------------------------------------
(* The window of a ready chunk, under the invariant.                       *)
LEMMA WindowFacts ==
    ASSUME IndInv, pc # "idle", ChunkReady
    PROVE  /\ ChunkEnd \in Nat
           /\ melConsumed < ChunkEnd /\ ChunkEnd <= MelProduced
           /\ ChunkEnd <= melConsumed + HopMel(geo)
           /\ melConsumed % 8 = 0
           /\ ChunkEnd % 8 = 0 \/ (Draining /\ ChunkEnd = MelProduced)
           /\ LcMel \in Nat /\ LcMel % 8 = 0 /\ LcMel <= LcMelMax(geo)
           /\ RcMel \in Nat /\ RcMel <= RcMelMax(geo)
           /\ RcMel > 0 => ChunkEnd % 8 = 0
           /\ ChunkEnd + RcMel <= MelProduced
           /\ WinStart = melBase /\ LcMel = melConsumed - melBase
           /\ TMel \in Nat /\ TMel = ChunkEnd + RcMel - melBase
<1> DEFINE lc == geo.chunk_left_context
           rc == geo.chunk_right_context
           hop == geo.chunk_len
<1>1. /\ lc \in Nat /\ rc \in Nat /\ hop \in Nat /\ hop >= 1
      /\ HopMel(geo) = 8 * hop /\ LcMelMax(geo) = 8 * lc
      /\ RcMelMax(geo) = 8 * rc
  BY ValidGeometryLengths DEF IndInv, TypeOK, Control
<1>2. /\ melConsumed \in Nat /\ melBase \in Nat /\ MelProduced \in Nat
      /\ melConsumed <= MelProduced
      /\ melBase = Max2(melConsumed - 8 * lc, 0)
  BY <1>1 DEF IndInv, TypeOK, Trimmed, MelProduced
<1> HIDE DEF lc, rc, hop
<1>3. /\ ChunkEnd \in Nat
      /\ melConsumed < ChunkEnd /\ ChunkEnd <= MelProduced
      /\ ChunkEnd <= melConsumed + HopMel(geo)
      /\ ChunkEnd = melConsumed + 8 * hop
            \/ (Draining /\ ChunkEnd = MelProduced)
  BY <1>1, <1>2 DEF ChunkEnd, ChunkReady, Min2
<1>4. melConsumed % 8 = 0
  BY <1>2, <1>3 DEF IndInv, Grid, Sub
<1>5. ChunkEnd % 8 = 0 \/ (Draining /\ ChunkEnd = MelProduced)
  BY <1>1, <1>2, <1>3, <1>4
<1>6. /\ RcMel \in Nat /\ RcMel <= RcMelMax(geo)
      /\ RcMel <= MelProduced - ChunkEnd
  BY <1>1, <1>2, <1>3 DEF RcMel, Min2
<1>7. /\ LcMel \in Nat /\ LcMel % 8 = 0 /\ LcMel <= LcMelMax(geo)
      /\ LcMel = melConsumed - melBase
  BY <1>1, <1>2, <1>4 DEF LcMel, Min2, Max2
<1>8. WinStart = melBase
  BY <1>2, <1>7 DEF WinStart
<1>9. TMel \in Nat /\ TMel = ChunkEnd + RcMel - melBase
  BY <1>2, <1>3, <1>6, <1>7, <1>8 DEF TMel
<1> QED
  BY <1>2, <1>3, <1>4, <1>5, <1>6, <1>7, <1>8, <1>9

(* A chunk emits the frames from where the timeline ends to where the      *)
(* chunk ends, whether or not its window was padded.                       *)
LEMMA EmissionFacts ==
    ASSUME IndInv, pc # "idle", ChunkReady
    PROVE  /\ T3 \in Nat /\ T3 >= T3Valid
           /\ ChunkValid \in Nat
           /\ ChunkValid = SubsampledLen(ChunkEnd) - Len(timeline)
           /\ EmittedRows = [j \in 1 .. ChunkValid |->
                 GridStart((Len(timeline) + j - 1) * Sub)]
<1>0. /\ ChunkEnd \in Nat /\ melConsumed < ChunkEnd
      /\ melConsumed % 8 = 0
      /\ LcMel \in Nat /\ LcMel % 8 = 0 /\ LcMel = melConsumed - melBase
      /\ RcMel \in Nat
      /\ RcMel > 0 => ChunkEnd % 8 = 0
      /\ ChunkEnd + RcMel <= MelProduced
      /\ WinStart = melBase
      /\ TMel \in Nat /\ TMel = ChunkEnd + RcMel - melBase
  BY WindowFacts
<1>1. melConsumed \in Nat /\ melBase \in Nat /\ Len(melBuf) \in Nat
  BY DEF IndInv, TypeOK
<1>2. Len(timeline) = (melConsumed + 7) \div 8
  BY <1>1, SubsampledLenIsCeil DEF IndInv, LabelledOnce
<1>3. SubsampledLen(ChunkEnd) = (ChunkEnd + 7) \div 8
  BY <1>0, SubsampledLenIsCeil
<1>4. SubsampledLen(TMel) = (TMel + 7) \div 8
  BY <1>0, SubsampledLenIsCeil
<1>5. /\ T3Valid = (TMel + 7) \div 8
      /\ T3 \in Nat /\ T3 >= T3Valid
  <2>1. CASE IsTail
    <3>1. /\ PaddedWindow(TMel) \in Nat /\ PaddedWindow(TMel) >= TMel
          /\ SubsampledLen(PaddedWindow(TMel)) = (PaddedWindow(TMel) + 7) \div 8
      BY <1>0, PaddedWindowGrows, SubsampledLenIsCeil
    <3> QED
      BY <1>0, <2>1, <3>1, <1>4 DEF T3, T3Valid
  <2>2. CASE ~IsTail
    BY <1>0, <2>2, <1>4 DEF T3, T3Valid
  <2> QED  BY <2>1, <2>2
<1>6. LcEnc(LcMel) = LcMel \div 8 /\ RcEnc(RcMel) = (RcMel + 7) \div 8
  BY <1>0, ContextFrames
<1>7. /\ ChunkValid \in Nat
      /\ ChunkValid = (ChunkEnd + 7) \div 8 - melConsumed \div 8
  BY <1>0, <1>1, <1>5, <1>6 DEF ChunkValid
<1>8. Len(timeline) = melConsumed \div 8 /\ melConsumed = 8 * Len(timeline)
  BY <1>0, <1>1, <1>2
<1>9. ASSUME NEW j \in 1 .. ChunkValid
      PROVE  RowOrigin(LcEnc(LcMel) + j - 1)
                 = GridStart((Len(timeline) + j - 1) * Sub)
  <2> DEFINE r == LcEnc(LcMel) + j - 1
  <2>1. j \in Nat /\ r \in Nat /\ 8 * r = LcMel + 8 * (j - 1)
    BY <1>0, <1>6, <1>7
  <2> HIDE DEF r
  <2>2. 8 * (j - 1) < ChunkEnd - melConsumed
    BY <1>0, <1>1, <1>7
  <2>3. 8 * r < TMel
    BY <1>0, <1>1, <2>1, <2>2
  <2>4. r * Sub = 8 * r
    BY <2>1 DEF Sub
  <2>5. 8 * r + 1 \in 1 .. Len(melBuf)
    BY <1>0, <1>1, <2>1, <2>3 DEF MelProduced
  <2>6. melBuf[8 * r + 1] = GridStart(melBase + (8 * r + 1) - 1)
    BY <2>5 DEF IndInv, Grid
  <2>7. melBase + (8 * r + 1) - 1 = (Len(timeline) + j - 1) * Sub
    BY <1>0, <1>1, <1>8, <2>1 DEF Sub
  <2>8. WinStart - melBase + r * Sub + 1 = 8 * r + 1
    BY <1>0, <1>1, <2>1, <2>4
  <2>9. RowOrigin(r) = melBuf[8 * r + 1]
    BY <2>3, <2>4, <2>8 DEF RowOrigin
  <2> QED
    BY <2>6, <2>7, <2>9 DEF r
<1>10. EmittedRows = [j \in 1 .. ChunkValid |->
                         GridStart((Len(timeline) + j - 1) * Sub)]
  <2>1. Max2(ChunkValid, 0) = ChunkValid
    BY <1>7 DEF Max2
  <2> QED
    BY <1>9, <2>1 DEF EmittedRows
<1> QED
  BY <1>0, <1>3, <1>5, <1>7, <1>8, <1>10

---------------------------------------------------------------------------
(* Every step keeps the invariant.                                         *)

(* Audio is appended while the stream is open.                             *)
LEMMA AppendAudioKeeps ==
    ASSUME IndInv, ~finished, pc = "idle",
           NEW end \in Nat, audioEnd <= end, AppendAudio(end),
           finished' \in BOOLEAN, outcome' = "none",
           pc' = IF finished' THEN "finishing" ELSE "feeding"
    PROVE  IndInv'
<1> DEFINE new == NewMelFrames(audioBase, end, MelProduced)
<1>1. /\ audioBase \in Nat /\ audioEnd \in Nat /\ melBase \in Nat
      /\ melConsumed \in Nat /\ melBuf \in Seq(Int) /\ MelProduced \in Nat
      /\ geo \in Geometry
  BY DEF IndInv, TypeOK, MelProduced
<1>2. LcMelMax(geo) \in Nat
  BY <1>1, ValidGeometryLengths DEF IndInv, Control
<1>3. /\ melBase <= melConsumed /\ melConsumed <= MelProduced
      /\ MelProduced = FramesReady(audioEnd)
      /\ MelProduced <= FramesReady(end)
  BY <1>1, <1>2, FramesReadyMonotone DEF IndInv, Trimmed, Grid, Max2
<1>4. audioBase <= end
  BY <1>1, <1>3
     DEF IndInv, Trimmed, FramesReady, Max2, Hop, HalfFft
<1>5. AtStreamStart(MelProduced) => audioBase = 0
  BY <1>1, <1>3 DEF IndInv, Trimmed, AtStreamStart, Max2, Hop, HalfFft
<1>6. ~AtStreamStart(MelProduced) => audioBase <= MelProduced * Hop - HalfFft
  BY <1>1, <1>3 DEF IndInv, Trimmed, AtStreamStart, Max2, Hop, HalfFft
<1>7. /\ new \in Seq(Int)
      /\ Len(new) = FramesReady(end) - MelProduced
      /\ \A k \in 1 .. Len(new) : new[k] = GridStart(MelProduced + k - 1)
  BY <1>1, <1>3, <1>4, <1>5, <1>6, NewMelFramesExact
<1> HIDE DEF new
<1>8. melBuf' = melBuf \o new
  BY DEF AppendAudio, new
<1>9. /\ melBuf' \in Seq(Int)
      /\ Len(melBuf') = Len(melBuf) + Len(new)
      /\ MelProduced' = FramesReady(end)
  <2>1. /\ melBuf' \in Seq(Int)
        /\ Len(melBuf') = Len(melBuf) + Len(new)
    BY <1>1, <1>7, <1>8, ConcatProperties
  <2>2. melBase' = melBase
    BY DEF AppendAudio
  <2>3. FramesReady(end) \in Int
    BY FramesReadyMonotone
  <2> QED
    BY <1>1, <1>7, <2>1, <2>2, <2>3 DEF MelProduced
<1>10. \A k \in 1 .. Len(melBuf') : melBuf'[k] = GridStart(melBase + k - 1)
  <2> SUFFICES ASSUME NEW k \in 1 .. Len(melBuf')
               PROVE  melBuf'[k] = GridStart(melBase + k - 1)
    OBVIOUS
  <2>1. CASE k <= Len(melBuf)
    BY <1>1, <1>7, <1>8, <2>1 DEF IndInv, Grid
  <2>2. CASE k > Len(melBuf)
    <3>1. k - Len(melBuf) \in 1 .. Len(new)
      BY <1>1, <1>7, <1>9, <2>2
    <3>2. melBuf'[k] = new[k - Len(melBuf)]
      BY <1>1, <1>7, <1>8, <2>2, <3>1
    <3>3. MelProduced + (k - Len(melBuf)) - 1 = melBase + k - 1
      BY <1>1, <3>1 DEF MelProduced
    <3> QED
      BY <1>7, <3>1, <3>2, <3>3
  <2> QED  BY <1>1, <2>1, <2>2
<1>11. TypeOK'
  BY <1>9 DEF IndInv, TypeOK, AppendAudio, aoscVars
<1>12. Control' /\ Caps'
  BY DEF IndInv, Control, Caps, AppendAudio, aoscVars
<1>13. Trimmed'
  BY <1>1, <1>3, <1>9 DEF IndInv, Trimmed, AppendAudio
<1>14. Grid'
  BY <1>9, <1>10 DEF IndInv, Grid, AppendAudio
<1>15. LabelledOnce'
  BY DEF IndInv, LabelledOnce, AppendAudio
<1> QED
  BY <1>11, <1>12, <1>13, <1>14, <1>15 DEF IndInv

LEMMA FeedAudioKeeps ==
    ASSUME IndInv, NEW n \in FeedSizes, FeedAudio(n)
    PROVE  IndInv'
<1>1. audioEnd + n \in Nat /\ audioEnd <= audioEnd + n
  BY EngineConstants DEF IndInv, TypeOK
<1>2. /\ ~finished /\ pc = "idle" /\ AppendAudio(audioEnd + n)
      /\ finished' = finished /\ outcome' = "none" /\ pc' = "feeding"
  BY DEF FeedAudio
<1>3. finished' = FALSE
  <2>1. finished \in BOOLEAN
    BY DEF IndInv, TypeOK
  <2> QED  BY <1>2, <2>1
<1> QED
  BY <1>1, <1>2, <1>3, AppendAudioKeeps

LEMMA FinishKeeps ==
    ASSUME IndInv, Finish
    PROVE  IndInv'
<1>1. DecayEnd \in Nat /\ audioEnd <= DecayEnd
  BY DEF IndInv, TypeOK, DecayEnd, HalfFft
<1>2. /\ ~finished /\ pc = "idle" /\ AppendAudio(DecayEnd)
      /\ finished' \in BOOLEAN /\ outcome' = "none"
      /\ pc' = IF finished' THEN "finishing" ELSE "feeding"
  BY DEF Finish
<1> QED
  BY <1>1, <1>2, AppendAudioKeeps

(* Steps that leave all but pc and outcome alone.                          *)
LEMMA ReturnKeeps ==
    ASSUME IndInv, outcome' \in {"none", "returned", "threw"}, pc' = "idle",
           UNCHANGED <<geo, finished, audioVars, melVars, aoscVars, timeline,
                       ledger>>
    PROVE  IndInv'
<1>1. TypeOK' /\ Control' /\ Caps'
  BY DEF IndInv, TypeOK, Control, Caps, audioVars, melVars, aoscVars
<1>2. Trimmed' /\ Grid' /\ LabelledOnce'
  BY DEF IndInv, Trimmed, Grid, LabelledOnce, MelProduced,
         audioVars, melVars
<1> QED
  BY <1>1, <1>2 DEF IndInv

(* The trim takes from the front of the mel buffer what it adds to its     *)
(* base.                                                                   *)
LEMMA RunChunkKeepsMel ==
    ASSUME IndInv, RunChunk
    PROVE  MelProduced' = MelProduced
<1>1. /\ ChunkEnd \in Nat /\ ChunkEnd <= MelProduced
      /\ melConsumed < ChunkEnd
  BY WindowFacts DEF RunChunk
<1>2. /\ melBase \in Nat /\ melBuf \in Seq(Int) /\ Len(melBuf) \in Nat
      /\ LcMelMax(geo) \in Nat
  <2>1. geo \in Geometry /\ ValidGeometry(geo)
    BY DEF IndInv, TypeOK, Control
  <2>2. LcMelMax(geo) \in Nat
    BY <2>1, ValidGeometryLengths
  <2> QED
    BY <2>2 DEF IndInv, TypeOK
<1>3. KeepMel \in Nat /\ KeepMel <= MelProduced
  BY <1>1, <1>2 DEF KeepMel, Max2, MelProduced
<1>4. CASE KeepMel > melBase
  <2>1. /\ melBase' = KeepMel
        /\ melBuf' = SubSeq(melBuf, KeepMel - melBase + 1, Len(melBuf))
    BY <1>2, <1>3, <1>4 DEF RunChunk, TrimBuffers, Max2
  <2> DEFINE from == KeepMel - melBase + 1
             to == Len(melBuf)
  <2>2. from \in Int /\ from >= 1 /\ from <= to + 1 /\ to \in Nat
    BY <1>2, <1>3, <1>4 DEF MelProduced
  <2>3. \A i \in from .. to : melBuf[i] \in Int
    BY <1>2, <2>2
  <2>4. Len(SubSeq(melBuf, from, to)) =
            IF from <= to THEN to - from + 1 ELSE 0
    <3> HIDE DEF from, to
    <3> QED
      BY <2>2, <2>3, SubSeqProperties
  <2> QED
    BY <1>2, <1>3, <2>1, <2>2, <2>4 DEF MelProduced
<1>5. CASE ~(KeepMel > melBase)
  BY <1>2, <1>3, <1>5 DEF RunChunk, TrimBuffers, Max2, MelProduced
<1> QED
  BY <1>4, <1>5

LEMMA RunChunkKeeps ==
    ASSUME IndInv, RunChunk
    PROVE  IndInv'
<1>1. /\ melConsumed \in Nat /\ melBase \in Nat /\ melBuf \in Seq(Int)
      /\ timeline \in Seq(Int) /\ ledger \in Seq(Entry)
      /\ spkFrames \in Nat /\ fifoFrames \in Nat
      /\ geo \in Geometry /\ ValidGeometry(geo)
  BY DEF IndInv, TypeOK, Control
<1>2. /\ ChunkEnd \in Nat
      /\ melConsumed < ChunkEnd /\ ChunkEnd <= MelProduced
      /\ ChunkEnd % 8 = 0 \/ (Draining /\ ChunkEnd = MelProduced)
      /\ LcMel \in Nat /\ RcMel \in Nat /\ TMel \in Nat
  BY WindowFacts DEF RunChunk
<1>3. /\ T3 \in Nat
      /\ ChunkValid \in Nat
      /\ ChunkValid = SubsampledLen(ChunkEnd) - Len(timeline)
      /\ EmittedRows = [j \in 1 .. ChunkValid |->
                           GridStart((Len(timeline) + j - 1) * Sub)]
  BY EmissionFacts DEF RunChunk
<1>4. /\ geo' = geo /\ finished' = finished /\ pc' = pc
      /\ audioEnd' = audioEnd /\ outcome' = outcome
      /\ melConsumed' = ChunkEnd
      /\ timeline' = timeline \o EmittedRows
      /\ ledger' = Append(ledger, LedgerEntry)
  BY DEF RunChunk
<1>5. /\ KeepMel \in Nat /\ melBase <= KeepMel /\ KeepMel <= MelProduced
      /\ KeepMel = Max2(ChunkEnd - LcMelMax(geo), 0)
  <2>1. LcMelMax(geo) \in Nat
    BY <1>1, ValidGeometryLengths
  <2>2. melBase = Max2(melConsumed - LcMelMax(geo), 0)
    BY DEF IndInv, Trimmed
  <2> QED
    BY <1>1, <1>2, <2>1, <2>2, SMTT(20) DEF KeepMel, Max2, MelProduced
<1>6. melBase' = KeepMel
  BY <1>1, <1>5 DEF RunChunk, TrimBuffers, Max2
<1>7. melBuf' = SubSeq(melBuf, KeepMel - melBase + 1, Len(melBuf))
  <2>1. CASE KeepMel = melBase
    BY <1>1, <2>1, SubSeqFull DEF RunChunk, TrimBuffers
  <2>2. CASE KeepMel > melBase
    BY <2>2 DEF RunChunk, TrimBuffers
  <2> QED  BY <1>1, <1>5, <2>1, <2>2
<1>8. /\ melBuf' \in Seq(Int)
      /\ Len(melBuf') = Len(melBuf) - (KeepMel - melBase)
      /\ \A k \in 1 .. Len(melBuf') : melBuf'[k] = melBuf[KeepMel - melBase + k]
  <2> DEFINE m == KeepMel - melBase + 1
             n == Len(melBuf)
  <2>1. m \in Int /\ n \in Int /\ m >= 1 /\ m <= n + 1
    BY <1>1, <1>5 DEF MelProduced
  <2>2. \A i \in m .. n : melBuf[i] \in Int
    BY <1>1, <2>1
  <2>3. /\ SubSeq(melBuf, m, n) \in Seq(Int)
        /\ Len(SubSeq(melBuf, m, n)) = IF m <= n THEN n - m + 1 ELSE 0
        /\ \A i \in 1 .. n - m + 1 :
              SubSeq(melBuf, m, n)[i] = melBuf[m + i - 1]
    BY <2>1, <2>2, SubSeqProperties
  <2>4. melBuf' = SubSeq(melBuf, m, n)
    BY <1>7
  <2>5. n - m + 1 = Len(melBuf) - (KeepMel - melBase)
    BY <1>1, <1>5
  <2> HIDE DEF m, n
  <2>6. /\ melBuf' \in Seq(Int)
        /\ Len(melBuf') = n - m + 1
        /\ \A k \in 1 .. n - m + 1 : melBuf'[k] = melBuf[m + k - 1]
    BY <2>1, <2>3, <2>4
  <2>7. \A k \in 1 .. n - m + 1 : m + k - 1 = KeepMel - melBase + k
    BY <1>1, <1>5 DEF m
  <2> QED
    BY <2>5, <2>6, <2>7
<1>9. MelProduced' = MelProduced
  BY RunChunkKeepsMel
<1>10. audioBase' = Max2(KeepMel * Hop - HalfFft, 0) /\ audioBase' \in Nat
  <2>1. audioBase' = Max2(KeepSample, audioBase)
    BY DEF RunChunk, TrimBuffers
  <2>2. audioBase = Max2(melBase * Hop - HalfFft, 0)
    BY DEF IndInv, Trimmed
  <2>3. KeepMel \in Nat /\ melBase \in Nat /\ melBase <= KeepMel
    BY <1>1, <1>5
  <2>4. Max2(KeepSample, Max2(melBase * Hop - HalfFft, 0))
            = Max2(KeepMel * Hop - HalfFft, 0)
    BY <2>3 DEF KeepSample, Max2, Hop, HalfFft
  <2>5. Max2(KeepMel * Hop - HalfFft, 0) \in Nat
    BY <2>3 DEF Max2, Hop, HalfFft
  <2> QED
    BY <2>1, <2>2, <2>4, <2>5, Zenon
<1>11. spkFrames' \in Nat /\ fifoFrames' \in Nat /\ Caps'
  <2>1. CASE ChunkValid = 0
    BY <1>1, <1>4, <2>1 DEF IndInv, Caps, RunChunk, UpdateAosc, aoscVars
  <2>2. CASE ChunkValid > 0
    <3>1. /\ spkFrames' = SpkAfter(geo, ChunkValid, spkFrames, fifoFrames)
          /\ fifoFrames' = FifoAfter(geo, ChunkValid, fifoFrames)
      BY <1>3, <2>2 DEF RunChunk, UpdateAosc
    <3> QED
      BY <1>1, <1>3, <1>4, <3>1, BudgetKept DEF Caps
  <2> QED  BY <1>3, <2>1, <2>2
<1>12. timeline' \in Seq(Int) /\ LabelledOnce'
  <2>1. EmittedRows \in Seq(Int) /\ Len(EmittedRows) = ChunkValid
    <3>1. \A j \in 1 .. ChunkValid :
             GridStart((Len(timeline) + j - 1) * Sub) \in Int
      BY <1>1, <1>3 DEF GridStart, Sub, Hop, HalfFft
    <3> QED
      BY <1>3, <3>1
  <2>2. /\ timeline' \in Seq(Int)
        /\ Len(timeline') = Len(timeline) + ChunkValid
    BY <1>1, <1>3, <1>4, <2>1, ConcatProperties
  <2>3. Len(timeline') = SubsampledLen(ChunkEnd)
    <3>1. SubsampledLen(ChunkEnd) \in Nat
      BY <1>2, SubsampledLenIsCeil
    <3> QED  BY <1>1, <1>3, <2>2, <3>1
  <2>4. ASSUME NEW i \in 1 .. Len(timeline')
        PROVE  timeline'[i] = GridStart((i - 1) * Sub)
    <3>1. CASE i <= Len(timeline)
      <4>1. timeline'[i] = timeline[i] /\ i \in 1 .. Len(timeline)
        BY <1>1, <1>3, <1>4, <2>1, <2>2, <3>1, ConcatProperties
      <4> QED
        BY <4>1 DEF IndInv, LabelledOnce
    <3>2. CASE i > Len(timeline)
      <4>1. i - Len(timeline) \in 1 .. ChunkValid
        BY <1>1, <1>3, <2>2, <3>2
      <4>2. timeline'[i] = EmittedRows[i - Len(timeline)]
        BY <1>1, <1>3, <1>4, <2>1, <2>2, <3>2, ConcatProperties
      <4>3. Len(timeline) + (i - Len(timeline)) - 1 = i - 1
        BY <1>1, <4>1
      <4> QED
        BY <1>3, <4>1, <4>2, <4>3
    <3> QED  BY <1>1, <3>1, <3>2
  <2> QED
    BY <1>4, <2>2, <2>3, <2>4 DEF LabelledOnce
<1>13. ledger' \in Seq(Entry)
  <2>1. LcEnc(LcMel) \in Int /\ RcEnc(RcMel) \in Int
    BY <1>2 DEF LcEnc, RcEnc, Sub
  <2>2. Len(EmittedRows) \in Int
    BY <1>3
  <2>3. WindowFrames \in Int
    BY <1>1, <1>3 DEF WindowFrames
  <2>4. (IF IsTail THEN TMel ELSE 0) \in Int
    BY <1>2
  <2>5. LedgerEntry \in Entry
    BY <1>1, <1>2, <1>3, <2>1, <2>2, <2>3, <2>4 DEF LedgerEntry, Entry
  <2> QED
    BY <1>1, <1>4, <2>5
<1>14. TypeOK'
  BY <1>1, <1>2, <1>4, <1>5, <1>6, <1>8, <1>10, <1>11, <1>12, <1>13
     DEF IndInv, TypeOK
<1>15. Control'
  BY <1>4 DEF IndInv, Control
<1>16. Trimmed'
  BY <1>2, <1>4, <1>5, <1>6, <1>9, <1>10 DEF Trimmed, LcMelMax
<1>17. Grid'
  <2>1. \A k \in 1 .. Len(melBuf') : melBuf'[k] = GridStart(melBase' + k - 1)
    <3> SUFFICES ASSUME NEW k \in 1 .. Len(melBuf')
                 PROVE  melBuf'[k] = GridStart(melBase' + k - 1)
      OBVIOUS
    <3>0. Len(melBuf') = Len(melBuf) - (KeepMel - melBase)
      BY <1>8
    <3>1. KeepMel - melBase + k \in 1 .. Len(melBuf)
      BY <1>1, <1>5, <3>0, SMTT(20)
    <3>2. melBuf[KeepMel - melBase + k]
              = GridStart(melBase + (KeepMel - melBase + k) - 1)
      BY <3>1 DEF IndInv, Grid
    <3>3. melBase + (KeepMel - melBase + k) - 1 = KeepMel + k - 1
      BY <1>1, <1>5, <3>1
    <3> QED
      BY <1>6, <1>8, <3>2, <3>3
  <2>2. melConsumed' % Sub = 0 \/ (finished' /\ melConsumed' = MelProduced')
    BY <1>2, <1>4, <1>9 DEF IndInv, Control, Draining, Sub
  <2> QED
    BY <1>4, <1>9, <2>1, <2>2 DEF IndInv, Grid
<1> QED
  BY <1>11, <1>12, <1>14, <1>15, <1>16, <1>17 DEF IndInv

LEMMA NextKeeps == IndInv /\ [Next]_vars => IndInv'
<1> SUFFICES ASSUME IndInv, [Next]_vars PROVE IndInv'
  OBVIOUS
<1>1. ASSUME NEW n \in FeedSizes, FeedAudio(n) PROVE IndInv'
  BY <1>1, FeedAudioKeeps
<1>2. CASE Finish
  BY <1>2, FinishKeeps
<1>3. CASE CallAfterFinish
  BY <1>3, ReturnKeeps DEF CallAfterFinish
<1>4. CASE RunChunk
  BY <1>4, RunChunkKeeps
<1>5. CASE ChunkThrows
  BY <1>5, ReturnKeeps DEF ChunkThrows
<1>6. CASE CallReturns
  BY <1>6, ReturnKeeps DEF CallReturns
<1>7. CASE UNCHANGED vars
  <2>1. TypeOK' /\ Control' /\ Caps'
    BY <1>7 DEF IndInv, TypeOK, Control, Caps, vars, audioVars, melVars, aoscVars
  <2>2. Trimmed' /\ Grid' /\ LabelledOnce'
    BY <1>7 DEF IndInv, Trimmed, Grid, LabelledOnce, MelProduced, vars,
                audioVars, melVars
  <2> QED  BY <2>1, <2>2 DEF IndInv
<1> QED
  BY <1>1, <1>2, <1>3, <1>4, <1>5, <1>6, <1>7 DEF Next, EngineStep

(* Spec keeps the inductive invariant.                                     *)
THEOREM Invariance == Spec => []IndInv
<1>1. Init => IndInv
  BY InitIndInv
<1>2. IndInv /\ [Next]_vars => IndInv'
  BY NextKeeps
<1> QED
  BY <1>1, <1>2, PTL DEF Spec

---------------------------------------------------------------------------
(* What the invariant says of the safety properties.                       *)

(* The engine's variables stay in their domains, whatever the geometry,    *)
(* the pieces of audio and the exceptions (diar/engine.hpp, members).      *)
THEOREM TypeCorrect == Spec => []TypeOK
<1>1. IndInv => TypeOK
  BY DEF IndInv
<1> QED
  BY <1>1, Invariance, PTL

(* "so frames are labeled exactly once" (engine.cpp, run_one_chunk): the   *)
(* timeline is frame 0, 1, 2, ... up to the consumed mel frames, for every *)
(* valid geometry and every way of cutting the audio, tails included.      *)
THEOREM FramesLabelledOnce == Spec => []LabelledOnce
<1>1. IndInv => LabelledOnce
  BY DEF IndInv
<1> QED
  BY <1>1, Invariance, PTL

(* Every buffered mel frame is the one the global grid wants at its place  *)
(* and none reached past the audio received (fe.cpp,                       *)
(* produce_new_mel_frames).                                                *)
THEOREM MelStaysOnGrid == Spec => []MelOnGrid
<1>1. ASSUME IndInv PROVE MelOnGrid
  <2>1. /\ melBuf \in Seq(Int) /\ melBase \in Nat /\ audioEnd \in Nat
        /\ MelProduced = FramesReady(audioEnd)
    BY <1>1 DEF IndInv, TypeOK, Grid
  <2>2. ASSUME melBuf # << >>
        PROVE  melBuf[Len(melBuf)] + 2 * HalfFft <= audioEnd
    <3>1. Len(melBuf) \in Nat /\ Len(melBuf) > 0
      BY <2>1, <2>2, EmptySeq
    <3>2. melBuf[Len(melBuf)] = GridStart(MelProduced - 1)
      BY <1>1, <2>1, <3>1 DEF IndInv, Grid, MelProduced
    <3>3. MelProduced \in Nat /\ MelProduced > 0
      BY <2>1, <3>1 DEF MelProduced
    <3> QED
      BY <2>1, <3>2, <3>3 DEF FramesReady, GridStart, HalfFft, Hop
  <2> QED
    BY <1>1, <2>2 DEF IndInv, Grid, MelOnGrid
<1> QED
  BY <1>1, Invariance, PTL

(* The trims never cut what the next window or the next mel frame reads    *)
(* (engine.cpp, end of run_one_chunk).                                     *)
THEOREM TrimsKeepContext == Spec => []TrimKeepsContext
<1>1. ASSUME IndInv PROVE TrimKeepsContext
  <2>0. geo \in Geometry /\ ValidGeometry(geo)
    BY <1>1 DEF IndInv, TypeOK, Control
  <2>1. /\ melConsumed \in Nat /\ melBase \in Nat /\ MelProduced \in Nat
        /\ audioEnd \in Nat /\ audioBase \in Nat
        /\ LcMelMax(geo) \in Nat
    <3>1. LcMelMax(geo) \in Nat
      BY <2>0, ValidGeometryLengths
    <3> QED
      BY <1>1, <3>1 DEF IndInv, TypeOK, MelProduced
  <2>2. /\ melConsumed <= MelProduced
        /\ melBase = Max2(melConsumed - LcMelMax(geo), 0)
        /\ audioBase = Max2(melBase * Hop - HalfFft, 0)
        /\ MelProduced = FramesReady(audioEnd)
    BY <1>1 DEF IndInv, Trimmed, Grid
  <2>3. WinStart >= melBase
    BY <2>1, <2>2 DEF WinStart, LcMel, Min2, Max2
  <2>4. melBase <= MelProduced
    BY <2>1, <2>2 DEF Max2
  <2>5. /\ AtStreamStart(MelProduced) => audioBase = 0
        /\ FirstOffset(audioBase, MelProduced) >= 0
    BY <2>1, <2>2, <2>4 DEF AtStreamStart, FirstOffset, Max2, Hop, HalfFft
  <2>6. audioBase > 0 => audioEnd > audioBase
    BY <2>1, <2>2, <2>4 DEF FramesReady, Max2, Hop, HalfFft
  <2> QED
    BY <2>3, <2>5, <2>6 DEF TrimKeepsContext
<1> QED
  BY <1>1, Invariance, PTL

(* A window that is not the padded tail always fits the geometry's budget: *)
(* cache and FIFO never exceed their capacities, so the check of           *)
(* sortformer.cpp never refuses a full window of an engine that            *)
(* validate_stream_geometry let exist.                                     *)
THEOREM BudgetNeverExceeded == Spec => []WithinBudget
<1>1. ASSUME IndInv PROVE WithinBudget
  <2>1. ASSUME pc # "idle", ChunkReady, ~IsTail PROVE ~WindowThrows
    <3>1. /\ geo.spkcache_len \in Nat /\ geo.fifo_len \in Nat
          /\ geo.chunk_len \in Nat
          /\ geo.chunk_left_context \in Nat
          /\ geo.chunk_right_context \in Nat
          /\ HopMel(geo) = 8 * geo.chunk_len
          /\ LcMelMax(geo) = 8 * geo.chunk_left_context
          /\ RcMelMax(geo) = 8 * geo.chunk_right_context
          /\ WindowBudget(geo) <= PosEmbMaxLen
      BY <1>1, ValidGeometryLengths DEF IndInv, TypeOK, Control, ValidGeometry
    <3>2. /\ ChunkEnd <= melConsumed + HopMel(geo)
          /\ LcMel \in Nat /\ LcMel <= LcMelMax(geo)
          /\ RcMel \in Nat /\ RcMel <= RcMelMax(geo)
          /\ WinStart = melBase /\ LcMel = melConsumed - melBase
          /\ TMel \in Nat /\ TMel = ChunkEnd + RcMel - melBase
          /\ ChunkEnd \in Nat
      BY <1>1, <2>1, WindowFacts
    <3>3. T3 = (TMel + 7) \div 8
      BY <2>1, <3>2, SubsampledLenIsCeil DEF T3
    <3>4. melConsumed \in Nat /\ melBase \in Nat
      BY <1>1 DEF IndInv, TypeOK
    <3>5. TMel <= 8 * (geo.chunk_left_context + geo.chunk_len
                          + geo.chunk_right_context)
      BY <3>1, <3>2, <3>4
    <3>6. T3 \in Nat /\ T3 <= geo.chunk_left_context + geo.chunk_len
                                + geo.chunk_right_context
      BY <3>1, <3>2, <3>3, <3>5
    <3>7. /\ spkFrames \in Nat /\ spkFrames <= geo.spkcache_len
          /\ fifoFrames \in Nat /\ fifoFrames <= geo.fifo_len
      BY <1>1 DEF IndInv, TypeOK, Caps
    <3>8. WindowFrames <= PosEmbMaxLen
      BY <3>1, <3>6, <3>7, ModelConstants DEF WindowFrames, WindowBudget
    <3>9. WindowFrames \in Int
      BY <3>6, <3>7 DEF WindowFrames
    <3> QED
      BY <3>2, <3>4, <3>8, <3>9, ModelConstants DEF WindowThrows
  <2> QED
    BY <1>1, <2>1 DEF IndInv, Caps, WithinBudget
<1> QED
  BY <1>1, Invariance, PTL

---------------------------------------------------------------------------
(* What the chunk loop leaves between calls, and how far whole chunks have *)
(* come.  A call that returned left no window that is ready; and until the *)
(* stream ends, chunks are whole and have their right context.  IndInv     *)
(* says neither: it bounds what is consumed from above only.               *)

Settled ==
    pc = "idle" /\ ~finished /\ outcome = "returned" =>
        MelProduced < melConsumed + HopMel(geo) + RcMelMax(geo)

WholeChunks ==
    /\ melConsumed = Len(ledger) * HopMel(geo)
          \/ (finished /\ melConsumed = MelProduced)
    /\ ~finished /\ ledger # << >> =>
          melConsumed + RcMelMax(geo) <= MelProduced

ChunkInv == Settled /\ WholeChunks /\ ShardingInvariance

LEMMA InitChunkInv == Init => ChunkInv
<1> SUFFICES ASSUME Init PROVE ChunkInv
  OBVIOUS
<1>1. geo \in Geometry /\ ValidGeometry(geo)
  BY EngineConstants DEF Init
<1>2. HopMel(geo) \in Nat /\ Len(ledger) = 0
  BY <1>1, ValidGeometryLengths DEF Init
<1> QED
  BY <1>2 DEF Init, ChunkInv, Settled, WholeChunks, ShardingInvariance

LEMMA ProductMonotone ==
    ASSUME NEW h \in Nat, NEW i \in Nat, NEW n \in Nat, i <= n
    PROVE  i * h \in Nat /\ i * h <= n * h
OBVIOUS

(* What the ledger records of a chunk, less the AOSC state it saw.         *)
EntryIs(e, w) ==
    /\ e.t_mel = w.t_mel
    /\ e.lc_enc = w.lc_enc
    /\ e.rc_enc = w.rc_enc
    /\ e.emitted = w.emitted
    /\ e.tail_feat_len = w.tail_feat_len

(* The window of a ready chunk is the canonical window of the next index.  *)
LEMMA NextWindowIsCanonical ==
    ASSUME IndInv, WholeChunks, pc # "idle", ChunkReady
    PROVE  /\ melConsumed = Len(ledger) * HopMel(geo)
           /\ EntryIs(LedgerEntry, CanonicalWindow(Len(ledger) + 1))
<1> DEFINE n == Len(ledger)
           stt == (n + 1 - 1) * HopMel(geo)
           lc == Min2(LcMelMax(geo), stt)
           total == IF finished THEN MelProduced
                    ELSE stt + HopMel(geo) + RcMelMax(geo)
           end == Min2(stt + HopMel(geo), total)
           rc == Min2(RcMelMax(geo), total - end)
           tmel == end + rc - stt + lc
           tail == finished /\ end = total /\ tmel % PadMultiple # 0
<1>0. CanonicalWindow(n + 1) =
         [t_mel |-> tmel, lc_enc |-> lc \div Sub,
          rc_enc |-> SubsampledLen(rc),
          emitted |-> SubsampledLen(end - stt),
          tail_feat_len |-> IF tail THEN tmel ELSE 0]
  BY DEF CanonicalWindow
<1>1. /\ ChunkEnd \in Nat /\ melConsumed < ChunkEnd /\ ChunkEnd <= MelProduced
      /\ melConsumed % 8 = 0
      /\ LcMel \in Nat /\ LcMel % 8 = 0 /\ RcMel \in Nat
      /\ TMel \in Nat
  BY WindowFacts
<1>2. /\ n \in Nat /\ melConsumed \in Nat /\ MelProduced \in Nat
      /\ HopMel(geo) \in Nat /\ HopMel(geo) > 0
      /\ LcMelMax(geo) \in Nat /\ RcMelMax(geo) \in Nat
      /\ finished \in BOOLEAN /\ (Draining <=> finished)
  <2>1. /\ HopMel(geo) \in Nat /\ HopMel(geo) > 0
        /\ LcMelMax(geo) \in Nat /\ RcMelMax(geo) \in Nat
    <3>1. geo \in Geometry /\ ValidGeometry(geo)
      BY DEF IndInv, TypeOK, Control
    <3> HIDE DEF n, stt, lc, total, end, rc, tmel
    <3> QED
      BY <3>1, ValidGeometryLengths
  <2>2. Draining <=> finished
    BY DEF IndInv, TypeOK, Control, Draining
  <2> QED
    BY <2>1, <2>2 DEF IndInv, TypeOK, MelProduced
<1>3. melConsumed = n * HopMel(geo)
  BY <1>1, <1>2 DEF WholeChunks
<1>4. stt = melConsumed
  BY <1>2, <1>3
<1> HIDE DEF stt, n
<1>5. end = ChunkEnd
  BY <1>1, <1>2, <1>4 DEF ChunkEnd, Min2
<1>6. rc = RcMel
  <2>1. CASE finished
    BY <1>5, <2>1 DEF RcMel
  <2>2. CASE ~finished
    <3>1. ChunkEnd = melConsumed + HopMel(geo)
          /\ ChunkEnd + RcMelMax(geo) <= MelProduced
      BY <1>2, <2>2 DEF ChunkEnd, ChunkReady
    <3> QED
      BY <1>2, <1>4, <1>5, <2>2, <3>1 DEF RcMel, Min2
  <2> QED  BY <1>2, <2>1, <2>2
<1>7. lc = LcMel
  BY <1>4 DEF LcMel
<1>8. tmel = TMel
  BY <1>1, <1>2, <1>4, <1>5, <1>6, <1>7 DEF TMel, WinStart
<1>9. IsTail <=> tail
  <2>1. finished => total = MelProduced
    OBVIOUS
  <2> HIDE DEF end, total, tmel
  <2> QED
    BY <1>1, <1>2, <1>5, <1>8, <2>1 DEF IsTail
<1>10. LcEnc(LcMel) = LcMel \div Sub
       /\ RcEnc(RcMel) = SubsampledLen(RcMel)
  BY <1>1, ContextFrames, SubsampledLenIsCeil DEF Sub
<1>11. Len(EmittedRows) = SubsampledLen(ChunkEnd - melConsumed)
  <2>1. /\ ChunkValid \in Nat
        /\ ChunkValid = SubsampledLen(ChunkEnd) - Len(timeline)
        /\ EmittedRows = [j \in 1 .. ChunkValid |->
                             GridStart((Len(timeline) + j - 1) * Sub)]
    BY EmissionFacts
  <2>2. Len(timeline) = (melConsumed + 7) \div 8
    BY <1>2, SubsampledLenIsCeil DEF IndInv, LabelledOnce
  <2>3. Len(EmittedRows) = ChunkValid
    BY <2>1
  <2>4. /\ SubsampledLen(ChunkEnd) = (ChunkEnd + 7) \div 8
        /\ SubsampledLen(ChunkEnd - melConsumed)
               = (ChunkEnd - melConsumed + 7) \div 8
    BY <1>1, <1>2, SubsampledLenIsCeil
  <2>5. (ChunkEnd + 7) \div 8 - (melConsumed + 7) \div 8
            = (ChunkEnd - melConsumed + 7) \div 8
    BY <1>1, <1>2
  <2> QED
    BY <2>1, <2>2, <2>3, <2>4, <2>5
<1> HIDE DEF lc, total, end, rc, tmel, tail
<1>12. EntryIs(LedgerEntry, CanonicalWindow(n + 1))
  BY <1>0, <1>4, <1>5, <1>6, <1>7, <1>8, <1>9, <1>10, <1>11
     DEF LedgerEntry, EntryIs
<1> QED
  BY <1>3, <1>12 DEF n

(* A canonical window depends on the length of the stream only once the    *)
(* stream has ended.                                                       *)
LEMMA CanonicalWindowStable ==
    ASSUME geo' = geo, finished' = finished,
           finished => MelProduced' = MelProduced,
           NEW i \in Nat
    PROVE  CanonicalWindow(i)' = CanonicalWindow(i)
<1>1. CASE finished
  <2>1. MelProduced' = MelProduced
    BY <1>1
  <2> QED
    BY <2>1 DEF CanonicalWindow
<1>2. CASE ~finished
  BY <1>2 DEF CanonicalWindow
<1> QED
  BY <1>1, <1>2

(* A step that adds no chunk and does not end the stream.                  *)
LEMMA SameLedgerKeeps ==
    ASSUME IndInv, ChunkInv, IndInv',
           geo' = geo, finished' = finished, ledger' = ledger,
           melConsumed' = melConsumed,
           MelProduced <= MelProduced',
           finished => MelProduced' = MelProduced
    PROVE  WholeChunks' /\ ShardingInvariance'
<1>1. /\ melConsumed \in Nat /\ MelProduced \in Nat /\ MelProduced' \in Nat
      /\ RcMelMax(geo) \in Nat /\ finished \in BOOLEAN
  <2>1. geo \in Geometry /\ ValidGeometry(geo)
    BY DEF IndInv, TypeOK, Control
  <2>2. RcMelMax(geo) \in Nat
    BY <2>1, ValidGeometryLengths
  <2> QED
    BY <2>2 DEF IndInv, TypeOK, MelProduced
<1>2. WholeChunks'
  BY <1>1 DEF ChunkInv, WholeChunks
<1>3. ASSUME NEW i \in 1 .. Len(ledger')
      PROVE  EntryIs(ledger'[i], CanonicalWindow(i)')
  <2>1. EntryIs(ledger[i], CanonicalWindow(i))
    BY <1>3 DEF ChunkInv, ShardingInvariance, EntryIs
  <2>2. CanonicalWindow(i)' = CanonicalWindow(i)
    BY CanonicalWindowStable
  <2> QED
    BY <2>1, <2>2
<1>4. ShardingInvariance'
  BY <1>3 DEF ShardingInvariance, EntryIs
<1> QED
  BY <1>2, <1>4

LEMMA FeedAudioKeepsChunks ==
    ASSUME IndInv, ChunkInv, IndInv', NEW n \in FeedSizes, FeedAudio(n)
    PROVE  ChunkInv'
<1>1. /\ geo' = geo /\ finished' = finished /\ ledger' = ledger
      /\ melConsumed' = melConsumed /\ audioEnd' = audioEnd + n
      /\ ~finished /\ outcome' = "none"
  BY DEF FeedAudio, AppendAudio
<1>2. MelProduced <= MelProduced'
  <2>1. audioEnd \in Nat /\ n \in Nat
    BY EngineConstants DEF IndInv, TypeOK
  <2>2. FramesReady(audioEnd) <= FramesReady(audioEnd + n)
    BY <2>1, FramesReadyMonotone
  <2> QED
    BY <1>1, <2>2 DEF IndInv, Grid
<1>3. Settled'
  BY <1>1 DEF Settled
<1> QED
  BY <1>1, <1>2, <1>3, SameLedgerKeeps DEF ChunkInv

(* The decay tail completes at least one more mel frame, so no chunk run   *)
(* while audio arrived turns out to be the tail; it keeps the right        *)
(* context it was run with.                                                *)
LEMMA FinishKeepsChunks ==
    ASSUME IndInv, ChunkInv, IndInv', Finish
    PROVE  ChunkInv'
<1> DEFINE h == HopMel(geo)
           rcMax == RcMelMax(geo)
           lcMax == LcMelMax(geo)
<1>1. /\ geo' = geo /\ finished' = TRUE /\ ~finished /\ ledger' = ledger
      /\ melConsumed' = melConsumed /\ audioEnd' = DecayEnd
      /\ outcome' = "none"
  BY DEF Finish, AppendAudio
<1>2. /\ melConsumed \in Nat /\ MelProduced \in Nat /\ MelProduced' \in Nat
      /\ h \in Nat /\ h > 0 /\ rcMax \in Nat /\ lcMax \in Nat
      /\ ledger \in Seq(Entry) /\ audioEnd \in Nat /\ audioBase \in Nat
  <2>1. geo \in Geometry /\ ValidGeometry(geo)
    BY DEF IndInv, TypeOK, Control
  <2>2. h \in Nat /\ h > 0 /\ rcMax \in Nat /\ lcMax \in Nat
    BY <2>1, ValidGeometryLengths
  <2>3. /\ melConsumed \in Nat /\ MelProduced \in Nat /\ MelProduced' \in Nat
        /\ ledger \in Seq(Entry) /\ audioEnd \in Nat /\ audioBase \in Nat
    BY DEF IndInv, TypeOK, MelProduced
  <2> QED
    BY <2>2, <2>3
<1>3. ledger # << >> => MelProduced < MelProduced'
  <2> SUFFICES ASSUME ledger # << >> PROVE MelProduced < MelProduced'
    OBVIOUS
  <2>1. Len(ledger) \in Nat /\ Len(ledger) > 0
    BY <1>2, EmptySeq
  <2>2. Len(ledger) * h > 0
    BY <1>2, <2>1
  <2>3. melConsumed = Len(ledger) * h /\ melConsumed <= MelProduced
    BY <1>1 DEF ChunkInv, WholeChunks, IndInv, Trimmed
  <2>4. MelProduced > 0
    BY <1>2, <2>2, <2>3
  <2>5. MelProduced = FramesReady(audioEnd)
        /\ MelProduced' = FramesReady(DecayEnd)
    BY <1>1 DEF IndInv, Grid
  <2>6. audioEnd >= HalfFft
    BY <1>2, <2>4, <2>5 DEF FramesReady, HalfFft
  <2>7. DecayEnd = audioEnd + HalfFft
    BY <1>2, <2>6 DEF DecayEnd, HalfFft
  <2> QED
    BY <1>2, <2>5, <2>6, <2>7 DEF FramesReady, HalfFft, Hop
<1>4. WholeChunks'
  BY <1>1 DEF ChunkInv, WholeChunks
<1>5. ASSUME NEW i \in 1 .. Len(ledger)
      PROVE  CanonicalWindow(i)' = CanonicalWindow(i)
  <2> DEFINE stt == (i - 1) * h
             end == stt + h
             tmel == end + rcMax - stt + Min2(lcMax, stt)
  <2>1. /\ i \in Nat /\ i - 1 \in Nat /\ Len(ledger) \in Nat
        /\ i <= Len(ledger) /\ ledger # << >>
    BY <1>2
  <2>2. stt \in Nat /\ end = i * h
    BY <1>2, <2>1
  <2>3. i * h <= Len(ledger) * h
    BY <1>2, <2>1, ProductMonotone
  <2>4. /\ melConsumed = Len(ledger) * h
        /\ melConsumed + rcMax <= MelProduced
    BY <1>1, <2>1 DEF ChunkInv, WholeChunks
  <2>5. /\ end + rcMax < MelProduced' /\ end < MelProduced'
        /\ end \in Nat
    BY <1>2, <1>3, <2>1, <2>2, <2>3, <2>4, SMTT(20)
  <2>6. ASSUME NEW total \in Int, end + rcMax <= total
        PROVE  /\ Min2(stt + h, total) = end
               /\ Min2(rcMax, total - end) = rcMax
    <3> HIDE DEF stt, h, rcMax
    <3> QED
      BY <1>2, <2>2, <2>6 DEF Min2
  <2> DEFINE w(total, tail) ==
                 LET e == Min2(stt + h, total)
                     rc == Min2(rcMax, total - e)
                     t == e + rc - stt + Min2(lcMax, stt)
                 IN  [t_mel |-> t, lc_enc |-> Min2(lcMax, stt) \div Sub,
                      rc_enc |-> SubsampledLen(rc),
                      emitted |-> SubsampledLen(e - stt),
                      tail_feat_len |-> IF tail THEN t ELSE 0]
  <2>7. ASSUME NEW total \in Int, end + rcMax <= total
        PROVE  w(total, FALSE) =
                  [t_mel |-> tmel, lc_enc |-> Min2(lcMax, stt) \div Sub,
                   rc_enc |-> SubsampledLen(rcMax),
                   emitted |-> SubsampledLen(end - stt),
                   tail_feat_len |-> 0]
    BY <2>6, <2>7, Zenon
  <2>8. CanonicalWindow(i) = w(stt + h + rcMax, FALSE)
    BY <1>1 DEF CanonicalWindow
  <2>9. CanonicalWindow(i)' = w(MelProduced', FALSE)
    <3>1. end # MelProduced'
      BY <1>2, <2>5
    <3>2. Min2(stt + h, MelProduced') = end
      BY <1>2, <2>5, <2>6
    <3> QED
      BY <1>1, <3>1, <3>2 DEF CanonicalWindow
  <2>10. /\ stt + h + rcMax \in Int /\ end + rcMax <= stt + h + rcMax
         /\ MelProduced' \in Int /\ end + rcMax <= MelProduced'
    BY <1>2, <2>2, <2>5
  <2> QED
    BY <2>7, <2>8, <2>9, <2>10
<1>6. ShardingInvariance'
  <2>1. ASSUME NEW i \in 1 .. Len(ledger')
        PROVE  EntryIs(ledger'[i], CanonicalWindow(i)')
    <3>1. EntryIs(ledger[i], CanonicalWindow(i))
      BY <1>1 DEF ChunkInv, ShardingInvariance, EntryIs
    <3> QED
      BY <1>1, <1>5, <3>1
  <2> QED
    BY <2>1 DEF ShardingInvariance, EntryIs
<1>7. Settled'
  BY <1>1 DEF Settled
<1> QED
  BY <1>4, <1>6, <1>7 DEF ChunkInv

LEMMA RunChunkKeepsChunks ==
    ASSUME IndInv, ChunkInv, IndInv', RunChunk, MelProduced' = MelProduced
    PROVE  ChunkInv'
<1>1. /\ geo' = geo /\ finished' = finished /\ pc' = pc /\ pc # "idle"
      /\ ChunkReady
      /\ melConsumed' = ChunkEnd
      /\ ledger' = Append(ledger, LedgerEntry)
  BY DEF RunChunk
<1>2. /\ ledger \in Seq(Entry) /\ LedgerEntry \in Entry
      /\ melConsumed \in Nat /\ MelProduced \in Nat
      /\ HopMel(geo) \in Nat /\ RcMelMax(geo) \in Nat
      /\ finished \in BOOLEAN /\ (Draining <=> finished)
  <2>1. geo \in Geometry /\ ValidGeometry(geo)
    BY DEF IndInv, TypeOK, Control
  <2>2. HopMel(geo) \in Nat /\ RcMelMax(geo) \in Nat
    BY <2>1, ValidGeometryLengths
  <2>3. Draining <=> finished
    BY <1>1 DEF IndInv, TypeOK, Control, Draining
  <2>4. ledger' \in Seq(Entry) /\ ledger \in Seq(Entry)
    BY DEF IndInv, TypeOK
  <2>5. LedgerEntry \in Entry
    <3>1. /\ Len(ledger) + 1 \in 1 .. Len(ledger')
          /\ ledger'[Len(ledger) + 1] = LedgerEntry
      BY <1>1, <2>4, AppendProperties
    <3> QED
      BY <2>4, <3>1, ElementOfSeq
  <2> QED
    BY <2>2, <2>3, <2>4, <2>5 DEF IndInv, TypeOK, MelProduced
<1>3. /\ Len(ledger') = Len(ledger) + 1 /\ Len(ledger) \in Nat
      /\ \A i \in 1 .. Len(ledger) : ledger'[i] = ledger[i]
      /\ ledger'[Len(ledger) + 1] = LedgerEntry
  BY <1>1, <1>2, AppendProperties
<1>4. /\ melConsumed = Len(ledger) * HopMel(geo)
      /\ EntryIs(LedgerEntry, CanonicalWindow(Len(ledger) + 1))
  BY <1>1, NextWindowIsCanonical DEF ChunkInv
<1>5. WholeChunks'
  <2>1. (Len(ledger) + 1) * HopMel(geo) = melConsumed + HopMel(geo)
    BY <1>2, <1>3, <1>4
  <2>2. \/ ChunkEnd = melConsumed + HopMel(geo)
        \/ finished /\ ChunkEnd = MelProduced
    BY <1>2 DEF ChunkEnd, Min2
  <2>3. ~finished => ChunkEnd + RcMelMax(geo) <= MelProduced
    BY <1>1, <1>2 DEF ChunkReady
  <2> QED
    BY <1>1, <1>3, <2>1, <2>2, <2>3 DEF WholeChunks
<1>6. ASSUME NEW i \in 1 .. Len(ledger')
      PROVE  EntryIs(ledger'[i], CanonicalWindow(i)')
  <2>1. CanonicalWindow(i)' = CanonicalWindow(i)
    BY <1>1, CanonicalWindowStable
  <2>2. CASE i <= Len(ledger)
    <3>1. i \in 1 .. Len(ledger)
      BY <1>3, <2>2
    <3>2. EntryIs(ledger[i], CanonicalWindow(i))
      BY <3>1 DEF ChunkInv, ShardingInvariance, EntryIs
    <3> QED
      BY <1>3, <2>1, <3>1, <3>2
  <2>3. CASE i > Len(ledger)
    <3>1. i = Len(ledger) + 1
      BY <1>3, <2>3
    <3> QED
      BY <1>3, <1>4, <2>1, <3>1
  <2> QED
    BY <1>3, <2>2, <2>3
<1>7. ShardingInvariance'
  BY <1>6 DEF ShardingInvariance, EntryIs
<1>8. Settled'
  BY <1>1 DEF Settled
<1> QED
  BY <1>5, <1>7, <1>8 DEF ChunkInv

(* The chunk loop of feed_audio stops only when the next window is short   *)
(* of audio.                                                               *)
LEMMA CallReturnsSettles ==
    ASSUME IndInv, CallReturns, MelProduced' = MelProduced
    PROVE  Settled'
<1>1. /\ geo' = geo /\ finished' = finished /\ melConsumed' = melConsumed
      /\ pc # "idle" /\ ~ChunkReady
  BY DEF CallReturns, melVars
<1>2. ASSUME ~finished
      PROVE  MelProduced < melConsumed + HopMel(geo) + RcMelMax(geo)
  <2>1. /\ geo \in Geometry /\ ValidGeometry(geo)
        /\ melConsumed \in Nat /\ MelProduced \in Nat /\ ~Draining
    BY <1>1, <1>2 DEF IndInv, TypeOK, Control, MelProduced, Draining
  <2>2. /\ HopMel(geo) \in Nat /\ HopMel(geo) > 0
        /\ LcMelMax(geo) \in Nat /\ RcMelMax(geo) \in Nat
    BY <2>1, ValidGeometryLengths
  <2>3. LcMel \in Nat /\ ChunkEnd = melConsumed + HopMel(geo)
    BY <2>1, <2>2 DEF LcMel, Min2, ChunkEnd
  <2>4. ASSUME ChunkEnd + RcMelMax(geo) <= MelProduced PROVE FALSE
    <3>1. RcMel = RcMelMax(geo)
      BY <2>1, <2>2, <2>3, <2>4 DEF RcMel, Min2
    <3>2. TMel > 0
      BY <2>1, <2>2, <2>3, <3>1 DEF TMel, WinStart
    <3> QED
      BY <1>1, <2>1, <2>4, <3>2 DEF ChunkReady
  <2> QED
    BY <2>1, <2>2, <2>3, <2>4
<1> QED
  BY <1>1, <1>2 DEF Settled

LEMMA NextKeepsChunks == IndInv /\ ChunkInv /\ [Next]_vars => ChunkInv'
<1> SUFFICES ASSUME IndInv, ChunkInv, [Next]_vars PROVE ChunkInv'
  OBVIOUS
<1>0. IndInv'
  BY NextKeeps
<1>1. ASSUME NEW n \in FeedSizes, FeedAudio(n) PROVE ChunkInv'
  BY <1>0, <1>1, FeedAudioKeepsChunks
<1>2. CASE Finish
  BY <1>0, <1>2, FinishKeepsChunks
<1>3. ASSUME geo' = geo, finished' = finished, ledger' = ledger,
             melConsumed' = melConsumed, melBase' = melBase,
             melBuf' = melBuf
      PROVE  /\ MelProduced' = MelProduced
             /\ WholeChunks' /\ ShardingInvariance'
  <2>1. MelProduced' = MelProduced
    BY <1>3 DEF MelProduced
  <2>2. MelProduced <= MelProduced'
    BY <2>1 DEF IndInv, TypeOK, MelProduced
  <2> QED
    BY <1>0, <1>3, <2>1, <2>2, SameLedgerKeeps
<1>4. CASE CallAfterFinish
  <2>1. WholeChunks' /\ ShardingInvariance'
    BY <1>3, <1>4 DEF CallAfterFinish, melVars
  <2>2. Settled'
    BY <1>4 DEF CallAfterFinish, Settled
  <2> QED
    BY <2>1, <2>2 DEF ChunkInv
<1>5. CASE RunChunk
  <2>1. MelProduced' = MelProduced
    BY <1>5, RunChunkKeepsMel
  <2> QED
    BY <1>0, <1>5, <2>1, RunChunkKeepsChunks
<1>6. CASE ChunkThrows
  <2>1. WholeChunks' /\ ShardingInvariance'
    BY <1>3, <1>6 DEF ChunkThrows, melVars
  <2>2. Settled'
    BY <1>6 DEF ChunkThrows, Settled
  <2> QED
    BY <2>1, <2>2 DEF ChunkInv
<1>7. CASE CallReturns
  <2>1. MelProduced' = MelProduced /\ WholeChunks' /\ ShardingInvariance'
    BY <1>3, <1>7 DEF CallReturns, melVars
  <2> QED
    BY <1>7, <2>1, CallReturnsSettles DEF ChunkInv
<1>8. CASE UNCHANGED vars
  <2>1. MelProduced' = MelProduced /\ WholeChunks' /\ ShardingInvariance'
    BY <1>3, <1>8 DEF vars, melVars
  <2>2. Settled'
    BY <1>8, <2>1 DEF ChunkInv, Settled, vars, melVars
  <2> QED
    BY <2>1, <2>2 DEF ChunkInv
<1> QED
  BY <1>1, <1>2, <1>4, <1>5, <1>6, <1>7, <1>8 DEF Next, EngineStep

LEMMA ChunkInvariance == Spec => [](IndInv /\ ChunkInv)
<1>1. Init => IndInv /\ ChunkInv
  BY InitIndInv, InitChunkInv
<1>2. (IndInv /\ ChunkInv) /\ [Next]_vars => (IndInv /\ ChunkInv)'
  BY NextKeeps, NextKeepsChunks
<1> QED
  BY <1>1, <1>2, PTL DEF Spec

(* However the audio was cut and whichever calls threw, the window of the  *)
(* i-th chunk is a function of i, the geometry and, once the stream has    *)
(* ended, its length: run_one_chunk leaves no trace of the calls in the    *)
(* ledger (test_engine.cpp, test_ledger_and_sharding_invariance).          *)
THEOREM ShardsLeaveNoTrace == Spec => []ShardingInvariance
<1>1. IndInv /\ ChunkInv => ShardingInvariance
  BY DEF ChunkInv
<1> QED
  BY <1>1, ChunkInvariance, PTL

(* Between calls of an open stream the mel buffer and the audio buffer are *)
(* shorter than one window, however long the stream is (the trims at the   *)
(* end of run_one_chunk).                                                  *)
THEOREM BuffersStayBounded == Spec => []BoundedBuffers
<1>1. ASSUME IndInv, ChunkInv PROVE BoundedBuffers
  <2> DEFINE window == LcMelMax(geo) + HopMel(geo) + RcMelMax(geo)
  <2> SUFFICES ASSUME Idle, ~finished, outcome = "returned"
               PROVE  /\ Len(melBuf) < window
                      /\ audioEnd - audioBase < window * Hop + 2 * HalfFft
    BY DEF BoundedBuffers
  <2>1. geo \in Geometry /\ ValidGeometry(geo)
    BY <1>1 DEF IndInv, TypeOK, Control
  <2>2. /\ HopMel(geo) \in Nat /\ LcMelMax(geo) \in Nat
        /\ RcMelMax(geo) \in Nat
    BY <2>1, ValidGeometryLengths
  <2>3. /\ melConsumed \in Nat /\ melBase \in Nat /\ audioEnd \in Nat
        /\ Len(melBuf) \in Nat
        /\ melBase = Max2(melConsumed - LcMelMax(geo), 0)
        /\ audioBase = Max2(melBase * Hop - HalfFft, 0)
        /\ melBase + Len(melBuf) = FramesReady(audioEnd)
    BY <1>1 DEF IndInv, TypeOK, Trimmed, Grid, MelProduced
  <2>4. melBase + Len(melBuf) < melConsumed + HopMel(geo) + RcMelMax(geo)
    BY <1>1 DEF ChunkInv, Settled, Idle, MelProduced
  <2>5. Len(melBuf) < window
    BY <2>2, <2>3, <2>4 DEF Max2
  <2>6. audioEnd < (melBase + Len(melBuf)) * Hop + HalfFft
    BY <2>3 DEF FramesReady, Hop, HalfFft
  <2>7. audioBase \in Nat /\ audioBase >= melBase * Hop - HalfFft
    BY <2>3 DEF Max2, Hop, HalfFft
  <2>8. window \in Nat
    BY <2>2
  <2> HIDE DEF window
  <2>9. audioEnd - audioBase < window * Hop + 2 * HalfFft
    BY <2>3, <2>5, <2>6, <2>7, <2>8, SMTT(20) DEF Hop, HalfFft
  <2> QED
    BY <2>5, <2>9
<1> QED
  BY <1>1, ChunkInvariance, PTL

---------------------------------------------------------------------------
(* A padded tail fits too when the geometry leaves room for the padding:   *)
(* its longest window rounded up to PadMultiple mel frames.                *)
PaddingRoom(g) ==
    g.spkcache_len + g.fifo_len
        + 4 * ((g.chunk_left_context + g.chunk_len
                    + g.chunk_right_context + 3) \div 4) <= PosEmbMaxLen

LEMMA WindowFits ==
    ASSUME IndInv, pc # "idle", ChunkReady, PaddingRoom(geo)
    PROVE  WindowFrames <= PosEmbMaxLen
<1> DEFINE k == geo.chunk_left_context + geo.chunk_len
                  + geo.chunk_right_context
<1>1. /\ geo.spkcache_len \in Nat /\ geo.fifo_len \in Nat
      /\ geo.chunk_len \in Nat
      /\ geo.chunk_left_context \in Nat /\ geo.chunk_right_context \in Nat
      /\ HopMel(geo) = 8 * geo.chunk_len
      /\ LcMelMax(geo) = 8 * geo.chunk_left_context
      /\ RcMelMax(geo) = 8 * geo.chunk_right_context
  <2>1. geo \in Geometry /\ ValidGeometry(geo)
    BY DEF IndInv, TypeOK, Control
  <2> QED
    BY <2>1, ValidGeometryLengths
<1>2. k \in Nat
  BY <1>1
<1>3. TMel \in Nat /\ TMel <= 8 * k
  <2>1. /\ ChunkEnd \in Nat /\ ChunkEnd <= melConsumed + HopMel(geo)
        /\ LcMel \in Nat /\ LcMel <= LcMelMax(geo)
        /\ RcMel \in Nat /\ RcMel <= RcMelMax(geo)
        /\ LcMel = melConsumed - melBase
        /\ TMel \in Nat /\ TMel = ChunkEnd + RcMel - melBase
    BY WindowFacts
  <2>2. melConsumed \in Nat /\ melBase \in Nat
    BY DEF IndInv, TypeOK
  <2> QED
    BY <1>1, <2>1, <2>2
<1> HIDE DEF k
<1>4. T3 \in Nat /\ T3 <= 4 * ((k + 3) \div 4)
  <2>1. CASE IsTail
    <3>1. PaddedWindow(TMel) \in Nat
          /\ T3 = (PaddedWindow(TMel) + 7) \div 8
      BY <1>3, <2>1, PaddedWindowGrows, SubsampledLenIsCeil DEF T3
    <3>2. PaddedWindow(TMel) = 32 * ((TMel + 31) \div 32)
      BY <1>3 DEF PaddedWindow, PadMultiple
    <3>3. (TMel + 31) \div 32 <= (k + 3) \div 4
      BY <1>2, <1>3
    <3> QED
      BY <1>2, <1>3, <3>1, <3>2, <3>3
  <2>2. CASE ~IsTail
    <3>1. T3 = (TMel + 7) \div 8
      BY <1>3, <2>2, SubsampledLenIsCeil DEF T3
    <3> QED
      BY <1>2, <1>3, <3>1
  <2> QED
    BY <2>1, <2>2
<1>5. /\ spkFrames \in Nat /\ spkFrames <= geo.spkcache_len
      /\ fifoFrames \in Nat /\ fifoFrames <= geo.fifo_len
  BY DEF IndInv, TypeOK, Caps
<1>6. geo.spkcache_len + geo.fifo_len + 4 * ((k + 3) \div 4) <= PosEmbMaxLen
  BY DEF PaddingRoom, k
<1> QED
  BY <1>1, <1>2, <1>4, <1>5, <1>6, ModelConstants DEF WindowFrames

(* No window of a constructed engine is refused, the padded tail included, *)
(* when every geometry it may be built with leaves room for the padding    *)
(* (validate_stream_geometry against the check of sortformer.cpp).         *)
THEOREM WindowsFitWithPaddingRoom ==
    ASSUME \A g \in Geometries : ValidGeometry(g) => PaddingRoom(g)
    PROVE  Spec => []ConstructedWindowsFit
<1> DEFINE Inv == IndInv /\ geo \in Geometries
<1>1. Init => Inv
  BY InitIndInv DEF Init
<1>2. Inv /\ [Next]_vars => Inv'
  <2>1. [Next]_vars => geo' = geo
    BY DEF Next, EngineStep, FeedAudio, Finish, AppendAudio,
           CallAfterFinish, RunChunk, ChunkThrows, CallReturns, vars
  <2> QED
    BY <2>1, NextKeeps
<1>3. Inv => ConstructedWindowsFit
  BY WindowFits DEF ConstructedWindowsFit, Idle, IndInv, Control
<1> QED
  BY <1>1, <1>2, <1>3, PTL DEF Spec

(* The two geometries the program ships leave that room: no window of an   *)
(* engine built with one of them is ever refused (diar.cpp,                *)
(* StreamGeometry::streaming and offline_preset).                          *)
THEOREM PresetWindowsFit ==
    ASSUME Geometries \subseteq {Streaming, OfflinePreset}
    PROVE  Spec => []ConstructedWindowsFit
<1>1. ASSUME NEW g \in Geometries, ValidGeometry(g)
      PROVE  PaddingRoom(g)
  <2>1. CASE g = Streaming
    BY <1>1, <2>1, ModelConstants
       DEF Streaming, ValidGeometry, WindowBudget, PaddingRoom
  <2>2. CASE g = OfflinePreset
    BY <1>1, <2>2, ModelConstants
       DEF OfflinePreset, ValidGeometry, WindowBudget, PaddingRoom
  <2> QED
    BY <2>1, <2>2
<1> QED
  BY <1>1, WindowsFitWithPaddingRoom

---------------------------------------------------------------------------
(* The engine labels frames as FrameLabelling promises, liveness apart:    *)
(* every step is one of its steps or changes nothing it speaks of.         *)

(* The decay tail is appended exactly when audio was heard.                *)
Decayed == finished => audioEnd = 0 \/ audioEnd > HalfFft

LEMMA FinishDecays ==
    ASSUME IndInv, Finish
    PROVE  /\ audioEnd = 0 => audioEnd' = 0
           /\ audioEnd > 0 => audioEnd' = audioEnd + HalfFft
<1>1. audioEnd' = DecayEnd
  BY DEF Finish, AppendAudio
<1>2. /\ audioEnd \in Nat /\ audioBase \in Nat /\ melBase \in Nat
      /\ melBuf \in Seq(Int) /\ MelProduced = FramesReady(audioEnd)
      /\ audioBase = Max2(melBase * Hop - HalfFft, 0)
  BY DEF IndInv, TypeOK, Trimmed, Grid
<1>3. melBase <= FramesReady(audioEnd)
  BY <1>2 DEF MelProduced
<1>4. audioEnd = 0 => audioBase = 0
  BY <1>2, <1>3 DEF FramesReady, Max2, Hop, HalfFft
<1> QED
  BY <1>1, <1>2, <1>4 DEF DecayEnd, HalfFft

LEMMA NextKeepsDecayed == IndInv /\ Decayed /\ [Next]_vars => Decayed'
<1> SUFFICES ASSUME IndInv, Decayed, [Next]_vars PROVE Decayed'
  OBVIOUS
<1>1. CASE Finish
  BY <1>1, FinishDecays DEF IndInv, TypeOK, Decayed, HalfFft
<1>2. ASSUME NEW n \in FeedSizes, FeedAudio(n) PROVE Decayed'
  BY <1>2 DEF FeedAudio, Decayed
<1>3. ASSUME finished' = finished, audioEnd' = audioEnd PROVE Decayed'
  BY <1>3 DEF Decayed
<1> QED
  BY <1>1, <1>2, <1>3
     DEF Next, EngineStep, CallAfterFinish, RunChunk, ChunkThrows,
         CallReturns, vars, audioVars

(* The arithmetic FrameLabelling uses is the engine's own.                 *)
LEMMA SameGrids ==
    ASSUME NEW n \in Int
    PROVE  /\ Labelling!FramesReady(n) = FramesReady(n)
           /\ Labelling!SubsampledLen(n) = SubsampledLen(n)
           /\ Labelling!Hop = Hop /\ Labelling!Sub = Sub
BY DEF Labelling!FramesReady, FramesReady, Labelling!SubsampledLen,
       SubsampledLen, Labelling!StageLen, StageLen, Labelling!Hop, Hop,
       Labelling!HalfFft, HalfFft, Labelling!Sub, Sub

(* Frames of the stream the caller sees at its end.                        *)
LEMMA HeardFrames ==
    ASSUME IndInv, Decayed, finished
    PROVE  Labelling!TotalFrames(Heard) = SubsampledLen(MelProduced)
<1>1. audioEnd \in Nat /\ MelProduced = FramesReady(audioEnd)
  BY DEF IndInv, TypeOK, Grid
<1>2. CASE audioEnd = 0
  <2>1. Heard = 0 /\ MelProduced = 0
    BY <1>1, <1>2 DEF Heard, FramesReady, HalfFft
  <2> QED
    BY <2>1 DEF Labelling!TotalFrames, SubsampledLen
<1>3. CASE audioEnd > HalfFft
  <2>1. Heard = audioEnd - HalfFft /\ Heard \in Nat /\ Heard # 0
    BY <1>1, <1>3 DEF Heard, HalfFft
  <2>2. MelProduced = Heard \div Hop + 1
    BY <1>1, <1>3, <2>1 DEF FramesReady, HalfFft, Hop
  <2>3. Labelling!TotalFrames(Heard)
            = Labelling!SubsampledLen(Heard \div Labelling!Hop + 1)
    BY <2>1 DEF Labelling!TotalFrames
  <2>4. Heard \div Hop + 1 \in Int
    BY <2>1 DEF Hop
  <2> QED
    BY <2>2, <2>3, <2>4, SameGrids
<1> QED
  BY <1>2, <1>3 DEF Decayed

LEMMA FeedAudioHears ==
    ASSUME IndInv, NEW n \in FeedSizes, FeedAudio(n)
    PROVE  Labelling!Hear
<1>1. /\ ~finished /\ finished' = finished /\ audioEnd' = audioEnd + n
      /\ timeline' = timeline
  BY DEF FeedAudio, AppendAudio
<1>2. audioEnd \in Nat /\ n \in Nat
  BY EngineConstants DEF IndInv, TypeOK
<1>3. Heard = audioEnd /\ Heard' = audioEnd' /\ Phase = "open" /\ Phase' = "open"
  BY <1>1 DEF Heard, Phase
<1> QED
  BY <1>1, <1>2, <1>3 DEF Labelling!Hear

LEMMA FinishCloses ==
    ASSUME IndInv, Finish
    PROVE  Labelling!Close
<1>1. /\ ~finished /\ finished' /\ pc' = "finishing" /\ timeline' = timeline
      /\ audioEnd \in Nat
  BY DEF Finish, AppendAudio, IndInv, TypeOK
<1>2. Phase = "open" /\ Phase' = "draining"
  BY <1>1 DEF Phase, Draining
<1>3. Heard' = Heard
  BY <1>1, FinishDecays DEF Heard, HalfFft
<1> QED
  BY <1>1, <1>2, <1>3 DEF Labelling!Close

LEMMA RunChunkLabels ==
    ASSUME IndInv, Decayed, RunChunk, LabelledOnce'
    PROVE  Labelling!Label
<1>1. /\ pc # "idle" /\ ChunkReady
      /\ finished' = finished /\ audioEnd' = audioEnd /\ pc' = pc
      /\ melConsumed' = ChunkEnd
  BY DEF RunChunk
<1>2. /\ ChunkEnd \in Nat /\ melConsumed \in Nat /\ MelProduced \in Nat
      /\ melConsumed < ChunkEnd /\ ChunkEnd <= MelProduced
      /\ melConsumed % 8 = 0
      /\ ChunkEnd % 8 = 0 \/ (Draining /\ ChunkEnd = MelProduced)
  BY <1>1, WindowFacts DEF IndInv, TypeOK, MelProduced
<1>3. /\ Len(timeline) = (melConsumed + 7) \div 8
      /\ Len(timeline') = (ChunkEnd + 7) \div 8
  BY <1>1, <1>2, SubsampledLenIsCeil DEF IndInv, LabelledOnce
<1>4. Len(timeline) < Len(timeline') /\ Len(timeline') \in Nat
      /\ Len(timeline) \in Nat
  BY <1>2, <1>3
<1>5. Heard' = Heard /\ Phase' = Phase
      /\ Phase = IF finished THEN "draining" ELSE "open"
  BY <1>1 DEF Heard, Phase, Draining, IndInv, TypeOK, Control
<1>6. Labelling!Allowance \in Int /\ Len(timeline') <= Labelling!Allowance
  <2>1. CASE ~finished
    <3>0. /\ Heard = audioEnd /\ MelProduced = FramesReady(audioEnd)
          /\ audioEnd \in Nat
      BY <2>1 DEF Heard, IndInv, Grid, TypeOK
    <3>1. Labelling!Allowance
              = Labelling!FramesReady(Heard) \div Labelling!Sub
      BY <1>5, <2>1 DEF Labelling!Allowance
    <3>2. Labelling!Allowance = MelProduced \div Sub
      BY <3>0, <3>1, SameGrids
    <3>3. ChunkEnd % 8 = 0
      BY <1>2, <2>1 DEF IndInv, Control, Draining
    <3> QED
      BY <1>2, <1>3, <3>2, <3>3 DEF Sub
  <2>2. CASE finished
    <3>1. Labelling!Allowance = Labelling!TotalFrames(Heard)
      BY <1>5, <2>2 DEF Labelling!Allowance
    <3>2. Labelling!TotalFrames(Heard) = (MelProduced + 7) \div 8
      BY <1>2, <2>2, HeardFrames, SubsampledLenIsCeil
    <3> QED
      BY <1>2, <1>3, <3>1, <3>2
  <2> QED
    BY <2>1, <2>2
<1>7. Len(timeline') \in (Len(timeline) + 1) .. Labelling!Allowance
  BY <1>4, <1>6
<1> QED
  BY <1>5, <1>7 DEF Labelling!Label

LEMMA LeavingMaps ==
    ASSUME IndInv, Decayed, ChunkThrows \/ CallReturns
    PROVE  [Labelling!LNext]_(Labelling!labelVars)
<1>1. /\ pc \in {"feeding", "finishing"} /\ pc' = "idle"
      /\ finished' = finished /\ audioEnd' = audioEnd
      /\ timeline' = timeline /\ melConsumed' = melConsumed
      /\ melBase' = melBase /\ melBuf' = melBuf
  BY DEF ChunkThrows, CallReturns, audioVars, melVars, IndInv, TypeOK
<1>2. Heard' = Heard /\ MelProduced' = MelProduced
  BY <1>1 DEF Heard, MelProduced
<1>3. CASE pc = "feeding"
  <2>1. Phase = "open" /\ Phase' = "open"
    BY <1>1, <1>3 DEF IndInv, Control, Phase
  <2> QED
    BY <1>1, <1>2, <2>1 DEF Labelling!labelVars
<1>4. CASE pc = "finishing"
  <2>1. /\ finished /\ Phase = "draining"
        /\ Phase' = IF melConsumed = MelProduced THEN "closed"
                                                 ELSE "abandoned"
    BY <1>1, <1>2, <1>4 DEF IndInv, Control, Phase, Draining
  <2>2. CASE melConsumed = MelProduced
    <3>1. Len(timeline) = Labelling!TotalFrames(Heard)
      BY <2>1, <2>2, HeardFrames DEF IndInv, LabelledOnce
    <3>2. Labelling!Done
      BY <1>1, <1>2, <2>1, <2>2, <3>1 DEF Labelling!Done
    <3> QED
      BY <3>2 DEF Labelling!LNext
  <2>3. CASE melConsumed # MelProduced
    <3>1. Labelling!Abandon
      BY <1>1, <1>2, <2>1, <2>3 DEF Labelling!Abandon
    <3> QED
      BY <3>1 DEF Labelling!LNext
  <2> QED
    BY <2>2, <2>3
<1> QED
  BY <1>1, <1>3, <1>4

(* Whatever the caller feeds and whatever throws, the engine only ever     *)
(* hears, labels the next frames the audio supports, closes and is done or *)
(* abandoned: run_one_chunk, feed_audio and finish implement the safety    *)
(* part of FrameLabelling under Heard and Phase.                           *)
THEOREM EngineImplementsLabelling == Spec => Labelling!LSafe
<1>1. Init => Labelling!LInit
  BY DEF Init, Labelling!LInit, Heard, Phase
<1>2. Init => IndInv /\ Decayed
  BY InitIndInv DEF Init, Decayed
<1>3. (IndInv /\ Decayed) /\ [Next]_vars => (IndInv /\ Decayed)'
  BY NextKeeps, NextKeepsDecayed
<1>4. (IndInv /\ Decayed) /\ [Next]_vars
          => [Labelling!LNext]_(Labelling!labelVars)
  <2> SUFFICES ASSUME IndInv, Decayed, [Next]_vars
               PROVE  [Labelling!LNext]_(Labelling!labelVars)
    OBVIOUS
  <2>1. ASSUME NEW n \in FeedSizes, FeedAudio(n)
        PROVE  [Labelling!LNext]_(Labelling!labelVars)
    BY <2>1, FeedAudioHears DEF Labelling!LNext
  <2>2. CASE Finish
    BY <2>2, FinishCloses DEF Labelling!LNext
  <2>3. CASE CallAfterFinish \/ UNCHANGED vars
    <3>1. /\ finished' = finished /\ audioEnd' = audioEnd /\ pc' = pc
          /\ timeline' = timeline /\ melConsumed' = melConsumed
          /\ melBase' = melBase /\ melBuf' = melBuf
      BY <2>3 DEF CallAfterFinish, vars, audioVars, melVars
    <3>2. Heard' = Heard /\ Phase' = Phase
      BY <3>1 DEF Heard, Phase, Draining, MelProduced
    <3> QED
      BY <3>1, <3>2 DEF Labelling!labelVars
  <2>4. CASE RunChunk
    <3>1. LabelledOnce'
      BY <2>4, RunChunkKeeps DEF IndInv
    <3> QED
      BY <2>4, <3>1, RunChunkLabels DEF Labelling!LNext
  <2>5. CASE ChunkThrows \/ CallReturns
    BY <2>5, LeavingMaps
  <2> QED
    BY <2>1, <2>2, <2>3, <2>4, <2>5 DEF Next, EngineStep
<1> QED
  BY <1>1, <1>2, <1>3, <1>4, PTL DEF Spec, Labelling!LSafe

=============================================================================
