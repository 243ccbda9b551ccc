--------------------------- MODULE StreamEngine ---------------------------
(***************************************************************************)
(* DiarEngine: the chunk scheduler of the streaming diarizer.              *)
(*                                                                         *)
(* The caller feeds audio in pieces of any size; the engine turns it into  *)
(* mel frames, runs the network on every window that is fully covered,     *)
(* labels the frames of the chunk and trims what no later window needs.    *)
(* finish() drains what is left, the last window padded and masked.        *)
(*                                                                         *)
(* One call is several steps: its body up to the chunk loop, one step per  *)
(* iteration of the loop, and the return.  An exception of the network     *)
(* leaves the loop, and the call, from within an iteration.                *)
(***************************************************************************)
EXTENDS StreamGeometry, Sequences

CONSTANTS
    Geometries,     \* geometries a caller may ask for
    FeedSizes,      \* sizes of the pieces of audio
    MaxSamples,     \* bound: samples fed before the caller must finish
    RouteFaults     \* whether a device route may throw in a window

ASSUME EngineConstants ==
    /\ Geometries \subseteq Geometry
    /\ FeedSizes \subseteq Nat
    /\ MaxSamples \in Nat
    /\ RouteFaults \in BOOLEAN

VARIABLES
    geo,            \* geometry the engine was built with
    finished,       \* finish() was entered
    audioBase,      \* absolute position of the first buffered sample
    audioEnd,       \* absolute position after the last buffered sample
    melBase,        \* index of the first buffered mel frame
    melBuf,         \* buffered mel frames: where each one's window starts
    melConsumed,    \* mel frames whose labels were emitted
    spkFrames,      \* frames in the speaker cache
    fifoFrames,     \* frames in the FIFO
    timeline,       \* labelled frames, by their first mel frame
    ledger,         \* one entry per chunk
    pc,             \* "idle", or the call whose chunk loop is running
    outcome         \* what the last call gave its caller

audioVars == <<audioBase, audioEnd>>
melVars == <<melBase, melBuf, melConsumed>>
aoscVars == <<spkFrames, fifoFrames>>
vars == <<geo, finished, audioVars, melVars, aoscVars, timeline, ledger,
          pc, outcome>>

MelProduced == melBase + Len(melBuf)

---------------------------------------------------------------------------
(* The next window, as run_one_chunk computes it.                          *)

Draining == pc = "finishing"

ChunkEnd ==
    IF Draining THEN Min2(melConsumed + HopMel(geo), MelProduced)
                ELSE melConsumed + HopMel(geo)

LcMel == Min2(LcMelMax(geo), melConsumed)
RcMel == Min2(RcMelMax(geo), MelProduced - ChunkEnd)
WinStart == melConsumed - LcMel
TMel == ChunkEnd + RcMel - WinStart

(* Mutant of ChunkReady: a chunk does not wait for its right context.      *)
ChunkReadyEarly ==
    /\ IF Draining THEN ChunkEnd > melConsumed ELSE ChunkEnd <= MelProduced
    /\ TMel > 0

ChunkReady ==
    /\ IF Draining THEN ChunkEnd > melConsumed
                   ELSE ChunkEnd + RcMelMax(geo) <= MelProduced
    /\ TMel > 0

(* Only the window that drains the stream is padded and masked.            *)
IsTail ==
    /\ Draining
    /\ ChunkEnd >= MelProduced
    /\ TMel % PadMultiple # 0

T3 == SubsampledLen(IF IsTail THEN PaddedWindow(TMel) ELSE TMel)

(* Mutant of T3Valid: the rows of the padding are not trimmed.             *)
T3ValidUntrimmed == T3

T3Valid == IF IsTail THEN SubsampledLen(TMel) ELSE T3

(* Rows of the network's input: cache, FIFO and the window's frames.       *)
WindowFrames == spkFrames + fifoFrames + T3

WindowThrows == WinStart < melBase \/ WindowFrames > PosEmbMaxLen

ChunkValid == T3Valid - LcEnc(LcMel) - RcEnc(RcMel)

(* The mel frame an encoder row of the window starts at; rows that start   *)
(* in the padding label nothing.                                           *)
Phantom == -1
RowOrigin(r) ==
    IF r * Sub < TMel THEN melBuf[WinStart - melBase + r * Sub + 1]
                      ELSE Phantom

EmittedRows == [j \in 1 .. Max2(ChunkValid, 0) |-> RowOrigin(LcEnc(LcMel) + j - 1)]

LedgerEntry ==
    [t_mel |-> TMel, t3 |-> T3,
     lc_enc |-> LcEnc(LcMel), rc_enc |-> RcEnc(RcMel),
     emitted |-> Len(EmittedRows),
     spkcache_frames |-> spkFrames, fifo_frames |-> fifoFrames,
     window_frames |-> WindowFrames,
     tail_feat_len |-> IF IsTail THEN TMel ELSE 0]

(* Mutants of KeepMel and KeepSample: the left context is dropped; audio   *)
(* is never trimmed.                                                       *)
KeepMelNoContext == ChunkEnd
KeepSampleAll == 0

(* What later windows may still read.                                      *)
KeepMel == Max2(ChunkEnd - LcMelMax(geo), 0)
KeepSample == Max2(KeepMel * Hop - HalfFft, 0)

---------------------------------------------------------------------------
Init ==
    /\ geo \in {g \in Geometries : ValidGeometry(g)}
    /\ finished = FALSE
    /\ audioBase = 0 /\ audioEnd = 0
    /\ melBase = 0 /\ melBuf = << >> /\ melConsumed = 0
    /\ spkFrames = 0 /\ fifoFrames = 0
    /\ timeline = << >> /\ ledger = << >>
    /\ pc = "idle" /\ outcome = "none"

(* Samples end at position end: compute the mel frames they complete.      *)
AppendAudio(end) ==
    /\ audioEnd' = end
    /\ melBuf' = melBuf \o NewMelFrames(audioBase, end, MelProduced)
    /\ UNCHANGED <<geo, audioBase, melBase, melConsumed, aoscVars,
                   timeline, ledger>>

FeedAudio(n) ==
    /\ pc = "idle" /\ ~finished
    /\ audioEnd + n <= MaxSamples
    /\ AppendAudio(audioEnd + n)
    /\ pc' = "feeding" /\ outcome' = "none"
    /\ UNCHANGED finished

(* Mutant of DecayEnd: an empty stream gets a decay tail too.              *)
DecayEndAlways == audioEnd + HalfFft

(* The decay tail is appended unless no sample was ever fed.               *)
DecayEnd ==
    IF audioEnd > audioBase \/ audioBase > 0 THEN audioEnd + HalfFft
                                             ELSE audioEnd

Finish ==
    /\ pc = "idle" /\ ~finished
    /\ finished' = TRUE
    /\ AppendAudio(DecayEnd)
    /\ pc' = "finishing" /\ outcome' = "none"

(* feed_audio and finish after finish(): silently nothing.                 *)
CallAfterFinish ==
    /\ pc = "idle" /\ finished
    /\ outcome' = "returned"
    /\ UNCHANGED <<geo, finished, audioVars, melVars, aoscVars, timeline,
                   ledger, pc>>

UpdateAosc ==
    IF ChunkValid <= 0
    THEN UNCHANGED aoscVars
    ELSE /\ spkFrames' = SpkAfter(geo, ChunkValid, spkFrames, fifoFrames)
         /\ fifoFrames' = FifoAfter(geo, ChunkValid, fifoFrames)

TrimBuffers ==
    /\ melBase' = Max2(KeepMel, melBase)
    /\ melBuf' = IF KeepMel > melBase
                 THEN SubSeq(melBuf, KeepMel - melBase + 1, Len(melBuf))
                 ELSE melBuf
    /\ audioBase' = Max2(KeepSample, audioBase)

RunChunk ==
    /\ pc # "idle" /\ ChunkReady /\ ~WindowThrows
    /\ UpdateAosc
    /\ ledger' = Append(ledger, LedgerEntry)
    /\ timeline' = timeline \o EmittedRows
    /\ melConsumed' = ChunkEnd
    /\ TrimBuffers
    /\ UNCHANGED <<geo, finished, audioEnd, pc, outcome>>

(* Mutant of ChunkThrows: the loop swallows the exception and tries again. *)
ChunkThrowsRetried ==
    /\ pc # "idle" /\ ChunkReady
    /\ WindowThrows \/ RouteFaults
    /\ outcome' = "threw"
    /\ UNCHANGED <<geo, finished, audioVars, melVars, aoscVars, timeline,
                   ledger, pc>>

(* The window is refused, or a device route fails, before any state of the *)
(* engine changed; the exception leaves feed_audio or finish.              *)
ChunkThrows ==
    /\ pc # "idle" /\ ChunkReady
    /\ WindowThrows \/ RouteFaults
    /\ pc' = "idle" /\ outcome' = "threw"
    /\ UNCHANGED <<geo, finished, audioVars, melVars, aoscVars, timeline,
                   ledger>>

CallReturns ==
    /\ pc # "idle" /\ ~ChunkReady
    /\ pc' = "idle" /\ outcome' = "returned"
    /\ UNCHANGED <<geo, finished, audioVars, melVars, aoscVars, timeline,
                   ledger>>

EngineStep == RunChunk \/ ChunkThrows \/ CallReturns

Next ==
    \/ \E n \in FeedSizes : FeedAudio(n)
    \/ Finish
    \/ CallAfterFinish
    \/ EngineStep

(* A call runs on the caller's thread until it returns or throws.          *)
Fairness == WF_vars(EngineStep)

Spec == Init /\ [][Next]_vars /\ Fairness

---------------------------------------------------------------------------
(* Properties.                                                             *)

Idle == pc = "idle"

Entry == [t_mel : Int, t3 : Int, lc_enc : Int, rc_enc : Int, emitted : Int,
          spkcache_frames : Int, fifo_frames : Int, window_frames : Int,
          tail_feat_len : Int]

(* The engine's variables stay in their domains.                           *)
TypeOK ==
    /\ geo \in Geometry
    /\ finished \in BOOLEAN
    /\ audioBase \in Nat /\ audioEnd \in Nat
    /\ melBase \in Nat /\ melConsumed \in Nat
    /\ melBuf \in Seq(Int)
    /\ spkFrames \in Nat /\ fifoFrames \in Nat
    /\ timeline \in Seq(Int)
    /\ ledger \in Seq(Entry)
    /\ pc \in {"idle", "feeding", "finishing"}
    /\ outcome \in {"none", "returned", "threw"}

(* run_one_chunk, "so frames are labeled exactly once": however the audio  *)
(* was cut and whatever was padded, clamped or thrown, the timeline is     *)
(* frame 0, 1, 2, ... of the stream with no gap, repetition or phantom,    *)
(* and ends where the consumed mel frames end.                             *)
LabelledOnce ==
    /\ Len(timeline) = SubsampledLen(melConsumed)
    /\ \A i \in 1 .. Len(timeline) : timeline[i] = GridStart((i - 1) * Sub)

(* produce_new_mel_frames: after any feeding and trimming, every buffered  *)
(* mel frame was computed at its place on the global grid, none is missing *)
(* and none reached past the audio it was given.                           *)
MelOnGrid ==
    /\ MelProduced = FramesReady(audioEnd)
    /\ \A k \in 1 .. Len(melBuf) : melBuf[k] = GridStart(melBase + k - 1)
    /\ melBuf # << >> => melBuf[Len(melBuf)] + 2 * HalfFft <= audioEnd

(* The trims of run_one_chunk keep the left context of the next window,    *)
(* the samples of the next mel frame (all of them while the stream's start *)
(* is still recomputed), and a last sample for finish() to decay from.     *)
TrimKeepsContext ==
    /\ WinStart >= melBase
    /\ AtStreamStart(MelProduced) => audioBase = 0
    /\ FirstOffset(audioBase, MelProduced) >= 0
    /\ audioBase > 0 => audioEnd > audioBase

(* Between calls of an open stream the buffers hold less than one window:  *)
(* they do not grow with the stream.                                       *)
BoundedBuffers ==
    Idle /\ ~finished /\ outcome = "returned" =>
        LET window == LcMelMax(geo) + HopMel(geo) + RcMelMax(geo)
        IN  /\ Len(melBuf) < window
            /\ audioEnd - audioBase < window * Hop + 2 * HalfFft

(* The budget validate_stream_geometry accepted: cache and FIFO within     *)
(* their capacities at every chunk, so a full window is never refused.     *)
WithinBudget ==
    /\ spkFrames <= geo.spkcache_len
    /\ fifoFrames <= geo.fifo_len
    /\ pc # "idle" /\ ChunkReady /\ ~IsTail => ~WindowThrows

(* Sharding invariance: the window of every chunk is a function of its     *)
(* index, the geometry and, for the last ones, the length of the stream;   *)
(* how the audio was cut and which calls threw leave no trace in it.       *)
CanonicalWindow(i) ==
    LET stt   == (i - 1) * HopMel(geo)
        lc    == Min2(LcMelMax(geo), stt)
        total == IF finished THEN MelProduced
                 ELSE stt + HopMel(geo) + RcMelMax(geo)
        end   == Min2(stt + HopMel(geo), total)
        rc    == Min2(RcMelMax(geo), total - end)
        tmel  == end + rc - stt + lc
        tail  == finished /\ end = total /\ tmel % PadMultiple # 0
    IN  [t_mel |-> tmel, lc_enc |-> lc \div Sub, rc_enc |-> SubsampledLen(rc),
         emitted |-> SubsampledLen(end - stt),
         tail_feat_len |-> IF tail THEN tmel ELSE 0]

ShardingInvariance ==
    \A i \in 1 .. Len(ledger) :
        LET w == CanonicalWindow(i)
        IN  /\ ledger[i].t_mel = w.t_mel
            /\ ledger[i].lc_enc = w.lc_enc
            /\ ledger[i].rc_enc = w.rc_enc
            /\ ledger[i].emitted = w.emitted
            /\ ledger[i].tail_feat_len = w.tail_feat_len

(* feed_audio and finish run chunks until none is ready; the loop ends.    *)
CallsEnd == (pc # "idle") ~> (pc = "idle")

(* The engine labels frames as FrameLabelling promises.  The decay tail    *)
(* that finish() appends is not audio that was heard.                      *)
Heard == IF finished /\ audioEnd > 0 THEN audioEnd - HalfFft ELSE audioEnd
Phase ==
    IF ~finished THEN "open"
    ELSE IF Draining THEN "draining"
    ELSE IF melConsumed = MelProduced THEN "closed" ELSE "abandoned"

Labelling == INSTANCE FrameLabelling
    WITH heard <- Heard, labelled <- Len(timeline), phase <- Phase

ImplementsLabelling == Labelling!LSpec

---------------------------------------------------------------------------
(* What comments and tests of the code say, and the code does not do.      *)

(* engine.hpp, ChunkLedgerEntry: emitted is "timeline frames appended      *)
(* (t3 - lc - rc)".                                                        *)
LedgerEmittedIsT3 ==
    \A i \in 1 .. Len(ledger) :
        ledger[i].emitted = ledger[i].t3 - ledger[i].lc_enc - ledger[i].rc_enc

(* test_engine.cpp: "a window that cannot fit the table is a loud ctor     *)
(* failure": no window of a constructed engine is refused.                 *)
ConstructedWindowsFit == ~Idle /\ ChunkReady => WindowFrames <= PosEmbMaxLen

(* engine.hpp, finish(): "then drains the tail chunks": when it returns,   *)
(* every mel frame of the stream was consumed.                             *)
FinishReturnsDrained ==
    Idle /\ finished /\ outcome = "returned" => melConsumed = MelProduced

=============================================================================
