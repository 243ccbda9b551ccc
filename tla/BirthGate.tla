----------------------------- MODULE BirthGate -----------------------------
(***************************************************************************)
(* ChannelBirthGate: the transient-channel guard between the emitted       *)
(* probabilities and the public timeline.                                  *)
(*                                                                         *)
(* A channel is established by enough clean or fading frames of one        *)
(* episode; until then its probability is folded into the strongest        *)
(* established channel.  A birth rewrites the recent part of the timeline  *)
(* from a ring of raw frames.  append() is one step that takes the batch,  *)
(* one step per frame observed, and one that commits the batch.            *)
(*                                                                         *)
(* Probabilities are integers, in hundredths.                              *)
(***************************************************************************)
EXTENDS Integers, Sequences, FiniteSets

CONSTANTS
    NumSpeakers,       \* channels
    Frames,            \* probability frames the network may emit
    CleanFrames,       \* kBirthCleanFrames
    FadingFrames,      \* kBirthFadingFrames
    GapFrames,         \* kBirthEpisodeGapFrames
    RevisionFrames,    \* kBirthRevisionFrames
    MaxBatch,          \* bound: frames of one batch
    MaxFrames          \* bound: frames of the timeline

Speakers == 0 .. NumSpeakers - 1
ProbFrame == [Speakers -> 0 .. 100]

ASSUME GateConstants ==
    /\ NumSpeakers \in Nat \ {0}
    /\ Frames \subseteq ProbFrame
    /\ CleanFrames \in Nat \ {0} /\ FadingFrames \in Nat \ {0}
    /\ GapFrames \in Nat /\ RevisionFrames \in Nat \ {0}
    /\ MaxBatch \in Nat /\ MaxFrames \in Nat

BirthSpeech == 30
BirthClean == 95
EstablishedQuiet == 2
BirthFading == 90
EstablishedFading == 15

VARIABLES
    frame,         \* frames observed since the last reset
    established,   \* established channels
    clean,         \* clean frames of a channel's episode
    fading,        \* fading frames of a channel's episode
    lastWin,       \* frame of a channel's last win while not established
    ring,          \* raw frames a birth may rewrite
    timeline,      \* the public timeline, owned by the caller
    batch,         \* frames of the running append()
    pending,       \* frames of the batch not yet observed
    changed,       \* a frame of the batch established a channel
    pc,            \* "idle" or "observing"
    raw            \* history: every frame observed, as it was emitted

counters == <<clean, fading, lastWin>>
vars == <<frame, established, counters, ring, timeline, batch, pending,
          changed, pc, raw>>

---------------------------------------------------------------------------
(* The strongest channel of a non-empty set; ties go to the lowest.        *)
Strongest(p, S) ==
    CHOOSE s \in S : \A t \in S : p[s] > p[t] \/ (p[s] = p[t] /\ s <= t)

Peak(p, S) == IF S = {} THEN 0 ELSE p[Strongest(p, S)]

(* Mutants of Relabel: the folded channel keeps its probability; the       *)
(* target takes the folded probability even when it is the weaker one.     *)
RelabelKeepsTransient(p, E) ==
    IF E = {} THEN p
    ELSE [p EXCEPT ![Strongest(p, E)] = Peak(p, Speakers)]

RelabelOverwrites(p, E) ==
    IF E = {} THEN p
    ELSE [s \in Speakers |->
            IF s \notin E THEN 0
            ELSE IF s = Strongest(p, E) /\ Peak(p, Speakers \ E) > 0
                 THEN Peak(p, Speakers \ E) ELSE p[s]]

(* Every channel outside E is silenced, and its probability folded, as a   *)
(* maximum, into the strongest channel of E.                               *)
Relabel(p, E) ==
    IF E = {} THEN p
    ELSE [s \in Speakers |->
            IF s \notin E THEN 0
            ELSE IF s = Strongest(p, E)
                 THEN Peak(p, {s} \cup (Speakers \ E)) ELSE p[s]]

(* The last n elements of a sequence, or all of it.                        *)
Last(seq, n) ==
    IF Len(seq) <= n THEN seq ELSE SubSeq(seq, Len(seq) - n + 1, Len(seq))

---------------------------------------------------------------------------
NeverWon == -(GapFrames + 1)   \* stands for min()/2: any win is a new episode

Fresh ==
    /\ frame = 0
    /\ established = {}
    /\ clean = [s \in Speakers |-> 0]
    /\ fading = [s \in Speakers |-> 0]
    /\ lastWin = [s \in Speakers |-> NeverWon]
    /\ ring = << >>

Init ==
    /\ Fresh
    /\ timeline = << >> /\ raw = << >>
    /\ batch = << >> /\ pending = << >>
    /\ changed = FALSE /\ pc = "idle"

(* reset() forgets the channels; the timeline is the caller's.             *)
Reset ==
    /\ pc = "idle"
    /\ frame' = 0
    /\ established' = {}
    /\ clean' = [s \in Speakers |-> 0]
    /\ fading' = [s \in Speakers |-> 0]
    /\ lastWin' = [s \in Speakers |-> NeverWon]
    /\ ring' = << >>
    /\ UNCHANGED <<timeline, batch, pending, changed, pc, raw>>

BeginAppend(b) ==
    /\ pc = "idle"
    /\ Len(timeline) + Len(b) <= MaxFrames
    /\ batch' = b /\ pending' = b
    /\ changed' = FALSE
    /\ pc' = "observing"
    /\ UNCHANGED <<frame, established, counters, ring, timeline, raw>>

(* Mutant of NewEpisode: an episode never ends.                            *)
NewEpisodeNever(w) == FALSE

NewEpisode(w) == frame - lastWin[w] > GapFrames

IsClean(p, w) ==
    p[w] >= BirthClean /\ Peak(p, established) <= EstablishedQuiet
IsFading(p, w) ==
    p[w] >= BirthFading /\ Peak(p, established) <= EstablishedFading

(* A channel that is not established wins the frame: its counters, and     *)
(* maybe its birth.                                                        *)
CountWin(p, w) ==
    LET c == (IF NewEpisode(w) THEN 0 ELSE clean[w])
                 + (IF IsClean(p, w) THEN 1 ELSE 0)
        f == (IF NewEpisode(w) THEN 0 ELSE fading[w])
                 + (IF IsFading(p, w) THEN 1 ELSE 0)
        born == c >= CleanFrames \/ f >= FadingFrames
    IN  /\ clean' = [clean EXCEPT ![w] = c]
        /\ fading' = [fading EXCEPT ![w] = f]
        /\ lastWin' = [lastWin EXCEPT ![w] = frame]
        /\ established' = IF born THEN established \cup {w} ELSE established
        /\ changed' = (changed \/ born)

(* Mutant of PushRaw: the ring is trimmed one frame too late.              *)
PushRawLate(p) == Last(Append(ring, p), RevisionFrames + 1)

PushRaw(p) == Last(Append(ring, p), RevisionFrames)

ObserveFrame ==
    /\ pc = "observing" /\ pending # << >>
    /\ LET p == Head(pending)
           w == Strongest(p, Speakers)
       IN  /\ ring' = PushRaw(p)
           /\ raw' = Append(raw, p)
           /\ IF p[w] >= BirthSpeech /\ w \notin established
              THEN CountWin(p, w)
              ELSE UNCHANGED <<counters, established, changed>>
    /\ pending' = Tail(pending)
    /\ frame' = frame + 1
    /\ UNCHANGED <<timeline, batch, pc>>

(* Mutant of Revised: a birth relabels the timeline again in place of the  *)
(* raw frames.                                                             *)
RevisedInPlace(t) ==
    LET window == IF Len(ring) < Len(t) THEN Len(ring) ELSE Len(t)
    IN  [i \in 1 .. Len(t) |->
            IF i > Len(t) - window THEN Relabel(t[i], established) ELSE t[i]]

(* The tail of a timeline that the ring covers, rewritten from raw.        *)
Revised(t) ==
    LET window == IF Len(ring) < Len(t) THEN Len(ring) ELSE Len(t)
    IN  [i \in 1 .. Len(t) |->
            IF i > Len(t) - window
            THEN Relabel(ring[Len(ring) - Len(t) + i], established)
            ELSE t[i]]

Commit ==
    /\ pc = "observing" /\ pending = << >>
    /\ LET t == timeline
                  \o [i \in 1 .. Len(batch) |-> Relabel(batch[i], established)]
       IN  timeline' = IF changed THEN Revised(t) ELSE t
    /\ batch' = << >>
    /\ changed' = FALSE
    /\ pc' = "idle"
    /\ UNCHANGED <<frame, established, counters, ring, pending, raw>>

Batches == UNION {[1 .. n -> Frames] : n \in 0 .. MaxBatch}

Next ==
    \/ Reset
    \/ \E b \in Batches : BeginAppend(b)
    \/ ObserveFrame
    \/ Commit

Spec == Init /\ [][Next]_vars

---------------------------------------------------------------------------
(* Properties.                                                             *)

(* The variables stay in their domains, the ring within its capacity.      *)
TypeOK ==
    /\ frame \in Nat
    /\ established \subseteq Speakers
    /\ clean \in [Speakers -> Nat] /\ fading \in [Speakers -> Nat]
    /\ lastWin \in [Speakers -> Int]
    /\ ring \in Seq(ProbFrame) /\ timeline \in Seq(ProbFrame)
    /\ batch \in Seq(ProbFrame) /\ pending \in Seq(ProbFrame)
    /\ Len(ring) <= RevisionFrames
    /\ raw \in Seq(ProbFrame)
    /\ changed \in BOOLEAN
    /\ pc \in {"idle", "observing"}

(* Between calls the timeline has one frame per frame emitted, and every   *)
(* frame a birth can still revise reads as if all channels established by  *)
(* now had been established all along: no stale label survives in the      *)
(* window, whatever batch each frame and each birth came in.               *)
WindowUpToDate ==
    pc = "idle" =>
        /\ Len(timeline) = Len(raw)
        /\ \A i \in 1 .. Len(ring) :
              timeline[Len(timeline) - Len(ring) + i]
                  = Relabel(raw[Len(raw) - Len(ring) + i], established)

(* Revision is bounded: a frame with RevisionFrames frames after it never  *)
(* changes again (birth_gate.cpp: the ring holds 128 frames).              *)
OldFramesFrozen ==
    [][\A i \in 1 .. Len(timeline) :
          i <= Len(timeline') - RevisionFrames => timeline'[i] = timeline[i]]_vars

(* Folding is not muting: the strongest probability of a frame is the same *)
(* in the timeline and as emitted, in every frame ever labelled.           *)
StrongestVoiceKept ==
    pc = "idle" =>
        \A i \in 1 .. Len(timeline) :
            Peak(timeline[i], Speakers) = Peak(raw[i], Speakers)

(* A transient channel does not speak: once some channel is established,   *)
(* the frames of the window are silent on all others.                      *)
TransientsSilent ==
    pc = "idle" /\ established # {} =>
        \A i \in 1 .. Len(ring) : \A s \in Speakers \ established :
            timeline[Len(timeline) - Len(ring) + i][s] = 0

(* A birth is earned within one episode.  Reading the raw history back     *)
(* from the frame just observed: the wins of the channel whose gaps are    *)
(* within GapFrames hold enough clean, or enough fading, frames.           *)
Wins(h, s) ==
    {i \in 1 .. Len(h) : Strongest(h[i], Speakers) = s /\ h[i][s] >= BirthSpeech}

InEpisode(h, s, i) ==
    \A j \in Wins(h, s) : j > i =>
        \E k \in Wins(h, s) : i <= k /\ k < j /\ j - k <= GapFrames

EpisodeWins(h, s, level) ==
    {i \in Wins(h, s) : h[i][s] >= level /\ InEpisode(h, s, i)}

BirthsEarned ==
    [][\A s \in established' \ established :
          \/ Cardinality(EpisodeWins(raw', s, BirthClean)) >= CleanFrames
          \/ Cardinality(EpisodeWins(raw', s, BirthFading)) >= FadingFrames]_vars

=============================================================================
