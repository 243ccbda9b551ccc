-------------------------- MODULE BirthGateProofs --------------------------
(***************************************************************************)
(* Proofs about BirthGate, for every number of channels, every threshold,  *)
(* every window of revision and every way of batching the frames.          *)
(***************************************************************************)
EXTENDS BirthGate, SequenceTheorems, FiniteSetTheorems, SelectionProofs,
        TLAPS

---------------------------------------------------------------------------
(* The strongest channel.                                                  *)

LEMMA StrongestIsStrongest ==
    ASSUME NEW p \in ProbFrame, NEW S, S \subseteq Speakers, S # {}
    PROVE  /\ Strongest(p, S) \in S
           /\ \A t \in S : p[t] <= p[Strongest(p, S)]
<1>1. \A s \in S : p[s] \in 0 .. 100 /\ s \in Nat
  BY GateConstants DEF ProbFrame, Speakers
<1>2. PICK m \in {100 - p[s] : s \in S} : \A n \in {100 - p[s] : s \in S} : m <= n
  <2>1. {100 - p[s] : s \in S} \subseteq Nat
    BY <1>1
  <2>2. {100 - p[s] : s \in S} # {}
    OBVIOUS
  <2> QED
    BY <2>1, <2>2, LeastNat
<1>3. PICK w \in {s \in S : 100 - p[s] = m} :
               \A t \in {s \in S : 100 - p[s] = m} : w <= t
  <2>1. {s \in S : 100 - p[s] = m} \subseteq Nat
    BY <1>1
  <2>2. {s \in S : 100 - p[s] = m} # {}
    BY <1>2
  <2> QED
    BY <2>1, <2>2, LeastNat
<1>4. \A t \in S : p[w] > p[t] \/ (p[w] = p[t] /\ w <= t)
  <2> SUFFICES ASSUME NEW t \in S, ~(p[w] > p[t])
               PROVE  p[w] = p[t] /\ w <= t
    OBVIOUS
  <2>1. m <= 100 - p[t] /\ m = 100 - p[w]
    BY <1>2, <1>3
  <2>2. p[w] = p[t]
    <3>0. p[w] \in 0 .. 100 /\ p[t] \in 0 .. 100
      BY <1>1, <1>3
    <3>1. p[w] \in Int /\ p[t] \in Int /\ p[w] <= p[t] /\ p[t] <= p[w]
      BY <2>1, <3>0
    <3> QED
      BY <3>1
  <2> QED
    BY <1>3, <2>1, <2>2
<1>5. /\ Strongest(p, S) \in S
      /\ \A t \in S : \/ p[Strongest(p, S)] > p[t]
                      \/ p[Strongest(p, S)] = p[t] /\ Strongest(p, S) <= t
  BY <1>3, <1>4 DEF Strongest
<1>6. \A t \in S : p[t] \in Int
  BY <1>1
<1> QED
  BY <1>5, <1>6

(* The peak of a set is its greatest probability.                          *)
LEMMA PeakIsMax ==
    ASSUME NEW p \in ProbFrame, NEW S, S \subseteq Speakers
    PROVE  /\ Peak(p, S) \in 0 .. 100
           /\ \A t \in S : p[t] <= Peak(p, S)
           /\ S # {} => \E s \in S : p[s] = Peak(p, S)
<1>1. CASE S = {}
  BY <1>1 DEF Peak
<1>2. CASE S # {}
  <2>1. Strongest(p, S) \in S /\ \A t \in S : p[t] <= p[Strongest(p, S)]
    BY <1>2, StrongestIsStrongest
  <2>2. p[Strongest(p, S)] \in 0 .. 100
    BY <2>1 DEF ProbFrame
  <2> QED
    BY <1>2, <2>1, <2>2 DEF Peak
<1> QED  BY <1>1, <1>2

LEMMA RelabelIsFrame ==
    ASSUME NEW p \in ProbFrame, NEW E, E \subseteq Speakers
    PROVE  Relabel(p, E) \in ProbFrame
<1>1. \A s \in Speakers : Peak(p, {s} \cup (Speakers \ E)) \in 0 .. 100
  <2> SUFFICES ASSUME NEW s \in Speakers
               PROVE  Peak(p, {s} \cup (Speakers \ E)) \in 0 .. 100
    OBVIOUS
  <2>1. {s} \cup (Speakers \ E) \subseteq Speakers
    OBVIOUS
  <2> QED  BY <2>1, PeakIsMax
<1> QED
  BY <1>1 DEF Relabel, ProbFrame

(* Folding keeps the strongest probability of a frame.                     *)
LEMMA RelabelKeepsPeak ==
    ASSUME NEW p \in ProbFrame, NEW E, E \subseteq Speakers
    PROVE  Peak(Relabel(p, E), Speakers) = Peak(p, Speakers)
<1>1. CASE E = {}
  BY <1>1 DEF Relabel
<1>2. CASE E # {}
  <2> DEFINE q == Relabel(p, E)
             w == Strongest(p, E)
             F == {w} \cup (Speakers \ E)
  <2>1. w \in E /\ \A t \in E : p[t] <= p[w]
    BY <1>2, StrongestIsStrongest
  <2>2. /\ \A s \in Speakers \ E : q[s] = 0
        /\ q[w] = Peak(p, F)
        /\ \A s \in E : s # w => q[s] = p[s]
    BY <1>2, <2>1 DEF Relabel
  <2>3. q \in ProbFrame
    BY RelabelIsFrame
  <2> HIDE DEF q, w
  <2>4. F \subseteq Speakers /\ F # {}
    BY <2>1
  <2>5. /\ Peak(p, F) \in 0 .. 100
        /\ \A t \in F : p[t] <= Peak(p, F)
        /\ \E s \in F : p[s] = Peak(p, F)
    BY <2>4, PeakIsMax
  <2>6. \A s \in Speakers : p[s] \in 0 .. 100 /\ q[s] \in 0 .. 100
    BY <2>3 DEF ProbFrame
  <2>7. \A s \in Speakers : p[s] <= q[w]
    <3> SUFFICES ASSUME NEW s \in Speakers PROVE p[s] <= q[w]
      OBVIOUS
    <3>1. CASE s \in F
      BY <2>2, <2>5, <3>1
    <3>2. CASE s \notin F
      <4>1. s \in E /\ w \in F /\ w \in Speakers
        BY <2>1, <3>2
      <4>2. p[s] <= p[w] /\ p[w] <= q[w]
        BY <2>1, <2>2, <2>5, <4>1
      <4>3. p[s] \in Int /\ p[w] \in Int /\ q[w] \in Int
        BY <2>6, <4>1
      <4> QED
        BY <4>2, <4>3
    <3> QED  BY <3>1, <3>2
  <2>8. \A s \in Speakers : q[s] <= q[w]
    <3> SUFFICES ASSUME NEW s \in Speakers PROVE q[s] <= q[w]
      OBVIOUS
    <3>1. CASE s \notin E
      BY <2>1, <2>2, <2>6, <3>1
    <3>2. CASE s \in E /\ s # w
      BY <2>2, <2>7, <3>2
    <3>3. CASE s = w
      BY <2>6, <3>3
    <3> QED  BY <3>1, <3>2, <3>3
  <2>9. PICK a \in Speakers : p[a] = q[w]
    BY <2>2, <2>4, <2>5
  <2>10. Speakers # {} /\ w \in Speakers
    BY <2>1
  <2>11. /\ Peak(q, Speakers) \in 0 .. 100
         /\ \A t \in Speakers : q[t] <= Peak(q, Speakers)
         /\ \E s \in Speakers : q[s] = Peak(q, Speakers)
    BY <2>3, <2>10, PeakIsMax
  <2>12. /\ Peak(p, Speakers) \in 0 .. 100
         /\ \A t \in Speakers : p[t] <= Peak(p, Speakers)
         /\ \E s \in Speakers : p[s] = Peak(p, Speakers)
    BY <2>10, PeakIsMax
  <2>13. Peak(q, Speakers) = q[w]
    BY <2>6, <2>8, <2>10, <2>11
  <2>14. Peak(p, Speakers) = q[w]
    BY <2>6, <2>7, <2>9, <2>10, <2>12
  <2> QED
    BY <2>13, <2>14 DEF q
<1> QED  BY <1>1, <1>2

---------------------------------------------------------------------------
(* The inductive invariant.  WindowUpToDate speaks only between calls;     *)
(* within one, the ring already holds frames of the batch that the         *)
(* timeline does not, so the invariant ties ring, batch and timeline to    *)
(* the raw history, and says which labels are still right.                 *)

(* Frames of the running call that were observed.                          *)
Observed == Len(batch) - Len(pending)

BatchAligned ==
    /\ pc = "idle" => Len(batch) = 0 /\ Len(pending) = 0 /\ ~changed
    /\ Len(pending) <= Len(batch)
    /\ \A i \in 1 .. Len(pending) : pending[i] = batch[Observed + i]
    /\ Len(raw) = Len(timeline) + Observed
    /\ \A i \in 1 .. Observed : raw[Len(timeline) + i] = batch[i]

RingAligned ==
    /\ Len(ring) <= Len(raw)
    /\ \A i \in 1 .. Len(ring) : ring[i] = raw[Len(raw) - Len(ring) + i]

(* Unless this call established a channel, the labels the ring covers are  *)
(* those of the channels established now.                                  *)
LabelsCurrent ==
    ~changed =>
        \A i \in 1 .. Len(timeline) :
            i > Len(raw) - Len(ring) => timeline[i] = Relabel(raw[i], established)

PeaksKept ==
    \A i \in 1 .. Len(timeline) :
        Peak(timeline[i], Speakers) = Peak(raw[i], Speakers)

IndInv == TypeOK /\ BatchAligned /\ RingAligned /\ LabelsCurrent /\ PeaksKept

LEMMA InitIndInv == Init => IndInv
<1> SUFFICES ASSUME Init PROVE IndInv
  OBVIOUS
<1>1. << >> \in Seq(ProbFrame) /\ Len(<< >>) = 0
  BY EmptySeq
<1>2. TypeOK
  <2>1. NeverWon \in Int /\ RevisionFrames \in Nat
    BY GateConstants DEF NeverWon
  <2>2. lastWin \in [Speakers -> Int]
    BY <2>1 DEF Init, Fresh
  <2>3. clean \in [Speakers -> Nat] /\ fading \in [Speakers -> Nat]
    BY DEF Init, Fresh
  <2>4. /\ ring \in Seq(ProbFrame) /\ Len(ring) <= RevisionFrames
        /\ timeline \in Seq(ProbFrame) /\ raw \in Seq(ProbFrame)
        /\ batch \in Seq(ProbFrame) /\ pending \in Seq(ProbFrame)
    BY <1>1, <2>1 DEF Init, Fresh
  <2>5. /\ frame \in Nat /\ established \subseteq Speakers
        /\ changed \in BOOLEAN /\ pc \in {"idle", "observing"}
    BY DEF Init, Fresh
  <2> QED
    BY <2>2, <2>3, <2>4, <2>5 DEF TypeOK
<1>3. BatchAligned /\ RingAligned /\ LabelsCurrent /\ PeaksKept
  BY <1>1 DEF Init, Fresh, BatchAligned, RingAligned, LabelsCurrent,
              PeaksKept, Observed
<1> QED
  BY <1>2, <1>3 DEF IndInv

---------------------------------------------------------------------------
(* Every step keeps the invariant.                                         *)

LEMMA ResetKeeps ==
    ASSUME IndInv, Reset
    PROVE  IndInv'
<1>1. << >> \in Seq(ProbFrame) /\ Len(<< >>) = 0
  BY EmptySeq
<1>2. Len(raw) \in Nat /\ Len(timeline) \in Nat /\ Len(raw) = Len(timeline)
  BY DEF IndInv, TypeOK, BatchAligned, Observed, Reset
<1>3. TypeOK'
  BY <1>1, GateConstants DEF IndInv, TypeOK, Reset, NeverWon
<1>4. BatchAligned' /\ PeaksKept'
  BY DEF IndInv, BatchAligned, PeaksKept, Observed, Reset
<1>5. RingAligned' /\ LabelsCurrent'
  BY <1>1, <1>2 DEF Reset, RingAligned, LabelsCurrent
<1> QED
  BY <1>3, <1>4, <1>5 DEF IndInv

LEMMA BeginAppendKeeps ==
    ASSUME IndInv, NEW b \in Batches, BeginAppend(b)
    PROVE  IndInv'
<1>1. b \in Seq(ProbFrame) /\ Len(b) \in Nat
  BY GateConstants DEF Batches
<1>2. Len(raw) \in Nat /\ Len(timeline) \in Nat /\ Len(raw) = Len(timeline)
      /\ ~changed
  BY DEF IndInv, TypeOK, BatchAligned, Observed, BeginAppend
<1>3. TypeOK'
  BY <1>1 DEF IndInv, TypeOK, BeginAppend, counters
<1>4. Observed' = 0
  BY <1>1 DEF BeginAppend, Observed
<1>5. BatchAligned'
  BY <1>1, <1>2, <1>4 DEF BatchAligned, BeginAppend
<1>6. RingAligned' /\ LabelsCurrent' /\ PeaksKept'
  BY <1>2 DEF IndInv, RingAligned, LabelsCurrent, PeaksKept, BeginAppend,
              counters
<1> QED
  BY <1>3, <1>5, <1>6 DEF IndInv

(* The ring, after a push, is the end of the history, after the append.    *)
LEMMA PushKeepsAlignment ==
    ASSUME IndInv, NEW p \in ProbFrame,
           ring' = PushRaw(p), raw' = Append(raw, p)
    PROVE  /\ ring' \in Seq(ProbFrame) /\ Len(ring') <= RevisionFrames
           /\ raw' \in Seq(ProbFrame) /\ Len(raw') = Len(raw) + 1
           /\ \A i \in 1 .. Len(raw) : raw'[i] = raw[i]
           /\ raw'[Len(raw) + 1] = p
           /\ Len(raw') - Len(ring') >= Len(raw) - Len(ring)
           /\ RingAligned'
<1> DEFINE longer == Append(ring, p)
           R == RevisionFrames
<1>1. /\ ring \in Seq(ProbFrame) /\ raw \in Seq(ProbFrame)
      /\ Len(ring) \in Nat /\ Len(raw) \in Nat
      /\ R \in Nat \ {0} /\ Len(ring) <= R
      /\ Len(ring) <= Len(raw)
      /\ \A i \in 1 .. Len(ring) : ring[i] = raw[Len(raw) - Len(ring) + i]
  BY GateConstants DEF IndInv, TypeOK, RingAligned
<1>2. /\ longer \in Seq(ProbFrame) /\ Len(longer) = Len(ring) + 1
      /\ \A i \in 1 .. Len(ring) : longer[i] = ring[i]
      /\ longer[Len(ring) + 1] = p
  BY <1>1, AppendProperties
<1>3. /\ raw' \in Seq(ProbFrame) /\ Len(raw') = Len(raw) + 1
      /\ \A i \in 1 .. Len(raw) : raw'[i] = raw[i]
      /\ raw'[Len(raw) + 1] = p
  BY <1>1, AppendProperties
<1> HIDE DEF longer
<1>0. /\ Len(ring) \in Nat /\ Len(raw) \in Nat /\ Len(ring) <= Len(raw)
      /\ Len(longer) = Len(ring) + 1 /\ Len(raw') = Len(raw) + 1
      /\ R \in Nat \ {0} /\ Len(ring) <= R
  BY <1>1, <1>2, <1>3
<1>4. \A i \in 1 .. Len(longer) : longer[i] = raw'[Len(raw') - Len(longer) + i]
  <2> SUFFICES ASSUME NEW i \in 1 .. Len(longer)
               PROVE  longer[i] = raw'[Len(raw') - Len(longer) + i]
    OBVIOUS
  <2>1. Len(raw') - Len(longer) + i = Len(raw) - Len(ring) + i
    BY <1>1, <1>2, <1>3
  <2>2. CASE i <= Len(ring)
    <3>1. Len(raw) - Len(ring) + i \in 1 .. Len(raw)
      BY <1>1, <1>2, <2>2
    <3>2. i \in 1 .. Len(ring)
      BY <1>1, <1>2, <2>2
    <3> QED
      BY <1>1, <1>2, <1>3, <2>1, <3>1, <3>2
  <2>3. CASE i > Len(ring)
    <3>1. i = Len(ring) + 1
      BY <1>0, <2>3
    <3>2. Len(raw) - Len(ring) + i = Len(raw) + 1
      BY <1>0, <3>1
    <3> QED
      BY <1>2, <1>3, <2>1, <3>1, <3>2
  <2> QED
    BY <1>0, <2>2, <2>3
<1>5. ring' = Last(longer, R)
  BY DEF PushRaw, longer
<1>6. CASE Len(longer) <= R
  <2>1. ring' = longer
    BY <1>5, <1>6 DEF Last
  <2>2. RingAligned'
    <3>1. Len(ring') <= Len(raw')
      BY <1>0, <2>1
    <3>2. \A i \in 1 .. Len(ring') : ring'[i] = raw'[Len(raw') - Len(ring') + i]
      BY <1>4, <2>1, Zenon
    <3> QED
      BY <3>1, <3>2, Zenon DEF RingAligned
  <2>3. Len(ring') <= R /\ Len(raw') - Len(ring') >= Len(raw) - Len(ring)
    BY <1>0, <1>6, <2>1
  <2> QED
    BY <1>2, <1>3, <2>1, <2>2, <2>3
<1>7. CASE ~(Len(longer) <= R)
  <2> DEFINE m == Len(longer) - R + 1
  <2>1. ring' = SubSeq(longer, m, Len(longer))
    BY <1>5, <1>7 DEF Last
  <2>2. m \in Int /\ Len(longer) \in Int /\ m >= 1 /\ m <= Len(longer)
        /\ Len(longer) - m + 1 = R
    BY <1>1, <1>2, <1>7
  <2>3. \A i \in m .. Len(longer) : longer[i] \in ProbFrame
    BY <1>2, <2>2
  <2> HIDE DEF m
  <2>4. /\ ring' \in Seq(ProbFrame) /\ Len(ring') = R
        /\ \A i \in 1 .. R : ring'[i] = longer[m + i - 1]
    BY <2>1, <2>2, <2>3, SubSeqProperties
  <2>5. \A i \in 1 .. Len(ring') : ring'[i] = raw'[Len(raw') - Len(ring') + i]
    <3> SUFFICES ASSUME NEW i \in 1 .. R
                 PROVE  ring'[i] = raw'[Len(raw') - R + i]
      BY <2>4
    <3>1. m + i - 1 \in 1 .. Len(longer)
      BY <1>1, <2>2
    <3>2. Len(raw') - Len(longer) + (m + i - 1) = Len(raw') - R + i
      BY <1>0, <2>2
    <3> QED
      BY <1>4, <2>4, <3>1, <3>2
  <2>6. Len(ring') = R
    BY <2>4
  <2>7. /\ Len(ring') <= Len(raw') /\ Len(ring') <= R
        /\ Len(raw') - Len(ring') >= Len(raw) - Len(ring)
    BY <1>0, <1>7, <2>6
  <2>8. RingAligned'
    BY <2>5, <2>7 DEF RingAligned
  <2> QED
    BY <1>3, <2>4, <2>7, <2>8
<1> QED
  BY <1>6, <1>7

LEMMA ObserveFrameKeeps ==
    ASSUME IndInv, ObserveFrame
    PROVE  IndInv'
<1> DEFINE p == Head(pending)
           w == Strongest(p, Speakers)
<1>1. /\ pending \in Seq(ProbFrame) /\ pending # << >>
      /\ batch \in Seq(ProbFrame) /\ timeline \in Seq(ProbFrame)
      /\ Len(batch) \in Nat /\ Len(pending) \in Nat /\ Len(timeline) \in Nat
      /\ Len(raw) \in Nat /\ Len(ring) \in Nat
      /\ Len(pending) <= Len(batch)
      /\ Len(raw) = Len(timeline) + Observed
      /\ changed \in BOOLEAN
  BY DEF IndInv, TypeOK, BatchAligned, ObserveFrame
<1>2. /\ p \in ProbFrame /\ p = pending[1]
      /\ Len(pending) \in Nat \ {0}
      /\ pending' \in Seq(ProbFrame) /\ Len(pending') = Len(pending) - 1
      /\ \A i \in 1 .. Len(pending') : pending'[i] = pending[i + 1]
  <2>1. pending' = Tail(pending)
    BY DEF ObserveFrame
  <2> QED
    BY <1>1, <2>1, HeadTailProperties, EmptySeq
<1>3. /\ timeline' = timeline /\ batch' = batch /\ pc' = pc
      /\ pc = "observing" /\ frame' = frame + 1
      /\ ring' = PushRaw(p) /\ raw' = Append(raw, p)
  BY DEF ObserveFrame
<1>4. /\ ring' \in Seq(ProbFrame) /\ Len(ring') <= RevisionFrames
      /\ raw' \in Seq(ProbFrame) /\ Len(raw') = Len(raw) + 1
      /\ \A i \in 1 .. Len(raw) : raw'[i] = raw[i]
      /\ raw'[Len(raw) + 1] = p
      /\ Len(raw') - Len(ring') >= Len(raw) - Len(ring)
      /\ RingAligned'
  BY <1>2, <1>3, PushKeepsAlignment
<1>5. /\ clean' \in [Speakers -> Nat] /\ fading' \in [Speakers -> Nat]
      /\ lastWin' \in [Speakers -> Int]
      /\ established' \subseteq Speakers /\ changed' \in BOOLEAN
      /\ ~changed' => ~changed /\ established' = established
  <2>1. /\ clean \in [Speakers -> Nat] /\ fading \in [Speakers -> Nat]
        /\ lastWin \in [Speakers -> Int] /\ established \subseteq Speakers
        /\ frame \in Nat
    BY DEF IndInv, TypeOK
  <2>2. CASE p[w] >= BirthSpeech /\ w \notin established
    <3>1. w \in Speakers
      <4>1. Speakers # {}
        BY GateConstants DEF Speakers
      <4> QED
        BY <1>2, <4>1, StrongestIsStrongest
    <3>2. CountWin(p, w)
      BY <2>2 DEF ObserveFrame
    <3> HIDE DEF p, w
    <3> DEFINE c == (IF NewEpisode(w) THEN 0 ELSE clean[w])
                       + (IF IsClean(p, w) THEN 1 ELSE 0)
               f == (IF NewEpisode(w) THEN 0 ELSE fading[w])
                       + (IF IsFading(p, w) THEN 1 ELSE 0)
               born == c >= CleanFrames \/ f >= FadingFrames
    <3>3. c \in Nat /\ f \in Nat
      BY <2>1, <3>1
    <3>4. /\ clean' = [clean EXCEPT ![w] = c]
          /\ fading' = [fading EXCEPT ![w] = f]
          /\ lastWin' = [lastWin EXCEPT ![w] = frame]
          /\ established' = IF born THEN established \cup {w} ELSE established
          /\ changed' = (changed \/ born)
      BY <3>2 DEF CountWin
    <3> HIDE DEF c, f, born
    <3>5. /\ clean' \in [Speakers -> Nat] /\ fading' \in [Speakers -> Nat]
          /\ lastWin' \in [Speakers -> Int]
      <4>1. clean' \in [Speakers -> Nat]
        BY <2>1, <3>3, <3>4, Zenon
      <4>2. fading' \in [Speakers -> Nat]
        BY <2>1, <3>3, <3>4, Zenon
      <4>3. lastWin' \in [Speakers -> Int]
        <5>1. frame \in Int
          BY <2>1
        <5> QED
          BY <2>1, <3>4, <5>1, Zenon
      <4> QED  BY <4>1, <4>2, <4>3
    <3>6. /\ established' \subseteq Speakers /\ changed' \in BOOLEAN
          /\ ~changed' => ~changed /\ established' = established
      BY <1>1, <2>1, <3>1, <3>4, Zenon
    <3> QED  BY <3>5, <3>6
  <2>3. CASE ~(p[w] >= BirthSpeech /\ w \notin established)
    <3>1. UNCHANGED <<counters, established, changed>>
      BY <2>3 DEF ObserveFrame
    <3> QED
      BY <1>1, <2>1, <3>1 DEF counters
  <2> QED  BY <2>2, <2>3
<1> HIDE DEF p, w
<1>6. TypeOK'
  <2>1. frame' \in Nat
    BY <1>3 DEF IndInv, TypeOK
  <2> QED
    BY <1>1, <1>2, <1>3, <1>4, <1>5, <2>1 DEF TypeOK
<1>7. Observed' = Observed + 1 /\ Observed \in Nat
  BY <1>1, <1>2, <1>3 DEF Observed
<1>8. BatchAligned'
  <2>1. \A i \in 1 .. Len(pending') : pending'[i] = batch'[Observed' + i]
    <3> SUFFICES ASSUME NEW i \in 1 .. Len(pending')
                 PROVE  pending'[i] = batch[Observed' + i]
      BY <1>3
    <3>1. i + 1 \in 1 .. Len(pending) /\ Observed' + i = Observed + (i + 1)
      BY <1>1, <1>2, <1>7
    <3>2. pending[i + 1] = batch[Observed + (i + 1)]
      BY <3>1 DEF IndInv, BatchAligned
    <3> QED
      BY <1>2, <3>1, <3>2
  <2>2. Len(raw') = Len(timeline') + Observed'
    BY <1>1, <1>3, <1>4, <1>7
  <2>3. \A i \in 1 .. Observed' : raw'[Len(timeline') + i] = batch'[i]
    <3> SUFFICES ASSUME NEW i \in 1 .. Observed'
                 PROVE  raw'[Len(timeline) + i] = batch[i]
      BY <1>3
    <3>1. CASE i <= Observed
      <4>1. i \in 1 .. Observed /\ Len(timeline) + i \in 1 .. Len(raw)
        BY <1>1, <1>7, <3>1
      <4> QED
        BY <1>4, <4>1 DEF IndInv, BatchAligned
    <3>2. CASE i > Observed
      <4>1. i = Observed + 1 /\ Len(timeline) + i = Len(raw) + 1
        <5>1. i \in Int /\ i <= Observed + 1 /\ Observed \in Int
          BY <1>7
        <5>2. i = Observed + 1
          BY <3>2, <5>1
        <5>3. Len(raw) = Len(timeline) + Observed /\ Len(timeline) \in Int
          BY <1>1
        <5> QED
          BY <5>1, <5>2, <5>3
      <4>2. pending[1] = batch[Observed + 1]
        <5>1. 1 \in 1 .. Len(pending)
          BY <1>2
        <5> QED
          BY <5>1 DEF IndInv, BatchAligned
      <4> QED
        BY <1>2, <1>4, <4>1, <4>2
    <3> QED
      BY <1>7, <3>1, <3>2
  <2>4. Len(pending') <= Len(batch')
    BY <1>1, <1>2, <1>3
  <2> QED
    BY <1>3, <2>1, <2>2, <2>3, <2>4 DEF BatchAligned
<1>9. \A i \in 1 .. Len(timeline) : raw'[i] = raw[i] /\ i <= Len(raw)
  <2>1. \A i \in 1 .. Len(timeline) : i \in 1 .. Len(raw)
    BY <1>1, <1>7
  <2> QED
    BY <1>1, <1>4, <2>1
<1>10. LabelsCurrent'
  <2> SUFFICES ASSUME ~changed', NEW i \in 1 .. Len(timeline),
                      i > Len(raw') - Len(ring')
               PROVE  timeline[i] = Relabel(raw'[i], established')
    BY <1>3 DEF LabelsCurrent
  <2>1. i > Len(raw) - Len(ring)
    <3>1. Len(ring') \in Nat
      BY <1>4
    <3> QED
      BY <1>1, <1>4, <3>1
  <2>2. ~changed /\ established' = established
    BY <1>5
  <2> QED
    BY <1>9, <2>1, <2>2 DEF IndInv, LabelsCurrent
<1>11. PeaksKept'
  BY <1>3, <1>9 DEF IndInv, PeaksKept
<1> QED
  BY <1>4, <1>6, <1>8, <1>10, <1>11 DEF IndInv

(* The committed timeline, before a birth revises its end.                 *)
Extended ==
    timeline \o [i \in 1 .. Len(batch) |-> Relabel(batch[i], established)]

LEMMA CommitFacts ==
    ASSUME IndInv, Commit
    PROVE  /\ Extended \in Seq(ProbFrame)
           /\ Len(Extended) = Len(raw)
           /\ Len(ring) <= Len(raw)
           /\ Len(timeline) <= Len(raw)
           /\ \A i \in 1 .. Len(timeline) : Extended[i] = timeline[i]
           /\ \A i \in 1 .. Len(raw) :
                 i > Len(timeline) => Extended[i] = Relabel(raw[i], established)
           /\ timeline' \in Seq(ProbFrame)
           /\ Len(timeline') = Len(raw)
           /\ \A i \in 1 .. Len(raw) :
                 timeline'[i] = IF changed /\ i > Len(raw) - Len(ring)
                                THEN Relabel(raw[i], established)
                                ELSE Extended[i]
<1> DEFINE labels == [i \in 1 .. Len(batch) |-> Relabel(batch[i], established)]
<1>1. /\ timeline \in Seq(ProbFrame) /\ batch \in Seq(ProbFrame)
      /\ raw \in Seq(ProbFrame) /\ ring \in Seq(ProbFrame)
      /\ established \subseteq Speakers /\ changed \in BOOLEAN
      /\ Len(timeline) \in Nat /\ Len(batch) \in Nat
      /\ Len(raw) \in Nat /\ Len(ring) \in Nat
  BY DEF IndInv, TypeOK
<1>2. Len(pending) = 0
  BY EmptySeq DEF Commit
<1>3. /\ Len(raw) = Len(timeline) + Len(batch)
      /\ Len(ring) <= Len(raw)
      /\ \A i \in 1 .. Len(batch) : raw[Len(timeline) + i] = batch[i]
      /\ \A i \in 1 .. Len(ring) : ring[i] = raw[Len(raw) - Len(ring) + i]
  <2>1. Observed = Len(batch)
    BY <1>1, <1>2 DEF Observed
  <2> QED
    BY <2>1 DEF IndInv, BatchAligned, RingAligned
<1>4. /\ labels \in Seq(ProbFrame) /\ Len(labels) = Len(batch)
      /\ \A i \in 1 .. Len(batch) : labels[i] = Relabel(batch[i], established)
  <2>1. \A i \in 1 .. Len(batch) : Relabel(batch[i], established) \in ProbFrame
    <3> SUFFICES ASSUME NEW i \in 1 .. Len(batch)
                 PROVE  Relabel(batch[i], established) \in ProbFrame
      OBVIOUS
    <3>1. batch[i] \in ProbFrame
      BY <1>1
    <3> QED  BY <1>1, <3>1, RelabelIsFrame
  <2> QED
    BY <1>1, <2>1
<1> HIDE DEF labels
<1>5. Extended = timeline \o labels
  BY DEF Extended, labels
<1>6. /\ Extended \in Seq(ProbFrame)
      /\ Len(Extended) = Len(raw)
      /\ \A i \in 1 .. Len(raw) :
            Extended[i] = IF i <= Len(timeline) THEN timeline[i]
                          ELSE labels[i - Len(timeline)]
  <2>1. /\ timeline \o labels \in Seq(ProbFrame)
        /\ Len(timeline \o labels) = Len(timeline) + Len(labels)
        /\ \A i \in 1 .. Len(timeline) + Len(labels) :
              (timeline \o labels)[i] = IF i <= Len(timeline) THEN timeline[i]
                                        ELSE labels[i - Len(timeline)]
    BY <1>1, <1>4, ConcatProperties
  <2>2. Len(raw) = Len(timeline) + Len(labels)
    BY <1>3, <1>4
  <2> QED
    BY <1>5, <2>1, <2>2
<1>7. \A i \in 1 .. Len(timeline) : Extended[i] = timeline[i]
  BY <1>1, <1>3, <1>6
<1>8. ASSUME NEW i \in 1 .. Len(raw), i > Len(timeline)
      PROVE  Extended[i] = Relabel(raw[i], established)
  <2>1. i - Len(timeline) \in 1 .. Len(batch)
    BY <1>1, <1>3, <1>8
  <2>2. Extended[i] = labels[i - Len(timeline)]
    BY <1>1, <1>6, <1>8
  <2>3. Len(timeline) + (i - Len(timeline)) = i
    BY <1>1
  <2> QED
    BY <1>3, <1>4, <2>1, <2>2, <2>3
<1>9. timeline' = IF changed THEN Revised(Extended) ELSE Extended
  BY DEF Commit, Extended
<1>10. Revised(Extended) =
          [i \in 1 .. Len(raw) |->
              IF i > Len(raw) - Len(ring) THEN Relabel(raw[i], established)
                                          ELSE Extended[i]]
  <2>1. (IF Len(ring) < Len(raw) THEN Len(ring) ELSE Len(raw)) = Len(ring)
    BY <1>1, <1>3
  <2>2. Revised(Extended) =
          [i \in 1 .. Len(raw) |->
              IF i > Len(raw) - Len(ring)
              THEN Relabel(ring[Len(ring) - Len(raw) + i], established)
              ELSE Extended[i]]
    BY <1>6, <2>1 DEF Revised
  <2>3. ASSUME NEW i \in 1 .. Len(raw), i > Len(raw) - Len(ring)
        PROVE  ring[Len(ring) - Len(raw) + i] = raw[i]
    <3>1. /\ Len(ring) - Len(raw) + i \in 1 .. Len(ring)
          /\ Len(raw) - Len(ring) + (Len(ring) - Len(raw) + i) = i
      BY <1>1, <2>3
    <3> QED
      BY <1>3, <3>1
  <2> QED
    BY <2>2, <2>3
<1>11. \A i \in 1 .. Len(raw) :
          raw[i] \in ProbFrame /\ Relabel(raw[i], established) \in ProbFrame
  <2> SUFFICES ASSUME NEW i \in 1 .. Len(raw)
               PROVE  raw[i] \in ProbFrame
                      /\ Relabel(raw[i], established) \in ProbFrame
    OBVIOUS
  <2>1. raw[i] \in ProbFrame
    BY <1>1
  <2> QED  BY <1>1, <2>1, RelabelIsFrame
<1>12. /\ timeline' \in Seq(ProbFrame) /\ Len(timeline') = Len(raw)
       /\ \A i \in 1 .. Len(raw) :
             timeline'[i] = IF changed /\ i > Len(raw) - Len(ring)
                            THEN Relabel(raw[i], established) ELSE Extended[i]
  <2>1. CASE ~changed
    BY <1>6, <1>9, <2>1
  <2>2. CASE changed
    <3> DEFINE e(i) == IF i > Len(raw) - Len(ring)
                       THEN Relabel(raw[i], established) ELSE Extended[i]
    <3>1. timeline' = [i \in 1 .. Len(raw) |-> e(i)]
      BY <1>9, <1>10, <2>2
    <3>2. \A i \in 1 .. Len(raw) : e(i) \in ProbFrame
      BY <1>6, <1>11
    <3> HIDE DEF e
    <3>3. /\ timeline' \in Seq(ProbFrame) /\ Len(timeline') = Len(raw)
          /\ \A i \in 1 .. Len(raw) : timeline'[i] = e(i)
      BY <1>1, <3>1, <3>2
    <3> QED
      BY <2>2, <3>3 DEF e
  <2> QED  BY <1>1, <2>1, <2>2
<1>13. Len(timeline) <= Len(raw)
  BY <1>1, <1>3
<1>14. \A i \in 1 .. Len(raw) :
          i > Len(timeline) => Extended[i] = Relabel(raw[i], established)
  BY <1>8
<1> QED
  BY <1>3, <1>6, <1>7, <1>12, <1>13, <1>14, Zenon

LEMMA CommitKeeps ==
    ASSUME IndInv, Commit
    PROVE  IndInv'
<1>1. /\ Extended \in Seq(ProbFrame)
      /\ Len(Extended) = Len(raw)
      /\ Len(ring) <= Len(raw)
      /\ Len(timeline) <= Len(raw)
      /\ \A i \in 1 .. Len(timeline) : Extended[i] = timeline[i]
      /\ \A i \in 1 .. Len(raw) :
            i > Len(timeline) => Extended[i] = Relabel(raw[i], established)
      /\ timeline' \in Seq(ProbFrame)
      /\ Len(timeline') = Len(raw)
      /\ \A i \in 1 .. Len(raw) :
            timeline'[i] = IF changed /\ i > Len(raw) - Len(ring)
                           THEN Relabel(raw[i], established)
                           ELSE Extended[i]
  BY CommitFacts
<1>2. /\ Len(raw) \in Nat /\ Len(timeline) \in Nat /\ Len(ring) \in Nat
      /\ established \subseteq Speakers /\ raw \in Seq(ProbFrame)
      /\ changed \in BOOLEAN
  BY DEF IndInv, TypeOK
<1>3. /\ batch' = << >> /\ pending = << >> /\ changed' = FALSE /\ pc' = "idle"
      /\ UNCHANGED <<frame, established, clean, fading, lastWin, ring,
                     pending, raw>>
  BY DEF Commit, counters
<1>4. << >> \in Seq(ProbFrame) /\ Len(<< >>) = 0
  BY EmptySeq
<1>5. TypeOK'
  BY <1>1, <1>3, <1>4 DEF IndInv, TypeOK
<1>6. BatchAligned'
  <2>1. Len(batch') = 0 /\ Len(pending') = 0 /\ Observed' = 0
    BY <1>3, <1>4 DEF Observed
  <2>2. Len(raw') = Len(timeline') + Observed'
    BY <1>1, <1>2, <1>3, <2>1
  <2> QED
    BY <1>3, <2>1, <2>2 DEF BatchAligned
<1>7. RingAligned'
  BY <1>3 DEF IndInv, RingAligned
<1>8. LabelsCurrent'
  <2> SUFFICES ASSUME NEW i \in 1 .. Len(raw), i > Len(raw) - Len(ring)
               PROVE  timeline'[i] = Relabel(raw[i], established)
    BY <1>1, <1>3 DEF LabelsCurrent
  <2>1. CASE changed
    BY <1>1, <2>1
  <2>2. CASE ~changed /\ i <= Len(timeline)
    <3>1. i \in 1 .. Len(timeline)
      BY <1>2, <2>2
    <3>2. timeline[i] = Relabel(raw[i], established)
      BY <2>2, <3>1 DEF IndInv, LabelsCurrent
    <3> QED
      BY <1>1, <2>2, <3>1, <3>2
  <2>3. CASE ~changed /\ ~(i <= Len(timeline))
    BY <1>1, <1>2, <2>3
  <2> QED  BY <1>2, <2>1, <2>2, <2>3
<1>9. PeaksKept'
  <2> SUFFICES ASSUME NEW i \in 1 .. Len(raw)
               PROVE  Peak(timeline'[i], Speakers) = Peak(raw[i], Speakers)
    BY <1>1, <1>3 DEF PeaksKept
  <2>1. Peak(Relabel(raw[i], established), Speakers) = Peak(raw[i], Speakers)
    <3>1. raw[i] \in ProbFrame
      BY <1>2
    <3> QED  BY <1>2, <3>1, RelabelKeepsPeak
  <2>2. CASE i <= Len(timeline)
    <3>1. i \in 1 .. Len(timeline)
      BY <1>2, <2>2
    <3>2. Peak(timeline[i], Speakers) = Peak(raw[i], Speakers)
      BY <3>1 DEF IndInv, PeaksKept
    <3>3. timeline'[i] \in {Relabel(raw[i], established), timeline[i]}
      BY <1>1, <3>1
    <3> QED
      BY <2>1, <3>2, <3>3
  <2>3. CASE i > Len(timeline)
    <3>1. timeline'[i] = Relabel(raw[i], established)
      BY <1>1, <2>3
    <3> QED
      BY <2>1, <3>1
  <2> QED  BY <1>2, <2>2, <2>3
<1> QED
  BY <1>5, <1>6, <1>7, <1>8, <1>9 DEF IndInv

LEMMA NextKeeps == IndInv /\ [Next]_vars => IndInv'
<1> SUFFICES ASSUME IndInv, [Next]_vars PROVE IndInv'
  OBVIOUS
<1>1. CASE Reset
  BY <1>1, ResetKeeps
<1>2. ASSUME NEW b \in Batches, BeginAppend(b) PROVE IndInv'
  BY <1>2, BeginAppendKeeps
<1>3. CASE ObserveFrame
  BY <1>3, ObserveFrameKeeps
<1>4. CASE Commit
  BY <1>4, CommitKeeps
<1>5. CASE UNCHANGED vars
  <2>1. TypeOK' /\ BatchAligned'
    BY <1>5 DEF IndInv, TypeOK, BatchAligned, Observed, vars, counters
  <2>2. RingAligned' /\ LabelsCurrent' /\ PeaksKept'
    BY <1>5 DEF IndInv, RingAligned, LabelsCurrent, PeaksKept, vars, counters
  <2> QED  BY <2>1, <2>2 DEF IndInv
<1> QED
  BY <1>1, <1>2, <1>3, <1>4, <1>5 DEF Next

(* Spec keeps the inductive invariant.                                     *)
THEOREM Invariance == Spec => []IndInv
<1>1. Init => IndInv
  BY InitIndInv
<1>2. IndInv /\ [Next]_vars => IndInv'
  BY NextKeeps
<1> QED
  BY <1>1, <1>2, PTL DEF Spec

---------------------------------------------------------------------------
(* What the invariant says of the gate's properties.                       *)

(* The gate's variables stay in their domains; the ring never outgrows the *)
(* window of revision (birth_gate.cpp, push_raw).                          *)
THEOREM TypeCorrect == Spec => []TypeOK
<1>1. IndInv => TypeOK
  BY DEF IndInv
<1> QED
  BY <1>1, Invariance, PTL

(* Between calls, every frame a birth can still rewrite is labelled by the *)
(* channels established now, whatever batches the frames and the births    *)
(* came in (birth_gate.cpp, append).                                       *)
THEOREM WindowStaysUpToDate == Spec => []WindowUpToDate
<1>1. ASSUME IndInv PROVE WindowUpToDate
  <2> SUFFICES ASSUME pc = "idle" PROVE
          /\ Len(timeline) = Len(raw)
          /\ \A i \in 1 .. Len(ring) :
                timeline[Len(timeline) - Len(ring) + i]
                    = Relabel(raw[Len(raw) - Len(ring) + i], established)
    BY DEF WindowUpToDate
  <2>1. /\ Len(timeline) = Len(raw) /\ ~changed
        /\ Len(raw) \in Nat /\ Len(ring) \in Nat /\ Len(ring) <= Len(raw)
    BY <1>1 DEF IndInv, TypeOK, BatchAligned, RingAligned, Observed
  <2>2. ASSUME NEW i \in 1 .. Len(ring)
        PROVE  timeline[Len(raw) - Len(ring) + i]
                   = Relabel(raw[Len(raw) - Len(ring) + i], established)
    <3> DEFINE k == Len(raw) - Len(ring) + i
    <3>1. k \in 1 .. Len(timeline) /\ k > Len(raw) - Len(ring)
      BY <2>1
    <3> HIDE DEF k
    <3>2. timeline[k] = Relabel(raw[k], established)
      BY <1>1, <2>1, <3>1 DEF IndInv, LabelsCurrent
    <3> QED
      BY <3>2 DEF k
  <2> QED
    BY <2>1, <2>2
<1> QED
  BY <1>1, Invariance, PTL

(* Folding moves the strongest probability of a frame, and never mutes or  *)
(* raises it (birth_gate.cpp, relabel).                                    *)
THEOREM StrongestVoiceIsKept == Spec => []StrongestVoiceKept
<1>1. IndInv => StrongestVoiceKept
  BY DEF IndInv, PeaksKept, StrongestVoiceKept
<1> QED
  BY <1>1, Invariance, PTL

(* In the window of revision, only established channels speak once there   *)
(* is one (birth_gate.cpp, relabel and append).                            *)
THEOREM TransientsStaySilent == Spec => []TransientsSilent
<1>1. ASSUME IndInv PROVE TransientsSilent
  <2> SUFFICES ASSUME pc = "idle", established # {},
                      NEW i \in 1 .. Len(ring),
                      NEW s \in Speakers \ established
               PROVE  timeline[Len(timeline) - Len(ring) + i][s] = 0
    BY DEF TransientsSilent
  <2>1. /\ Len(timeline) = Len(raw) /\ ~changed
        /\ Len(raw) \in Nat /\ Len(ring) \in Nat /\ Len(ring) <= Len(raw)
    BY <1>1 DEF IndInv, TypeOK, BatchAligned, RingAligned, Observed
  <2> DEFINE k == Len(timeline) - Len(ring) + i
  <2>2. k \in 1 .. Len(timeline) /\ k > Len(raw) - Len(ring)
    BY <2>1
  <2> HIDE DEF k
  <2>3. timeline[k] = Relabel(raw[k], established)
    BY <1>1, <2>1, <2>2 DEF IndInv, LabelsCurrent
  <2>4. timeline[k][s] = 0
    BY <2>3 DEF Relabel
  <2> QED
    BY <2>4 DEF k
<1> QED
  BY <1>1, Invariance, PTL

(* A frame followed by RevisionFrames others is final: no birth, in any    *)
(* batch, rewrites it (birth_gate.cpp, push_raw bounds what append can     *)
(* revise).                                                                *)
THEOREM OldFramesStayFrozen == Spec => OldFramesFrozen
<1> DEFINE Frozen ==
        \A i \in 1 .. Len(timeline) :
            i <= Len(timeline') - RevisionFrames => timeline'[i] = timeline[i]
<1>1. ASSUME IndInv, [Next]_vars PROVE [Frozen]_vars
  <2>1. CASE Commit
    <3>1. /\ Len(raw) \in Nat /\ Len(ring) \in Nat /\ Len(timeline) \in Nat
          /\ Len(ring) <= RevisionFrames /\ RevisionFrames \in Nat
      BY <1>1, GateConstants DEF IndInv, TypeOK
    <3>2. /\ Len(timeline) <= Len(raw)
          /\ Len(timeline') = Len(raw)
          /\ \A i \in 1 .. Len(timeline) : Extended[i] = timeline[i]
          /\ \A i \in 1 .. Len(raw) :
                timeline'[i] = IF changed /\ i > Len(raw) - Len(ring)
                               THEN Relabel(raw[i], established)
                               ELSE Extended[i]
      BY <1>1, <2>1, CommitFacts
    <3>3. ASSUME NEW i \in 1 .. Len(timeline),
                 i <= Len(timeline') - RevisionFrames
          PROVE  timeline'[i] = timeline[i]
      <4>1. i \in 1 .. Len(raw) /\ ~(i > Len(raw) - Len(ring))
        BY <3>1, <3>2, <3>3
      <4> QED
        BY <3>2, <4>1
    <3> QED  BY <3>3
  <2>2. CASE ~Commit
    <3>1. timeline' = timeline
      BY <1>1, <2>2 DEF Next, Reset, BeginAppend, ObserveFrame, vars
    <3> QED
      BY <3>1
  <2> QED  BY <2>1, <2>2
<1> QED
  BY <1>1, Invariance, PTL DEF Spec, OldFramesFrozen


---------------------------------------------------------------------------
(* Births.  What a channel's counters count is in the history: one frame   *)
(* more is a win more of its strongest channel, and of nobody else.        *)

LEMMA HistoryGrows ==
    ASSUME NEW h \in Seq(ProbFrame), NEW p \in ProbFrame
    PROVE  LET g == Append(h, p)
           IN  /\ Len(g) = Len(h) + 1 /\ Len(h) \in Nat /\ g[Len(h) + 1] = p
               /\ \A i \in 1 .. Len(h) : g[i] = h[i]
<1> QED
  BY AppendProperties, LenProperties

LEMMA WinsGrow ==
    ASSUME NEW h \in Seq(ProbFrame), NEW p \in ProbFrame, NEW s \in Speakers
    PROVE  /\ \A i \in Wins(h, s) : i \in 1 .. Len(h) /\ i \in Wins(Append(h, p), s)
           /\ \A i \in Wins(Append(h, p), s) :
                 \/ i \in Wins(h, s)
                 \/ i = Len(h) + 1 /\ Strongest(p, Speakers) = s /\ p[s] >= BirthSpeech
           /\ Strongest(p, Speakers) = s /\ p[s] >= BirthSpeech
                 => Len(h) + 1 \in Wins(Append(h, p), s)
<1> DEFINE g == Append(h, p)
<1>1. /\ Len(g) = Len(h) + 1 /\ Len(h) \in Nat /\ g[Len(h) + 1] = p
      /\ \A i \in 1 .. Len(h) : g[i] = h[i]
  BY HistoryGrows
<1>2. \A f, i : i \in Wins(f, s) <=>
         i \in 1 .. Len(f) /\ Strongest(f[i], Speakers) = s /\ f[i][s] >= BirthSpeech
  BY DEF Wins
<1> HIDE DEF g
<1>3. \A i \in 1 .. Len(g) : i \in 1 .. Len(h) \/ i = Len(h) + 1
  BY <1>1
<1>4. \A i \in 1 .. Len(h) : i \in 1 .. Len(g)
  BY <1>1
<1>5. Len(h) + 1 \in 1 .. Len(g)
  BY <1>1
<1>6. \A i \in Wins(h, s) : i \in 1 .. Len(h) /\ i \in Wins(g, s)
  BY <1>1, <1>2, <1>4
<1>7. \A i \in Wins(g, s) :
         \/ i \in Wins(h, s)
         \/ i = Len(h) + 1 /\ Strongest(p, Speakers) = s /\ p[s] >= BirthSpeech
  <2> SUFFICES ASSUME NEW i \in Wins(g, s)
               PROVE  \/ i \in Wins(h, s)
                      \/ i = Len(h) + 1 /\ Strongest(p, Speakers) = s /\ p[s] >= BirthSpeech
    OBVIOUS
  <2>1. i \in 1 .. Len(g) /\ Strongest(g[i], Speakers) = s /\ g[i][s] >= BirthSpeech
    BY <1>2
  <2>2. CASE i \in 1 .. Len(h)
    <3>1. g[i] = h[i]
      BY <1>1, <2>2
    <3> QED
      BY <1>2, <2>1, <2>2, <3>1
  <2>3. CASE i = Len(h) + 1
    <3>1. g[i] = p
      BY <1>1, <2>3
    <3> QED
      BY <2>1, <2>3, <3>1
  <2> QED
    BY <1>3, <2>1, <2>2, <2>3
<1>8. Strongest(p, Speakers) = s /\ p[s] >= BirthSpeech => Len(h) + 1 \in Wins(g, s)
  BY <1>1, <1>2, <1>5
<1> QED
  BY <1>6, <1>7, <1>8 DEF g

\* Frames of the history that count for s, as the counters of s count them.
LEMMA EpisodesFinite ==
    ASSUME NEW h \in Seq(ProbFrame), NEW s, NEW level
    PROVE  /\ IsFiniteSet(EpisodeWins(h, s, level))
           /\ Cardinality(EpisodeWins(h, s, level)) \in Nat
           /\ \A i \in EpisodeWins(h, s, level) : i \in 1 .. Len(h)
<1>1. EpisodeWins(h, s, level) \in SUBSET (1 .. Len(h))
  BY DEF EpisodeWins, Wins
<1>2. IsFiniteSet(1 .. Len(h))
  BY LenProperties, FS_Interval
<1> QED
  BY <1>1, <1>2, FS_Subset, FS_CardinalityType

\* A frame somebody else wins changes nothing for s.
LEMMA LostFrame ==
    ASSUME NEW h \in Seq(ProbFrame), NEW p \in ProbFrame, NEW s \in Speakers,
           ~(Strongest(p, Speakers) = s /\ p[s] >= BirthSpeech), NEW level
    PROVE  /\ Wins(Append(h, p), s) = Wins(h, s)
           /\ EpisodeWins(Append(h, p), s, level) = EpisodeWins(h, s, level)
<1> DEFINE g == Append(h, p)
<1>1. Wins(g, s) = Wins(h, s)
  <2>1. /\ \A i \in Wins(h, s) : i \in Wins(g, s)
        /\ \A i \in Wins(g, s) : i \in Wins(h, s)
    BY WinsGrow
  <2> HIDE DEF g
  <2> QED
    BY <2>1
<1>2. \A i \in Wins(h, s) : g[i] = h[i]
  BY WinsGrow, HistoryGrows
<1>3. \A i : InEpisode(g, s, i) <=> InEpisode(h, s, i)
  BY <1>1 DEF InEpisode
<1> QED
  BY <1>1, <1>2, <1>3 DEF EpisodeWins

\* A frame s wins is of its episode, and so is what was, if the gap is short.
LEMMA WonFrame ==
    ASSUME NEW h \in Seq(ProbFrame), NEW p \in ProbFrame, NEW s \in Speakers,
           Strongest(p, Speakers) = s, p[s] >= BirthSpeech, NEW level
    PROVE  LET g == Append(h, p)
           IN  /\ p[s] >= level => Len(h) + 1 \in EpisodeWins(g, s, level)
               /\ \A l \in Wins(h, s) :
                     /\ \A j \in Wins(h, s) : j <= l
                     /\ Len(h) + 1 - l <= GapFrames
                     => EpisodeWins(h, s, level) \subseteq EpisodeWins(g, s, level)
<1> DEFINE g == Append(h, p)
<1>1. /\ Len(g) = Len(h) + 1 /\ Len(h) \in Nat /\ g[Len(h) + 1] = p
      /\ \A i \in 1 .. Len(h) : g[i] = h[i]
  BY HistoryGrows
<1>2. /\ \A i \in Wins(h, s) : i \in 1 .. Len(h) /\ i \in Wins(g, s)
      /\ \A i \in Wins(g, s) : i \in Wins(h, s) \/ i = Len(h) + 1
      /\ Len(h) + 1 \in Wins(g, s)
  BY WinsGrow
<1> HIDE DEF g
<1>3. p[s] >= level => Len(h) + 1 \in EpisodeWins(g, s, level)
  <2>1. \A j \in Wins(g, s) : ~(j > Len(h) + 1)
    BY <1>1, <1>2
  <2>2. InEpisode(g, s, Len(h) + 1)
    BY <2>1 DEF InEpisode
  <2> QED
    BY <1>1, <1>2, <2>2 DEF EpisodeWins
<1>4. ASSUME NEW l \in Wins(h, s), \A j \in Wins(h, s) : j <= l,
             Len(h) + 1 - l <= GapFrames, NEW i \in EpisodeWins(h, s, level)
      PROVE  i \in EpisodeWins(g, s, level)
  <2>1. /\ i \in Wins(h, s) /\ h[i][s] >= level
        /\ \A j \in Wins(h, s) : j > i =>
              \E k \in Wins(h, s) : i <= k /\ k < j /\ j - k <= GapFrames
    BY DEF EpisodeWins, InEpisode
  <2>2. i \in Wins(g, s) /\ g[i][s] >= level /\ l \in Wins(g, s)
    BY <1>1, <1>2, <2>1
  <2>3. i <= l /\ l < Len(h) + 1
    BY <1>1, <1>2, <1>4, <2>1
  <2>4. ASSUME NEW j \in Wins(g, s), j > i
        PROVE  \E k \in Wins(g, s) : i <= k /\ k < j /\ j - k <= GapFrames
    <3>1. CASE j \in Wins(h, s)
      BY <1>2, <2>1, <2>4, <3>1
    <3>2. CASE j = Len(h) + 1
      <4>1. l < Len(h) + 1 /\ Len(h) + 1 - l <= GapFrames
        BY <1>4, <2>3
      <4>2. l < j /\ j - l <= GapFrames
        <5>1. l \in Int /\ Len(h) \in Int /\ GapFrames \in Int
          BY <1>1, <1>2, GateConstants
        <5> QED
          BY <3>2, <4>1, <5>1
      <4> QED
        BY <2>2, <2>3, <4>2
    <3> QED
      BY <1>2, <3>1, <3>2
  <2> QED
    BY <2>2, <2>4 DEF EpisodeWins, InEpisode
<1> QED
  BY <1>3, <1>4 DEF g

\* One win more, of an episode that goes on or begins: the count keeps up.
LEMMA OneWinMore ==
    ASSUME NEW h \in Seq(ProbFrame), NEW p \in ProbFrame, NEW s \in Speakers,
           Strongest(p, Speakers) = s, p[s] >= BirthSpeech, NEW level,
           NEW yes \in BOOLEAN, yes => p[s] >= level,
           NEW n \in Nat,
           \/ n = 0
           \/ /\ n <= Cardinality(EpisodeWins(h, s, level))
              /\ \E l \in Wins(h, s) : /\ \A j \in Wins(h, s) : j <= l
                                       /\ Len(h) + 1 - l <= GapFrames
    PROVE  n + (IF yes THEN 1 ELSE 0)
              <= Cardinality(EpisodeWins(Append(h, p), s, level))
<1> DEFINE g == Append(h, p)
           before == IF n = 0 THEN {} ELSE EpisodeWins(h, s, level)
           after == EpisodeWins(g, s, level)
           new == Len(h) + 1
<1>1. g \in Seq(ProbFrame) /\ Len(h) \in Nat
  BY AppendProperties, LenProperties
<1>2. IsFiniteSet(after) /\ Cardinality(after) \in Nat
  BY <1>1, EpisodesFinite
<1>3. /\ IsFiniteSet(before) /\ Cardinality(before) \in Nat
      /\ n <= Cardinality(before) /\ new \notin before
  <2>1. IsFiniteSet({}) /\ Cardinality({}) = 0
    BY FS_EmptySet
  <2>2. /\ IsFiniteSet(EpisodeWins(h, s, level))
        /\ Cardinality(EpisodeWins(h, s, level)) \in Nat
        /\ \A i \in EpisodeWins(h, s, level) : i \in 1 .. Len(h)
    BY EpisodesFinite
  <2>3. new \notin EpisodeWins(h, s, level)
    BY <1>1, <2>2
  <2> QED
    BY <2>1, <2>2, <2>3
<1>4. before \subseteq after /\ (yes => new \in after)
  BY WonFrame
<1> HIDE DEF before, after, new, g
<1>5. CASE yes
  <2>1. /\ before \cup {new} \subseteq after
        /\ IsFiniteSet(before \cup {new})
        /\ Cardinality(before \cup {new}) = Cardinality(before) + 1
    BY <1>3, <1>4, <1>5, FS_AddElement
  <2>2. Cardinality(before \cup {new}) <= Cardinality(after)
    BY <1>2, <2>1, FS_Subset
  <2>3. n + 1 <= Cardinality(after)
    BY <1>2, <1>3, <2>1, <2>2
  <2> QED
    BY <1>5, <2>3 DEF after, g
<1>6. CASE ~yes
  <2>1. Cardinality(before) <= Cardinality(after)
    BY <1>2, <1>4, FS_Subset
  <2>2. n + 0 <= Cardinality(after)
    BY <1>2, <1>3, <2>1
  <2> QED
    BY <1>6, <2>2 DEF after, g
<1> QED
  BY <1>5, <1>6

(* Where the last win of a channel is in the history; what was emitted     *)
(* before the last reset is there too, and no counter counts it.           *)
LastAt(s) == Len(raw) - frame + lastWin[s] + 1

WinsBacked(s) ==
    lastWin[s] # NeverWon =>
        /\ lastWin[s] \in 0 .. frame - 1
        /\ LastAt(s) \in Wins(raw, s)
        /\ \A j \in Wins(raw, s) : j <= LastAt(s)
        /\ clean[s] <= Cardinality(EpisodeWins(raw, s, BirthClean))
        /\ fading[s] <= Cardinality(EpisodeWins(raw, s, BirthFading))

CountersBacked ==
    /\ frame <= Len(raw)
    /\ \A s \in Speakers \ established : WinsBacked(s)

EarnedIn(s, h) ==
    \/ Cardinality(EpisodeWins(h, s, BirthClean)) >= CleanFrames
    \/ Cardinality(EpisodeWins(h, s, BirthFading)) >= FadingFrames

LEMMA CountersTyped ==
    ASSUME IndInv
    PROVE  /\ frame \in Nat /\ Len(raw) \in Nat /\ raw \in Seq(ProbFrame)
           /\ established \subseteq Speakers
           /\ lastWin \in [Speakers -> Int]
           /\ clean \in [Speakers -> Nat] /\ fading \in [Speakers -> Nat]
           /\ GapFrames \in Nat /\ NeverWon \in Int /\ NeverWon < 0
BY GateConstants, LenProperties DEF IndInv, TypeOK, NeverWon

\* A frame that does not count for s: nothing of it moves but its distance.
LEMMA FrameLost ==
    ASSUME IndInv, CountersBacked, NEW p \in ProbFrame, NEW s \in Speakers \ established,
           ~(Strongest(p, Speakers) = s /\ p[s] >= BirthSpeech),
           raw' = Append(raw, p), frame' = frame + 1,
           lastWin'[s] = lastWin[s], clean'[s] = clean[s], fading'[s] = fading[s]
    PROVE  WinsBacked(s)'
<1>1. /\ frame \in Nat /\ Len(raw) \in Nat /\ raw \in Seq(ProbFrame)
      /\ lastWin[s] \in Int
  BY CountersTyped
<1>2. Len(raw') = Len(raw) + 1
  BY <1>1, HistoryGrows
<1>3. \A level : /\ Wins(raw', s) = Wins(raw, s)
                 /\ EpisodeWins(raw', s, level) = EpisodeWins(raw, s, level)
  BY <1>1, LostFrame
<1>4. LastAt(s)' = LastAt(s)
  BY <1>1, <1>2 DEF LastAt
<1>5. WinsBacked(s)
  BY DEF CountersBacked
<1> SUFFICES ASSUME lastWin'[s] # NeverWon
             PROVE  /\ lastWin'[s] \in 0 .. frame' - 1
                    /\ LastAt(s)' \in Wins(raw', s)
                    /\ \A j \in Wins(raw', s) : j <= LastAt(s)'
                    /\ clean'[s] <= Cardinality(EpisodeWins(raw', s, BirthClean))
                    /\ fading'[s] <= Cardinality(EpisodeWins(raw', s, BirthFading))
  BY DEF WinsBacked
<1>6. /\ lastWin[s] \in 0 .. frame - 1
      /\ LastAt(s) \in Wins(raw, s)
      /\ \A j \in Wins(raw, s) : j <= LastAt(s)
      /\ clean[s] <= Cardinality(EpisodeWins(raw, s, BirthClean))
      /\ fading[s] <= Cardinality(EpisodeWins(raw, s, BirthFading))
  BY <1>5 DEF WinsBacked
<1>7. lastWin'[s] \in 0 .. frame' - 1
  BY <1>1, <1>6
<1> QED
  BY <1>3, <1>4, <1>6, <1>7

\* A frame that counts for w is one win more of its episode.
LEMMA FrameWon ==
    ASSUME IndInv, CountersBacked, NEW p \in ProbFrame, NEW w \in Speakers \ established,
           Strongest(p, Speakers) = w, p[w] >= BirthSpeech,
           raw' = Append(raw, p), frame' = frame + 1, CountWin(p, w)
    PROVE  /\ WinsBacked(w)'
           /\ w \in established' => EarnedIn(w, raw')
<1> DEFINE c0 == IF NewEpisode(w) THEN 0 ELSE clean[w]
           f0 == IF NewEpisode(w) THEN 0 ELSE fading[w]
           isC == IsClean(p, w)
           isF == IsFading(p, w)
           c == c0 + (IF isC THEN 1 ELSE 0)
           f == f0 + (IF isF THEN 1 ELSE 0)
<1>1. /\ frame \in Nat /\ Len(raw) \in Nat /\ raw \in Seq(ProbFrame)
      /\ lastWin \in [Speakers -> Int] /\ lastWin[w] \in Int
      /\ clean \in [Speakers -> Nat] /\ fading \in [Speakers -> Nat]
      /\ clean[w] \in Nat /\ fading[w] \in Nat
      /\ GapFrames \in Nat /\ NeverWon \in Int /\ NeverWon < 0
  BY CountersTyped
<1>2. Len(raw') = Len(raw) + 1
  BY <1>1, HistoryGrows
<1>3. /\ clean'[w] = c /\ fading'[w] = f /\ lastWin'[w] = frame
      /\ w \in established' => c >= CleanFrames \/ f >= FadingFrames
  <2>1. /\ clean' = [clean EXCEPT ![w] = c] /\ fading' = [fading EXCEPT ![w] = f]
        /\ lastWin' = [lastWin EXCEPT ![w] = frame]
        /\ established' = IF c >= CleanFrames \/ f >= FadingFrames
                          THEN established \cup {w} ELSE established
    BY DEF CountWin
  <2> HIDE DEF c, f
  <2> QED
    BY <1>1, <2>1
<1>4. c0 \in Nat /\ f0 \in Nat /\ isC \in BOOLEAN /\ isF \in BOOLEAN
      /\ (isC => p[w] >= BirthClean) /\ (isF => p[w] >= BirthFading)
  BY <1>1 DEF IsClean, IsFading
<1>5. \/ c0 = 0 /\ f0 = 0
      \/ /\ c0 <= Cardinality(EpisodeWins(raw, w, BirthClean))
         /\ f0 <= Cardinality(EpisodeWins(raw, w, BirthFading))
         /\ \E l \in Wins(raw, w) : /\ \A j \in Wins(raw, w) : j <= l
                                    /\ Len(raw) + 1 - l <= GapFrames
  <2>1. CASE NewEpisode(w)
    BY <2>1
  <2>2. CASE ~NewEpisode(w)
    <3>1. lastWin[w] # NeverWon
      BY <1>1, <2>2 DEF NewEpisode, NeverWon
    <3>2. /\ LastAt(w) \in Wins(raw, w)
          /\ \A j \in Wins(raw, w) : j <= LastAt(w)
          /\ clean[w] <= Cardinality(EpisodeWins(raw, w, BirthClean))
          /\ fading[w] <= Cardinality(EpisodeWins(raw, w, BirthFading))
      BY <3>1 DEF CountersBacked, WinsBacked
    <3>3. Len(raw) + 1 - LastAt(w) <= GapFrames
      BY <1>1, <2>2 DEF LastAt, NewEpisode
    <3> QED
      BY <2>2, <3>2, <3>3
  <2> QED
    BY <2>1, <2>2
<1> HIDE DEF c0, f0, isC, isF
<1>6. c <= Cardinality(EpisodeWins(raw', w, BirthClean))
  BY <1>1, <1>4, <1>5, OneWinMore
<1>7. f <= Cardinality(EpisodeWins(raw', w, BirthFading))
  BY <1>1, <1>4, <1>5, OneWinMore
<1>8. LastAt(w)' = Len(raw) + 1
  BY <1>1, <1>2, <1>3 DEF LastAt
<1>9. /\ Len(raw) + 1 \in Wins(raw', w)
      /\ \A j \in Wins(raw', w) : j <= Len(raw) + 1
  <2>1. /\ \A j \in Wins(raw', w) : j \in Wins(raw, w) \/ j = Len(raw) + 1
        /\ \A j \in Wins(raw, w) : j \in 1 .. Len(raw)
        /\ Len(raw) + 1 \in Wins(raw', w)
    BY <1>1, WinsGrow
  <2>2. ASSUME NEW j \in Wins(raw', w) PROVE j <= Len(raw) + 1
    <3>1. j \in 1 .. Len(raw) \/ j = Len(raw) + 1
      BY <2>1
    <3> QED
      BY <1>1, <3>1
  <2> QED
    BY <2>1, <2>2
<1>10. lastWin'[w] \in 0 .. frame' - 1
  BY <1>1, <1>3
<1> HIDE DEF c, f
<1>11. WinsBacked(w)'
  BY <1>3, <1>6, <1>7, <1>8, <1>9, <1>10 DEF WinsBacked
<1>12. w \in established' => EarnedIn(w, raw')
  <2>1. c \in Nat /\ f \in Nat /\ CleanFrames \in Nat /\ FadingFrames \in Nat
    BY <1>4, GateConstants DEF c, f
  <2>2. /\ Cardinality(EpisodeWins(raw', w, BirthClean)) \in Nat
        /\ Cardinality(EpisodeWins(raw', w, BirthFading)) \in Nat
    <3>1. raw' \in Seq(ProbFrame)
      BY <1>1, AppendProperties
    <3> QED
      BY <3>1, EpisodesFinite
  <2> QED
    BY <1>3, <1>6, <1>7, <2>1, <2>2 DEF EarnedIn
<1> QED
  BY <1>11, <1>12

LEMMA BackedByFrame ==
    ASSUME IndInv, CountersBacked, ObserveFrame
    PROVE  /\ CountersBacked'
           /\ \A s \in established' \ established : EarnedIn(s, raw')
<1>0. PICK p \in ProbFrame : p = Head(pending)
  <2>1. pending \in Seq(ProbFrame) /\ pending # << >>
    BY DEF IndInv, TypeOK, ObserveFrame
  <2> QED
    BY <2>1, HeadTailProperties
<1>1. PICK w \in Speakers : w = Strongest(p, Speakers)
  <2>1. Speakers # {}
    BY GateConstants DEF Speakers
  <2> QED
    BY <2>1, StrongestIsStrongest
<1> DEFINE counted == p[w] >= BirthSpeech /\ w \notin established
<1>2. /\ frame \in Nat /\ Len(raw) \in Nat /\ raw \in Seq(ProbFrame)
      /\ lastWin \in [Speakers -> Int] /\ established \subseteq Speakers
      /\ clean \in [Speakers -> Nat] /\ fading \in [Speakers -> Nat]
  BY CountersTyped
<1>3. /\ raw' = Append(raw, p) /\ frame' = frame + 1
      /\ IF counted THEN CountWin(p, w)
         ELSE UNCHANGED <<counters, established, changed>>
  BY <1>0, <1>1 DEF ObserveFrame
<1>4. frame' <= Len(raw')
  <2>1. frame <= Len(raw)
    BY DEF CountersBacked
  <2>2. Len(raw') = Len(raw) + 1
    BY <1>1, <1>2, <1>3, HistoryGrows
  <2> QED
    BY <1>2, <1>3, <2>1, <2>2
<1>5. CASE counted
  <2>1. CountWin(p, w) /\ w \in Speakers \ established
    BY <1>1, <1>3, <1>5
  <2>2. WinsBacked(w)' /\ (w \in established' => EarnedIn(w, raw'))
    BY <1>1, <1>3, <1>5, <2>1, FrameWon
  <2>3. /\ established \subseteq established' /\ established' \subseteq established \cup {w}
        /\ \A s \in Speakers : s # w =>
              lastWin'[s] = lastWin[s] /\ clean'[s] = clean[s] /\ fading'[s] = fading[s]
    BY <1>2, <2>1 DEF CountWin
  <2>4. ASSUME NEW s \in Speakers \ established', s # w PROVE WinsBacked(s)'
    <3>1. s \in Speakers \ established /\ Strongest(p, Speakers) # s
      BY <1>1, <2>3, <2>4
    <3> QED
      BY <1>1, <1>3, <2>3, <2>4, <3>1, FrameLost
  <2>5. ASSUME NEW s \in Speakers \ established' PROVE WinsBacked(s)'
    <3>1. CASE s = w
      BY <2>2, <3>1
    <3>2. CASE s # w
      BY <2>4, <3>2
    <3> QED
      BY <3>1, <3>2
  <2> QED
    BY <1>4, <2>2, <2>3, <2>5 DEF CountersBacked
<1>6. CASE ~counted
  <2>1. /\ lastWin' = lastWin /\ clean' = clean /\ fading' = fading
        /\ established' = established
    BY <1>3, <1>6 DEF counters
  <2>2. ASSUME NEW s \in Speakers \ established PROVE WinsBacked(s)'
    <3>1. ~(Strongest(p, Speakers) = s /\ p[s] >= BirthSpeech)
      BY <1>1, <1>6
    <3> QED
      BY <1>1, <1>3, <2>1, <3>1, FrameLost
  <2>3. \A s \in Speakers \ established' : WinsBacked(s)'
    BY <2>1, <2>2
  <2> QED
    BY <1>4, <2>1, <2>3 DEF CountersBacked
<1> QED
  BY <1>5, <1>6

LEMMA BackedStep ==
    ASSUME IndInv, CountersBacked, [Next]_vars
    PROVE  /\ CountersBacked'
           /\ \A s \in established' \ established : EarnedIn(s, raw')
<1>1. CASE Reset
  <2>1. /\ frame' = 0 /\ established' = {} /\ raw' = raw
        /\ \A s \in Speakers : lastWin'[s] = NeverWon
    BY <1>1 DEF Reset
  <2>2. frame' <= Len(raw')
    BY <2>1, CountersTyped
  <2>3. \A s \in Speakers \ established' : WinsBacked(s)'
    BY <2>1 DEF WinsBacked
  <2> QED
    BY <2>1, <2>2, <2>3 DEF CountersBacked
<1>2. CASE ObserveFrame
  BY <1>2, BackedByFrame
<1>3. CASE UNCHANGED << frame, established, counters, raw >>
  <2>1. \A s \in Speakers : WinsBacked(s)' <=> WinsBacked(s)
    BY <1>3 DEF WinsBacked, LastAt, counters
  <2> QED
    BY <1>3, <2>1 DEF CountersBacked
<1> QED
  BY <1>1, <1>2, <1>3 DEF Next, BeginAppend, Commit, vars

(* A channel is born of what it said within one episode: whatever the      *)
(* batches and resets, the frames of the episode that ends with its birth  *)
(* hold enough clean wins of it, or enough fading ones (observe).          *)
THEOREM BirthsAreEarned == Spec => BirthsEarned
<1> DEFINE Earned == \A s \in established' \ established : EarnedIn(s, raw')
<1>1. Init => CountersBacked
  <2> SUFFICES ASSUME Init PROVE CountersBacked
    OBVIOUS
  <2>1. frame = 0 /\ raw = << >> /\ \A s \in Speakers : lastWin[s] = NeverWon
    BY DEF Init, Fresh
  <2> QED
    BY <2>1 DEF CountersBacked, WinsBacked
<1>2. IndInv /\ CountersBacked /\ [Next]_vars => CountersBacked' /\ [Earned]_vars
  BY BackedStep
<1>3. [Earned]_vars => [\A s \in established' \ established :
          \/ Cardinality(EpisodeWins(raw', s, BirthClean)) >= CleanFrames
          \/ Cardinality(EpisodeWins(raw', s, BirthFading)) >= FadingFrames]_vars
  BY DEF EarnedIn
<1> QED
  BY <1>1, <1>2, <1>3, Invariance, PTL DEF Spec, BirthsEarned
=============================================================================
