---------------------------- MODULE AoscProofs ----------------------------
(***************************************************************************)
(* Proofs about Aosc, for every set of geometries, every sequence of       *)
(* chunks and whatever the network predicts.                               *)
(* First the contents of the buffers, in one inductive invariant; then the *)
(* silence that is counted, a fold; then what a compression selects.       *)
(***************************************************************************)
EXTENDS Aosc, SelectionProofs, FiniteSetTheorems, SequenceTheorems, TLAPS

Pred == [of : Int, p : Probs]

---------------------------------------------------------------------------
(* Sequences built by position.                                            *)

LEMMA TupleIsSeq ==
    ASSUME NEW S, NEW n \in Nat, NEW f, f \in [1 .. n -> S]
    PROVE  f \in Seq(S) /\ Len(f) = n
  OBVIOUS

(* A slice of k elements after the first m.                                *)
LEMMA SliceProperties ==
    ASSUME NEW S, NEW s, NEW m \in Nat, NEW k \in Nat,
           \A i \in m + 1 .. m + k : s[i] \in S
    PROVE  /\ SubSeq(s, m + 1, m + k) \in Seq(S)
           /\ Len(SubSeq(s, m + 1, m + k)) = k
           /\ \A j \in 1 .. k : SubSeq(s, m + 1, m + k)[j] = s[m + j]
<1> DEFINE slice == SubSeq(s, m + 1, m + k)
<1>1. m + 1 \in Int /\ m + k \in Int
  OBVIOUS
<1>2. /\ slice \in Seq(S)
      /\ Len(slice) = IF m + 1 <= m + k THEN m + k - (m + 1) + 1 ELSE 0
      /\ \A i \in 1 .. m + k - (m + 1) + 1 : slice[i] = s[m + 1 + i - 1]
  BY ONLY <1>1, SubSeqProperties,
          \A i \in m + 1 .. m + k : s[i] \in S
<1> HIDE DEF slice
<1>3. Len(slice) = k /\ m + k - (m + 1) + 1 = k
  BY <1>2
<1>4. \A j \in 1 .. k : m + 1 + j - 1 = m + j
  OBVIOUS
<1>5. \A j \in 1 .. k : slice[j] = s[m + j]
  BY <1>2, <1>3, <1>4
<1> QED
  BY <1>2, <1>3, <1>5 DEF slice

LEMMA PrefixProperties ==
    ASSUME NEW S, NEW s, NEW k \in Nat, \A i \in 1 .. k : s[i] \in S
    PROVE  /\ SubSeq(s, 1, k) \in Seq(S)
           /\ Len(SubSeq(s, 1, k)) = k
           /\ \A j \in 1 .. k : SubSeq(s, 1, k)[j] = s[j]
<1>1. 0 + 1 = 1 /\ 0 + k = k /\ \A j \in 1 .. k : 0 + j = j
  OBVIOUS
<1> DEFINE slice == SubSeq(s, 0 + 1, 0 + k)
<1>2. /\ slice \in Seq(S) /\ Len(slice) = k
      /\ \A j \in 1 .. k : slice[j] = s[0 + j]
  BY <1>1, SliceProperties
<1>3. SubSeq(s, 1, k) = slice
  BY <1>1
<1> HIDE DEF slice
<1>4. \A j \in 1 .. k : slice[j] = s[j]
  BY <1>1, <1>2
<1> QED
  BY <1>2, <1>3, <1>4

LEMMA ConcatThree ==
    ASSUME NEW a \in Seq(Int), NEW b \in Seq(Int), NEW c \in Seq(Int)
    PROVE  /\ a \o b \o c \in Seq(Int)
           /\ Len(a \o b \o c) = Len(a) + Len(b) + Len(c)
           /\ \A i \in 1 .. Len(a) : (a \o b \o c)[i] = a[i]
           /\ \A i \in 1 .. Len(b) : (a \o b \o c)[Len(a) + i] = b[i]
           /\ \A i \in 1 .. Len(c) : (a \o b \o c)[Len(a) + Len(b) + i] = c[i]
<1> DEFINE ab == a \o b
<1>1. Len(a) \in Nat /\ Len(b) \in Nat /\ Len(c) \in Nat
  BY LenProperties
<1>2. ab \in Seq(Int) /\ Len(ab) = Len(a) + Len(b)
  BY ConcatProperties
<1>3. /\ \A i \in 1 .. Len(a) : ab[i] = a[i]
      /\ \A i \in 1 .. Len(b) : ab[Len(a) + i] = b[i]
  BY <1>1, ConcatProperties
<1> HIDE DEF ab
<1>4. ab \o c \in Seq(Int) /\ Len(ab \o c) = Len(ab) + Len(c)
  BY <1>2, ConcatProperties
<1>5. /\ \A i \in 1 .. Len(ab) : (ab \o c)[i] = ab[i]
      /\ \A i \in 1 .. Len(c) : (ab \o c)[Len(ab) + i] = c[i]
  <2>1. ab \in Seq(Int) /\ Len(ab) \in Nat /\ Len(c) \in Nat
    BY <1>1, <1>2
  <2>2. \A i \in 1 .. Len(ab) : (ab \o c)[i] = ab[i]
    BY <2>1, ConcatProperties
  <2>3. \A i \in 1 .. Len(c) : (ab \o c)[Len(ab) + i] = c[i]
    BY <2>1, ConcatProperties
  <2> QED
    BY <2>2, <2>3
<1>6. /\ \A i \in 1 .. Len(a) : i \in 1 .. Len(ab)
      /\ \A i \in 1 .. Len(b) : Len(a) + i \in 1 .. Len(ab)
  BY <1>1, <1>2
<1>7. /\ \A i \in 1 .. Len(a) : (ab \o c)[i] = a[i]
      /\ \A i \in 1 .. Len(b) : (ab \o c)[Len(a) + i] = b[i]
      /\ \A i \in 1 .. Len(c) : (ab \o c)[Len(a) + Len(b) + i] = c[i]
  BY <1>2, <1>3, <1>5, <1>6
<1> QED
  BY <1>2, <1>4, <1>7 DEF ab

---------------------------------------------------------------------------
(* What an accepted geometry gives.                                        *)
LEMMA GeometryLengths ==
    ASSUME NEW g \in Geometries
    PROVE  /\ g.spkcache_len \in Nat /\ g.spkcache_len >= 1
           /\ g.fifo_len \in Nat
           /\ g.spkcache_update_period \in Nat
           /\ g.spkcache_update_period >= 1
<1>1. g \in Geometry /\ ValidGeometry(g)
  BY AoscConstants
<1>2. (1 + SilFramesPerSpk) * NumSpeakers = NumSpeakers + SilFramesPerSpk * NumSpeakers
  BY ModelConstants
<1>3. SilFramesPerSpk * NumSpeakers >= 0
  BY ModelConstants
<1>4. SilFramesPerSpk * NumSpeakers \in Int
  BY ModelConstants
<1>5. (1 + SilFramesPerSpk) * NumSpeakers >= 1
  BY <1>2, <1>3, <1>4, ModelConstants
<1>6. (1 + SilFramesPerSpk) * NumSpeakers \in Int
  BY ModelConstants
<1> QED
  BY <1>1, <1>5, <1>6 DEF Geometry, ValidGeometry

(* An overflow hands over some frames, and enough for the rest to fit.     *)
LEMMA PoppedFits ==
    ASSUME NEW g \in Geometries, NEW valid \in Nat, NEW l2 \in Nat
    PROVE  /\ Popped(g, valid, l2) \in 0 .. l2 + valid
           /\ l2 + valid <= g.fifo_len => Popped(g, valid, l2) = 0
           /\ l2 + valid > g.fifo_len =>
                 /\ Popped(g, valid, l2) >= 1
                 /\ l2 + valid - Popped(g, valid, l2) <= g.fifo_len
BY GeometryLengths DEF Popped, Min2, Max2

---------------------------------------------------------------------------
(* Compression copies rows of speech, each with its own prediction.        *)

(* A boost never revives a row that was given up.                          *)
LEMMA BoostedRows ==
    ASSUME NEW C, NEW k, NEW boost, NEW c \in Boosted(C, k, boost)
    PROVE  \E d \in C : /\ d.spk = c.spk /\ d.row = c.row
                        /\ c.score # NegInf => d.score # NegInf
<1> DEFINE top == UNION {Best({e \in C : e.spk = s}, k) : s \in Speakers}
<1>1. top \subseteq C
  BY DEF Best
<1>2. c \in (C \ top) \cup
            {[spk |-> e.spk, row |-> e.row, score |-> Plus(e.score, boost)] :
                e \in top}
  BY DEF Boosted
<1> HIDE DEF top
<1>3. CASE c \in C
  BY <1>3
<1>4. CASE c \in {[spk |-> e.spk, row |-> e.row, score |-> Plus(e.score, boost)] :
                    e \in top}
  <2>1. PICK e \in top :
            c = [spk |-> e.spk, row |-> e.row, score |-> Plus(e.score, boost)]
    BY <1>4
  <2>2. c.score # NegInf => e.score # NegInf
    BY <2>1 DEF Plus
  <2> QED
    BY <1>1, <2>1, <2>2
<1> QED
  BY <1>2, <1>3, <1>4

LEMMA PickedRowSpeaks ==
    ASSUME NEW g \in Geometries, NEW preds \in Seq(Pred),
           NEW c \in Picked(g, preds), c.row <= Len(preds)
    PROVE  /\ c.row \in 1 .. Len(preds)
           /\ \E s \in Speakers : preds[c.row].p[s] > 50
<1>1. c \in Scored(g, preds) \cup SilenceSlots(Len(preds)) /\ c.score # NegInf
  BY DEF Picked, Best
<1>2. c \notin SilenceSlots(Len(preds))
  <2> SUFFICES ASSUME c \in SilenceSlots(Len(preds)) PROVE FALSE
    OBVIOUS
  <2>1. PICK i \in 1 .. SilFramesPerSpk : c.row = Len(preds) + i
    BY DEF SilenceSlots
  <2> QED
    BY <2>1, LenProperties
<1>3. PICK d \in Boosted(Candidates(g, preds), StrongK(g), -2 * LogHalf) :
          d.row = c.row /\ d.score # NegInf
  BY <1>1, <1>2, BoostedRows DEF Scored
<1>4. PICK e \in Candidates(g, preds) : e.row = d.row /\ e.score # NegInf
  BY <1>3, BoostedRows
<1>5. PICK f \in 1 .. Len(preds), s \in Speakers :
          e = [spk |-> s, row |-> f, score |-> BaseScore(g, preds, f, s)]
  BY <1>4 DEF Candidates
<1>6. BaseScore(g, preds, f, s) # NegInf
  BY <1>4, <1>5
<1>7. SpeechScore(preds[f].p, s) # NegInf
  BY <1>6 DEF BaseScore, Plus
<1>8. preds[f].p[s] > 50
  BY <1>7 DEF SpeechScore
<1> QED
  BY <1>3, <1>4, <1>5, <1>8

LEMMA PickOrderRows ==
    ASSUME NEW g \in Geometries, NEW preds \in Seq(Pred)
    PROVE  LET order == PickOrder(g, preds)
           IN  /\ order \in [1 .. g.spkcache_len -> 0 .. Len(preds)]
               /\ \A j \in 1 .. g.spkcache_len :
                     order[j] # 0 =>
                        \E s \in Speakers : preds[order[j]].p[s] > 50
<1> DEFINE picked == Picked(g, preds)
           place(c) == 1 + Cardinality({d \in picked : Before(d, c)})
           at(j) == {c \in picked : place(c) = j /\ c.row <= Len(preds)}
           from(j) == IF at(j) = {} THEN 0 ELSE (CHOOSE c \in at(j) : TRUE).row
<1>1. PickOrder(g, preds) = [j \in 1 .. g.spkcache_len |-> from(j)]
  BY DEF PickOrder
<1>2. ASSUME NEW j
      PROVE  /\ from(j) \in 0 .. Len(preds)
             /\ from(j) # 0 => \E s \in Speakers : preds[from(j)].p[s] > 50
  <2>1. CASE at(j) = {}
    BY <2>1, LenProperties
  <2>2. CASE at(j) # {}
    <3>1. PICK c \in picked : c.row <= Len(preds) /\ from(j) = c.row
      BY <2>2
    <3> HIDE DEF from
    <3> QED
      BY <3>1, PickedRowSpeaks
  <2> QED
    BY <2>1, <2>2
<1> HIDE DEF from
<1> QED
  BY <1>1, <1>2


(* What a compression may make of a cache heard so far.                    *)
CompressionOf(g, heard, cache, newCache, newPreds) ==
    /\ newCache \in Seq(Int) /\ Len(newCache) = g.spkcache_len
    /\ newPreds \in Seq(Pred) /\ Len(newPreds) = g.spkcache_len
    /\ \A j \in 1 .. g.spkcache_len :
          /\ newCache[j] = Silence
                \/ \E i \in 1 .. Len(cache) : newCache[j] = cache[i]
          /\ newPreds[j] \in PredictionsOf(heard, newCache[j])
          /\ newCache[j] # Silence =>
                \E s \in Speakers : newPreds[j].p[s] > 50

LEMMA CompressedAligned ==
    ASSUME NEW g \in Geometries, NEW heard \in Seq(Voice),
           NEW cache \in Seq(Int), NEW preds \in Seq(Pred),
           Len(cache) = Len(preds),
           \A j \in 1 .. Len(cache) : preds[j] \in PredictionsOf(heard, cache[j])
    PROVE  CompressionOf(g, heard, cache,
                         CompressedCache(cache, PickOrder(g, preds)),
                         CompressedPreds(preds, PickOrder(g, preds)))
<1> DEFINE order == PickOrder(g, preds)
           n == g.spkcache_len
           silent == [of |-> Silence, p |-> Quiet]
           newCache == CompressedCache(cache, order)
           newPreds == CompressedPreds(preds, order)
<1>1. /\ order \in [1 .. n -> 0 .. Len(preds)]
      /\ \A j \in 1 .. n :
            order[j] # 0 => \E s \in Speakers : preds[order[j]].p[s] > 50
  BY PickOrderRows
<1>2. n \in Nat /\ Len(preds) \in Nat
  BY GeometryLengths, LenProperties
<1> HIDE DEF order, n
<1>3. newCache = [j \in 1 .. n |->
                    IF order[j] = 0 THEN Silence ELSE cache[order[j]]]
  BY <1>1 DEF CompressedCache, order
<1>4. newPreds = [j \in 1 .. n |->
                    IF order[j] = 0 THEN silent ELSE preds[order[j]]]
  BY <1>1 DEF CompressedPreds, order
<1>5. silent \in Pred
  BY DEF Pred, Silence, Quiet, Probs
<1>6. silent \in PredictionsOf(heard, Silence)
  <2>1. Silence \notin 1 .. Len(heard)
    BY LenProperties DEF Silence
  <2>2. silent = Prediction(heard, Silence, TRUE)
    BY <2>1 DEF Prediction
  <2> QED
    BY <2>2 DEF PredictionsOf
<1> HIDE DEF silent, newCache, newPreds
<1>7. ASSUME NEW j \in 1 .. n
      PROVE  /\ newCache[j] \in Int /\ newPreds[j] \in Pred
             /\ newCache[j] = Silence
                   \/ \E i \in 1 .. Len(cache) : newCache[j] = cache[i]
             /\ newPreds[j] \in PredictionsOf(heard, newCache[j])
             /\ newCache[j] # Silence =>
                   \E s \in Speakers : newPreds[j].p[s] > 50
  <2>1. CASE order[j] = 0
    BY <2>1, <1>3, <1>4, <1>5, <1>6 DEF Silence
  <2>2. CASE order[j] # 0
    <3>1. order[j] \in 1 .. Len(preds)
      BY <2>2, <1>1, <1>2
    <3>2. newCache[j] = cache[order[j]] /\ newPreds[j] = preds[order[j]]
      BY <2>2, <1>3, <1>4
    <3>3. cache[order[j]] \in Int /\ preds[order[j]] \in Pred
      BY <3>1, ElementOfSeq
    <3> QED
      BY <2>2, <3>1, <3>2, <3>3, <1>1
  <2> QED
    BY <2>1, <2>2
<1>8. newCache \in [1 .. n -> Int] /\ newPreds \in [1 .. n -> Pred]
  BY <1>3, <1>4, <1>7
<1>9. /\ newCache \in Seq(Int) /\ Len(newCache) = n
      /\ newPreds \in Seq(Pred) /\ Len(newPreds) = n
  BY <1>2, <1>8, TupleIsSeq
<1> QED
  BY <1>7, <1>9 DEF CompressionOf, n, order, newCache, newPreds

---------------------------------------------------------------------------
(* The window of one update.                                               *)

Shapes ==
    /\ geo \in Geometries
    /\ voices \in Seq(Voice)
    /\ fifo \in Seq(Int)
    /\ spkcache \in Seq(Int)
    /\ spkcache_preds \in Seq(Pred)
    /\ emitted \in Seq(Pred)
    /\ Len(fifo) <= Len(voices)

(* A prediction made before stays one of a frame heard before.             *)
LEMMA PredictionsGrow ==
    ASSUME NEW vs \in Seq(Voice), NEW chunk \in Seq(Voice),
           NEW row \in 0 .. Len(vs), NEW fresh
    PROVE  Prediction(vs \o chunk, row, fresh) = Prediction(vs, row, fresh)
<1>1. Len(vs) \in Nat /\ Len(chunk) \in Nat
  BY LenProperties
<1>2. /\ Len(vs \o chunk) = Len(vs) + Len(chunk)
      /\ row # 0 => (vs \o chunk)[row] = vs[row]
  BY <1>1, ConcatProperties
<1>3. row \in 1 .. Len(vs) <=> row # 0
  BY <1>1
<1>4. row \in 1 .. Len(vs \o chunk) <=> row # 0
  BY <1>1, <1>2
<1> QED
  BY <1>2, <1>3, <1>4 DEF Prediction

LEMMA PredictionTyped ==
    ASSUME NEW heard \in Seq(Voice), NEW row \in Int, NEW fresh
    PROVE  Prediction(heard, row, fresh) \in Pred
<1>1. Quiet \in Probs
  BY DEF Quiet, Probs
<1>2. CASE row \in 1 .. Len(heard)
  <2>1. heard[row] \in Voice
    BY <1>2, ElementOfSeq
  <2> QED
    BY <2>1, <1>2 DEF Voice, Prediction, Pred
<1>3. CASE row \notin 1 .. Len(heard)
  BY <1>1, <1>3 DEF Prediction, Pred
<1> QED
  BY <1>2, <1>3

(* Where the regions of a window lie and what they hold.                   *)
FifoRegion(w, chunk) ==
    /\ w.heard = voices \o chunk
    /\ w.pop = Popped(geo, Len(chunk), Len(fifo))
    /\ w.fifo \in Seq(Int) /\ Len(w.fifo) = Len(fifo) + Len(chunk)
    /\ \A j \in 1 .. Len(fifo) + Len(chunk) :
          w.fifo[j] = Len(voices) - Len(fifo) + j

FifoRegionPreds(w, chunk) ==
    /\ w.fifoPreds \in Seq(Pred)
    /\ Len(w.fifoPreds) = Len(fifo) + Len(chunk)
    /\ \A j \in 1 .. Len(fifo) + Len(chunk) :
          w.fifoPreds[j] \in PredictionsOf(w.heard, w.fifo[j])

ChunkRegion(w, chunk) ==
    /\ w.chunkPreds \in Seq(Pred) /\ Len(w.chunkPreds) = Len(chunk)
    /\ \A j \in 1 .. Len(chunk) :
          w.chunkPreds[j] = [of |-> Len(voices) + j, p |-> chunk[j].first]

CacheRegion(w) ==
    /\ SubSeq(w.preds, 1, Len(spkcache)) \in Seq(Pred)
    /\ Len(SubSeq(w.preds, 1, Len(spkcache))) = Len(spkcache)
    /\ \A j \in 1 .. Len(spkcache) :
          SubSeq(w.preds, 1, Len(spkcache))[j]
             = Prediction(w.heard, spkcache[j], FALSE)

LEMMA WindowFacts ==
    ASSUME Shapes, FifoIsRecent,
           NEW chunk \in Chunks, NEW lc \in Nat, NEW rc \in Nat,
           NEW w, w = Window(chunk, lc, rc)
    PROVE  /\ FifoRegion(w, chunk) /\ FifoRegionPreds(w, chunk)
           /\ ChunkRegion(w, chunk) /\ CacheRegion(w)
<1> DEFINE l1 == Len(spkcache)
           l2 == Len(fifo)
           v == Len(chunk)
           t == Len(voices)
           t3 == lc + v + rc
           heard == voices \o chunk
           rows == [i \in 1 .. t3 |->
                       IF i <= lc \/ i > t3 - rc THEN Context
                       ELSE t + i - lc]
           window == spkcache \o fifo \o rows
           preds == [i \in 1 .. Len(window) |->
                       Prediction(heard, window[i], i > l1 + l2)]
           new == SubSeq(rows, lc + 1, lc + v)
           old == SubSeq(preds, l1 + 1, l1 + l2)
           fresh == SubSeq(preds, l1 + l2 + lc + 1, l1 + l2 + lc + v)
           cached == SubSeq(preds, 1, l1)
<1>1. chunk \in Seq(Voice) /\ voices \in Seq(Voice)
  BY AoscConstants DEF Shapes
<1>2. l1 \in Nat /\ l2 \in Nat /\ v \in Nat /\ t \in Nat
  BY <1>1, LenProperties DEF Shapes
<1>3. heard \in Seq(Voice) /\ Len(heard) = t + v
  BY <1>1, ConcatProperties
<1>4. \A j \in 1 .. v : heard[t + j] = chunk[j]
  BY <1>1, <1>2, ConcatProperties
<1>5. t3 \in Nat /\ t3 - rc = lc + v
  BY <1>2
<1> HIDE DEF t3
<1>6. rows \in [1 .. t3 -> Int]
  BY <1>2, <1>5 DEF Context
<1>7. rows \in Seq(Int) /\ Len(rows) = t3
  BY <1>5, <1>6, TupleIsSeq
<1>8. \A j \in 1 .. v : lc + j \in 1 .. t3 /\ rows[lc + j] = t + j
  BY <1>2, <1>5 DEF t3
<1> HIDE DEF rows
<1>9. /\ window \in Seq(Int) /\ Len(window) = l1 + l2 + t3
      /\ \A i \in 1 .. l1 : window[i] = spkcache[i]
      /\ \A i \in 1 .. l2 : window[l1 + i] = fifo[i]
      /\ \A i \in 1 .. t3 : window[l1 + l2 + i] = rows[i]
  <2>1. spkcache \in Seq(Int) /\ fifo \in Seq(Int)
    BY DEF Shapes
  <2>2. /\ window \in Seq(Int)
        /\ Len(window) = Len(spkcache) + Len(fifo) + Len(rows)
        /\ \A i \in 1 .. Len(spkcache) : window[i] = spkcache[i]
        /\ \A i \in 1 .. Len(fifo) : window[Len(spkcache) + i] = fifo[i]
        /\ \A i \in 1 .. Len(rows) :
              window[Len(spkcache) + Len(fifo) + i] = rows[i]
    BY <1>7, <2>1, ConcatThree, Zenon
  <2> HIDE DEF window
  <2> QED
    BY <1>7, <2>2
<1> HIDE DEF window
<1>10. \A i \in 1 .. Len(window) : preds[i] \in Pred
  BY <1>3, <1>9, PredictionTyped, ElementOfSeq
<1>11. \A i \in 1 .. Len(window) :
          preds[i] = Prediction(heard, window[i], i > l1 + l2)
  OBVIOUS
<1> HIDE DEF preds, l1, l2, v, t, heard
<1>12. \A i \in 1 .. l1 + l2 + t3 : preds[i] \in Pred
  BY <1>9, <1>10
<1>13. new \in Seq(Int) /\ Len(new) = v /\ \A j \in 1 .. v : new[j] = t + j
  <2>1. \A i \in lc + 1 .. lc + v : rows[i] \in Int
    BY <1>2, <1>5, <1>6 DEF t3
  <2>2. /\ new \in Seq(Int) /\ Len(new) = v
        /\ \A j \in 1 .. v : new[j] = rows[lc + j]
    BY <1>2, <2>1, SliceProperties
  <2> QED
    BY <2>2, <1>8
<1>14. /\ old \in Seq(Pred) /\ Len(old) = l2
       /\ \A j \in 1 .. l2 : old[j] = preds[l1 + j]
  <2>1. \A i \in l1 + 1 .. l1 + l2 : preds[i] \in Pred
    BY <1>2, <1>5, <1>12
  <2> QED
    BY <1>2, <2>1, SliceProperties
<1>15. /\ fresh \in Seq(Pred) /\ Len(fresh) = v
       /\ \A j \in 1 .. v : fresh[j] = preds[l1 + l2 + (lc + j)]
  <2> DEFINE o == l1 + l2 + lc
  <2>1. o \in Nat /\ \A j \in 1 .. v : o + j = l1 + l2 + (lc + j)
    BY <1>2
  <2>2. \A i \in o + 1 .. o + v : preds[i] \in Pred
    BY <1>2, <1>5, <1>12 DEF t3
  <2>3. fresh = SubSeq(preds, o + 1, o + v)
    OBVIOUS
  <2> HIDE DEF o, fresh
  <2>4. /\ fresh \in Seq(Pred) /\ Len(fresh) = v
        /\ \A j \in 1 .. v : fresh[j] = preds[o + j]
    BY <1>2, <2>1, <2>2, <2>3, SliceProperties
  <2> QED
    BY <2>1, <2>4
<1>16. /\ cached \in Seq(Pred) /\ Len(cached) = l1
       /\ \A j \in 1 .. l1 : cached[j] = preds[j]
  <2>1. \A i \in 0 + 1 .. 0 + l1 : preds[i] \in Pred
    BY <1>2, <1>5, <1>12
  <2>2. cached = SubSeq(preds, 0 + 1, 0 + l1) /\ 0 \in Nat
    BY <1>2
  <2>3. \A j \in 1 .. l1 : 0 + j = j
    BY <1>2
  <2> HIDE DEF cached
  <2>4. /\ cached \in Seq(Pred) /\ Len(cached) = l1
        /\ \A j \in 1 .. l1 : cached[j] = preds[0 + j]
    BY <1>2, <2>1, <2>2, SliceProperties
  <2> QED
    BY <2>3, <2>4
<1> HIDE DEF new, old, fresh, cached
(* The FIFO part of the window.                                            *)
<1>17. /\ fifo \o new \in Seq(Int) /\ Len(fifo \o new) = l2 + v
       /\ \A j \in 1 .. l2 + v : (fifo \o new)[j] = t - l2 + j
  <2>0. fifo \in Seq(Int) /\ Len(fifo) = l2
    BY DEF Shapes, l2
  <2>1. fifo \o new \in Seq(Int) /\ Len(fifo \o new) = l2 + v
    BY <2>0, <1>13, ConcatProperties
  <2>2. \A j \in 1 .. l2 : fifo[j] = t - l2 + j
    BY DEF FifoIsRecent, t, l2
  <2>3. ASSUME NEW j \in 1 .. l2 + v
        PROVE  (fifo \o new)[j] = t - l2 + j
    <3>1. (fifo \o new)[j] = IF j <= l2 THEN fifo[j] ELSE new[j - l2]
      BY <2>0, <1>13, ConcatProperties
    <3>2. CASE j <= l2
      BY <1>2, <2>2, <3>1, <3>2
    <3>3. CASE ~(j <= l2)
      <4>1. j - l2 \in 1 .. v /\ t + (j - l2) = t - l2 + j
        BY <1>2, <3>3
      <4>2. (fifo \o new)[j] = new[j - l2]
        BY <3>1, <3>3
      <4> QED
        BY <4>1, <4>2, <1>13
    <3> QED
      BY <3>2, <3>3
  <2> QED
    BY <2>1, <2>3
<1>18. \A j \in 1 .. l2 : old[j] = Prediction(heard, fifo[j], FALSE)
  <2> SUFFICES ASSUME NEW j \in 1 .. l2
               PROVE  old[j] = Prediction(heard, fifo[j], FALSE)
    OBVIOUS
  <2>0. Len(window) = l1 + l2 + t3
    BY <1>9
  <2>1. l1 + j \in 1 .. Len(window) /\ ~(l1 + j > l1 + l2)
    BY <1>2, <1>5, <2>0
  <2>2. old[j] = Prediction(heard, window[l1 + j], l1 + j > l1 + l2)
    BY <1>11, <1>14, <2>1
  <2>3. window[l1 + j] = fifo[j]
    BY <1>9
  <2>4. (l1 + j > l1 + l2) = FALSE
    BY <2>1, <1>2
  <2> QED
    BY <2>2, <2>3, <2>4
<1>19. \A j \in 1 .. v : fresh[j] = Prediction(heard, t + j, TRUE)
  <2> SUFFICES ASSUME NEW j \in 1 .. v
               PROVE  fresh[j] = Prediction(heard, t + j, TRUE)
    OBVIOUS
  <2>0. lc + j \in 1 .. t3 /\ rows[lc + j] = t + j
    BY <1>8
  <2>1. /\ l1 + l2 + (lc + j) \in 1 .. l1 + l2 + t3
        /\ l1 + l2 + (lc + j) > l1 + l2
    BY <2>0, <1>2, <1>5
  <2>2. fresh[j] = Prediction(heard, window[l1 + l2 + (lc + j)],
                              l1 + l2 + (lc + j) > l1 + l2)
    BY <1>9, <1>11, <1>15, <2>1
  <2>3. window[l1 + l2 + (lc + j)] = t + j
    BY <2>0, <1>9
  <2>4. (l1 + l2 + (lc + j) > l1 + l2) = TRUE
    BY <2>1
  <2> QED
    BY <2>2, <2>3, <2>4
<1>20. \A j \in 1 .. l1 : cached[j] = Prediction(heard, spkcache[j], FALSE)
  <2> SUFFICES ASSUME NEW j \in 1 .. l1
               PROVE  cached[j] = Prediction(heard, spkcache[j], FALSE)
    OBVIOUS
  <2>0. Len(window) = l1 + l2 + t3
    BY <1>9
  <2>1. j \in 1 .. Len(window) /\ ~(j > l1 + l2)
    BY <1>2, <1>5, <2>0
  <2>2. cached[j] = Prediction(heard, window[j], j > l1 + l2)
    BY <1>11, <1>16, <2>1
  <2>3. (j > l1 + l2) = FALSE
    BY <2>1, <1>2
  <2> QED
    BY <1>9, <2>2, <2>3
<1>21. /\ old \o fresh \in Seq(Pred) /\ Len(old \o fresh) = l2 + v
       /\ \A j \in 1 .. l2 + v :
             (old \o fresh)[j] \in PredictionsOf(heard, (fifo \o new)[j])
  <2>0. fifo \in Seq(Int) /\ Len(fifo) = l2
    BY DEF Shapes, l2
  <2>1. old \o fresh \in Seq(Pred) /\ Len(old \o fresh) = l2 + v
    BY <1>14, <1>15, ConcatProperties
  <2>2. /\ \A k \in 1 .. l2 : (fifo \o new)[k] = fifo[k]
        /\ \A k \in 1 .. v : (fifo \o new)[l2 + k] = new[k]
    <3>1. new \in Seq(Int) /\ Len(new) = v
      BY <1>13
    <3>2. \A k \in 1 .. l2 : (fifo \o new)[k] = fifo[k]
      BY <1>2, <2>0, <3>1, ConcatProperties
    <3>3. ASSUME NEW k \in 1 .. v PROVE (fifo \o new)[l2 + k] = new[k]
      <4>1. /\ l2 + k \in 1 .. l2 + v
            /\ ~(l2 + k <= l2) /\ l2 + k - l2 = k
        BY <1>2
      <4>2. (fifo \o new)[l2 + k] = IF l2 + k <= l2 THEN fifo[l2 + k]
                                    ELSE new[l2 + k - l2]
        BY <2>0, <3>1, <4>1, ConcatProperties
      <4> QED
        BY <4>1, <4>2
    <3> QED
      BY <3>2, <3>3
  <2>3. ASSUME NEW j \in 1 .. l2 + v
        PROVE  \E first \in BOOLEAN :
                  (old \o fresh)[j] = Prediction(heard, (fifo \o new)[j], first)
    <3>1. (old \o fresh)[j] = IF j <= l2 THEN old[j] ELSE fresh[j - l2]
      BY <1>14, <1>15, ConcatProperties
    <3>2. CASE j <= l2
      <4>1. j \in 1 .. l2 /\ (old \o fresh)[j] = old[j]
        BY <1>2, <3>1, <3>2
      <4> QED
        BY <2>2, <1>18, <4>1
    <3>3. CASE ~(j <= l2)
      <4>1. j - l2 \in 1 .. v /\ l2 + (j - l2) = j
        BY <1>2, <3>3
      <4>2. (old \o fresh)[j] = fresh[j - l2]
        BY <3>1, <3>3
      <4>3. (fifo \o new)[j] = t + (j - l2)
        BY <4>1, <2>2, <1>13
      <4> QED
        BY <4>1, <4>2, <4>3, <1>19
    <3> QED
      BY <3>2, <3>3
  <2> QED
    BY <2>1, <2>3 DEF PredictionsOf
<1>22. \A j \in 1 .. v : fresh[j] = [of |-> t + j, p |-> chunk[j].first]
  <2> SUFFICES ASSUME NEW j \in 1 .. v
               PROVE  fresh[j] = [of |-> t + j, p |-> chunk[j].first]
    OBVIOUS
  <2>1. t + j \in 1 .. Len(heard) /\ heard[t + j] = chunk[j]
    BY <1>2, <1>3, <1>4
  <2> QED
    BY <1>19, <2>1 DEF Prediction
<1>23. /\ w.heard = heard /\ w.preds = preds
       /\ w.pop = Popped(geo, v, l2)
       /\ w.chunkPreds = fresh
       /\ w.fifo = fifo \o new
       /\ w.fifoPreds = old \o fresh
  <2>1. rows = ChunkRows(chunk, lc, rc)
    BY DEF rows, ChunkRows, t3, v, t
  <2>2. preds = WindowPreds(chunk, lc, rc)
    BY <2>1 DEF preds, window, WindowPreds, heard, l1, l2
  <2> QED
    BY <2>1, <2>2
       DEF Window, ChunkPreds, FifoPreds, new, old, fresh, heard, l1, l2, v
<1>24. FifoRegion(w, chunk)
  BY <1>17, <1>23 DEF FifoRegion, heard, v, l2, t
<1>25. FifoRegionPreds(w, chunk)
  <2>1. \A j \in 1 .. l2 + v :
           w.fifoPreds[j] \in PredictionsOf(w.heard, w.fifo[j])
    BY <1>21, <1>23, Zenon
  <2> QED
    BY <1>21, <1>23, <2>1 DEF FifoRegionPreds, v, l2
<1>26. ChunkRegion(w, chunk)
  BY <1>15, <1>22, <1>23 DEF ChunkRegion, v, t
<1>27. CacheRegion(w)
  BY <1>16, <1>20, <1>23 DEF CacheRegion, cached, l1
<1> QED
  BY <1>24, <1>25, <1>26, <1>27

---------------------------------------------------------------------------
(* The inductive invariant.  RowsAligned alone is not inductive: what is   *)
(* popped is aligned because the FIFO is the end of the stream, and the    *)
(* first capture is right because the cache holds frames only until then.  *)
IInv ==
    /\ Shapes
    /\ TypeOK
    /\ RowsAligned
    /\ FifoIsRecent
    /\ EmittedOnce
    /\ OnlySpeechKept

LEMMA InitInv == Init => IInv
<1> SUFFICES ASSUME Init PROVE IInv
  OBVIOUS
<1>1. \A S : <<>> \in Seq(S) /\ Len(<<>>) = 0
  BY EmptySeq
<1>2. Shapes
  BY <1>1 DEF Init, Shapes
<1>3. TypeOK
  BY <1>1, GeometryLengths DEF Init, TypeOK
<1>4. RowsAligned /\ OnlySpeechKept
  BY <1>1 DEF Init, RowsAligned, OnlySpeechKept
<1>5. FifoIsRecent
  BY <1>1 DEF Init, FifoIsRecent, Popd
<1>6. EmittedOnce
  BY <1>1 DEF Init, EmittedOnce, Frames
<1> QED
  BY <1>2, <1>3, <1>4, <1>5, <1>6 DEF IInv

(* What every branch of an update does to the stream.                      *)
LEMMA EmitStep ==
    ASSUME IInv, NEW chunk \in Chunks, NEW lc \in Nat, NEW rc \in Nat,
           NEW w, w = Window(chunk, lc, rc), Emit(w)
    PROVE  /\ geo' = geo
           /\ voices' = voices \o chunk
           /\ voices' \in Seq(Voice)
           /\ Len(voices') = Len(voices) + Len(chunk)
           /\ emitted' \in Seq(Pred)
           /\ EmittedOnce'
<1> DEFINE t == Len(voices)
           v == Len(chunk)
<1>1. chunk \in Seq(Voice) /\ voices \in Seq(Voice) /\ emitted \in Seq(Pred)
  BY AoscConstants DEF IInv, Shapes
<1>2. t \in Nat /\ v \in Nat
  BY <1>1, LenProperties
<1>3. /\ w.heard = voices \o chunk
      /\ w.chunkPreds \in Seq(Pred) /\ Len(w.chunkPreds) = v
      /\ \A j \in 1 .. v :
            w.chunkPreds[j] = [of |-> t + j, p |-> chunk[j].first]
  <2>1. FifoRegion(w, chunk) /\ ChunkRegion(w, chunk)
    BY WindowFacts DEF IInv
  <2> QED
    BY <2>1 DEF FifoRegion, ChunkRegion
<1>4. /\ geo' = geo /\ voices' = voices \o chunk
      /\ emitted' = emitted \o w.chunkPreds
  BY <1>3 DEF Emit
<1>5. voices' \in Seq(Voice) /\ Len(voices') = t + v
  BY <1>1, <1>4, ConcatProperties
<1>6. Len(emitted) = t /\ \A i \in 1 .. t : emitted[i] = [of |-> i, p |-> voices[i].first]
  <2>1. emitted = [i \in 1 .. t |-> [of |-> i, p |-> voices[i].first]]
    BY DEF IInv, EmittedOnce, Frames
  <2>2. \A i \in 1 .. t : emitted[i] = [of |-> i, p |-> voices[i].first]
    BY <2>1
  <2>3. DOMAIN emitted = 1 .. t
    BY <2>1
  <2>4. Len(emitted) = t
    BY <1>1, <1>2, <2>3, LenProperties
  <2> QED
    BY <2>2, <2>4
<1>7. emitted' \in Seq(Pred) /\ Len(emitted') = t + v
  <2>1. /\ emitted \o w.chunkPreds \in Seq(Pred)
        /\ Len(emitted \o w.chunkPreds) = Len(emitted) + Len(w.chunkPreds)
    BY <1>1, <1>3, ConcatProperties
  <2> QED
    BY <1>3, <1>4, <1>6, <2>1
<1> HIDE DEF t, v
<1>8. ASSUME NEW i \in 1 .. t + v
      PROVE  emitted'[i] = [of |-> i, p |-> voices'[i].first]
  <2>1. emitted'[i] = IF i <= t THEN emitted[i] ELSE w.chunkPreds[i - t]
    <3>1. i \in 1 .. Len(emitted) + Len(w.chunkPreds)
      BY <1>3, <1>6
    <3>2. (emitted \o w.chunkPreds)[i]
             = IF i <= Len(emitted) THEN emitted[i]
               ELSE w.chunkPreds[i - Len(emitted)]
      BY <1>1, <1>3, <3>1, ConcatProperties
    <3> QED
      BY <1>4, <1>6, <3>2
  <2>2. voices'[i] = IF i <= t THEN voices[i] ELSE chunk[i - t]
    BY <1>1, <1>4, ConcatProperties DEF t, v
  <2>3. CASE i <= t
    BY <1>2, <1>6, <2>1, <2>2, <2>3
  <2>4. CASE ~(i <= t)
    <3>1. i - t \in 1 .. v /\ t + (i - t) = i
      BY <1>2, <2>4
    <3> QED
      BY <1>3, <2>1, <2>2, <2>4, <3>1
  <2> QED
    BY <2>3, <2>4
<1>9. EmittedOnce'
  <2>1. DOMAIN emitted' = 1 .. t + v
    BY <1>7, LenProperties
  <2>2. emitted' = [i \in 1 .. t + v |-> emitted'[i]]
    BY <1>7, <2>1, LenProperties
  <2>3. emitted' = [i \in 1 .. t + v |-> [of |-> i, p |-> voices'[i].first]]
    BY <1>8, <2>2
  <2> QED
    BY <2>3, <1>5 DEF EmittedOnce, Frames
<1> QED
  BY <1>4, <1>5, <1>7, <1>9 DEF t, v

(* A row and its prediction stay a pair when more of the stream is heard.  *)
LEMMA StillAligned ==
    ASSUME Shapes, TypeOK, RowsAligned, NEW chunk \in Seq(Voice)
    PROVE  spkcache_preds # <<>> =>
              /\ Len(spkcache_preds) = Len(spkcache)
              /\ \A j \in 1 .. Len(spkcache) :
                    spkcache_preds[j]
                        \in PredictionsOf(voices \o chunk, spkcache[j])
<1> SUFFICES ASSUME spkcache_preds # <<>>, NEW j \in 1 .. Len(spkcache)
             PROVE  spkcache_preds[j]
                        \in PredictionsOf(voices \o chunk, spkcache[j])
  BY DEF RowsAligned
<1>1. spkcache[j] \in 0 .. Len(voices)
  BY LenProperties DEF TypeOK, Frames, Silence, Shapes
<1>2. PICK fresh \in BOOLEAN :
          spkcache_preds[j] = Prediction(voices, spkcache[j], fresh)
  BY DEF RowsAligned, PredictionsOf
<1>3. spkcache_preds[j] = Prediction(voices \o chunk, spkcache[j], fresh)
  BY <1>1, <1>2, PredictionsGrow DEF Shapes
<1> QED
  BY <1>3 DEF PredictionsOf

LEMMA EnqueueInv ==
    ASSUME IInv, NEW chunk \in Chunks, NEW lc \in Nat, NEW rc \in Nat,
           NEW w, w = Window(chunk, lc, rc), Enqueue(w)
    PROVE  /\ IInv'
           /\ Len(fifo') = Len(fifo) + Len(chunk)
           /\ Len(fifo') <= geo.fifo_len
<1> DEFINE t == Len(voices)
           v == Len(chunk)
           l2 == Len(fifo)
<1>1. /\ geo' = geo /\ voices' = voices \o chunk
      /\ voices' \in Seq(Voice) /\ Len(voices') = t + v
      /\ emitted' \in Seq(Pred) /\ EmittedOnce'
  BY EmitStep DEF Enqueue
<1>2. /\ w.fifo \in Seq(Int) /\ Len(w.fifo) = l2 + v
      /\ \A j \in 1 .. l2 + v : w.fifo[j] = t - l2 + j
  <2>1. FifoRegion(w, chunk)
    BY WindowFacts DEF IInv
  <2> QED
    BY <2>1 DEF FifoRegion
<1>3. /\ fifo' = w.fifo /\ Len(w.fifo) <= geo.fifo_len
      /\ spkcache' = spkcache /\ spkcache_preds' = spkcache_preds
  BY DEF Enqueue
<1>4. chunk \in Seq(Voice)
  BY AoscConstants
<1>5. t \in Nat /\ v \in Nat /\ l2 \in Nat /\ l2 <= t
  BY <1>4, LenProperties DEF IInv, Shapes
<1> HIDE DEF t, v, l2
<1>6. t + v - (l2 + v) = t - l2 /\ l2 + v <= t + v
  BY <1>5
<1>7. Shapes'
  BY <1>1, <1>2, <1>3, <1>6 DEF IInv, Shapes
<1>8. TypeOK'
  <2>1. /\ Len(fifo') <= geo'.fifo_len
        /\ \A j \in 1 .. Len(fifo') : fifo'[j] \in 1 .. Len(voices')
    <3>1. \A j \in 1 .. l2 + v : t - l2 + j \in 1 .. t + v
      BY <1>5
    <3>2. \A j \in 1 .. l2 + v : fifo'[j] \in 1 .. t + v
      BY <1>2, <1>3, <3>1
    <3>3. /\ Len(fifo') = l2 + v /\ Len(voices') = t + v
          /\ Len(fifo') <= geo'.fifo_len
      BY <1>1, <1>2, <1>3
    <3> QED
      BY <3>2, <3>3
  <2>2. \A j \in 1 .. Len(spkcache) :
           spkcache[j] \in 1 .. Len(voices') \cup {Silence}
    BY <1>1, <1>5 DEF IInv, TypeOK, Frames, t
  <2> QED
    BY <2>1, <2>2, <1>1, <1>3 DEF IInv, TypeOK, Frames
<1>9. RowsAligned'
  BY <1>1, <1>3, <1>4, StillAligned DEF IInv, RowsAligned
<1>10. FifoIsRecent'
  <2>0. Len(fifo') = l2 + v /\ Len(voices') - Len(fifo') = t - l2
    <3>1. Len(fifo') = l2 + v /\ Len(voices') = t + v
      BY <1>1, <1>2, <1>3, Zenon
    <3> QED
      BY <1>5, <1>6, <3>1
  <2>1. Popd' = Popd
    BY <2>0 DEF Popd, t, l2
  <2>2. \A j \in 1 .. Len(fifo') : fifo'[j] = Len(voices') - Len(fifo') + j
    BY <1>2, <1>3, <2>0
  <2> QED
    BY <2>1, <2>2, <1>3 DEF IInv, FifoIsRecent
<1>11. OnlySpeechKept'
  BY <1>3 DEF IInv, OnlySpeechKept
<1> QED
  BY <1>1, <1>2, <1>3, <1>7, <1>8, <1>9, <1>10, <1>11 DEF IInv, l2, v

PoppedRows(w) == SubSeq(w.fifo, 1, w.pop)
PoppedPreds(w) == SubSeq(w.fifoPreds, 1, w.pop)

(* What leaves the FIFO, what stays in it, and what is known of it.        *)
PopCounts(w, chunk) ==
    /\ w.pop \in Nat /\ w.pop >= 1
    /\ w.pop = Popped(geo, Len(chunk), Len(fifo))
    /\ Len(voices') - Len(fifo') = Len(voices) - Len(fifo) + w.pop
    /\ Len(fifo') = Len(fifo) + Len(chunk) - w.pop
    /\ Len(fifo') <= geo.fifo_len
    /\ Len(fifo') <= Len(voices')

FifoRemains ==
    /\ fifo' \in Seq(Int)
    /\ \A j \in 1 .. Len(fifo') :
          /\ fifo'[j] = Len(voices') - Len(fifo') + j
          /\ fifo'[j] \in 1 .. Len(voices')

RowsLeave(w) ==
    /\ PoppedRows(w) \in Seq(Int)
    /\ Len(PoppedRows(w)) = w.pop
    /\ \A j \in 1 .. w.pop :
          PoppedRows(w)[j] = Len(voices) - Len(fifo) + j

PredsLeave(w) ==
    /\ PoppedPreds(w) \in Seq(Pred)
    /\ Len(PoppedPreds(w)) = w.pop
    /\ \A j \in 1 .. w.pop :
          PoppedPreds(w)[j] \in PredictionsOf(voices', PoppedRows(w)[j])

(* What both branches that pop the FIFO have in common: the popped rows    *)
(* are the next frames of the stream, with predictions of theirs.          *)
LEMMA PopStep ==
    ASSUME IInv, NEW chunk \in Chunks, NEW lc \in Nat, NEW rc \in Nat,
           NEW w, w = Window(chunk, lc, rc), PopFifo(w)
    PROVE  PopCounts(w, chunk) /\ FifoRemains /\ RowsLeave(w) /\ PredsLeave(w)
<1> DEFINE t == Len(voices)
           v == Len(chunk)
           l2 == Len(fifo)
           rows == PoppedRows(w)
           preds == PoppedPreds(w)
           k == l2 + v - w.pop
<1>1. geo' = geo /\ voices' = voices \o chunk /\ Len(voices') = t + v
  BY EmitStep DEF PopFifo
<1>2. /\ w.heard = voices \o chunk
      /\ w.pop = Popped(geo, v, l2)
      /\ w.fifo \in Seq(Int) /\ Len(w.fifo) = l2 + v
      /\ \A j \in 1 .. l2 + v : w.fifo[j] = t - l2 + j
      /\ w.fifoPreds \in Seq(Pred) /\ Len(w.fifoPreds) = l2 + v
      /\ \A j \in 1 .. l2 + v :
            w.fifoPreds[j] \in PredictionsOf(w.heard, w.fifo[j])
  <2>1. FifoRegion(w, chunk) /\ FifoRegionPreds(w, chunk)
    BY WindowFacts DEF IInv
  <2> QED
    BY <2>1 DEF FifoRegion, FifoRegionPreds
<1>3. /\ fifo' = SubSeq(w.fifo, w.pop + 1, Len(w.fifo))
      /\ Len(w.fifo) > geo.fifo_len
  BY DEF PopFifo, Remaining
<1>4. chunk \in Seq(Voice) /\ geo \in Geometries
  BY AoscConstants DEF IInv, Shapes
<1>5. t \in Nat /\ v \in Nat /\ l2 \in Nat /\ l2 <= t
  BY <1>4, LenProperties DEF IInv, Shapes
<1> HIDE DEF t, v, l2
<1>6. /\ w.pop \in 0 .. l2 + v /\ w.pop >= 1
      /\ l2 + v - w.pop <= geo.fifo_len
  BY <1>2, <1>3, <1>4, <1>5, PoppedFits
<1>7. /\ w.pop \in Nat /\ k \in Nat /\ w.pop + k = l2 + v
      /\ t + v - k = t - l2 + w.pop /\ k <= t + v
  BY <1>5, <1>6
<1>8. \A i \in 1 .. l2 + v : w.fifo[i] \in Int /\ w.fifoPreds[i] \in Pred
  BY <1>2, ElementOfSeq
<1> HIDE DEF k
<1>9. /\ fifo' \in Seq(Int) /\ Len(fifo') = k
      /\ \A j \in 1 .. k : fifo'[j] = w.fifo[w.pop + j]
  <2>1. \A i \in w.pop + 1 .. w.pop + k : w.fifo[i] \in Int
    BY <1>6, <1>7, <1>8
  <2>2. fifo' = SubSeq(w.fifo, w.pop + 1, w.pop + k)
    BY <1>2, <1>3, <1>7
  <2>3. /\ SubSeq(w.fifo, w.pop + 1, w.pop + k) \in Seq(Int)
        /\ Len(SubSeq(w.fifo, w.pop + 1, w.pop + k)) = k
        /\ \A j \in 1 .. k :
              SubSeq(w.fifo, w.pop + 1, w.pop + k)[j] = w.fifo[w.pop + j]
    BY <1>7, <2>1, SliceProperties
  <2> QED
    BY <2>2, <2>3, Zenon
<1>10. ASSUME NEW j \in 1 .. k
       PROVE  /\ fifo'[j] = Len(voices') - Len(fifo') + j
              /\ fifo'[j] \in 1 .. Len(voices')
  <2>1. w.pop + j \in 1 .. l2 + v
    BY <1>5, <1>6, <1>7
  <2>2. fifo'[j] = t - l2 + (w.pop + j)
    BY <1>2, <1>9, <2>1
  <2>3. Len(voices') = t + v /\ Len(fifo') = k
    BY <1>1, <1>9
  <2>4. /\ t - l2 + (w.pop + j) = t + v - k + j
        /\ t - l2 + (w.pop + j) \in 1 .. t + v
    BY <1>5, <1>6, <1>7, <2>1
  <2>5. Len(voices') - Len(fifo') + j = t + v - k + j
    BY <1>5, <1>7, <2>3
  <2> QED
    BY <2>2, <2>3, <2>4, <2>5, Zenon
<1>11. /\ \A i \in 1 .. w.pop : w.fifo[i] \in Int /\ w.fifoPreds[i] \in Pred
       /\ \A i \in 1 .. w.pop : i \in 1 .. l2 + v
  BY <1>5, <1>6, <1>8
<1>12. /\ rows \in Seq(Int) /\ Len(rows) = w.pop
       /\ \A j \in 1 .. w.pop : rows[j] = w.fifo[j]
  BY <1>7, <1>11, PrefixProperties DEF PoppedRows
<1>13. /\ preds \in Seq(Pred) /\ Len(preds) = w.pop
       /\ \A j \in 1 .. w.pop : preds[j] = w.fifoPreds[j]
  BY <1>7, <1>11, PrefixProperties DEF PoppedPreds
<1> HIDE DEF rows, preds
<1>14. /\ \A j \in 1 .. w.pop : rows[j] = t - l2 + j
       /\ \A j \in 1 .. w.pop : preds[j] \in PredictionsOf(voices', rows[j])
  BY <1>1, <1>2, <1>11, <1>12, <1>13
<1>15. /\ Len(voices') - Len(fifo') = t - l2 + w.pop
       /\ Len(fifo') = l2 + v - w.pop
       /\ Len(fifo') <= geo.fifo_len
       /\ Len(fifo') <= Len(voices')
  <2>1. Len(voices') = t + v /\ Len(fifo') = k
    BY <1>1, <1>9, Zenon
  <2> QED
    BY <1>5, <1>6, <1>7, <2>1 DEF k
<1>16. \A j \in 1 .. Len(fifo') :
          /\ fifo'[j] = Len(voices') - Len(fifo') + j
          /\ fifo'[j] \in 1 .. Len(voices')
  BY <1>9, <1>10
<1>17. PopCounts(w, chunk)
  BY <1>2, <1>6, <1>7, <1>15 DEF PopCounts, t, v, l2
<1>18. FifoRemains
  BY <1>9, <1>16 DEF FifoRemains
<1>19. RowsLeave(w)
  BY <1>12, <1>14 DEF RowsLeave, t, l2, rows
<1>20. PredsLeave(w)
  BY <1>13, <1>14 DEF PredsLeave, rows, preds
<1> QED
  BY <1>17, <1>18, <1>19, <1>20

LEMMA FillCacheInv ==
    ASSUME IInv, NEW chunk \in Chunks, NEW lc \in Nat, NEW rc \in Nat,
           NEW w, w = Window(chunk, lc, rc), FillCache(w)
    PROVE  IInv' /\ Len(spkcache') = Len(spkcache) + w.pop
<1> DEFINE t == Len(voices)
           l1 == Len(spkcache)
           l2 == Len(fifo)
           rows == PoppedRows(w)
<1>0. PopCounts(w, chunk) /\ FifoRemains /\ RowsLeave(w)
  <2>1. PopFifo(w)
    BY DEF FillCache
  <2> QED
    BY <2>1, PopStep
<1>1. /\ geo' = geo /\ voices' = voices \o chunk
      /\ voices' \in Seq(Voice) /\ Len(voices') = t + Len(chunk)
      /\ emitted' \in Seq(Pred) /\ EmittedOnce'
  BY EmitStep DEF FillCache, PopFifo
<1>2. /\ w.pop \in Nat /\ w.pop >= 1
      /\ Len(voices') - Len(fifo') = t - l2 + w.pop
      /\ Len(fifo') <= geo.fifo_len /\ Len(fifo') <= Len(voices')
      /\ fifo' \in Seq(Int)
  BY <1>0 DEF PopCounts, FifoRemains
<1>3. \A j \in 1 .. Len(fifo') :
         /\ fifo'[j] = Len(voices') - Len(fifo') + j
         /\ fifo'[j] \in 1 .. Len(voices')
  BY <1>0 DEF FifoRemains
<1>4. /\ rows \in Seq(Int) /\ Len(rows) = w.pop
      /\ \A j \in 1 .. w.pop : rows[j] = t - l2 + j
  BY <1>0 DEF RowsLeave
<1>5. /\ l1 + w.pop <= geo.spkcache_len
      /\ spkcache' = spkcache \o rows
      /\ spkcache_preds = <<>> => spkcache_preds' = <<>>
  BY DEF FillCache, PoppedRows
<1>6. /\ spkcache \in Seq(Int) /\ fifo \in Seq(Int) /\ voices \in Seq(Voice)
      /\ geo \in Geometries /\ Len(fifo) <= Len(voices)
  BY DEF IInv, Shapes
<1>7. t \in Nat /\ l1 \in Nat /\ l2 \in Nat /\ l2 <= t
  BY <1>6, LenProperties
<1>8. spkcache_preds = <<>> /\ spkcache_preds' = <<>>
  <2>1. spkcache_preds # <<>> => l1 = geo.spkcache_len
    BY DEF IInv, TypeOK
  <2> QED
    BY <1>2, <1>5, <1>6, <1>7, <2>1, GeometryLengths
<1>9. spkcache = [i \in 1 .. t - l2 |-> i]
  BY <1>8 DEF IInv, FifoIsRecent, Popd
<1>10. l1 = t - l2 /\ \A i \in 1 .. l1 : spkcache[i] = i
  <2>1. DOMAIN spkcache = 1 .. t - l2
    BY <1>9
  <2>2. l1 = t - l2
    BY <1>6, <1>7, <2>1, LenProperties
  <2> QED
    BY <1>9, <2>2
<1> HIDE DEF t, l1, l2, rows
<1>11. spkcache' \in Seq(Int) /\ Len(spkcache') = l1 + w.pop
  <2>1. rows \in Seq(Int) /\ Len(rows) = w.pop
    BY <1>4
  <2>2. /\ spkcache \o rows \in Seq(Int)
        /\ Len(spkcache \o rows) = Len(spkcache) + Len(rows)
    BY <1>6, <2>1, ConcatProperties
  <2> QED
    BY <1>5, <2>1, <2>2, Zenon DEF l1
<1>12. \A i \in 1 .. l1 + w.pop : spkcache'[i] = i
  <2> SUFFICES ASSUME NEW i \in 1 .. l1 + w.pop PROVE spkcache'[i] = i
    OBVIOUS
  <2>1. spkcache'[i] = IF i <= l1 THEN spkcache[i] ELSE rows[i - l1]
    <3>1. i \in 1 .. Len(spkcache) + Len(rows)
      BY <1>4 DEF l1
    <3>2. (spkcache \o rows)[i] = IF i <= Len(spkcache) THEN spkcache[i]
                                  ELSE rows[i - Len(spkcache)]
      BY <1>4, <1>6, <3>1, ConcatProperties
    <3> QED
      BY <1>5, <3>2 DEF l1
  <2>2. CASE i <= l1
    BY <1>7, <1>10, <2>1, <2>2
  <2>3. CASE ~(i <= l1)
    <3>1. i - l1 \in 1 .. w.pop /\ t - l2 + (i - l1) = i
      BY <1>2, <1>7, <1>10, <2>3
    <3> QED
      BY <1>4, <2>1, <2>3, <3>1
  <2> QED
    BY <2>2, <2>3
<1>13. Shapes'
  BY <1>1, <1>2, <1>6, <1>8, <1>11, EmptySeq DEF Shapes
<1>14. TypeOK'
  <2>1. Len(fifo') \in Nat /\ Len(voices') \in Nat
    BY <1>1, <1>2, LenProperties
  <2>2. Len(voices') >= l1 + w.pop
    BY <2>1, <1>2, <1>7, <1>10
  <2>3. \A j \in 1 .. Len(spkcache') : spkcache'[j] \in 1 .. Len(voices')
    <3>1. \A j \in 1 .. l1 + w.pop : j \in 1 .. Len(voices')
      BY <1>2, <1>7, <2>1, <2>2
    <3> QED
      BY <1>11, <1>12, <3>1
  <2>4. Len(spkcache') <= geo'.spkcache_len /\ Len(fifo') <= geo'.fifo_len
    BY <1>1, <1>2, <1>5, <1>11
  <2> QED
    BY <1>1, <1>3, <1>6, <1>8, <2>3, <2>4 DEF TypeOK, Frames
<1>15. RowsAligned'
  BY <1>8 DEF RowsAligned
<1>16. OnlySpeechKept'
  BY <1>8, EmptySeq DEF OnlySpeechKept
<1>17. FifoIsRecent'
  <2>1. Popd' = 1 .. l1 + w.pop
    BY <1>2, <1>10 DEF Popd
  <2>2. DOMAIN spkcache' = 1 .. l1 + w.pop
    BY <1>11, LenProperties
  <2>3. spkcache' = [i \in 1 .. l1 + w.pop |-> spkcache'[i]]
    BY <1>11, <2>2, LenProperties
  <2>4. spkcache' = [i \in 1 .. l1 + w.pop |-> i]
    BY <1>12, <2>3
  <2>5. \A j \in 1 .. Len(spkcache') : spkcache'[j] \in Popd'
    BY <1>11, <1>12, <2>1
  <2> QED
    BY <1>3, <2>1, <2>4, <2>5 DEF FifoIsRecent
<1> QED
  BY <1>1, <1>11, <1>13, <1>14, <1>15, <1>16, <1>17 DEF IInv, l1

LEMMA CompressCacheInv ==
    ASSUME IInv, NEW chunk \in Chunks, NEW lc \in Nat, NEW rc \in Nat,
           NEW w, w = Window(chunk, lc, rc), CompressCache(w)
    PROVE  IInv' /\ Len(spkcache') = geo.spkcache_len
<1> DEFINE t == Len(voices)
           l1 == Len(spkcache)
           l2 == Len(fifo)
           cap == geo.spkcache_len
           rows == PoppedRows(w)
           popPreds == PoppedPreds(w)
           known == IF spkcache_preds # <<>> THEN spkcache_preds
                    ELSE SubSeq(w.preds, 1, l1)
           cache == spkcache \o rows
           preds == known \o popPreds
           order == PickOrder(geo, preds)
<1>0. /\ PopFifo(w)
      /\ PopCounts(w, chunk) /\ FifoRemains /\ RowsLeave(w) /\ PredsLeave(w)
  <2>1. PopFifo(w)
    BY DEF CompressCache
  <2> QED
    BY <2>1, PopStep
<1>1. /\ geo' = geo /\ voices' = voices \o chunk
      /\ voices' \in Seq(Voice) /\ Len(voices') = t + Len(chunk)
      /\ emitted' \in Seq(Pred) /\ EmittedOnce'
  BY <1>0, EmitStep DEF PopFifo
<1>2. /\ w.pop \in Nat /\ w.pop >= 1
      /\ Len(voices') - Len(fifo') = t - l2 + w.pop
      /\ Len(fifo') <= geo.fifo_len /\ Len(fifo') <= Len(voices')
      /\ fifo' \in Seq(Int)
  BY <1>0 DEF PopCounts, FifoRemains
<1>3. \A j \in 1 .. Len(fifo') :
         /\ fifo'[j] = Len(voices') - Len(fifo') + j
         /\ fifo'[j] \in 1 .. Len(voices')
  BY <1>0 DEF FifoRemains
<1>4. /\ rows \in Seq(Int) /\ Len(rows) = w.pop
      /\ \A j \in 1 .. w.pop : rows[j] = t - l2 + j
      /\ popPreds \in Seq(Pred) /\ Len(popPreds) = w.pop
      /\ \A j \in 1 .. w.pop : popPreds[j] \in PredictionsOf(voices', rows[j])
  BY <1>0 DEF RowsLeave, PredsLeave
<1>5. /\ spkcache' = CompressedCache(cache, order)
      /\ spkcache_preds' = CompressedPreds(preds, order)
  <2>1. CacheKept(l1, w.preds, popPreds, spkcache_preds) = preds
    BY DEF CacheKept
  <2> QED
    BY <2>1, Zenon DEF CompressCache, PoppedRows, PoppedPreds
<1>6. /\ spkcache \in Seq(Int) /\ fifo \in Seq(Int) /\ voices \in Seq(Voice)
      /\ spkcache_preds \in Seq(Pred)
      /\ geo \in Geometries /\ l2 <= t
      /\ chunk \in Seq(Voice)
  BY AoscConstants DEF IInv, Shapes
<1>7. t \in Nat /\ l1 \in Nat /\ l2 \in Nat
  BY <1>6, LenProperties
<1>8. /\ known \in Seq(Pred) /\ Len(known) = l1
      /\ \A j \in 1 .. l1 : known[j] \in PredictionsOf(voices', spkcache[j])
  <2>1. CASE spkcache_preds # <<>>
    BY <2>1, <1>1, <1>6, StillAligned DEF IInv, RowsAligned
  <2>2. CASE spkcache_preds = <<>>
    <3>1. /\ SubSeq(w.preds, 1, l1) \in Seq(Pred)
          /\ Len(SubSeq(w.preds, 1, l1)) = l1
          /\ \A j \in 1 .. l1 : SubSeq(w.preds, 1, l1)[j]
                                   = Prediction(voices', spkcache[j], FALSE)
      <4>1. FifoRegion(w, chunk) /\ CacheRegion(w)
        BY WindowFacts DEF IInv
      <4> QED
        BY <1>1, <4>1 DEF FifoRegion, CacheRegion
    <3>2. known = SubSeq(w.preds, 1, l1)
      BY <2>2
    <3> HIDE DEF known
    <3> QED
      BY <3>1, <3>2 DEF PredictionsOf
  <2> QED
    BY <2>1, <2>2
<1> HIDE DEF t, l1, l2, cap, rows, popPreds, known
<1>9. /\ cache \in Seq(Int) /\ Len(cache) = l1 + w.pop
      /\ preds \in Seq(Pred) /\ Len(preds) = l1 + w.pop
  <2>1. /\ spkcache \in Seq(Int) /\ Len(spkcache) = l1
        /\ rows \in Seq(Int) /\ Len(rows) = w.pop
        /\ known \in Seq(Pred) /\ Len(known) = l1
        /\ popPreds \in Seq(Pred) /\ Len(popPreds) = w.pop
    BY <1>4, <1>6, <1>8 DEF l1
  <2>2. cache \in Seq(Int) /\ Len(cache) = Len(spkcache) + Len(rows)
    BY <2>1, ConcatProperties
  <2>3. preds \in Seq(Pred) /\ Len(preds) = Len(known) + Len(popPreds)
    BY <2>1, ConcatProperties
  <2> QED
    BY <2>1, <2>2, <2>3, Zenon
<1>10. ASSUME NEW j \in 1 .. l1 + w.pop
       PROVE  /\ preds[j] \in PredictionsOf(voices', cache[j])
              /\ cache[j] \in 1 .. t - l2 + w.pop \cup {Silence}
  <2>1. cache[j] = IF j <= l1 THEN spkcache[j] ELSE rows[j - l1]
    <3>1. j \in 1 .. Len(spkcache) + Len(rows)
      BY <1>4 DEF l1
    <3>2. (spkcache \o rows)[j] = IF j <= Len(spkcache) THEN spkcache[j]
                                  ELSE rows[j - Len(spkcache)]
      BY <1>4, <1>6, <3>1, ConcatProperties
    <3> QED
      BY <3>2 DEF l1
  <2>2. preds[j] = IF j <= l1 THEN known[j] ELSE popPreds[j - l1]
    <3>1. j \in 1 .. Len(known) + Len(popPreds)
      BY <1>4, <1>8
    <3>2. (known \o popPreds)[j] = IF j <= Len(known) THEN known[j]
                                   ELSE popPreds[j - Len(known)]
      BY <1>4, <1>8, <3>1, ConcatProperties
    <3> QED
      BY <1>8, <3>2
  <2> HIDE DEF cache, preds
  <2>3. CASE j <= l1
    <3>1. j \in 1 .. l1 /\ cache[j] = spkcache[j] /\ preds[j] = known[j]
      BY <1>7, <2>1, <2>2, <2>3
    <3>2. spkcache[j] \in 1 .. t - l2 \cup {Silence}
      BY <3>1 DEF IInv, FifoIsRecent, Popd, t, l1, l2
    <3> QED
      BY <1>2, <1>7, <1>8, <3>1, <3>2
  <2>4. CASE ~(j <= l1)
    <3>1. j - l1 \in 1 .. w.pop
      BY <1>2, <1>7, <2>4
    <3>2. cache[j] = rows[j - l1] /\ preds[j] = popPreds[j - l1]
      BY <2>1, <2>2, <2>4
    <3>3. cache[j] = t - l2 + (j - l1)
      BY <1>4, <3>1, <3>2
    <3>4. t - l2 + (j - l1) \in 1 .. t - l2 + w.pop
      BY <1>2, <1>6, <1>7, <3>1
    <3> QED
      BY <1>4, <3>1, <3>2, <3>3, <3>4
  <2> QED
    BY <2>3, <2>4
<1> HIDE DEF cache, preds
<1>11. /\ spkcache' \in Seq(Int) /\ Len(spkcache') = cap
       /\ spkcache_preds' \in Seq(Pred) /\ Len(spkcache_preds') = cap
       /\ \A j \in 1 .. cap :
             /\ spkcache'[j] = Silence
                   \/ \E i \in 1 .. Len(cache) : spkcache'[j] = cache[i]
             /\ spkcache_preds'[j] \in PredictionsOf(voices', spkcache'[j])
             /\ spkcache'[j] # Silence =>
                   \E s \in Speakers : spkcache_preds'[j].p[s] > 50
  <2>1. /\ Len(cache) = Len(preds)
        /\ \A j \in 1 .. Len(cache) : preds[j] \in PredictionsOf(voices', cache[j])
    BY <1>9, <1>10
  <2>2. /\ spkcache' = CompressedCache(cache, PickOrder(geo, preds))
        /\ spkcache_preds' = CompressedPreds(preds, PickOrder(geo, preds))
    BY <1>5
  <2>3. /\ geo \in Geometries /\ voices' \in Seq(Voice)
        /\ cache \in Seq(Int) /\ preds \in Seq(Pred)
    BY <1>1, <1>6, <1>9
  <2>4. CompressionOf(geo, voices', cache,
                      CompressedCache(cache, PickOrder(geo, preds)),
                      CompressedPreds(preds, PickOrder(geo, preds)))
    BY <2>1, <2>3, CompressedAligned
  <2>5. CompressionOf(geo, voices', cache, spkcache', spkcache_preds')
    BY <2>2, <2>4, Zenon
  <2> QED
    BY <2>5 DEF CompressionOf, cap
<1> HIDE DEF order
<1>12. cap \in Nat /\ cap >= 1
  BY <1>6, GeometryLengths DEF cap
<1>13. \A j \in 1 .. cap :
          spkcache'[j] \in 1 .. Len(voices') - Len(fifo') \cup {Silence}
  BY <1>2, <1>9, <1>10, <1>11
<1>14. spkcache_preds' # <<>>
  BY <1>11, <1>12, EmptySeq
<1>15. Shapes'
  BY <1>1, <1>2, <1>6, <1>11 DEF Shapes
<1>16. TypeOK'
  <2>1. Len(fifo') \in Nat /\ Len(voices') \in Nat
    BY <1>1, <1>2, LenProperties
  <2>2. \A j \in 1 .. cap : spkcache'[j] \in 1 .. Len(voices') \cup {Silence}
    BY <1>13, <2>1
  <2> QED
    BY <1>1, <1>2, <1>3, <1>6, <1>11, <1>12, <2>2 DEF TypeOK, Frames, cap
<1>17. RowsAligned'
  BY <1>11 DEF RowsAligned
<1>18. OnlySpeechKept'
  BY <1>11 DEF OnlySpeechKept
<1>19. FifoIsRecent'
  BY <1>3, <1>11, <1>13, <1>14 DEF FifoIsRecent, Popd
<1> QED
  BY <1>1, <1>11, <1>15, <1>16, <1>17, <1>18, <1>19 DEF IInv, cap

---------------------------------------------------------------------------
(* Every step.                                                             *)

BudgetStep ==
    LET valid == Len(voices') - Len(voices)
    IN  /\ Len(fifo') = FifoAfter(geo, valid, Len(fifo))
        /\ Len(spkcache') = SpkAfter(geo, valid, Len(spkcache), Len(fifo))

LEMMA StutterInv == ASSUME IInv, UNCHANGED vars PROVE IInv' /\ BudgetStep
<1>1. IInv'
  BY DEF IInv, Shapes, TypeOK, RowsAligned, FifoIsRecent, EmittedOnce,
         OnlySpeechKept, Frames, Popd, vars
<1>2. /\ Len(voices) \in Nat /\ Len(fifo) \in Nat /\ Len(spkcache) \in Nat
      /\ Len(fifo) <= geo.fifo_len /\ Len(spkcache) <= geo.spkcache_len
      /\ geo \in Geometries
  BY LenProperties DEF IInv, Shapes, TypeOK
<1>3. geo.fifo_len \in Nat /\ geo.spkcache_len \in Nat
  BY <1>2, GeometryLengths
<1>4. /\ Len(voices') = Len(voices) /\ Len(fifo') = Len(fifo)
      /\ Len(spkcache') = Len(spkcache)
  BY DEF vars
<1>5. Len(voices') - Len(voices) = 0 /\ Popped(geo, 0, Len(fifo)) = 0
  BY <1>2, <1>3, <1>4 DEF Popped
<1>6. /\ FifoAfter(geo, 0, Len(fifo)) = Len(fifo)
      /\ SpkAfter(geo, 0, Len(spkcache), Len(fifo)) = Len(spkcache)
  BY <1>2, <1>3, <1>5 DEF FifoAfter, SpkAfter, Min2
<1> QED
  BY <1>1, <1>4, <1>5, <1>6 DEF BudgetStep

LEMMA UpdateInv ==
    ASSUME IInv, NEW chunk \in Chunks, NEW lc \in Nat, NEW rc \in Nat,
           chunk # <<>>, Update(chunk, lc, rc)
    PROVE  IInv' /\ BudgetStep
<1> DEFINE v == Len(chunk)
           l1 == Len(spkcache)
           l2 == Len(fifo)
<1>1. PICK w : /\ w = Window(chunk, lc, rc)
               /\ Enqueue(w) \/ FillCache(w) \/ CompressCache(w)
  BY Zenon DEF Update
<1>2. /\ chunk \in Seq(Voice) /\ voices \in Seq(Voice) /\ fifo \in Seq(Int)
      /\ spkcache \in Seq(Int) /\ geo \in Geometries
  BY AoscConstants DEF IInv, Shapes
<1>3. Len(voices) \in Nat /\ v \in Nat /\ l1 \in Nat /\ l2 \in Nat
  BY <1>2, LenProperties
<1>4. Len(voices') - Len(voices) = v
  <2>1. Emit(w)
    BY <1>1 DEF Enqueue, FillCache, CompressCache, PopFifo
  <2>2. Len(voices') = Len(voices) + v
    BY <1>1, <2>1, EmitStep
  <2> QED
    BY <1>3, <2>2
<1>5. l1 <= geo.spkcache_len /\ l2 <= geo.fifo_len
  BY DEF IInv, TypeOK
<1>6. /\ geo.fifo_len \in Nat /\ geo.spkcache_len \in Nat
      /\ Popped(geo, v, l2) \in 0 .. l2 + v
      /\ l2 + v <= geo.fifo_len => Popped(geo, v, l2) = 0
  BY <1>2, <1>3, GeometryLengths, PoppedFits
<1>7. CASE Enqueue(w)
  <2>1. IInv' /\ Len(fifo') = l2 + v /\ Len(fifo') <= geo.fifo_len
    BY <1>1, <1>7, EnqueueInv
  <2>2. Len(spkcache') = l1
    BY <1>7 DEF Enqueue
  <2> HIDE DEF v, l1, l2
  <2>3. Popped(geo, v, l2) = 0
    BY <1>6, <2>1
  <2>4. FifoAfter(geo, v, l2) = l2 + v /\ SpkAfter(geo, v, l1, l2) = l1
    BY <1>3, <1>5, <1>6, <2>3 DEF FifoAfter, SpkAfter, Min2
  <2> QED
    BY <1>4, <2>1, <2>2, <2>4 DEF BudgetStep, l1, l2
<1>8. CASE FillCache(w)
  <2>1. IInv' /\ Len(spkcache') = l1 + w.pop
    BY <1>1, <1>8, FillCacheInv
  <2>2. w.pop = Popped(geo, v, l2) /\ Len(fifo') = l2 + v - w.pop
    <3>1. PopCounts(w, chunk)
      BY <1>1, <1>8, PopStep DEF FillCache
    <3> QED
      BY <3>1 DEF PopCounts
  <2>3. l1 + w.pop <= geo.spkcache_len
    BY <1>8 DEF FillCache
  <2> HIDE DEF v, l1, l2
  <2>4. /\ FifoAfter(geo, v, l2) = l2 + v - w.pop
        /\ SpkAfter(geo, v, l1, l2) = l1 + w.pop
    BY <1>3, <1>6, <2>2, <2>3 DEF FifoAfter, SpkAfter, Min2
  <2> QED
    BY <1>4, <2>1, <2>2, <2>4 DEF BudgetStep, l1, l2
<1>9. CASE CompressCache(w)
  <2>1. IInv' /\ Len(spkcache') = geo.spkcache_len
    BY <1>1, <1>9, CompressCacheInv
  <2>2. w.pop = Popped(geo, v, l2) /\ Len(fifo') = l2 + v - w.pop
    <3>1. PopCounts(w, chunk)
      BY <1>1, <1>9, PopStep DEF CompressCache
    <3> QED
      BY <3>1 DEF PopCounts
  <2>3. l1 + w.pop > geo.spkcache_len
    BY <1>9 DEF CompressCache
  <2> HIDE DEF v, l1, l2
  <2>4. /\ FifoAfter(geo, v, l2) = l2 + v - w.pop
        /\ SpkAfter(geo, v, l1, l2) = geo.spkcache_len
    BY <1>3, <1>6, <2>2, <2>3 DEF FifoAfter, SpkAfter, Min2
  <2> QED
    BY <1>4, <2>1, <2>2, <2>4 DEF BudgetStep, l1, l2
<1> QED
  BY <1>1, <1>7, <1>8, <1>9

LEMMA NextInv == ASSUME IInv, [Next]_vars PROVE IInv' /\ BudgetStep
<1>1. CASE UNCHANGED vars
  BY <1>1, StutterInv
<1>2. CASE Next
  <2>1. PICK chunk \in Chunks, lc \in 0 .. geo.chunk_left_context,
             rc \in 0 .. geo.chunk_right_context : Update(chunk, lc, rc)
    BY <1>2 DEF Next
  <2>2. lc \in Nat /\ rc \in Nat
    OBVIOUS
  <2>3. CASE chunk = <<>>
    BY <2>1, <2>3, StutterInv DEF Update
  <2>4. CASE chunk # <<>>
    BY <2>1, <2>2, <2>4, UpdateInv
  <2> QED
    BY <2>3, <2>4
<1> QED
  BY <1>1, <1>2

---------------------------------------------------------------------------
(* The theorems.                                                           *)

(* The invariant holds in every state any stream can reach.                *)
THEOREM Invariance == Spec => []IInv
<1>1. IInv /\ [Next]_vars => IInv'
  BY NextInv
<1> QED
  BY InitInv, <1>1, PTL DEF Spec

(* The FIFO and the cache stay within their capacities between updates,    *)
(* and every row they hold is a frame of the stream or, in the cache,      *)
(* silence: update leaves no partly filled or overfull buffer behind.      *)
THEOREM TypeCorrect == Spec => []TypeOK
<1>1. IInv => TypeOK
  BY DEF IInv
<1> QED
  BY <1>1, Invariance, PTL

(* However often the cache is compressed, appended to and captured anew,   *)
(* row j of spkcache_preds_ is a prediction the network made of row j of   *)
(* spkcache_: the two buffers never slip against each other.               *)
THEOREM RowsStayAligned == Spec => []RowsAligned
<1>1. IInv => RowsAligned
  BY DEF IInv
<1> QED
  BY <1>1, Invariance, PTL

(* The FIFO is always the newest end of the stream, without a gap, a       *)
(* repetition or a swap, and the cache only holds frames older than it;    *)
(* nothing at all is lost before the first compression.                    *)
THEOREM FifoStaysRecent == Spec => []FifoIsRecent
<1>1. IInv => FifoIsRecent
  BY DEF IInv
<1> QED
  BY <1>1, Invariance, PTL

(* update returns each frame's probabilities once and in order, as first   *)
(* predicted: contexts are never mistaken for frames.                      *)
THEOREM FramesEmittedOnce == Spec => []EmittedOnce
<1>1. IInv => EmittedOnce
  BY DEF IInv
<1> QED
  BY <1>1, Invariance, PTL

(* What compression keeps of the stream is speech: a disabled slot of the  *)
(* top-k never brings a frame without a speaker into the cache.            *)
THEOREM SpeechIsKept == Spec => []OnlySpeechKept
<1>1. IInv => OnlySpeechKept
  BY DEF IInv
<1> QED
  BY <1>1, Invariance, PTL

(* The counts by which StreamEngine models the cache (StreamGeometry) are  *)
(* what the updates of the real buffers come to.                           *)
THEOREM BudgetImplemented == Spec => ImplementsBudget
<1>1. IInv /\ [Next]_vars => [BudgetStep]_vars
  BY NextInv
<1>2. [][BudgetStep]_vars <=> ImplementsBudget
  BY DEF BudgetStep, ImplementsBudget
<1> QED
  BY <1>1, <1>2, Invariance, PTL DEF Spec

---------------------------------------------------------------------------
(* The silence counted: a fold over the popped predictions, in order.      *)

LEMMA LastOfMany ==
    ASSUME NEW n \in Nat, n >= 1
    PROVE  Max(1 .. n) = n /\ (1 .. n) \ {n} = 1 .. (n - 1) /\ 1 .. n # {}
<1>1. (1 .. n) \ {n} = 1 .. (n - 1) /\ n \in 1 .. n /\ \A y \in 1 .. n : n >= y
  OBVIOUS
<1>2. \A x \in 1 .. n : (\A y \in 1 .. n : x >= y) => x = n
  BY <1>1
<1>3. Max(1 .. n) = n
  BY <1>1, <1>2, Zenon DEF Max
<1> QED
  BY <1>1, <1>3

LEMMA CountingSilence ==
    ASSUME NEW mean \in Seq(Int), NEW preds \in Seq(Pred)
    PROVE  \E it \in [SUBSET (1 .. Len(preds)) -> Seq(Int)] :
              /\ CountSilence(mean, preds) = it[1 .. Len(preds)]
              /\ it[{}] = mean
              /\ \A n \in 1 .. Len(preds) :
                    it[1 .. n] = IF IsSilent(preds[n])
                                 THEN Append(it[1 .. (n - 1)], preds[n].of)
                                 ELSE it[1 .. (n - 1)]
<1> DEFINE D == 1 .. Len(preds)
           Step(it) == [s \in SUBSET D |->
                           IF s = {} THEN mean
                           ELSE IF IsSilent(preds[Max(s)])
                                THEN Append(it[s \ {Max(s)}], preds[Max(s)].of)
                                ELSE it[s \ {Max(s)}]]
           folded == CHOOSE it : it = Step(it)
<1>1. /\ Len(preds) \in Nat /\ DOMAIN preds = D
      /\ \A n \in D : preds[n] \in Pred /\ preds[n].of \in Int
  <2>1. Len(preds) \in Nat /\ DOMAIN preds = D
    BY LenProperties
  <2>2. \A n \in D : preds[n] \in Pred
    BY ElementOfSeq
  <2> QED
    BY <2>1, <2>2 DEF Pred
<1>2. CountSilence(mean, preds) = folded[D]
  BY <1>1 DEF CountSilence, FoldLeft, MapThenFoldSet
<1>3. IsFiniteSet(D)
  BY <1>1, FS_Interval
<1>4. ASSUME NEW s \in SUBSET D, s # {} PROVE Max(s) \in s
  <2> DEFINE Above == {n \in Nat : \A x \in s : x <= n}
  <2>1. Len(preds) \in Above
    BY <1>1
  <2>2. PICK m \in Above : \A n \in Above : m <= n
    <3>1. Above \subseteq Nat /\ Above # {}
      BY <2>1
    <3> HIDE DEF Above
    <3> QED
      BY <3>1, LeastNat
  <2>3. m \in s
    <3> SUFFICES ASSUME m \notin s PROVE FALSE
      OBVIOUS
    <3>1. m \in Nat /\ \A x \in s : x \in Nat /\ x >= 1 /\ x <= m /\ x # m
      BY <1>1, <2>2
    <3>2. \A x \in s : x <= m - 1
      BY <3>1
    <3>3. PICK x \in s : TRUE
      BY <1>4
    <3>4. m - 1 \in Nat
      BY <3>1, <3>3
    <3>5. m - 1 \in Above
      BY <3>2, <3>4
    <3>6. m <= m - 1
      BY <2>2, <3>5
    <3> QED
      BY <3>1, <3>6
  <2>4. \A y \in s : m >= y
    BY <1>1, <2>2
  <2> QED
    BY <2>3, <2>4 DEF Max
<1>5. \E it : it = Step(it)
  <2> DEFINE V == Seq(Int)
             pick == [s \in SUBSET D |-> Max(s)]
             step == [p \in D \X V |->
                        IF IsSilent(preds[p[1]])
                        THEN Append(p[2], preds[p[1]].of) ELSE p[2]]
  <2>1. Picks(pick, D)
    BY <1>4 DEF Picks
  <2>2. \A x \in D : \A v \in V :
           step[<< x, v >>] = IF IsSilent(preds[x])
                              THEN Append(v, preds[x].of) ELSE v
    OBVIOUS
  <2>3. \A x \in D : \A v \in V : step[<< x, v >>] \in V
    BY <1>1, AppendProperties
  <2>4. mean \in V /\ StepsIn(step, D, V)
    BY <2>3 DEF StepsIn
  <2>5. \A s \in SUBSET D : pick[s] = Max(s)
    OBVIOUS
  <2> HIDE DEF step, V, D, pick
  <2>6. PICK it : Iterated(it, D, mean, pick, step)
    BY <1>3, <2>1, <2>4, Iterates
  <2>7. it \in [SUBSET D -> V]
    BY <1>3, <2>1, <2>4, <2>6, Iterates
  <2>8. ASSUME NEW s \in SUBSET D PROVE it[s] = Step(it)[s]
    <3>1. it[s] = IF s = {} THEN mean ELSE step[<< pick[s], it[s \ {pick[s]}] >>]
      BY <2>6 DEF Iterated
    <3>2. s # {} => Max(s) \in D /\ it[s \ {Max(s)}] \in V
      BY <1>4, <2>7
    <3>3. s # {} => it[s] = IF IsSilent(preds[Max(s)])
                            THEN Append(it[s \ {Max(s)}], preds[Max(s)].of)
                            ELSE it[s \ {Max(s)}]
      BY <2>2, <2>5, <3>1, <3>2
    <3> QED
      BY <3>1, <3>3
  <2>9. it = [s \in SUBSET D |-> it[s]] /\ Step(it) = [s \in SUBSET D |-> Step(it)[s]]
    BY <2>7
  <2> QED
    BY <2>8, <2>9, Zenon
<1> HIDE DEF folded
<1>6. folded = Step(folded)
  BY <1>5, Zenon DEF folded
<1>7. folded \in [SUBSET D -> Seq(Int)]
  <2> DEFINE G == {s \in SUBSET D : folded[s] \in Seq(Int)}
  <2>1. \A s \in SUBSET D :
           folded[s] = IF s = {} THEN mean
                       ELSE IF IsSilent(preds[Max(s)])
                            THEN Append(folded[s \ {Max(s)}], preds[Max(s)].of)
                            ELSE folded[s \ {Max(s)}]
    <3> SUFFICES ASSUME NEW s \in SUBSET D
                 PROVE  folded[s] = Step(folded)[s]
      OBVIOUS
    <3> QED
      BY <1>6, Zenon
  <2>2. {} \in G
    BY <2>1
  <2>3. \A s \in SUBSET D : s # {} => \E x \in s : s \ {x} \in G => s \in G
    <3>1. ASSUME NEW s \in SUBSET D, s # {}, s \ {Max(s)} \in G PROVE s \in G
      <4>1. Max(s) \in D /\ folded[s \ {Max(s)}] \in Seq(Int)
        BY <1>4, <3>1
      <4>2. Append(folded[s \ {Max(s)}], preds[Max(s)].of) \in Seq(Int)
        BY <1>1, <4>1, AppendProperties
      <4> QED
        BY <2>1, <3>1, <4>1, <4>2
    <3> QED
      BY <1>4, <3>1
  <2>4. \A s \in SUBSET D : s \in G
    <3> HIDE DEF G
    <3> QED
      BY <1>3, <2>2, <2>3, FromEmpty
  <2>5. folded = [s \in SUBSET D |-> folded[s]]
    BY <1>6, Zenon
  <2> QED
    BY <2>4, <2>5
<1>8. folded[{}] = mean
  <2>1. folded[{}] = Step(folded)[{}]
    BY <1>6, Zenon
  <2> QED
    BY <2>1
<1>9. ASSUME NEW n \in 1 .. Len(preds)
      PROVE  folded[1 .. n] = IF IsSilent(preds[n])
                              THEN Append(folded[1 .. (n - 1)], preds[n].of)
                              ELSE folded[1 .. (n - 1)]
  <2>1. Max(1 .. n) = n /\ (1 .. n) \ {n} = 1 .. (n - 1) /\ 1 .. n # {}
    BY <1>1, LastOfMany
  <2>2. 1 .. n \in SUBSET D
    BY <1>1
  <2>3. folded[1 .. n] = Step(folded)[1 .. n]
    BY <1>6, Zenon
  <2> HIDE DEF D
  <2> QED
    BY <2>1, <2>2, <2>3
<1> QED
  BY <1>2, <1>7, <1>8, <1>9

\* The frames of a list, each later than the one before.
Ascending(frames) ==
    \A i, j \in 1 .. Len(frames) : i < j => frames[i] < frames[j]

LEMMA AppendAscends ==
    ASSUME NEW frames \in Seq(Int), Ascending(frames), NEW x \in Int,
           \A i \in 1 .. Len(frames) : frames[i] < x
    PROVE  /\ Append(frames, x) \in Seq(Int)
           /\ Ascending(Append(frames, x))
           /\ Range(Append(frames, x)) = Range(frames) \cup {x}
<1> DEFINE more == Append(frames, x)
           n == Len(frames)
<1>1. /\ more \in Seq(Int) /\ n \in Nat /\ Len(more) = n + 1
      /\ \A i \in 1 .. n : more[i] = frames[i]
      /\ more[n + 1] = x
  BY AppendProperties, LenProperties
<1>2. DOMAIN more = 1 .. n + 1 /\ DOMAIN frames = 1 .. n
  BY <1>1, LenProperties
<1> HIDE DEF more, n
<1>3. Ascending(more)
  <2>1. \A i, j \in 1 .. n : i < j => frames[i] < frames[j]
    BY DEF Ascending, n
  <2>2. \A i \in 1 .. n : frames[i] < x
    BY DEF n
  <2> SUFFICES ASSUME NEW i \in 1 .. n + 1, NEW j \in 1 .. n + 1, i < j
               PROVE  more[i] < more[j]
    BY <1>1 DEF Ascending
  <2>3. i \in 1 .. n /\ (j \in 1 .. n \/ j = n + 1)
    BY <1>1
  <2> QED
    BY <1>1, <2>1, <2>2, <2>3
<1>4. Range(more) = Range(frames) \cup {x}
  <2>1. \A i \in 1 .. n + 1 : i \in 1 .. n \/ i = n + 1
    BY <1>1
  <2>2. n + 1 \in 1 .. n + 1 /\ \A i \in 1 .. n : i \in 1 .. n + 1
    BY <1>1
  <2> QED
    BY <1>1, <1>2, <2>1, <2>2 DEF Range
<1> QED
  BY <1>1, <1>3, <1>4 DEF more

\* The frames after low nobody speaks in, of those there is a prediction of.
SilentAfter(low, preds) ==
    {f \in low + 1 .. low + Len(preds) : IsSilent(preds[f - low])}

\* Counting the popped frames lists those nobody speaks in after what was
\* listed, which is older.
LEMMA SilenceIsCounted ==
    ASSUME NEW mean \in Seq(Int), Ascending(mean), NEW low \in Nat,
           \A i \in 1 .. Len(mean) : mean[i] <= low,
           NEW preds \in Seq(Pred),
           \A j \in 1 .. Len(preds) : preds[j].of = low + j
    PROVE  LET counted == CountSilence(mean, preds)
           IN  /\ counted \in Seq(Int) /\ Ascending(counted)
               /\ Range(counted) = Range(mean) \cup SilentAfter(low, preds)
<1> DEFINE Silent(n) == {f \in low + 1 .. low + n : IsSilent(preds[f - low])}
           Upto(frames, n) ==
               /\ frames \in Seq(Int) /\ Ascending(frames)
               /\ \A i \in 1 .. Len(frames) : frames[i] <= low + n
               /\ Range(frames) = Range(mean) \cup Silent(n)
<1>1. PICK it \in [SUBSET (1 .. Len(preds)) -> Seq(Int)] :
         /\ CountSilence(mean, preds) = it[1 .. Len(preds)]
         /\ it[{}] = mean
         /\ \A n \in 1 .. Len(preds) :
               it[1 .. n] = IF IsSilent(preds[n])
                            THEN Append(it[1 .. (n - 1)], preds[n].of)
                            ELSE it[1 .. (n - 1)]
  BY CountingSilence
<1> DEFINE T == {n \in Nat : n <= Len(preds) => Upto(it[1 .. n], n)}
<1>2. Len(preds) \in Nat
  BY LenProperties
<1>3. 0 \in T
  <2>1. 1 .. 0 = {} /\ Silent(0) = {} /\ low + 0 = low
    OBVIOUS
  <2>2. Upto(mean, 0)
    BY <2>1
  <2> HIDE DEF Upto
  <2> QED
    BY <1>1, <2>1, <2>2
<1>4. ASSUME NEW n \in Nat, n \in T PROVE n + 1 \in T
  <2> HIDE DEF Upto
  <2> SUFFICES ASSUME n + 1 <= Len(preds) PROVE Upto(it[1 .. n + 1], n + 1)
    OBVIOUS
  <2> USE DEF Upto
  <2> DEFINE before == it[1 .. n]
             after == it[1 .. n + 1]
             x == low + (n + 1)
  <2>1. Upto(before, n)
    <3> HIDE DEF Upto
    <3> QED
      BY <1>2, <1>4
  <2>2. /\ n + 1 \in 1 .. Len(preds) /\ (n + 1) - 1 = n
        /\ preds[n + 1].of = x /\ x \in Int /\ x - low = n + 1
    BY <1>2
  <2>3. after = IF IsSilent(preds[n + 1]) THEN Append(before, x) ELSE before
    BY <1>1, <2>2
  <2>4. Silent(n + 1) = IF IsSilent(preds[n + 1]) THEN Silent(n) \cup {x} ELSE Silent(n)
    <3>1. \A f \in low + 1 .. low + (n + 1) : f \in low + 1 .. low + n \/ f = x
      BY <2>2
    <3>2. /\ x \in low + 1 .. low + (n + 1) /\ x \notin low + 1 .. low + n
          /\ \A f \in low + 1 .. low + n : f \in low + 1 .. low + (n + 1)
      BY <2>2
    <3> HIDE DEF x
    <3> QED
      BY <2>2, <3>1, <3>2
  <2> HIDE DEF before, after, Silent
  <2>5. \A i \in 1 .. Len(before) : before[i] <= low + n
    BY <2>1
  <2>6. CASE IsSilent(preds[n + 1])
    <3>1. before \in Seq(Int) /\ Ascending(before) /\ Len(before) \in Nat
      BY <2>1, LenProperties
    <3>2. \A i \in 1 .. Len(before) : before[i] < x
      BY <2>5, <3>1, ElementOfSeq
    <3>3. /\ after \in Seq(Int) /\ Ascending(after)
          /\ Range(after) = Range(before) \cup {x}
      BY <2>2, <2>3, <2>6, <3>1, <3>2, AppendAscends
    <3>4. \A i \in 1 .. Len(after) : after[i] <= low + (n + 1)
      <4>1. /\ Len(after) = Len(before) + 1 /\ after[Len(before) + 1] = x
            /\ \A i \in 1 .. Len(before) : after[i] = before[i]
        BY <2>2, <2>3, <2>6, <3>1, AppendProperties
      <4>2. \A i \in 1 .. Len(before) : before[i] \in Int
        BY <3>1, ElementOfSeq
      <4>3. \A i \in 1 .. Len(before) : before[i] <= low + (n + 1)
        BY <2>5, <4>2
      <4>4. x <= low + (n + 1) /\ \A i \in 1 .. Len(before) + 1 :
                i \in 1 .. Len(before) \/ i = Len(before) + 1
        BY <3>1
      <4> HIDE DEF x
      <4> QED
        BY <4>1, <4>3, <4>4
    <3>5. Range(after) = Range(mean) \cup Silent(n + 1)
      BY <2>1, <2>4, <2>6, <3>3
    <3> QED
      BY <3>3, <3>4, <3>5 DEF after
  <2>7. CASE ~IsSilent(preds[n + 1])
    <3>1. after = before /\ Silent(n + 1) = Silent(n)
      BY <2>3, <2>4, <2>7
    <3>2. \A i \in 1 .. Len(before) : before[i] <= low + (n + 1)
      <4>1. \A i \in 1 .. Len(before) : before[i] \in Int
        BY <2>1, ElementOfSeq
      <4> QED
        BY <2>5, <4>1
    <3>3. Upto(after, n + 1)
      BY <2>1, <3>1, <3>2
    <3> QED
      BY <3>3 DEF after
  <2> QED
    BY <2>6, <2>7
<1>5. Len(preds) \in T
  <2> HIDE DEF T
  <2> QED
    BY <1>2, <1>3, <1>4, FromZero
<1> QED
  BY <1>1, <1>2, <1>5 DEF SilentAfter

SilentProbs(p) == SumFunction(p) < SilThreshold

Counted ==
    /\ mean_sil \in Seq(Int)
    /\ SilenceCountedOnce

\* What is quiet of the frames handed over, as the voices were heard.
LEMMA CountedSays ==
    Counted <=>
        /\ mean_sil \in Seq(Int) /\ Ascending(mean_sil)
        /\ \A f \in Range(mean_sil) :
              /\ f \in Popd
              /\ SilentProbs(voices[f].first) \/ SilentProbs(voices[f].later)
        /\ \A f \in Popd :
              SilentProbs(voices[f].first) /\ SilentProbs(voices[f].later)
                 => f \in Range(mean_sil)
BY DEF Counted, SilenceCountedOnce, Ascending, SilentProbs

LEMMA CountedInit == Init => Counted
<1> SUFFICES ASSUME Init PROVE Counted
  OBVIOUS
<1>1. mean_sil = <<>> /\ voices = <<>> /\ fifo = <<>>
  BY DEF Init
<1>2. Len(mean_sil) = 0 /\ mean_sil \in Seq(Int) /\ Range(mean_sil) = {}
  BY <1>1 DEF Range
<1>3. Popd = {}
  BY <1>1 DEF Popd
<1> QED
  BY <1>2, <1>3 DEF Counted, SilenceCountedOnce

\* A step that hands over no frame counts none.
LEMMA CountedKept ==
    ASSUME IInv, Counted, UNCHANGED mean_sil,
           NEW chunk \in Seq(Voice), voices' = voices \o chunk,
           Len(voices') - Len(fifo') = Len(voices) - Len(fifo)
    PROVE  Counted'
<1>1. Popd' = Popd
  BY DEF Popd
<1>2. \A f \in Popd : voices'[f] = voices[f]
  <2>1. voices \in Seq(Voice) /\ Len(voices) \in Nat /\ Len(fifo) \in Nat
    BY LenProperties DEF IInv, Shapes
  <2>2. \A f \in Popd : f \in 1 .. Len(voices)
    BY <2>1 DEF Popd
  <2> QED
    BY <2>1, <2>2, ConcatProperties
<1>3. Ascending(mean_sil)' /\ mean_sil' = mean_sil
  BY CountedSays DEF Ascending
<1> QED
  BY <1>1, <1>2, <1>3 DEF Counted, SilenceCountedOnce

LEMMA CountedPops ==
    ASSUME IInv, Counted, NEW chunk \in Chunks, NEW lc \in Nat, NEW rc \in Nat,
           NEW w, w = Window(chunk, lc, rc), PopFifo(w)
    PROVE  Counted'
<1> DEFINE low == Len(voices) - Len(fifo)
           preds == PoppedPreds(w)
           early(f) == SilentProbs(voices'[f].first)
           late(f) == SilentProbs(voices'[f].later)
           silent == {f \in low + 1 .. low + w.pop : IsSilent(preds[f - low])}
<1>1. /\ PopCounts(w, chunk) /\ RowsLeave(w) /\ PredsLeave(w)
      /\ voices \in Seq(Voice) /\ fifo \in Seq(Int) /\ Len(fifo) <= Len(voices)
      /\ chunk \in Seq(Voice)
  <2>1. PopCounts(w, chunk) /\ RowsLeave(w) /\ PredsLeave(w)
    BY PopStep
  <2>2. chunk \in Seq(Voice)
    BY AoscConstants
  <2> QED
    BY <2>1, <2>2 DEF IInv, Shapes
<1>2. /\ Len(voices) \in Nat /\ Len(fifo) \in Nat /\ Len(chunk) \in Nat
      /\ low \in Nat
  BY <1>1, LenProperties
<1>3. /\ voices' = voices \o chunk /\ Len(voices') = Len(voices) + Len(chunk)
      /\ \A f \in 1 .. Len(voices) : voices'[f] = voices[f]
  <2>1. voices' = voices \o chunk
    BY DEF PopFifo, Emit, Window
  <2> QED
    BY <1>1, <2>1, ConcatProperties
<1>4. /\ w.pop \in Nat /\ Len(voices') - Len(fifo') = low + w.pop
      /\ low + w.pop <= Len(voices')
      /\ preds \in Seq(Pred) /\ Len(preds) = w.pop
      /\ \A j \in 1 .. w.pop : preds[j] \in PredictionsOf(voices', low + j)
  <2>1. /\ w.pop \in Nat /\ Len(voices') - Len(fifo') = low + w.pop
        /\ Len(fifo') = Len(fifo) + Len(chunk) - w.pop /\ Len(fifo') \in Nat
    BY <1>1, <1>2, LenProperties, PopStep DEF PopCounts, FifoRemains
  <2>2. low + w.pop <= Len(voices')
    BY <1>2, <1>3, <2>1
  <2>3. /\ preds \in Seq(Pred) /\ Len(preds) = w.pop
        /\ \A j \in 1 .. w.pop : preds[j] \in PredictionsOf(voices', low + j)
    BY <1>1 DEF PredsLeave, RowsLeave
  <2> QED
    BY <2>1, <2>2, <2>3
<1>5. mean_sil' = CountSilence(mean_sil, preds)
  BY DEF PopFifo, AccumulateSilence, PoppedPreds
<1> HIDE DEF low, preds
<1>6. ASSUME NEW j \in 1 .. w.pop
      PROVE  /\ preds[j].of = low + j
             /\ IsSilent(preds[j]) => early(low + j) \/ late(low + j)
             /\ early(low + j) /\ late(low + j) => IsSilent(preds[j])
  <2>1. PICK fresh \in BOOLEAN : preds[j] = Prediction(voices', low + j, fresh)
    BY <1>4 DEF PredictionsOf
  <2>2. low + j \in 1 .. Len(voices')
    BY <1>2, <1>3, <1>4
  <2>3. /\ preds[j].of = low + j
        /\ preds[j].p = IF fresh THEN voices'[low + j].first ELSE voices'[low + j].later
    BY <2>1, <2>2 DEF Prediction
  <2> QED
    BY <2>3, Zenon DEF IsSilent, SilentProbs
<1>7. /\ mean_sil \in Seq(Int) /\ Ascending(mean_sil)
      /\ \A f \in Range(mean_sil) :
            f \in 1 .. low /\ (SilentProbs(voices[f].first) \/ SilentProbs(voices[f].later))
      /\ \A f \in 1 .. low :
            SilentProbs(voices[f].first) /\ SilentProbs(voices[f].later)
               => f \in Range(mean_sil)
  BY CountedSays DEF Popd, low
<1>8. \A i \in 1 .. Len(mean_sil) : mean_sil[i] <= low
  <2>1. \A i \in 1 .. Len(mean_sil) : mean_sil[i] \in Range(mean_sil)
    BY <1>7, LenProperties DEF Range
  <2> QED
    BY <1>2, <1>7, <2>1
<1>9. /\ mean_sil' \in Seq(Int) /\ Ascending(mean_sil)'
      /\ Range(mean_sil') = Range(mean_sil) \cup silent
  <2>1. \A j \in 1 .. Len(preds) : preds[j].of = low + j
    BY <1>4, <1>6
  <2>2. LET counted == CountSilence(mean_sil, preds)
        IN  /\ counted \in Seq(Int) /\ Ascending(counted)
            /\ Range(counted) = Range(mean_sil) \cup SilentAfter(low, preds)
    BY <1>2, <1>4, <1>7, <1>8, <2>1, SilenceIsCounted
  <2> QED
    BY <1>4, <1>5, <2>2 DEF Ascending, SilentAfter
<1>10. \A f \in low + 1 .. low + w.pop :
          /\ f \in silent => early(f) \/ late(f)
          /\ early(f) /\ late(f) => f \in silent
  <2> SUFFICES ASSUME NEW f \in low + 1 .. low + w.pop
               PROVE  /\ IsSilent(preds[f - low]) => early(f) \/ late(f)
                      /\ early(f) /\ late(f) => IsSilent(preds[f - low])
    OBVIOUS
  <2>1. f - low \in 1 .. w.pop /\ low + (f - low) = f
    BY <1>2, <1>4
  <2> QED
    BY <1>6, <2>1
<1>11. /\ Popd' = 1 .. low + w.pop
       /\ \A f \in 1 .. low + w.pop : f \in 1 .. low \/ f \in low + 1 .. low + w.pop
       /\ \A f \in 1 .. low : f \in Popd' /\ f \in 1 .. Len(voices)
       /\ \A f \in low + 1 .. low + w.pop : f \in Popd'
  BY <1>1, <1>2, <1>4 DEF Popd, low
<1>12. /\ \A f \in Range(mean_sil') : f \in Popd' /\ (early(f) \/ late(f))
       /\ \A f \in Popd' : early(f) /\ late(f) => f \in Range(mean_sil')
  <2>1. \A f \in 1 .. low :
           /\ early(f) <=> SilentProbs(voices[f].first)
           /\ late(f) <=> SilentProbs(voices[f].later)
    BY <1>3, <1>11, Zenon
  <2> HIDE DEF early, late
  <2>2. \A f \in silent : f \in low + 1 .. low + w.pop
    OBVIOUS
  <2> HIDE DEF silent
  <2> QED
    BY <1>7, <1>9, <1>10, <1>11, <2>1, <2>2
<1> QED
  BY <1>9, <1>12 DEF Counted, SilenceCountedOnce, Ascending, SilentProbs

LEMMA CountedStep == ASSUME IInv, Counted, [Next]_vars PROVE Counted'
<1>1. CASE UNCHANGED vars
  BY <1>1 DEF vars, Counted, SilenceCountedOnce, Popd
<1>2. CASE Next
  <2>1. PICK chunk \in Chunks, lc \in 0 .. geo.chunk_left_context,
             rc \in 0 .. geo.chunk_right_context : Update(chunk, lc, rc)
    BY <1>2 DEF Next
  <2>2. lc \in Nat /\ rc \in Nat /\ chunk \in Seq(Voice)
    BY AoscConstants
  <2>3. CASE chunk = <<>>
    BY <2>1, <2>3 DEF Update, vars, Counted, SilenceCountedOnce, Popd
  <2>4. CASE chunk # <<>>
    <3>1. PICK w : /\ w = Window(chunk, lc, rc)
                   /\ Enqueue(w) \/ FillCache(w) \/ CompressCache(w)
      BY <2>1, <2>4, Zenon DEF Update
    <3>2. CASE Enqueue(w)
      <4>1. /\ voices' = voices \o chunk /\ Len(voices') = Len(voices) + Len(chunk)
            /\ fifo' = w.fifo /\ Len(w.fifo) = Len(fifo) + Len(chunk)
            /\ mean_sil' = mean_sil
        <5>1. FifoRegion(w, chunk)
          BY <2>2, <3>1, WindowFacts DEF IInv
        <5>2. voices' = voices \o chunk
          BY <3>2, <5>1 DEF Enqueue, Emit, FifoRegion
        <5>3. voices \in Seq(Voice)
          BY DEF IInv, Shapes
        <5> QED
          BY <2>2, <3>2, <5>1, <5>2, <5>3, ConcatProperties DEF Enqueue, FifoRegion
      <4>2. Len(voices) \in Nat /\ Len(fifo) \in Nat /\ Len(chunk) \in Nat
        BY <2>2, LenProperties DEF IInv, Shapes
      <4>3. Len(voices') - Len(fifo') = Len(voices) - Len(fifo)
        BY <4>1, <4>2
      <4> QED
        BY <2>2, <4>1, <4>3, CountedKept
    <3>3. CASE FillCache(w) \/ CompressCache(w)
      <4>1. PopFifo(w)
        BY <3>3 DEF FillCache, CompressCache
      <4> QED
        BY <2>2, <3>1, <4>1, CountedPops
    <3> QED
      BY <3>1, <3>2, <3>3
  <2> QED
    BY <2>3, <2>4
<1> QED
  BY <1>1, <1>2

(* The silence mean_sil_emb_ averages is exactly what the FIFO handed over *)
(* with nobody speaking, each frame once, in the order of the stream: the  *)
(* popped frames are counted and no others.                                *)
THEOREM SilenceIsCountedOnce == Spec => []SilenceCountedOnce
<1>1. IInv /\ Counted /\ [Next]_vars => Counted'
  BY CountedStep
<1>2. Counted => SilenceCountedOnce
  BY DEF Counted
<1> QED
  BY CountedInit, <1>1, <1>2, Invariance, PTL DEF Spec

---------------------------------------------------------------------------
\* Ranks: how many elements of a finite set come before one.

\* A relation given as a set of pairs orders a set.
Orders(C, R) ==
    /\ \A c \in C : << c, c >> \notin R
    /\ \A c, d, e \in C : << c, d >> \in R /\ << d, e >> \in R => << c, e >> \in R

Linear(C, R) == \A c, d \in C : c # d => << c, d >> \in R \/ << d, c >> \in R

Earlier(C, R, c) == {d \in C : << d, c >> \in R}

LEMMA RankBounded ==
    ASSUME NEW C, IsFiniteSet(C), NEW R, Orders(C, R), NEW c \in C
    PROVE  /\ Cardinality(Earlier(C, R, c)) \in Nat
           /\ IsFiniteSet(Earlier(C, R, c))
           /\ Cardinality(Earlier(C, R, c)) < Cardinality(C)
<1>1. /\ Earlier(C, R, c) \in SUBSET C
      /\ c \notin Earlier(C, R, c)
  BY DEF Earlier, Orders
<1>2. /\ IsFiniteSet(Earlier(C, R, c))
      /\ Cardinality(Earlier(C, R, c)) <= Cardinality(C)
      /\ Cardinality(C) # Cardinality(Earlier(C, R, c))
  <2>1. C # Earlier(C, R, c)
    BY <1>1
  <2> QED
    BY <1>1, <2>1, FS_Subset
<1>3. Cardinality(Earlier(C, R, c)) \in Nat /\ Cardinality(C) \in Nat
  BY <1>2, FS_CardinalityType
<1> QED
  BY <1>2, <1>3

LEMMA RankGrows ==
    ASSUME NEW C, IsFiniteSet(C), NEW R, Orders(C, R),
           NEW c \in C, NEW d \in C, << c, d >> \in R
    PROVE  Cardinality(Earlier(C, R, c)) < Cardinality(Earlier(C, R, d))
<1> DEFINE low == Earlier(C, R, c)
           high == Earlier(C, R, d)
<1>1. low \in SUBSET high /\ low # high
  BY DEF Earlier, Orders
<1>2. IsFiniteSet(high) /\ IsFiniteSet(low)
  BY RankBounded
<1>3. Cardinality(low) \in Nat /\ Cardinality(high) \in Nat
  BY RankBounded
<1> HIDE DEF low, high
<1>4. Cardinality(low) <= Cardinality(high) /\ Cardinality(low) # Cardinality(high)
  BY <1>1, <1>2, FS_Subset
<1> QED
  BY <1>3, <1>4 DEF low, high

\* In a linear order the rank tells the elements apart.
LEMMA RankTells ==
    ASSUME NEW C, IsFiniteSet(C), NEW R, Orders(C, R), Linear(C, R),
           NEW c \in C, NEW d \in C,
           Cardinality(Earlier(C, R, c)) = Cardinality(Earlier(C, R, d))
    PROVE  c = d
<1> SUFFICES ASSUME c # d PROVE FALSE
  OBVIOUS
<1>1. << c, d >> \in R \/ << d, c >> \in R
  BY DEF Linear
<1>2. \/ Cardinality(Earlier(C, R, c)) < Cardinality(Earlier(C, R, d))
      \/ Cardinality(Earlier(C, R, d)) < Cardinality(Earlier(C, R, c))
  BY <1>1, RankGrows
<1>3. Cardinality(Earlier(C, R, c)) \in Nat
  BY RankBounded
<1> QED
  BY <1>2, <1>3

\* In a linear order there are as many first elements as one asks for.
LEMMA FirstOfMany ==
    ASSUME NEW C, IsFiniteSet(C), NEW R, Orders(C, R), Linear(C, R), NEW k \in Nat
    PROVE  LET first == {c \in C : Cardinality(Earlier(C, R, c)) < k}
           IN  /\ IsFiniteSet(first)
               /\ Cardinality(first) <= k
               /\ k <= Cardinality(C) => Cardinality(first) = k
<1> DEFINE rank == [c \in C |-> Cardinality(Earlier(C, R, c))]
           N == Cardinality(C)
           first == {c \in C : rank[c] < k}
           of == [c \in first |-> rank[c]]
<1>1. N \in Nat /\ \A c \in C : rank[c] \in 0 .. N - 1
  BY FS_CardinalityType, RankBounded
<1>2. \A c, d \in C : rank[c] = rank[d] => c = d
  BY RankTells
<1>3. \A c \in C : rank[c] = Cardinality(Earlier(C, R, c))
  OBVIOUS
<1>4. rank \in [C -> 0 .. N - 1]
  BY <1>1
<1> HIDE DEF rank
<1>5. of \in Injection(first, 0 .. k - 1)
  <2>1. of \in [first -> 0 .. k - 1]
    BY <1>1
  <2> QED
    BY <1>2, <2>1 DEF Injection, IsInjective
<1>6. IsFiniteSet(0 .. k - 1) /\ Cardinality(0 .. k - 1) = k
  <2>1. 0 \in Int /\ k - 1 \in Int
    OBVIOUS
  <2> QED
    BY <2>1, FS_Interval
<1>7. /\ IsFiniteSet(first) /\ Cardinality(first) <= k
      /\ Cardinality(first) = k <=> of \in Surjection(first, 0 .. k - 1)
  <2> HIDE DEF of, first
  <2> QED
    BY <1>5, <1>6, FS_Injection
<1>8. ASSUME k <= N PROVE of \in Surjection(first, 0 .. k - 1)
  <2>1. rank \in Injection(C, 0 .. N - 1)
    BY <1>2, <1>4 DEF Injection, IsInjective
  <2>2. IsFiniteSet(0 .. N - 1) /\ Cardinality(0 .. N - 1) = N
    <3>1. 0 \in Int /\ N - 1 \in Int
      BY <1>1
    <3> HIDE DEF N
    <3> QED
      BY <1>1, <3>1, FS_Interval
  <2>3. rank \in Surjection(C, 0 .. N - 1)
    BY <2>1, <2>2, FS_Injection
  <2>4. \A i \in 0 .. k - 1 : \E c \in C : rank[c] = i
    <3>1. \A i \in 0 .. N - 1 : \E c \in C : rank[c] = i
      BY <2>3 DEF Surjection
    <3> QED
      BY <1>1, <1>8, <3>1
  <2>5. of \in [first -> 0 .. k - 1]
    BY <1>5 DEF Injection
  <2>6. \A i \in 0 .. k - 1 : \E c \in first : of[c] = i
    <3>1. \A i \in 0 .. k - 1 : i < k
      OBVIOUS
    <3> QED
      BY <2>4, <3>1
  <2> HIDE DEF of, first
  <2> QED
    BY <2>5, <2>6 DEF Surjection
<1> QED
  BY <1>3, <1>7, <1>8

---------------------------------------------------------------------------
\* Scores are bounded: logarithms of probabilities are not positive.

LEMMA SumAtMost ==
    ASSUME NEW D, IsFiniteSet(D), NEW f,
           \A t \in D : f[t] \in Int /\ f[t] <= 0
    PROVE  /\ SumFunctionOnSet(f, D) \in Int
           /\ \A t \in D : SumFunctionOnSet(f, D) <= f[t]
<1> DEFINE some(S) == CHOOSE x \in S : TRUE
           Step(it) == [S \in SUBSET D |->
                           IF S = {} THEN 0 ELSE f[some(S)] + it[S \ {some(S)}]]
           summed == CHOOSE it : it = Step(it)
<1>1. SumFunctionOnSet(f, D) = summed[D]
  BY DEF SumFunctionOnSet, FoldFunctionOnSet, MapThenFoldSet
<1>2. \A S \in SUBSET D : S # {} => some(S) \in S /\ some(S) \in D
  OBVIOUS
<1>3. \E it : it = Step(it)
  <2> DEFINE pick == [S \in SUBSET D |-> some(S)]
             step == [p \in D \X Int |-> f[p[1]] + p[2]]
             V == Int
             zero == 0
  <2>1. Picks(pick, D)
    BY <1>2 DEF Picks
  <2>2. \A x \in D : \A v \in Int : step[<< x, v >>] = f[x] + v
    OBVIOUS
  <2>3. zero \in V /\ StepsIn(step, D, V)
    BY <2>2 DEF StepsIn
  <2>4. \A S \in SUBSET D : pick[S] = some(S)
    OBVIOUS
  <2> HIDE DEF step, pick, some, V, zero
  <2>5. PICK it : Iterated(it, D, zero, pick, step)
    <3>1. IsFiniteSet(D) /\ zero \in V /\ Picks(pick, D) /\ StepsIn(step, D, V)
      BY <2>1, <2>3
    <3> QED
      BY <3>1, Iterates
  <2>6. it \in [SUBSET D -> V]
    BY <2>1, <2>3, <2>5, Iterates
  <2>7. ASSUME NEW S \in SUBSET D PROVE it[S] = Step(it)[S]
    <3>1. it[S] = IF S = {} THEN 0 ELSE step[<< pick[S], it[S \ {pick[S]}] >>]
      BY <2>5 DEF Iterated, zero
    <3>2. S # {} => some(S) \in D /\ it[S \ {some(S)}] \in Int
      BY <1>2, <2>6 DEF V
    <3> QED
      BY <2>2, <2>4, <3>1, <3>2
  <2>8. it = [S \in SUBSET D |-> it[S]] /\ Step(it) = [S \in SUBSET D |-> Step(it)[S]]
    BY <2>6
  <2> QED
    BY <2>7, <2>8, Zenon
<1> HIDE DEF summed, some
<1>4. summed = Step(summed)
  BY <1>3, Zenon DEF summed
<1>5. \A S \in SUBSET D :
         summed[S] = IF S = {} THEN 0 ELSE f[some(S)] + summed[S \ {some(S)}]
  <2> SUFFICES ASSUME NEW S \in SUBSET D PROVE summed[S] = Step(summed)[S]
    OBVIOUS
  <2> QED
    BY <1>4, Zenon
<1> DEFINE Low(S) == /\ summed[S] \in Int /\ summed[S] <= 0
                     /\ \A t \in S : summed[S] <= f[t]
           G == {S \in SUBSET D : Low(S)}
<1>6. {} \in G
  <2>1. summed[{}] = 0
    BY <1>5
  <2> QED
    BY <2>1
<1>7. \A S \in SUBSET D : S # {} => \E x \in S : S \ {x} \in G => S \in G
  <2>1. ASSUME NEW S \in SUBSET D, S # {}, S \ {some(S)} \in G PROVE Low(S)
    <3> DEFINE x == some(S)
               rest == S \ {x}
    <3>1. /\ x \in D /\ x \in S /\ f[x] \in Int /\ f[x] <= 0
          /\ summed[S] = f[x] + summed[rest]
      BY <1>2, <1>5, <2>1
    <3>2. Low(rest)
      BY <2>1
    <3>3. \A t \in S : t = x \/ t \in rest
      OBVIOUS
    <3>4. \A t \in S : f[t] \in Int
      OBVIOUS
    <3> HIDE DEF x, rest
    <3> QED
      BY <3>1, <3>2, <3>3, <3>4
  <2> QED
    BY <1>2, <2>1
<1>8. \A S \in SUBSET D : S \in G
  <2> HIDE DEF G
  <2> QED
    BY <1>6, <1>7, FromEmpty
<1> QED
  BY <1>1, <1>8

LEMMA SpeakersFinite ==
    /\ IsFiniteSet(Speakers) /\ Cardinality(Speakers) = NumSpeakers
    /\ NumSpeakers \in Nat /\ NumSpeakers >= 1
BY FS_Interval, ModelConstants DEF Speakers

\* The boosts: -LogHalf for a weak one, twice that for a strong one.
LEMMA LnIsNegative ==
    ASSUME NEW x \in 1 .. 100
    PROVE  Ln[x] \in Int /\ Ln[x] >= -4606 /\ Ln[x] <= 0
<1>1. Ln \in [1 .. 100 -> Int]
  BY AoscConstants
<1>2. \A p \in 1 .. 100 : Ln[p] <= 0 /\ Ln[p] >= -4606
  BY AoscConstants
<1> QED
  BY <1>1, <1>2

LEMMA HalfIsNegative == LogHalf \in Int /\ LogHalf >= -4606 /\ LogHalf <= 0
BY LnIsNegative DEF LogHalf

LEMMA LogsAreNegative ==
    ASSUME NEW p \in 0 .. 100
    PROVE  LnAbove(p) \in Int /\ LnAbove(p) <= 0
<1>1. Max2(p, PredScoreThreshold) \in 1 .. 100
  BY DEF Max2, PredScoreThreshold
<1> QED
  BY <1>1, LnIsNegative DEF LnAbove

LEMMA SpeechScoreBounded ==
    ASSUME NEW p \in Probs, NEW s \in Speakers
    PROVE  SpeechScore(p, s) \in Int /\ SpeechScore(p, s) <= -LogHalf
<1> DEFINE others == [t \in Speakers |-> LnAbove(100 - p[t])]
<1>1. \A t \in Speakers : p[t] \in 0 .. 100 /\ 100 - p[t] \in 0 .. 100
  BY DEF Probs
<1>2. \A t \in Speakers : LnAbove(100 - p[t]) \in Int /\ LnAbove(100 - p[t]) <= 0
  BY <1>1, LogsAreNegative
<1>3. SumFunction(others) \in Int /\ SumFunction(others) <= others[s]
  <2>1. /\ DOMAIN others = Speakers
          /\ \A t \in Speakers : others[t] \in Int /\ others[t] <= 0
    BY <1>2
  <2>2. SumFunction(others) = SumFunctionOnSet(others, Speakers)
    BY <2>1 DEF SumFunction
  <2> HIDE DEF others
  <2> QED
    BY <2>1, <2>2, SpeakersFinite, SumAtMost
<1>4. others[s] = LnAbove(100 - p[s])
  OBVIOUS
<1>5. LnAbove(p[s]) \in Int /\ LnAbove(p[s]) <= 0 /\ LnAbove(100 - p[s]) \in Int
  BY <1>1, <1>2, LogsAreNegative
<1>6. SpeechScore(p, s) = IF p[s] > 50
         THEN LnAbove(p[s]) - LnAbove(100 - p[s]) + SumFunction(others) - LogHalf
         ELSE NegInf
  BY DEF SpeechScore
<1> HIDE DEF others
<1>7. NegInf \in Int /\ NegInf <= -LogHalf /\ LogHalf \in Int
  BY HalfIsNegative DEF NegInf
<1> QED
  BY <1>3, <1>4, <1>5, <1>6, <1>7

LEMMA BaseScoreBounded ==
    ASSUME NEW g \in Geometries, NEW preds \in Seq(Pred),
           NEW f \in 1 .. Len(preds), NEW s \in Speakers
    PROVE  /\ BaseScore(g, preds, f, s) \in Int
           /\ BaseScore(g, preds, f, s) <= ScoresBoostLatest - LogHalf
           /\ BaseScore(g, preds, f, s) > ScoresBoostLatest =>
                 SpeechScore(preds[f].p, s) > 0
           /\ SpeechScore(preds[f].p, s) > ScoresBoostLatest =>
                 BaseScore(g, preds, f, s) > ScoresBoostLatest
<1> DEFINE score == SpeechScore(preds[f].p, s)
           kept == IF Cardinality(Positive(preds, s)) >= MinPos(g) /\ score <= 0
                   THEN NegInf ELSE score
           base == BaseScore(g, preds, f, s)
<1>1. preds[f].p \in Probs
  <2>1. preds[f] \in Pred
    BY ElementOfSeq
  <2> QED
    BY <2>1 DEF Pred
<1>2. score \in Int /\ score <= -LogHalf
  BY <1>1, SpeechScoreBounded
<1>3. base = IF f > g.spkcache_len THEN Plus(kept, ScoresBoostLatest) ELSE kept
  BY DEF BaseScore
<1>4. base = kept \/ (kept # NegInf /\ base = kept + ScoresBoostLatest)
  BY <1>3 DEF Plus
<1>5. kept = score \/ (kept = NegInf /\ score <= 0)
  OBVIOUS
<1>6. LogHalf \in Int /\ LogHalf <= 0
  BY HalfIsNegative
<1> HIDE DEF score, kept, base
<1> QED
  BY <1>2, <1>4, <1>5, <1>6 DEF score, base, NegInf, ScoresBoostLatest

---------------------------------------------------------------------------
\* Slots: what the top-k ranks, a speaker's score for a row.

Slot == [spk : Speakers, row : Nat, score : Int]

\* One slot for each speaker and row.
OnePlaceEach(C) ==
    \A c, d \in C : c.spk = d.spk /\ c.row = d.row => c = d

AheadIn(C) == {p \in C \X C : Ahead(p[1], p[2])}

LEMMA AheadIsLinear ==
    ASSUME NEW C \in SUBSET Slot
    PROVE  /\ Orders(C, AheadIn(C)) /\ Linear(C, AheadIn(C))
           /\ \A c, d \in C : << c, d >> \in AheadIn(C) <=> Ahead(c, d)
<1>1. \A c, d \in C : << c, d >> \in AheadIn(C) <=> Ahead(c, d)
  BY DEF AheadIn
<1>2. \A c \in C : /\ c.spk \in Int /\ c.row \in Int /\ c.score \in Int
                   /\ c = [spk |-> c.spk, row |-> c.row, score |-> c.score]
  BY DEF Slot, Speakers
<1>3. \A c \in C : ~Ahead(c, c)
  BY <1>2 DEF Ahead, Before
<1>4. \A c, d, e \in C : Ahead(c, d) /\ Ahead(d, e) => Ahead(c, e)
  BY <1>2 DEF Ahead, Before
<1>5. \A c, d \in C : c # d => Ahead(c, d) \/ Ahead(d, c)
  <2> SUFFICES ASSUME NEW c \in C, NEW d \in C, ~Ahead(c, d), ~Ahead(d, c)
               PROVE  c = d
    OBVIOUS
  <2>1. c.score = d.score /\ c.spk = d.spk /\ c.row = d.row
    BY <1>2 DEF Ahead, Before
  <2> QED
    BY <1>2, <2>1
<1>6. Orders(C, AheadIn(C))
  <2>1. \A c, d, e \in C : << c, d >> \in AheadIn(C) /\ << d, e >> \in AheadIn(C)
                              => << c, e >> \in AheadIn(C)
    BY <1>1, <1>4
  <2> QED
    BY <1>1, <1>3, <2>1 DEF Orders
<1>7. Linear(C, AheadIn(C))
  BY <1>1, <1>5 DEF Linear
<1> QED
  BY <1>1, <1>6, <1>7

\* The k best are k, if there are as many, and nothing else is ahead of them.
LEMMA BestOfMany ==
    ASSUME NEW C \in SUBSET Slot, IsFiniteSet(C), NEW k \in Nat
    PROVE  /\ IsFiniteSet(Best(C, k)) /\ Best(C, k) \in SUBSET C
           /\ Cardinality(Best(C, k)) <= k
           /\ k <= Cardinality(C) => Cardinality(Best(C, k)) = k
           /\ \A c \in Best(C, k), d \in C \ Best(C, k) : Ahead(c, d)
<1> DEFINE R == AheadIn(C)
           rank(c) == Cardinality(Earlier(C, R, c))
<1>1. /\ Orders(C, R) /\ Linear(C, R)
      /\ \A c, d \in C : << c, d >> \in R <=> Ahead(c, d)
  BY AheadIsLinear
<1> HIDE DEF R
<1>2. \A c \in C : Earlier(C, R, c) = {d \in C : Ahead(d, c)}
  BY <1>1 DEF Earlier
<1>3. Best(C, k) = {c \in C : rank(c) < k}
  <2>1. \A c \in C : Cardinality({d \in C : Ahead(d, c)}) = rank(c)
    BY <1>2
  <2> HIDE DEF rank
  <2> QED
    BY <2>1 DEF Best
<1>4. LET first == {c \in C : Cardinality(Earlier(C, R, c)) < k}
      IN  /\ IsFiniteSet(first)
          /\ Cardinality(first) <= k
          /\ k <= Cardinality(C) => Cardinality(first) = k
  BY <1>1, FirstOfMany
<1>5. ASSUME NEW c \in C, NEW d \in C, rank(c) < k, ~(rank(d) < k)
      PROVE  Ahead(c, d)
  <2>1. /\ rank(c) \in Nat /\ rank(d) \in Nat
        /\ << d, c >> \in R => rank(d) < rank(c)
    BY <1>1, RankBounded, RankGrows
  <2> HIDE DEF rank
  <2>2. c # d
    BY <1>5
  <2>3. << d, c >> \notin R
    BY <1>5, <2>1
  <2> QED
    BY <1>1, <2>2, <2>3 DEF Linear
<1>6. \A c \in Best(C, k), d \in C \ Best(C, k) : Ahead(c, d)
  <2> HIDE DEF rank
  <2> QED
    BY <1>3, <1>5
<1> QED
  BY <1>3, <1>4, <1>6

\* The slots a boost favours.
TopOf(C, k) == UNION {Best({c \in C : c.spk = s}, k) : s \in Speakers}

LEMMA TopOfSays ==
    ASSUME NEW C \in SUBSET Slot, NEW k
    PROVE  /\ TopOf(C, k) \in SUBSET C
           /\ \A c \in C : c \in TopOf(C, k) <=>
                 c \in Best({d \in C : d.spk = c.spk}, k)
<1>1. \A s \in Speakers : Best({c \in C : c.spk = s}, k) \subseteq {c \in C : c.spk = s}
  BY DEF Best
<1>2. \A c \in C : c.spk \in Speakers
  BY DEF Slot
<1> DEFINE best(s) == Best({c \in C : c.spk = s}, k)
<1>3. \A c : c \in TopOf(C, k) <=> \E s \in Speakers : c \in best(s)
  BY DEF TopOf
<1>4. \A s \in Speakers : \A c \in best(s) : c \in C /\ c.spk = s
  BY <1>1
<1> HIDE DEF best
<1>5. TopOf(C, k) \in SUBSET C
  BY <1>3, <1>4
<1>6. \A c \in C : c \in TopOf(C, k) <=> c \in best(c.spk)
  BY <1>2, <1>3, <1>4
<1> QED
  BY <1>5, <1>6 DEF best

\* A slot before and after a boost.
Raised(C, k, boost, c, d) ==
    /\ d.spk = c.spk /\ d.row = c.row
    /\ IF c \in TopOf(C, k) THEN d.score = Plus(c.score, boost) ELSE d = c

LEMMA BoostRaises ==
    ASSUME NEW C \in SUBSET Slot, IsFiniteSet(C), OnePlaceEach(C),
           NEW k, NEW boost \in Int
    PROVE  LET D == Boosted(C, k, boost)
           IN  /\ D \in SUBSET Slot /\ IsFiniteSet(D) /\ OnePlaceEach(D)
               /\ \A d \in D : \E c \in C : Raised(C, k, boost, c, d)
               /\ \A c \in C : \E d \in D : Raised(C, k, boost, c, d)
<1> DEFINE top == TopOf(C, k)
           up(c) == [spk |-> c.spk, row |-> c.row, score |-> Plus(c.score, boost)]
           raise == [c \in C |-> IF c \in top THEN up(c) ELSE c]
           D == Boosted(C, k, boost)
<1>1. top \in SUBSET C
  BY TopOfSays
<1>2. D = (C \ top) \cup {up(c) : c \in top}
  BY DEF Boosted, TopOf
<1> HIDE DEF top, D
<1>3. \A c \in C : raise[c] \in D
  BY <1>1, <1>2
<1>4. \A d \in D : \E c \in C : raise[c] = d
  <2> SUFFICES ASSUME NEW d \in D PROVE \E c \in C : raise[c] = d
    OBVIOUS
  <2>1. CASE d \in C \ top
    BY <2>1
  <2>2. CASE d \in {up(c) : c \in top}
    <3>1. PICK c \in top : d = up(c)
      BY <2>2
    <3>2. c \in C /\ raise[c] = up(c)
      BY <1>1
    <3> QED
      BY <3>1, <3>2
  <2> QED
    BY <1>2, <2>1, <2>2
<1>5. \A c \in C : /\ c.spk \in Speakers /\ c.row \in Nat /\ c.score \in Int
                   /\ Plus(c.score, boost) \in Int
  BY DEF Slot, Plus, NegInf
<1>6. \A c \in C : Raised(C, k, boost, c, raise[c]) /\ raise[c] \in Slot
  <2> SUFFICES ASSUME NEW c \in C
               PROVE  Raised(C, k, boost, c, raise[c]) /\ raise[c] \in Slot
    OBVIOUS
  <2>1. CASE c \in top
    <3>1. raise[c] = up(c)
      BY <2>1
    <3>2. up(c) \in Slot
      BY <1>5 DEF Slot
    <3> QED
      BY <2>1, <3>1, <3>2 DEF Raised, top
  <2>2. CASE c \notin top
    BY <2>2 DEF Raised, top
  <2> QED
    BY <2>1, <2>2
<1>7. raise \in Surjection(C, D)
  BY <1>3, <1>4 DEF Surjection
<1> HIDE DEF raise
<1>8. IsFiniteSet(D)
  BY <1>7, FS_Surjection
<1>9. OnePlaceEach(D)
  <2> SUFFICES ASSUME NEW d \in D, NEW e \in D, d.spk = e.spk, d.row = e.row
               PROVE  d = e
    BY DEF OnePlaceEach
  <2>1. PICK c \in C : raise[c] = d
    BY <1>4
  <2>2. PICK b \in C : raise[b] = e
    BY <1>4
  <2>3. c = b
    BY <1>6, <2>1, <2>2 DEF Raised, OnePlaceEach
  <2> QED
    BY <2>1, <2>2, <2>3
<1>10. /\ \A d \in D : d \in Slot
       /\ \A d \in D : \E c \in C : Raised(C, k, boost, c, d)
       /\ \A c \in C : \E d \in D : Raised(C, k, boost, c, d)
  BY <1>3, <1>4, <1>6
<1> QED
  BY <1>8, <1>9, <1>10 DEF D

\* How many frames a compression favours for each speaker.
LEMMA StrongQuota ==
    ASSUME NEW g \in Geometries
    PROVE  /\ StrongK(g) \in Nat /\ WeakK(g) \in Nat
           /\ NumSpeakers * SilFramesPerSpk + NumSpeakers * StrongK(g) <= g.spkcache_len
           /\ NumSpeakers * SilFramesPerSpk < g.spkcache_len
<1> DEFINE n == NumSpeakers
           len == g.spkcache_len
           sil == SilFramesPerSpk
           q == len \div n
           per == PerSpk(g)
<1>1. n \in Nat /\ n >= 1 /\ sil \in Nat
  BY ModelConstants
<1>2. len \in Nat /\ len >= (1 + sil) * n
  <2>1. g \in Geometry /\ ValidGeometry(g)
    BY AoscConstants
  <2> QED
    BY <2>1, GeometryLengths DEF ValidGeometry
<1> HIDE DEF n, len, sil
<1>3. q \in Nat /\ n * q <= len /\ len < n * q + n
  BY <1>1, <1>2
<1> HIDE DEF q
<1>4. q >= 1 + sil
  <2> SUFFICES ASSUME q < 1 + sil PROVE FALSE
    BY <1>1, <1>3
  <2>1. 1 + sil \in Nat /\ q + 1 <= 1 + sil
    BY <1>1, <1>3
  <2>2. n * (q + 1) <= n * (1 + sil)
    <3>1. \A a \in Nat, b \in Nat, c \in Nat : a <= b => c * a <= c * b
      OBVIOUS
    <3> QED
      BY <1>1, <1>3, <2>1, <3>1
  <2>3. n * (q + 1) = n * q + n /\ n * (1 + sil) = (1 + sil) * n
    BY <1>1, <1>3
  <2>4. n * q \in Nat /\ (1 + sil) * n \in Nat
    BY <1>1, <1>3
  <2> QED
    BY <1>1, <1>2, <1>3, <2>2, <2>3, <2>4
<1>5. per = q - sil
  BY DEF PerSpk, q, n, len, sil
<1>6. per \in Nat /\ per >= 1
  BY <1>1, <1>3, <1>4, <1>5
<1> HIDE DEF per
<1>7. StrongK(g) = (per * 75) \div 100 /\ WeakK(g) = (per * 150) \div 100
  BY DEF StrongK, WeakK, StrongBoostRate, WeakBoostRate, per
<1>8. StrongK(g) \in Nat /\ WeakK(g) \in Nat /\ sil + StrongK(g) <= q
  BY <1>1, <1>3, <1>5, <1>6, <1>7
<1>9. n * sil + n * StrongK(g) <= n * q
  <2>1. n * (sil + StrongK(g)) <= n * q
    <3>1. \A a \in Nat, b \in Nat, c \in Nat : a <= b => c * a <= c * b
      OBVIOUS
    <3> QED
      BY <1>1, <1>3, <1>8, <3>1
  <2>2. n * (sil + StrongK(g)) = n * sil + n * StrongK(g)
    BY <1>1, <1>8
  <2> QED
    BY <2>1, <2>2
<1>10. n * sil < len
  <2>1. (1 + sil) * n = n + n * sil /\ n * sil \in Nat
    BY <1>1
  <2> QED
    BY <1>1, <1>2, <2>1
<1>11. n * sil + n * StrongK(g) <= len
  <2>1. n * sil \in Nat /\ n * StrongK(g) \in Nat /\ n * q \in Nat
    BY <1>1, <1>3, <1>8
  <2> QED
    BY <1>2, <1>3, <1>9, <2>1
<1> QED
  BY <1>8, <1>10, <1>11 DEF n, len, sil

\* The slots for silence: enough for every speaker, ahead of every score.
LEMMA SilenceSlotsAre ==
    ASSUME NEW n \in Nat
    PROVE  /\ SilenceSlots(n) \in SUBSET Slot /\ IsFiniteSet(SilenceSlots(n))
           /\ Cardinality(SilenceSlots(n)) = NumSpeakers * SilFramesPerSpk
           /\ \A c \in SilenceSlots(n) : c.row > n /\ c.score = PosInf
<1> DEFINE I == 1 .. SilFramesPerSpk
           slot == [p \in I \X Speakers |->
                       [spk |-> p[2], row |-> n + p[1], score |-> PosInf]]
           S == SilenceSlots(n)
<1>1. /\ IsFiniteSet(I) /\ Cardinality(I) = SilFramesPerSpk
  <2>1. 1 \in Int /\ SilFramesPerSpk \in Nat
    BY ModelConstants
  <2> QED
    BY <2>1, FS_Interval
<1>2. IsFiniteSet(I \X Speakers) /\ Cardinality(I \X Speakers) = SilFramesPerSpk * NumSpeakers
  <2> HIDE DEF I
  <2> QED
    BY <1>1, SpeakersFinite, FS_Product
<1>3. S = {[spk |-> s, row |-> n + i, score |-> PosInf] : i \in I, s \in Speakers}
  BY DEF SilenceSlots
<1>4. \A i \in I, s \in Speakers :
         slot[<< i, s >>] = [spk |-> s, row |-> n + i, score |-> PosInf]
  OBVIOUS
<1>5. \A i \in I : i \in Nat /\ i >= 1
  BY ModelConstants
<1>6. \A c \in S : c \in Slot /\ c.row > n /\ c.score = PosInf
  <2> SUFFICES ASSUME NEW i \in I, NEW s \in Speakers, NEW c,
                      c = [spk |-> s, row |-> n + i, score |-> PosInf]
               PROVE  c \in Slot /\ c.row > n /\ c.score = PosInf
    BY <1>3
  <2>1. n + i \in Nat /\ n + i > n
    BY <1>5
  <2> QED
    BY <2>1 DEF Slot, PosInf
<1>7. slot \in Surjection(I \X Speakers, S)
  <2> HIDE DEF S, I
  <2>1. slot \in [I \X Speakers -> S]
    BY <1>3
  <2>2. \A c \in S : \E p \in I \X Speakers : slot[p] = c
    <3> SUFFICES ASSUME NEW c \in S PROVE \E p \in I \X Speakers : slot[p] = c
      OBVIOUS
    <3>1. PICK i \in I, s \in Speakers : c = [spk |-> s, row |-> n + i, score |-> PosInf]
      BY <1>3
    <3>2. << i, s >> \in I \X Speakers /\ slot[<< i, s >>] = c
      BY <1>4, <3>1
    <3> QED
      BY <3>2
  <2> HIDE DEF slot
  <2> QED
    BY <2>1, <2>2 DEF Surjection
<1>8. slot \in Injection(I \X Speakers, S)
  <2>1. slot \in [I \X Speakers -> S]
    BY <1>7 DEF Surjection
  <2>2. ASSUME NEW p \in I \X Speakers, NEW r \in I \X Speakers, slot[p] = slot[r]
        PROVE  p = r
    <3>1. /\ p = << p[1], p[2] >> /\ r = << r[1], r[2] >>
          /\ p[1] \in I /\ r[1] \in I
      OBVIOUS
    <3>2. p[2] = r[2] /\ n + p[1] = n + r[1]
      BY <2>2
    <3>3. p[1] = r[1]
      BY <1>5, <3>1, <3>2
    <3> QED
      BY <3>1, <3>2, <3>3
  <2> HIDE DEF slot, S, I
  <2> QED
    BY <2>1, <2>2 DEF Injection, IsInjective
<1> HIDE DEF slot, S, I
<1>9. IsFiniteSet(S) /\ Cardinality(S) = SilFramesPerSpk * NumSpeakers
  BY <1>2, <1>7, <1>8, FS_Surjection
<1>10. SilFramesPerSpk * NumSpeakers = NumSpeakers * SilFramesPerSpk
  BY ModelConstants
<1> QED
  BY <1>6, <1>9, <1>10 DEF S

LEMMA CandidatesAre ==
    ASSUME NEW g \in Geometries, NEW preds \in Seq(Pred)
    PROVE  LET C == Candidates(g, preds)
           IN  /\ C \in SUBSET Slot /\ IsFiniteSet(C) /\ OnePlaceEach(C)
               /\ \A c \in C : /\ c.row \in 1 .. Len(preds)
                               /\ c.score = BaseScore(g, preds, c.row, c.spk)
               /\ \A f \in 1 .. Len(preds), s \in Speakers :
                     \E c \in C : c.spk = s /\ c.row = f
<1> DEFINE F == 1 .. Len(preds)
           C == Candidates(g, preds)
           base(f, s) == BaseScore(g, preds, f, s)
           slot(f, s) == [spk |-> s, row |-> f, score |-> base(f, s)]
           from == [p \in F \X Speakers |-> slot(p[1], p[2])]
<1>1. Len(preds) \in Nat
  BY LenProperties
<1>2. \A f \in F, s \in Speakers : base(f, s) \in Int
  BY BaseScoreBounded
<1> HIDE DEF base
<1>3. C = {slot(f, s) : f \in F, s \in Speakers}
  BY DEF Candidates, base
<1>4. IsFiniteSet(F \X Speakers)
  <2>1. IsFiniteSet(F)
    BY <1>1, FS_Interval
  <2> HIDE DEF F
  <2> QED
    BY <2>1, SpeakersFinite, FS_Product
<1>5. \A f \in F : f \in Nat
  BY <1>1
<1>6. \A f \in F, s \in Speakers : slot(f, s) \in Slot
  BY <1>2, <1>5 DEF Slot
<1> HIDE DEF C, F
<1>7. \A c \in C : \E f \in F, s \in Speakers : c = slot(f, s)
  BY <1>3
<1>8. \A f \in F, s \in Speakers : slot(f, s) \in C
  BY <1>3
<1>9. from \in Surjection(F \X Speakers, C)
  <2>1. from \in [F \X Speakers -> C]
    BY <1>8
  <2>2. \A c \in C : \E p \in F \X Speakers : from[p] = c
    <3> SUFFICES ASSUME NEW c \in C PROVE \E p \in F \X Speakers : from[p] = c
      OBVIOUS
    <3>1. PICK f \in F, s \in Speakers : c = slot(f, s)
      BY <1>7
    <3>2. << f, s >> \in F \X Speakers /\ from[<< f, s >>] = slot(f, s)
      OBVIOUS
    <3> QED
      BY <3>1, <3>2
  <2> HIDE DEF from
  <2> QED
    BY <2>1, <2>2 DEF Surjection
<1>10. IsFiniteSet(C)
  <2> HIDE DEF from
  <2> QED
    BY <1>4, <1>9, FS_Surjection
<1>11. \A c \in C : /\ c \in Slot /\ c.row \in F
                    /\ c.score = base(c.row, c.spk) /\ c = slot(c.row, c.spk)
  <2> SUFFICES ASSUME NEW f \in F, NEW s \in Speakers, NEW c, c = slot(f, s)
               PROVE  /\ c \in Slot /\ c.row \in F
                      /\ c.score = base(c.row, c.spk) /\ c = slot(c.row, c.spk)
    BY <1>7
  <2> QED
    BY <1>6
<1>12. OnePlaceEach(C)
  <2> HIDE DEF slot
  <2> QED
    BY <1>11, Zenon DEF OnePlaceEach
<1>13. \A f \in F, s \in Speakers : \E c \in C : c.spk = s /\ c.row = f
  BY <1>8
<1> QED
  BY <1>10, <1>11, <1>12, <1>13 DEF C, F, base

\* The candidates after the strong boost, which is worth twice -LogHalf.
StrongSlots(g, preds) == Boosted(Candidates(g, preds), StrongK(g), -2 * LogHalf)

\* Those it favoured.
IsStrong(g, preds, d) ==
    \E c \in TopOf(Candidates(g, preds), StrongK(g)) : c.spk = d.spk /\ c.row = d.row

LEMMA ScoredAre ==
    ASSUME NEW g \in Geometries, NEW preds \in Seq(Pred)
    PROVE  LET C == Scored(g, preds)
           IN  /\ C \in SUBSET Slot /\ IsFiniteSet(C) /\ OnePlaceEach(C)
               /\ \A d \in C :
                     /\ d.row \in 1 .. Len(preds)
                     /\ d.score <= ScoresBoostLatest - 4 * LogHalf
                     /\ d.score > ScoresBoostLatest - 2 * LogHalf
                           => IsStrong(g, preds, d)
               /\ \A c \in TopOf(Candidates(g, preds), StrongK(g)) :
                     c.score > ScoresBoostLatest =>
                        \E d \in C : /\ d.spk = c.spk /\ d.row = c.row
                                     /\ d.score > ScoresBoostLatest - 2 * LogHalf
<1> DEFINE A == Candidates(g, preds)
           B == StrongSlots(g, preds)
           C == Scored(g, preds)
           k == StrongK(g)
           l == WeakK(g)
           h == LogHalf
<1>1. h \in Int /\ h <= 0
  BY HalfIsNegative
<1>2. C = Boosted(B, l, -h)
  BY DEF Scored, StrongSlots
<1>3. /\ A \in SUBSET Slot /\ IsFiniteSet(A) /\ OnePlaceEach(A)
      /\ \A c \in A : /\ c.row \in 1 .. Len(preds)
                      /\ c.score = BaseScore(g, preds, c.row, c.spk)
  BY CandidatesAre
<1>4. \A c \in A : c.score \in Int /\ c.score <= ScoresBoostLatest - h
  <2>1. \A c \in A : c.spk \in Speakers
    BY <1>3 DEF Slot
  <2> QED
    BY <1>3, <2>1, BaseScoreBounded
<1> HIDE DEF A, C, k, l, h
<1>5. /\ B \in SUBSET Slot /\ IsFiniteSet(B) /\ OnePlaceEach(B)
      /\ \A d \in B : \E c \in A : Raised(A, k, -2 * h, c, d)
      /\ \A c \in A : \E d \in B : Raised(A, k, -2 * h, c, d)
  <2>1. -2 * h \in Int
    BY <1>1
  <2>2. B = Boosted(A, k, -2 * h)
    BY DEF StrongSlots, A, k, h
  <2> DEFINE up == -2 * h
  <2> HIDE DEF up, B
  <2>3. LET D == Boosted(A, k, up)
        IN  /\ D \in SUBSET Slot /\ IsFiniteSet(D) /\ OnePlaceEach(D)
            /\ \A d \in D : \E c \in A : Raised(A, k, up, c, d)
            /\ \A c \in A : \E d \in D : Raised(A, k, up, c, d)
    BY <1>3, <2>1, BoostRaises DEF up
  <2> QED
    BY <2>2, <2>3 DEF up
<1> HIDE DEF B
<1>6. /\ C \in SUBSET Slot /\ IsFiniteSet(C) /\ OnePlaceEach(C)
      /\ \A d \in C : \E c \in B : Raised(B, l, -h, c, d)
      /\ \A c \in B : \E d \in C : Raised(B, l, -h, c, d)
  <2> DEFINE up == -h
  <2>1. up \in Int
    BY <1>1
  <2> HIDE DEF up
  <2>2. LET D == Boosted(B, l, up)
        IN  /\ D \in SUBSET Slot /\ IsFiniteSet(D) /\ OnePlaceEach(D)
            /\ \A d \in D : \E c \in B : Raised(B, l, up, c, d)
            /\ \A c \in B : \E d \in D : Raised(B, l, up, c, d)
    BY <1>5, <2>1, BoostRaises
  <2> QED
    BY <1>2, <2>2 DEF up
<1>7. \A d \in C : d.score \in Int /\ d.row \in Nat /\ d.spk \in Speakers
  BY <1>6 DEF Slot
<1>8. \A d \in B : d.score \in Int /\ d.row \in Nat /\ d.spk \in Speakers
  BY <1>5 DEF Slot
<1>9. ASSUME NEW d \in B
      PROVE  /\ d.row \in 1 .. Len(preds)
             /\ d.score <= ScoresBoostLatest - 3 * h
             /\ d.score > ScoresBoostLatest - h => IsStrong(g, preds, d)
  <2>1. PICK c \in A : Raised(A, k, -2 * h, c, d)
    BY <1>5
  <2>2. d.score = c.score \/ d.score = c.score + -2 * h
    BY <2>1 DEF Raised, Plus
  <2>3. c \notin TopOf(A, k) => d = c
    BY <2>1 DEF Raised
  <2>4. c \in TopOf(A, k) => IsStrong(g, preds, d)
    BY <2>1 DEF Raised, IsStrong, A, k
  <2> QED
    BY <1>1, <1>3, <1>4, <2>1, <2>2, <2>3, <2>4 DEF Raised, ScoresBoostLatest
<1>10. ASSUME NEW d \in C
       PROVE  /\ d.row \in 1 .. Len(preds)
              /\ d.score <= ScoresBoostLatest - 4 * h
              /\ d.score > ScoresBoostLatest - 2 * h => IsStrong(g, preds, d)
  <2>1. PICK c \in B : Raised(B, l, -h, c, d)
    BY <1>6
  <2>2. d.score = c.score \/ d.score = c.score + -h
    BY <2>1 DEF Raised, Plus
  <2>3. d.row = c.row /\ d.spk = c.spk
    BY <2>1 DEF Raised
  <2>4. /\ c.row \in 1 .. Len(preds)
        /\ c.score <= ScoresBoostLatest - 3 * h
        /\ c.score > ScoresBoostLatest - h => IsStrong(g, preds, c)
    BY <1>9
  <2>5. IsStrong(g, preds, c) => IsStrong(g, preds, d)
    BY <2>3 DEF IsStrong
  <2>6. c.score \in Int /\ d.score \in Int
    BY <1>7, <1>8
  <2> QED
    BY <1>1, <2>2, <2>3, <2>4, <2>5, <2>6 DEF ScoresBoostLatest
<1>11. ASSUME NEW c \in TopOf(A, k), c.score > ScoresBoostLatest
       PROVE  \E d \in C : /\ d.spk = c.spk /\ d.row = c.row
                           /\ d.score > ScoresBoostLatest - 2 * h
  <2>1. c \in A /\ c.score \in Int
    BY <1>3, <1>4, TopOfSays
  <2>2. PICK b \in B : Raised(A, k, -2 * h, c, b)
    BY <1>5, <2>1
  <2>3. b.spk = c.spk /\ b.row = c.row /\ b.score = c.score + -2 * h
    BY <1>11, <2>1, <2>2 DEF Raised, Plus, NegInf, ScoresBoostLatest
  <2>4. PICK d \in C : Raised(B, l, -h, b, d)
    BY <1>6
  <2>5. d.spk = b.spk /\ d.row = b.row /\ (d.score = b.score \/ d.score = b.score + -h)
    BY <2>4 DEF Raised, Plus
  <2>6. d.score > ScoresBoostLatest - 2 * h
    BY <1>1, <1>11, <2>1, <2>3, <2>5 DEF ScoresBoostLatest
  <2> QED
    BY <2>3, <2>5, <2>6
<1> QED
  BY <1>6, <1>10, <1>11 DEF A, C, k, h

\* No more slots are strong than every speaker's quota.
LEMMA TopCount ==
    ASSUME NEW C \in SUBSET Slot, IsFiniteSet(C), NEW k \in Nat
    PROVE  /\ IsFiniteSet(TopOf(C, k))
           /\ Cardinality(TopOf(C, k)) <= NumSpeakers * k
<1> DEFINE of(s) == {c \in C : c.spk = s}
           rank(c) == Cardinality(Earlier(of(c.spk), AheadIn(of(c.spk)), c))
           T == TopOf(C, k)
           K == 0 .. k - 1
           to == [c \in T |-> << c.spk, rank(c) >>]
<1>1. \A s : of(s) \in SUBSET Slot /\ of(s) \in SUBSET C /\ IsFiniteSet(of(s))
  BY FS_Subset
<1>2. ASSUME NEW c \in T
      PROVE  c \in C /\ c \in of(c.spk) /\ c.spk \in Speakers /\ rank(c) \in K
  <2>1. c \in C /\ c \in Best(of(c.spk), k)
    BY TopOfSays
  <2>2. c \in of(c.spk) /\ c.spk \in Speakers
    BY <2>1 DEF Slot
  <2> DEFINE E == of(c.spk)
             R == AheadIn(E)
  <2>3. E \in SUBSET Slot /\ IsFiniteSet(E) /\ c \in E
    BY <1>1, <2>2
  <2> HIDE DEF E
  <2>4. Orders(E, R) /\ \A x, y \in E : << x, y >> \in R <=> Ahead(x, y)
    BY <2>3, AheadIsLinear
  <2>5. Cardinality({d \in E : Ahead(d, c)}) < k
    BY <2>1 DEF Best, E
  <2> HIDE DEF R
  <2>6. Earlier(E, R, c) = {d \in E : Ahead(d, c)}
    BY <2>3, <2>4 DEF Earlier
  <2>7. Cardinality(Earlier(E, R, c)) \in Nat
    BY <2>3, <2>4, RankBounded
  <2>8. Cardinality(Earlier(E, R, c)) \in K
    BY <2>5, <2>6, <2>7
  <2> QED
    BY <2>1, <2>2, <2>8 DEF E, R
<1>3. ASSUME NEW c \in T, NEW d \in T, c.spk = d.spk, rank(c) = rank(d)
      PROVE  c = d
  <2> DEFINE E == of(c.spk)
             R == AheadIn(E)
  <2>1. E \in SUBSET Slot /\ IsFiniteSet(E) /\ c \in E /\ d \in E
    BY <1>1, <1>2, <1>3
  <2>2. Cardinality(Earlier(E, R, c)) = Cardinality(Earlier(E, R, d))
    BY <1>3
  <2> HIDE DEF E
  <2>3. Orders(E, R) /\ Linear(E, R)
    BY <2>1, AheadIsLinear
  <2> HIDE DEF R
  <2> QED
    BY <2>1, <2>2, <2>3, RankTells
<1> HIDE DEF rank, T
<1>4. IsFiniteSet(K) /\ Cardinality(K) = k
  <2>1. 0 \in Int /\ k - 1 \in Int
    OBVIOUS
  <2> QED
    BY <2>1, FS_Interval
<1> HIDE DEF K
<1>5. to \in Injection(T, Speakers \X K)
  <2>1. to \in [T -> Speakers \X K]
    BY <1>2
  <2>2. \A c, d \in T : to[c] = to[d] => c = d
    BY <1>3
  <2> HIDE DEF to
  <2> QED
    BY <2>1, <2>2 DEF Injection, IsInjective
<1>6. IsFiniteSet(Speakers \X K) /\ Cardinality(Speakers \X K) = NumSpeakers * k
  BY <1>4, SpeakersFinite, FS_Product
<1> HIDE DEF to
<1>7. IsFiniteSet(T) /\ Cardinality(T) <= Cardinality(Speakers \X K)
  BY <1>5, <1>6, FS_Injection
<1> QED
  BY <1>6, <1>7 DEF T

LEMMA StrongCount ==
    ASSUME NEW g \in Geometries, NEW preds \in Seq(Pred)
    PROVE  LET S == {d \in Scored(g, preds) :
                        d.score > ScoresBoostLatest - 2 * LogHalf}
           IN  /\ IsFiniteSet(S)
               /\ Cardinality(S) <= NumSpeakers * StrongK(g)
<1> DEFINE C == Scored(g, preds)
           S == {d \in C : d.score > ScoresBoostLatest - 2 * LogHalf}
           T == TopOf(Candidates(g, preds), StrongK(g))
           from == [d \in S |-> CHOOSE c \in T : c.spk = d.spk /\ c.row = d.row]
<1>1. /\ IsFiniteSet(T) /\ Cardinality(T) <= NumSpeakers * StrongK(g)
  BY CandidatesAre, StrongQuota, TopCount
<1>2. OnePlaceEach(C) /\ \A d \in S : \E c \in T : c.spk = d.spk /\ c.row = d.row
  BY ScoredAre DEF IsStrong
<1> HIDE DEF C, T
<1>3. \A d \in S : from[d] \in T /\ from[d].spk = d.spk /\ from[d].row = d.row
  BY <1>2
<1>4. from \in [S -> T]
  BY <1>2
<1>5. \A d, e \in S : from[d] = from[e] => d = e
  BY <1>2, <1>3 DEF OnePlaceEach
<1> HIDE DEF S, from
<1>6. from \in Injection(S, T)
  BY <1>4, <1>5 DEF Injection, IsInjective
<1>7. IsFiniteSet(S) /\ Cardinality(S) <= Cardinality(T)
  BY <1>1, <1>6, FS_Injection
<1>8. /\ Cardinality(S) \in Nat /\ Cardinality(T) \in Nat
      /\ NumSpeakers * StrongK(g) \in Nat
  BY <1>1, <1>7, FS_CardinalityType, StrongQuota, SpeakersFinite
<1>9. Cardinality(S) <= NumSpeakers * StrongK(g)
  BY <1>1, <1>7, <1>8
<1> QED
  BY <1>7, <1>9 DEF S, C

\* What is picked: the silence, and all that is strong and clear.
LEMMA PickedAre ==
    ASSUME NEW g \in Geometries, NEW preds \in Seq(Pred)
    PROVE  LET P == Picked(g, preds)
           IN  /\ P \in SUBSET Slot /\ IsFiniteSet(P)
               /\ Cardinality(P) <= g.spkcache_len
               /\ SilenceSlots(Len(preds)) \subseteq P
               /\ \A d \in Scored(g, preds) :
                     d.score > ScoresBoostLatest - 2 * LogHalf => d \in P
<1> DEFINE h == LogHalf
           len == g.spkcache_len
           Z == SilenceSlots(Len(preds))
           D == Scored(g, preds)
           S == {d \in D : d.score > ScoresBoostLatest - 2 * h}
           C == D \cup Z
           P == Picked(g, preds)
<1>0. Len(preds) \in Nat
  BY LenProperties
<1>1. h \in Int /\ h <= 0 /\ h >= -4606
  BY HalfIsNegative
<1>2. /\ Z \in SUBSET Slot /\ IsFiniteSet(Z)
      /\ Cardinality(Z) = NumSpeakers * SilFramesPerSpk
      /\ \A c \in Z : c.score = PosInf
  BY <1>0, SilenceSlotsAre
<1>3. /\ D \in SUBSET Slot /\ IsFiniteSet(D)
      /\ \A d \in D : d.score <= ScoresBoostLatest - 4 * h
  BY ScoredAre
<1>4. IsFiniteSet(S) /\ Cardinality(S) <= NumSpeakers * StrongK(g)
  BY StrongCount
<1>5. /\ len \in Nat
      /\ NumSpeakers * SilFramesPerSpk + NumSpeakers * StrongK(g) <= len
      /\ NumSpeakers * SilFramesPerSpk < len
      /\ NumSpeakers * SilFramesPerSpk \in Nat /\ NumSpeakers * StrongK(g) \in Nat
  BY GeometryLengths, StrongQuota, ModelConstants
<1>6. P = {c \in Best(C, len) : c.score # NegInf}
  BY DEF Picked
<1> HIDE DEF h, len, Z, D, P
<1>7. C \in SUBSET Slot /\ IsFiniteSet(C)
  BY <1>2, <1>3, FS_Union
<1>8. /\ Best(C, len) \in SUBSET C /\ IsFiniteSet(Best(C, len))
      /\ Cardinality(Best(C, len)) <= len
  BY <1>5, <1>7, BestOfMany
<1>9. /\ P \in SUBSET Slot /\ IsFiniteSet(P) /\ Cardinality(P) <= len
  <2>1. P \in SUBSET Best(C, len)
    BY <1>6
  <2>2. IsFiniteSet(P) /\ Cardinality(P) <= Cardinality(Best(C, len))
    BY <1>8, <2>1, FS_Subset
  <2>3. Cardinality(P) \in Nat /\ Cardinality(Best(C, len)) \in Nat
    BY <1>8, <2>2, FS_CardinalityType
  <2>4. Cardinality(P) <= len
    BY <1>5, <1>8, <2>2, <2>3
  <2>5. P \in SUBSET Slot
    BY <1>7, <1>8, <2>1
  <2> QED
    BY <2>2, <2>4, <2>5
<1>10. ASSUME NEW A \in SUBSET C, IsFiniteSet(A), Cardinality(A) <= len, NEW c \in A,
              \A d \in C : Ahead(d, c) => d \in A
       PROVE  c \in Best(C, len)
  <2> DEFINE E == {d \in C : Ahead(d, c)}
  <2>1. E \in SUBSET (A \ {c})
    <3>1. ~Ahead(c, c)
      <4>1. c \in Slot
        BY <1>7
      <4> QED
        BY <4>1 DEF Slot, Speakers, Ahead, Before
    <3> QED
      BY <1>10, <3>1
  <2>2. /\ IsFiniteSet(A \ {c}) /\ Cardinality(A \ {c}) = Cardinality(A) - 1
        /\ Cardinality(A) \in Nat
    BY <1>10, FS_RemoveElement, FS_CardinalityType
  <2> HIDE DEF E
  <2>3. IsFiniteSet(E) /\ Cardinality(E) <= Cardinality(A \ {c})
    BY <2>1, <2>2, FS_Subset
  <2>4. Cardinality(E) \in Nat
    BY <2>3, FS_CardinalityType
  <2>5. Cardinality(E) < len
    BY <1>5, <1>10, <2>2, <2>3, <2>4
  <2> QED
    BY <2>5 DEF Best, E
<1>11. \A c \in C : c.score \in Int
  BY <1>7 DEF Slot
<1>12. ASSUME NEW c \in Z PROVE c \in P
  <2>1. c.score = PosInf /\ c \in C
    BY <1>2
  <2>2. ASSUME NEW d \in C, Ahead(d, c) PROVE d \in Z
    <3>1. d.score >= PosInf
      BY <1>11, <2>1, <2>2 DEF Ahead, PosInf
    <3>2. d \notin D
      BY <1>1, <1>3, <1>11, <3>1 DEF PosInf, ScoresBoostLatest
    <3> QED
      BY <3>2
  <2>3. Z \in SUBSET C /\ Cardinality(Z) <= len
    BY <1>2, <1>5
  <2>4. c \in Best(C, len)
    BY <1>2, <1>10, <2>2, <2>3
  <2> QED
    BY <1>6, <2>1, <2>4 DEF PosInf, NegInf
<1>13. ASSUME NEW c \in S PROVE c \in P
  <2> DEFINE A == S \cup Z
  <2>1. c \in C /\ c \in A /\ c.score > ScoresBoostLatest - 2 * h /\ A \in SUBSET C
    OBVIOUS
  <2>2. IsFiniteSet(A) /\ Cardinality(A) <= len
    <3> HIDE DEF S
    <3>1. /\ IsFiniteSet(A)
          /\ Cardinality(A) = Cardinality(S) + Cardinality(Z) - Cardinality(S \cap Z)
      BY <1>2, <1>4, FS_Union
    <3>2. /\ Cardinality(S) \in Nat /\ Cardinality(Z) \in Nat
          /\ Cardinality(S \cap Z) \in Nat
      <4>1. IsFiniteSet(S \cap Z)
        BY <1>4, FS_Intersection
      <4> QED
        BY <1>2, <1>4, <4>1, FS_CardinalityType
    <3> HIDE DEF A
    <3> QED
      BY <1>2, <1>4, <1>5, <3>1, <3>2
  <2>3. ASSUME NEW d \in C, Ahead(d, c) PROVE d \in A
    <3>1. d.score >= c.score
      BY <1>11, <2>1, <2>3 DEF Ahead
    <3>2. d \in D => d.score > ScoresBoostLatest - 2 * h
      BY <1>1, <1>11, <2>1, <3>1 DEF ScoresBoostLatest
    <3> QED
      BY <3>2
  <2> HIDE DEF A
  <2>4. c \in Best(C, len)
    BY <1>10, <2>1, <2>2, <2>3
  <2>5. c.score # NegInf
    BY <1>1, <1>11, <2>1 DEF NegInf, ScoresBoostLatest
  <2> QED
    BY <1>6, <2>4, <2>5
<1> QED
  BY <1>9, <1>12, <1>13 DEF P, Z, D, h, len

---------------------------------------------------------------------------
\* Where a compression puts what is picked.

BeforeIn(P) == {p \in P \X P : Before(p[1], p[2])}

PlaceIn(P, c) == 1 + Cardinality({d \in P : Before(d, c)})

LEMMA PlacesAre ==
    ASSUME NEW P \in SUBSET Slot, IsFiniteSet(P)
    PROVE  /\ \A c \in P : PlaceIn(P, c) \in 1 .. Cardinality(P)
           /\ \A c, d \in P : PlaceIn(P, c) = PlaceIn(P, d) =>
                 c.spk = d.spk /\ c.row = d.row
<1> DEFINE R == BeforeIn(P)
           rank(c) == Cardinality(Earlier(P, R, c))
<1>1. \A c \in P : c.spk \in Int /\ c.row \in Int
  BY DEF Slot, Speakers
<1>2. \A c, d \in P : << c, d >> \in R <=> Before(c, d)
  BY DEF BeforeIn
<1>3. Orders(P, R)
  <2>1. \A c \in P : ~Before(c, c)
    BY <1>1 DEF Before
  <2>2. \A c, d, e \in P : Before(c, d) /\ Before(d, e) => Before(c, e)
    BY <1>1 DEF Before
  <2>3. \A c, d, e \in P : << c, d >> \in R /\ << d, e >> \in R => << c, e >> \in R
    BY <1>2, <2>2
  <2> HIDE DEF R
  <2> QED
    BY <1>2, <2>1, <2>3 DEF Orders
<1> HIDE DEF R
<1>4. \A c \in P : PlaceIn(P, c) = 1 + rank(c)
  <2>1. \A c \in P : {d \in P : Before(d, c)} = Earlier(P, R, c)
    BY <1>2 DEF Earlier
  <2> QED
    BY <2>1 DEF PlaceIn
<1>5. \A c \in P : rank(c) \in Nat /\ rank(c) < Cardinality(P)
  BY <1>3, RankBounded
<1>6. Cardinality(P) \in Nat
  BY FS_CardinalityType
<1>7. \A c, d \in P : Before(c, d) => rank(c) < rank(d)
  BY <1>2, <1>3, RankGrows
<1> HIDE DEF rank
<1>8. \A c \in P : PlaceIn(P, c) \in 1 .. Cardinality(P)
  BY <1>4, <1>5, <1>6
<1>9. ASSUME NEW c \in P, NEW d \in P, PlaceIn(P, c) = PlaceIn(P, d)
      PROVE  c.spk = d.spk /\ c.row = d.row
  <2>1. rank(c) = rank(d)
    BY <1>4, <1>5, <1>9
  <2>2. ~Before(c, d) /\ ~Before(d, c)
    BY <1>5, <1>7, <2>1
  <2> QED
    BY <1>1, <2>2 DEF Before
<1> QED
  BY <1>8, <1>9

\* A picked slot of a row is where that row goes; one past the rows, silence.
LEMMA OrderAtPlace ==
    ASSUME NEW g \in Geometries, NEW preds \in Seq(Pred), NEW c \in Picked(g, preds)
    PROVE  LET j == PlaceIn(Picked(g, preds), c)
           IN  /\ j \in 1 .. g.spkcache_len
               /\ PickOrder(g, preds)[j] = IF c.row <= Len(preds) THEN c.row ELSE 0
<1> DEFINE P == Picked(g, preds)
           j == PlaceIn(P, c)
           at(i) == {d \in P : PlaceIn(P, d) = i /\ d.row <= Len(preds)}
           order == PickOrder(g, preds)
<1>1. /\ P \in SUBSET Slot /\ IsFiniteSet(P) /\ Cardinality(P) <= g.spkcache_len
  BY PickedAre
<1>2. order = [i \in 1 .. g.spkcache_len |->
                  IF at(i) = {} THEN 0 ELSE (CHOOSE d \in at(i) : TRUE).row]
  BY DEF PickOrder, PlaceIn
<1> HIDE DEF P, order
<1>3. c \in P
  BY DEF P
<1>4. j \in 1 .. Cardinality(P)
  BY <1>1, <1>3, PlacesAre
<1>5. j \in 1 .. g.spkcache_len
  <2>1. Cardinality(P) \in Nat /\ g.spkcache_len \in Nat
    BY <1>1, FS_CardinalityType, GeometryLengths
  <2> HIDE DEF j
  <2> QED
    BY <1>1, <1>4, <2>1
<1>6. \A d \in at(j) : d.row = c.row
  BY <1>1, <1>3, PlacesAre
<1>7. order[j] = IF at(j) = {} THEN 0 ELSE (CHOOSE d \in at(j) : TRUE).row
  BY <1>2, <1>5
<1>8. CASE c.row <= Len(preds)
  <2>1. c \in at(j)
    BY <1>3, <1>8
  <2>2. order[j] = c.row
    <3>1. at(j) # {} /\ (CHOOSE d \in at(j) : TRUE) \in at(j)
      BY <2>1
    <3> HIDE DEF at
    <3> QED
      BY <1>6, <1>7, <3>1
  <2> QED
    BY <1>5, <1>8, <2>2 DEF P, order
<1>9. CASE ~(c.row <= Len(preds))
  <2>1. at(j) = {}
    BY <1>6, <1>9
  <2> HIDE DEF at
  <2>2. order[j] = 0
    BY <1>7, <2>1
  <2> QED
    BY <1>5, <1>9, <2>2 DEF P, order
<1> QED
  BY <1>8, <1>9

\* The places of some slots of different rows or speakers are as many.
LEMMA AsManyPlaces ==
    ASSUME NEW P \in SUBSET Slot, IsFiniteSet(P), NEW Q \in SUBSET P,
           \A c, d \in Q : c.spk = d.spk /\ c.row = d.row => c = d,
           NEW n \in Nat, NEW J \in SUBSET (1 .. n),
           \A c \in Q : PlaceIn(P, c) \in J
    PROVE  Cardinality(Q) <= Cardinality(J) /\ IsFiniteSet(J)
<1> DEFINE place == [c \in Q |-> PlaceIn(P, c)]
<1>1. place \in [Q -> J]
  OBVIOUS
<1>2. \A c, d \in Q : place[c] = place[d] => c = d
  BY PlacesAre
<1> HIDE DEF place
<1>3. place \in Injection(Q, J)
  BY <1>1, <1>2 DEF Injection, IsInjective
<1>4. IsFiniteSet(J)
  <2>1. IsFiniteSet(1 .. n)
    BY FS_Interval
  <2> QED
    BY <2>1, FS_Subset
<1> QED
  BY <1>3, <1>4, FS_Injection

\* A compression keeps silence for every speaker.
LEMMA SilenceIsKept ==
    ASSUME NEW g \in Geometries, NEW preds \in Seq(Pred)
    PROVE  Cardinality({j \in 1 .. g.spkcache_len : PickOrder(g, preds)[j] = 0})
              >= NumSpeakers * SilFramesPerSpk
<1> DEFINE n == Len(preds)
           P == Picked(g, preds)
           Z == SilenceSlots(n)
           order == PickOrder(g, preds)
           J == {j \in 1 .. g.spkcache_len : order[j] = 0}
<1>1. n \in Nat /\ g.spkcache_len \in Nat
  BY LenProperties, GeometryLengths
<1>2. P \in SUBSET Slot /\ IsFiniteSet(P) /\ Z \in SUBSET P
  BY PickedAre
<1>3. /\ IsFiniteSet(Z) /\ Cardinality(Z) = NumSpeakers * SilFramesPerSpk
      /\ \A c \in Z : c.row > n /\ c.score = PosInf
  BY <1>1, SilenceSlotsAre
<1>4. \A c \in Z : PlaceIn(P, c) \in J
  <2> SUFFICES ASSUME NEW c \in Z PROVE PlaceIn(P, c) \in J
    OBVIOUS
  <2>1. c \in P /\ c.row > n /\ c.row \in Nat
    BY <1>2, <1>3 DEF Slot
  <2>2. ~(c.row <= n)
    BY <1>1, <2>1
  <2> QED
    BY <2>1, <2>2, OrderAtPlace
<1>5. \A c, d \in Z : c.spk = d.spk /\ c.row = d.row => c = d
  <2>1. \A c \in Z : c = [spk |-> c.spk, row |-> c.row, score |-> PosInf]
    BY <1>2, <1>3 DEF Slot
  <2> QED
    BY <2>1
<1> HIDE DEF P, Z, order
<1>6. J \in SUBSET (1 .. g.spkcache_len)
  OBVIOUS
<1> HIDE DEF J
<1>7. Cardinality(Z) <= Cardinality(J) /\ IsFiniteSet(J)
  BY <1>1, <1>2, <1>4, <1>5, <1>6, AsManyPlaces
<1>8. Cardinality(J) \in Nat /\ Cardinality(Z) \in Nat
  BY <1>3, <1>7, FS_CardinalityType
<1>9. Cardinality(J) >= NumSpeakers * SilFramesPerSpk
  BY <1>3, <1>7, <1>8
<1> QED
  BY <1>9 DEF J, order

\* The rows of speaker s among those a compression keeps.
KeptOf(g, preds, s) ==
    {j \in 1 .. g.spkcache_len :
        /\ PickOrder(g, preds)[j] # 0
        /\ SpeechScore(preds[PickOrder(g, preds)[j]].p, s) > 0}

\* The clear candidates a strong boost favours: all there are, or a quota.
LEMMA ClearAreStrong ==
    ASSUME NEW g \in Geometries, NEW preds \in Seq(Pred), NEW s \in Speakers
    PROVE  LET G == {c \in TopOf(Candidates(g, preds), StrongK(g)) :
                        c.spk = s /\ c.score > ScoresBoostLatest}
           IN  /\ IsFiniteSet(G)
               /\ Cardinality(G) >= Min2(Cardinality(Clear(preds, s)), StrongK(g))
<1> DEFINE A == Candidates(g, preds)
           k == StrongK(g)
           F == Clear(preds, s)
           E == {c \in A : c.spk = s}
           S == Best(E, k)
           G == {c \in TopOf(A, k) : c.spk = s /\ c.score > ScoresBoostLatest}
           L == {c \in E : c.row \in F}
           slot == [f \in F |-> CHOOSE c \in E : c.row = f]
<1>1. /\ A \in SUBSET Slot /\ IsFiniteSet(A)
      /\ \A c \in A : /\ c.row \in 1 .. Len(preds)
                      /\ c.score = BaseScore(g, preds, c.row, c.spk)
      /\ \A f \in 1 .. Len(preds) : \E c \in A : c.spk = s /\ c.row = f
  BY CandidatesAre
<1>2. k \in Nat
  BY StrongQuota
<1>3. F \in SUBSET (1 .. Len(preds)) /\ \A f \in F : SpeechScore(preds[f].p, s) > ScoresBoostLatest
  BY DEF Clear
<1>4. \A f \in F : BaseScore(g, preds, f, s) > ScoresBoostLatest
  BY <1>3, BaseScoreBounded
<1> HIDE DEF A, k, F
<1>5. E \in SUBSET Slot /\ E \in SUBSET A /\ IsFiniteSet(E)
  BY <1>1, FS_Subset
<1>6. \A c \in L : c \in E /\ c.score > ScoresBoostLatest
  BY <1>1, <1>4, <1>5
<1>7. S \in SUBSET E /\ IsFiniteSet(S)
      /\ (k <= Cardinality(E) => Cardinality(S) = k)
      /\ \A c \in S, d \in E \ S : Ahead(c, d)
  <2> HIDE DEF E
  <2> QED
    BY <1>2, <1>5, BestOfMany
<1>8. \A c \in S : c \in TopOf(A, k) /\ c.spk = s
  <2>1. \A c \in S : c \in A /\ c.spk = s
    BY <1>7
  <2>2. \A c \in A : c \in TopOf(A, k) <=> c \in Best({d \in A : d.spk = c.spk}, k)
    BY <1>1, TopOfSays
  <2> QED
    BY <2>1, <2>2
<1>9. IsFiniteSet(G)
  <2>1. IsFiniteSet(TopOf(A, k))
    BY <1>1, <1>2, TopCount
  <2> QED
    BY <2>1, FS_Subset
<1>10. IsFiniteSet(L) /\ Cardinality(F) <= Cardinality(L) /\ IsFiniteSet(F)
  <2>1. IsFiniteSet(L)
    BY <1>5, FS_Subset
  <2>2. \A f \in F : slot[f] \in E /\ slot[f].row = f
    BY <1>1, <1>3
  <2>3. slot \in [F -> L]
    <3> SUFFICES ASSUME NEW f \in F PROVE slot[f] \in L
      OBVIOUS
    <3> HIDE DEF slot
    <3> QED
      BY <2>2
  <2> HIDE DEF slot, L
  <2>4. slot \in Injection(F, L)
    BY <2>2, <2>3 DEF Injection, IsInjective
  <2> QED
    BY <2>1, <2>4, FS_Injection
<1>11. /\ Cardinality(F) \in Nat /\ Cardinality(L) \in Nat /\ Cardinality(G) \in Nat
  BY <1>9, <1>10, FS_CardinalityType
<1>12. CASE L \subseteq S
  <2>1. L \in SUBSET G
    BY <1>6, <1>8, <1>12
  <2> HIDE DEF L, G
  <2>2. Cardinality(L) <= Cardinality(G)
    BY <1>9, <2>1, FS_Subset
  <2>3. Cardinality(G) >= Min2(Cardinality(F), k)
    BY <1>2, <1>10, <1>11, <2>2 DEF Min2
  <2> QED
    BY <1>9, <2>3 DEF G, A, k, F
<1>13. CASE ~(L \subseteq S)
  <2>1. PICK d \in L : d \notin S
    BY <1>13
  <2>2. d \in E /\ d.score > ScoresBoostLatest /\ d.score \in Int
    BY <1>5, <1>6 DEF Slot
  <2>3. ASSUME NEW c \in S PROVE c.score > ScoresBoostLatest
    <3>1. Ahead(c, d) /\ c.score \in Int
      BY <1>5, <1>7, <2>1, <2>2 DEF Slot
    <3> QED
      BY <2>2, <3>1 DEF Ahead, ScoresBoostLatest
  <2>4. S \in SUBSET G
    BY <1>8, <2>3
  <2>5. k <= Cardinality(E)
    <3> DEFINE Over == {e \in E : Ahead(e, d)}
    <3>1. ~(Cardinality(Over) < k)
      BY <2>1, <2>2 DEF Best
    <3>2. IsFiniteSet(Over) /\ Cardinality(Over) <= Cardinality(E)
      BY <1>5, FS_Subset
    <3>3. Cardinality(Over) \in Nat /\ Cardinality(E) \in Nat
      BY <1>5, <3>2, FS_CardinalityType
    <3> QED
      BY <1>2, <3>1, <3>2, <3>3
  <2>6. Cardinality(S) = k
    BY <1>7, <2>5
  <2> HIDE DEF S, G
  <2>7. Cardinality(S) <= Cardinality(G)
    BY <1>9, <2>4, FS_Subset
  <2>8. Cardinality(G) >= Min2(Cardinality(F), k)
    BY <1>2, <1>11, <2>6, <2>7 DEF Min2
  <2> QED
    BY <1>9, <2>8 DEF G, A, k, F
<1> QED
  BY <1>12, <1>13

\* A compression keeps as many rows of a speaker as were clear, up to a quota.
LEMMA SpeakerIsKept ==
    ASSUME NEW g \in Geometries, NEW preds \in Seq(Pred), NEW s \in Speakers
    PROVE  Cardinality(KeptOf(g, preds, s))
              >= Min2(Cardinality(Clear(preds, s)), StrongK(g))
<1> DEFINE k == StrongK(g)
           n == g.spkcache_len
           low == ScoresBoostLatest - 2 * LogHalf
           D == Scored(g, preds)
           P == Picked(g, preds)
           G == {c \in TopOf(Candidates(g, preds), k) :
                    c.spk = s /\ c.score > ScoresBoostLatest}
           Q == {d \in P : /\ d \in D /\ d.spk = s
                           /\ \E c \in G : c.row = d.row}
           J == KeptOf(g, preds, s)
           to == [c \in G |-> CHOOSE d \in Q : d.row = c.row]
<1>1. IsFiniteSet(G) /\ Cardinality(G) >= Min2(Cardinality(Clear(preds, s)), k)
  BY ClearAreStrong
<1>2. /\ P \in SUBSET Slot /\ IsFiniteSet(P)
      /\ \A d \in D : d.score > low => d \in P
  BY PickedAre
<1>3. /\ OnePlaceEach(D)
      /\ \A d \in D : d.row \in 1 .. Len(preds)
      /\ \A c \in G : \E d \in D : d.spk = c.spk /\ d.row = c.row /\ d.score > low
  BY ScoredAre
<1>4. \A c \in G : /\ c.row \in 1 .. Len(preds) /\ c.spk = s
                   /\ c.score = BaseScore(g, preds, c.row, s)
                   /\ c.score > ScoresBoostLatest
  <2>1. \A c \in Candidates(g, preds) :
           /\ c.row \in 1 .. Len(preds)
           /\ c.score = BaseScore(g, preds, c.row, c.spk)
    BY CandidatesAre
  <2>2. TopOf(Candidates(g, preds), k) \in SUBSET Candidates(g, preds)
    BY CandidatesAre, TopOfSays
  <2> QED
    BY <2>1, <2>2
<1>5. \A b, c \in G : b.row = c.row => b = c
  <2>1. OnePlaceEach(Candidates(g, preds))
    BY CandidatesAre
  <2>2. TopOf(Candidates(g, preds), k) \in SUBSET Candidates(g, preds)
    BY CandidatesAre, TopOfSays
  <2> QED
    BY <2>1, <2>2 DEF OnePlaceEach
<1> HIDE DEF D, P, G, low, k, n
<1>6. \A c \in G : \E d \in Q : d.row = c.row
  BY <1>2, <1>3, <1>4
<1>7. Q \in SUBSET P /\ IsFiniteSet(Q)
  BY <1>2, FS_Subset
<1>8. Cardinality(G) <= Cardinality(Q)
  <2>1. \A c \in G : to[c] \in Q /\ to[c].row = c.row
    BY <1>6
  <2>2. to \in [G -> Q]
    <3> SUFFICES ASSUME NEW c \in G PROVE to[c] \in Q
      OBVIOUS
    <3> HIDE DEF to, Q
    <3> QED
      BY <2>1
  <2> HIDE DEF to, Q
  <2>3. to \in Injection(G, Q)
    BY <1>5, <2>1, <2>2 DEF Injection, IsInjective
  <2> QED
    BY <1>7, <2>3, FS_Injection
<1>9. \A d, e \in Q : d.spk = e.spk /\ d.row = e.row => d = e
  BY <1>3 DEF OnePlaceEach
<1>10. \A d \in Q : PlaceIn(P, d) \in J
  <2> SUFFICES ASSUME NEW d \in Q PROVE PlaceIn(P, d) \in J
    OBVIOUS
  <2>1. PICK c \in G : c.row = d.row
    OBVIOUS
  <2>2. d.row \in 1 .. Len(preds) /\ SpeechScore(preds[d.row].p, s) > 0
    BY <1>4, <2>1, BaseScoreBounded
  <2>3. d.row <= Len(preds) /\ d.row # 0
    BY <2>2, LenProperties
  <2>4. /\ PlaceIn(P, d) \in 1 .. n
        /\ PickOrder(g, preds)[PlaceIn(P, d)] = d.row
    <3>1. d \in Picked(g, preds)
      BY DEF P
    <3> QED
      BY <2>3, <3>1, OrderAtPlace DEF P, n
  <2> QED
    BY <2>2, <2>3, <2>4 DEF KeptOf, n
<1>11. n \in Nat /\ J \in SUBSET (1 .. n)
  BY GeometryLengths DEF KeptOf, n
<1> HIDE DEF J, Q
<1>12. Cardinality(Q) <= Cardinality(J) /\ IsFiniteSet(J)
  BY <1>2, <1>7, <1>9, <1>10, <1>11, AsManyPlaces
<1>13. Cardinality(G) \in Nat /\ Cardinality(Q) \in Nat /\ Cardinality(J) \in Nat
  BY <1>1, <1>7, <1>12, FS_CardinalityType
<1>14. Min2(Cardinality(Clear(preds, s)), k) \in Nat
  <2>1. Clear(preds, s) \in SUBSET (1 .. Len(preds)) /\ IsFiniteSet(1 .. Len(preds))
    BY FS_Interval, LenProperties DEF Clear
  <2>2. Cardinality(Clear(preds, s)) \in Nat
    BY <2>1, FS_Subset, FS_CardinalityType
  <2> QED
    BY <2>2, StrongQuota DEF Min2, k
<1> QED
  BY <1>1, <1>8, <1>12, <1>13, <1>14 DEF J, k

---------------------------------------------------------------------------
\* What a step does to the cache.

\* A compression starts from the cached predictions, followed by popped ones.
CompressionFrom(preds) ==
    /\ preds \in Seq(Pred)
    /\ spkcache_preds' = CompressedPreds(preds, PickOrder(geo, preds))
    /\ \E cache : spkcache' = CompressedCache(cache, PickOrder(geo, preds))
    /\ Len(CachedPreds) \in Nat /\ Len(CachedPreds) <= Len(preds)
    /\ \A j \in 1 .. Len(CachedPreds) : preds[j] = CachedPreds[j]

LEMMA CompressionStarts ==
    ASSUME IInv, NEW chunk \in Chunks, NEW lc \in Nat, NEW rc \in Nat,
           NEW w, w = Window(chunk, lc, rc), CompressCache(w)
    PROVE  \E preds : CompressionFrom(preds)
<1> DEFINE l1 == Len(spkcache)
           known == IF spkcache_preds # <<>> THEN spkcache_preds
                    ELSE SubSeq(w.preds, 1, l1)
           popPreds == PoppedPreds(w)
           preds == known \o popPreds
<1>1. PopCounts(w, chunk) /\ PredsLeave(w)
  BY PopStep DEF CompressCache
<1>2. /\ spkcache_preds' = CompressedPreds(preds, PickOrder(geo, preds))
      /\ \E cache : spkcache' = CompressedCache(cache, PickOrder(geo, preds))
  <2>1. CacheKept(l1, w.preds, popPreds, spkcache_preds) = preds
    BY DEF CacheKept
  <2> QED
    BY <2>1, Zenon DEF CompressCache, PoppedPreds
<1>3. /\ spkcache \in Seq(Int) /\ voices \in Seq(Voice)
      /\ spkcache_preds \in Seq(Pred) /\ chunk \in Seq(Voice)
  BY AoscConstants DEF IInv, Shapes
<1>4. l1 \in Nat /\ Len(voices) \in Nat
  BY <1>3, LenProperties
<1>5. /\ known \in Seq(Pred) /\ Len(known) = l1 /\ Len(CachedPreds) = l1
      /\ \A j \in 1 .. l1 : known[j] = CachedPreds[j]
  <2>1. CASE spkcache_preds # <<>>
    BY <2>1, <1>3 DEF CachedPreds, IInv, RowsAligned
  <2>2. CASE spkcache_preds = <<>>
    <3>1. /\ SubSeq(w.preds, 1, l1) \in Seq(Pred)
          /\ Len(SubSeq(w.preds, 1, l1)) = l1
          /\ \A j \in 1 .. l1 : SubSeq(w.preds, 1, l1)[j]
                                   = Prediction(voices \o chunk, spkcache[j], FALSE)
      <4>1. FifoRegion(w, chunk) /\ CacheRegion(w)
        BY WindowFacts DEF IInv
      <4> QED
        BY <4>1 DEF FifoRegion, CacheRegion
    <3>2. \A j \in 1 .. l1 : spkcache[j] \in 0 .. Len(voices)
      BY <1>4 DEF IInv, TypeOK, Frames, Silence
    <3>3. \A j \in 1 .. l1 : Prediction(voices \o chunk, spkcache[j], FALSE)
                                = Prediction(voices, spkcache[j], FALSE)
      BY <1>3, <3>2, PredictionsGrow
    <3>4. CachedPreds = [j \in 1 .. l1 |-> Prediction(voices, spkcache[j], FALSE)]
      BY <2>2 DEF CachedPreds
    <3>5. Len(CachedPreds) = l1
      <4>1. \A j \in 1 .. l1 : Prediction(voices, spkcache[j], FALSE) \in Pred
        <5>1. \A j \in 1 .. l1 : spkcache[j] \in Int
          BY <1>4, <3>2
        <5> QED
          BY <1>3, <5>1, PredictionTyped
      <4>2. CachedPreds \in [1 .. l1 -> Pred]
        BY <3>4, <4>1
      <4> QED
        BY <1>4, <4>2, TupleIsSeq
    <3>6. known = SubSeq(w.preds, 1, l1)
      BY <2>2
    <3> HIDE DEF known
    <3> QED
      BY <3>1, <3>3, <3>4, <3>5, <3>6
  <2> QED
    BY <2>1, <2>2
<1>6. popPreds \in Seq(Pred)
  BY <1>1 DEF PredsLeave
<1> HIDE DEF known, popPreds
<1>7. /\ preds \in Seq(Pred) /\ Len(preds) = l1 + Len(popPreds)
      /\ \A j \in 1 .. l1 : preds[j] = known[j]
  <2> HIDE DEF l1
  <2>1. known \in Seq(Pred) /\ Len(known) = l1 /\ l1 \in Nat
    BY <1>4, <1>5
  <2>2. Len(popPreds) \in Nat
    BY <1>6, LenProperties
  <2>3. /\ preds \in Seq(Pred) /\ Len(preds) = Len(known) + Len(popPreds)
        /\ \A i \in 1 .. Len(known) + Len(popPreds) :
              preds[i] = IF i <= Len(known) THEN known[i]
                         ELSE popPreds[i - Len(known)]
    <3>1. known \in Seq(Pred) /\ popPreds \in Seq(Pred)
      BY <1>6, <2>1
    <3> QED
      BY <3>1, ConcatProperties, Zenon
  <2> HIDE DEF preds
  <2> QED
    BY <2>1, <2>2, <2>3
<1>8. Len(popPreds) \in Nat
  BY <1>6, LenProperties
<1> HIDE DEF preds, l1
<1>9. l1 <= Len(preds)
  BY <1>4, <1>7, <1>8
<1>10. CompressionFrom(preds)
  BY <1>2, <1>4, <1>5, <1>7, <1>9 DEF CompressionFrom
<1> QED
  BY <1>10

\* A cache that is filled has not yet overflowed: its predictions are not kept.
LEMMA FillKeepsNone ==
    ASSUME IInv, NEW chunk \in Chunks, NEW lc \in Nat, NEW rc \in Nat,
           NEW w, w = Window(chunk, lc, rc), FillCache(w)
    PROVE  spkcache_preds' = <<>>
<1>1. PopCounts(w, chunk)
  BY PopStep DEF FillCache
<1>2. /\ w.pop \in Nat /\ w.pop >= 1 /\ Len(spkcache) \in Nat
      /\ Len(spkcache) + w.pop <= geo.spkcache_len
      /\ geo.spkcache_len \in Nat
  BY <1>1, LenProperties, GeometryLengths DEF PopCounts, FillCache, IInv, Shapes
<1>3. spkcache_preds # <<>> => Len(spkcache) = geo.spkcache_len
  BY DEF IInv, TypeOK
<1>4. spkcache_preds = <<>>
  BY <1>2, <1>3
<1> QED
  BY <1>4 DEF FillCache

\* Every step leaves the cache, fills it without predictions, or compresses it.
LEMMA CacheSteps ==
    ASSUME IInv, [Next]_vars
    PROVE  /\ geo' = geo
           /\ \/ UNCHANGED <<spkcache, spkcache_preds>>
              \/ spkcache_preds' = <<>>
              \/ \E preds : CompressionFrom(preds)
<1>1. CASE UNCHANGED vars
  BY <1>1 DEF vars
<1>2. CASE Next
  <2>1. PICK chunk \in Chunks, lc \in 0 .. geo.chunk_left_context,
             rc \in 0 .. geo.chunk_right_context : Update(chunk, lc, rc)
    BY <1>2 DEF Next
  <2>2. lc \in Nat /\ rc \in Nat
    OBVIOUS
  <2>3. CASE chunk = <<>>
    BY <2>1, <2>3 DEF Update, vars
  <2>4. CASE chunk # <<>>
    <3>1. PICK w : /\ w = Window(chunk, lc, rc)
                   /\ Enqueue(w) \/ FillCache(w) \/ CompressCache(w)
      BY <2>1, <2>4, Zenon DEF Update
    <3>2. CASE Enqueue(w)
      BY <3>2 DEF Enqueue, Emit
    <3>3. CASE FillCache(w)
      BY <2>2, <3>1, <3>3, FillKeepsNone DEF FillCache, PopFifo, Emit
    <3>4. CASE CompressCache(w)
      BY <2>2, <3>1, <3>4, CompressionStarts DEF CompressCache, PopFifo, Emit
    <3> QED
      BY <3>1, <3>2, <3>3, <3>4
  <2> QED
    BY <2>3, <2>4
<1> QED
  BY <1>1, <1>2

\* What a compression leaves: silence for every speaker, and every speaker.
LEMMA CompressionReserves ==
    ASSUME geo \in Geometries, NEW preds, CompressionFrom(preds),
           Len(spkcache') = geo.spkcache_len
    PROVE  Cardinality({j \in 1 .. Len(spkcache') : spkcache'[j] = Silence})
              >= NumSpeakers * SilFramesPerSpk
<1> DEFINE n == geo.spkcache_len
           order == PickOrder(geo, preds)
           J == {j \in 1 .. n : order[j] = 0}
           K == {j \in 1 .. n : spkcache'[j] = Silence}
<1>1. PICK cache : spkcache' = CompressedCache(cache, order)
  BY DEF CompressionFrom
<1>2. preds \in Seq(Pred)
  BY DEF CompressionFrom
<1>3. order \in [1 .. n -> 0 .. Len(preds)]
  BY <1>2, PickOrderRows
<1>4. Cardinality(J) >= NumSpeakers * SilFramesPerSpk
  BY <1>2, SilenceIsKept
<1>5. n \in Nat
  BY GeometryLengths
<1> HIDE DEF order, n
<1>6. \A j \in 1 .. n : order[j] = 0 => spkcache'[j] = Silence
  BY <1>1, <1>3 DEF CompressedCache
<1>7. J \in SUBSET K /\ K \in SUBSET (1 .. n)
  BY <1>6
<1> HIDE DEF J, K
<1>8. IsFiniteSet(K) /\ IsFiniteSet(J) /\ Cardinality(J) <= Cardinality(K)
  <2>1. IsFiniteSet(1 .. n)
    BY <1>5, FS_Interval
  <2>2. IsFiniteSet(K)
    BY <1>7, <2>1, FS_Subset
  <2> QED
    BY <1>7, <2>2, FS_Subset
<1>9. Cardinality(K) \in Nat /\ Cardinality(J) \in Nat
  BY <1>8, FS_CardinalityType
<1>10. NumSpeakers * SilFramesPerSpk \in Nat
  BY ModelConstants
<1>11. Cardinality(K) >= NumSpeakers * SilFramesPerSpk
  BY <1>4, <1>8, <1>9, <1>10
<1> QED
  BY <1>11 DEF K, n

LEMMA ReservedStep ==
    ASSUME IInv, SilenceReserved, [Next]_vars PROVE SilenceReserved'
<1>1. IInv'
  BY NextInv
<1>2. CASE UNCHANGED <<spkcache, spkcache_preds>>
  BY <1>2 DEF SilenceReserved
<1>3. CASE spkcache_preds' = <<>>
  BY <1>3 DEF SilenceReserved
<1>4. CASE /\ spkcache_preds' # <<>>
           /\ \E preds : CompressionFrom(preds)
  <2>1. geo' = geo /\ geo \in Geometries
    BY CacheSteps DEF IInv, Shapes
  <2>2. Len(spkcache') = geo.spkcache_len
    BY <1>1, <1>4, <2>1 DEF IInv, TypeOK
  <2> QED
    BY <1>4, <2>1, <2>2, CompressionReserves DEF SilenceReserved
<1> QED
  BY <1>2, <1>3, <1>4, CacheSteps

(* Whatever the cache has been through, once it was compressed it holds    *)
(* rows of mean silence for every speaker: the compression places the      *)
(* silence slots before any frame, in every geometry the engine accepts.   *)
THEOREM SilenceStaysReserved == Spec => []SilenceReserved
<1>1. Init => SilenceReserved
  BY DEF Init, SilenceReserved
<1>2. IInv /\ SilenceReserved /\ [Next]_vars => SilenceReserved'
  BY ReservedStep
<1> QED
  BY <1>1, <1>2, Invariance, PTL DEF Spec

---------------------------------------------------------------------------
\* Who is heard in the cache, and after a compression still is.

LEMMA RowsOfPreds ==
    ASSUME NEW preds, Len(preds) \in Nat, NEW s \in Speakers
    PROVE  /\ IsFiniteSet(Clear(preds, s)) /\ Cardinality(Clear(preds, s)) \in Nat
           /\ IsFiniteSet(Positive(preds, s)) /\ Cardinality(Positive(preds, s)) \in Nat
<1>1. IsFiniteSet(1 .. Len(preds))
  BY FS_Interval
<1>2. /\ Clear(preds, s) \in SUBSET (1 .. Len(preds))
      /\ Positive(preds, s) \in SUBSET (1 .. Len(preds))
  BY DEF Clear, Positive
<1> QED
  BY <1>1, <1>2, FS_Subset, FS_CardinalityType

\* Longer predictions that begin alike have no fewer clear rows.
LEMMA ClearGrows ==
    ASSUME NEW short, NEW long, Len(short) \in Nat, Len(long) \in Nat,
           Len(short) <= Len(long),
           \A j \in 1 .. Len(short) : long[j] = short[j], NEW s \in Speakers
    PROVE  Cardinality(Clear(short, s)) <= Cardinality(Clear(long, s))
<1>1. \A j \in 1 .. Len(short) : j \in 1 .. Len(long)
  OBVIOUS
<1>2. Clear(short, s) \in SUBSET Clear(long, s)
  BY <1>1 DEF Clear
<1>3. IsFiniteSet(Clear(long, s))
  BY RowsOfPreds
<1> QED
  BY <1>2, <1>3, FS_Subset

\* Clear rows have a positive score.
LEMMA ClearArePositive ==
    ASSUME NEW preds \in Seq(Pred), NEW s \in Speakers
    PROVE  Cardinality(Clear(preds, s)) <= Cardinality(Positive(preds, s))
<1>1. Len(preds) \in Nat
  BY LenProperties
<1>2. \A f \in 1 .. Len(preds) :
         SpeechScore(preds[f].p, s) > ScoresBoostLatest
            => SpeechScore(preds[f].p, s) > 0
  <2> SUFFICES ASSUME NEW f \in 1 .. Len(preds)
               PROVE  SpeechScore(preds[f].p, s) > ScoresBoostLatest
                         => SpeechScore(preds[f].p, s) > 0
    OBVIOUS
  <2>1. SpeechScore(preds[f].p, s) \in Int
    <3>1. preds[f] \in Pred
      BY ElementOfSeq
    <3>2. preds[f].p \in Probs
      BY <3>1 DEF Pred
    <3> QED
      BY <3>2, SpeechScoreBounded
  <2> QED
    BY <2>1 DEF ScoresBoostLatest
<1>3. Clear(preds, s) \in SUBSET Positive(preds, s)
  BY <1>2 DEF Clear, Positive
<1> QED
  BY <1>1, <1>3, RowsOfPreds, FS_Subset

\* The rows a compression keeps for a speaker are positive afterwards.
LEMMA KeptArePositive ==
    ASSUME NEW g \in Geometries, NEW preds \in Seq(Pred), NEW s \in Speakers
    PROVE  LET new == CompressedPreds(preds, PickOrder(g, preds))
           IN  Cardinality(KeptOf(g, preds, s)) <= Cardinality(Positive(new, s))
<1> DEFINE n == g.spkcache_len
           order == PickOrder(g, preds)
           new == CompressedPreds(preds, order)
<1>1. order \in [1 .. n -> 0 .. Len(preds)] /\ n \in Nat /\ Len(preds) \in Nat
  BY PickOrderRows, GeometryLengths, LenProperties
<1>2. KeptOf(g, preds, s) =
         {j \in 1 .. n : order[j] # 0 /\ SpeechScore(preds[order[j]].p, s) > 0}
  BY DEF KeptOf
<1> HIDE DEF n, order
<1>3. new = [j \in 1 .. n |-> IF order[j] = 0 THEN [of |-> Silence, p |-> Quiet]
                              ELSE preds[order[j]]]
  BY <1>1 DEF CompressedPreds
<1>4. Len(new) = n
  <2>1. [of |-> Silence, p |-> Quiet] \in Pred
    BY DEF Pred, Silence, Quiet, Probs
  <2>2. \A j \in 1 .. n : order[j] # 0 => preds[order[j]] \in Pred
    <3>1. \A j \in 1 .. n : order[j] # 0 => order[j] \in 1 .. Len(preds)
      BY <1>1
    <3> QED
      BY <3>1, ElementOfSeq
  <2>3. new \in [1 .. n -> Pred]
    BY <1>3, <2>1, <2>2
  <2> HIDE DEF new
  <2> QED
    BY <1>1, <2>3, TupleIsSeq
<1>5. \A j \in 1 .. n : order[j] # 0 => new[j] = preds[order[j]]
  BY <1>3
<1> HIDE DEF new
<1>6. KeptOf(g, preds, s) \in SUBSET Positive(new, s)
  BY <1>2, <1>4, <1>5 DEF Positive
<1>7. IsFiniteSet(Positive(new, s))
  BY <1>1, <1>4, RowsOfPreds
<1>8. Cardinality(KeptOf(g, preds, s)) <= Cardinality(Positive(new, s))
  BY <1>6, <1>7, FS_Subset
<1> QED
  BY <1>8 DEF new, order

KeepsSpeakers ==
    spkcache_preds' # <<>> =>
        \A s \in Speakers :
            Cardinality(Positive(spkcache_preds', s)) >=
                Min2(Cardinality(Clear(CachedPreds, s)), StrongK(geo))

LEMMA KeepsSpeakersStep == ASSUME IInv, [Next]_vars PROVE KeepsSpeakers
<1>1. geo \in Geometries /\ spkcache_preds \in Seq(Pred)
  BY DEF IInv, Shapes
<1>2. StrongK(geo) \in Nat
  BY <1>1, StrongQuota
<1> SUFFICES ASSUME spkcache_preds' # <<>>, NEW s \in Speakers
             PROVE  Cardinality(Positive(spkcache_preds', s)) >=
                       Min2(Cardinality(Clear(CachedPreds, s)), StrongK(geo))
  BY DEF KeepsSpeakers
<1>3. spkcache_preds' \in Seq(Pred)
  BY NextInv DEF IInv, Shapes
<1>4. /\ Cardinality(Positive(spkcache_preds', s)) \in Nat
  BY <1>3, RowsOfPreds, LenProperties
<1>5. CASE UNCHANGED <<spkcache, spkcache_preds>>
  <2>1. CachedPreds = spkcache_preds /\ spkcache_preds' = spkcache_preds
    BY <1>5 DEF CachedPreds
  <2>2. /\ Cardinality(Clear(CachedPreds, s)) \in Nat
        /\ Cardinality(Clear(CachedPreds, s)) <= Cardinality(Positive(spkcache_preds', s))
    BY <1>1, <2>1, ClearArePositive, RowsOfPreds, LenProperties
  <2> QED
    BY <1>2, <1>4, <2>2 DEF Min2
<1>6. CASE \E preds : CompressionFrom(preds)
  <2>1. PICK preds : CompressionFrom(preds)
    BY <1>6
  <2>2. /\ preds \in Seq(Pred) /\ Len(preds) \in Nat
        /\ spkcache_preds' = CompressedPreds(preds, PickOrder(geo, preds))
    BY <2>1, LenProperties DEF CompressionFrom
  <2>3. Cardinality(KeptOf(geo, preds, s)) <= Cardinality(Positive(spkcache_preds', s))
    BY <1>1, <2>2, KeptArePositive
  <2>4. Cardinality(KeptOf(geo, preds, s))
           >= Min2(Cardinality(Clear(preds, s)), StrongK(geo))
    BY <1>1, <2>2, SpeakerIsKept
  <2>5. /\ Cardinality(Clear(CachedPreds, s)) <= Cardinality(Clear(preds, s))
        /\ Cardinality(Clear(CachedPreds, s)) \in Nat
        /\ Cardinality(Clear(preds, s)) \in Nat
    BY <2>1, <2>2, ClearGrows, RowsOfPreds DEF CompressionFrom
  <2>6. Cardinality(KeptOf(geo, preds, s)) \in Nat
    <3>1. KeptOf(geo, preds, s) \in SUBSET (1 .. geo.spkcache_len)
      BY DEF KeptOf
    <3>2. IsFiniteSet(1 .. geo.spkcache_len)
      BY <1>1, GeometryLengths, FS_Interval
    <3> QED
      BY <3>1, <3>2, FS_Subset, FS_CardinalityType
  <2> QED
    BY <1>2, <1>4, <2>3, <2>4, <2>5, <2>6 DEF Min2
<1> QED
  BY <1>5, <1>6, CacheSteps

(* No compression forgets a speaker: of the rows clearly one speaker's it  *)
(* leaves as many as there were, up to the strong quota, whatever the      *)
(* others said and however many rows were popped into the cache.           *)
THEOREM SpeakersStayKept == Spec => SpeakersKept
<1>1. IInv /\ [Next]_vars => KeepsSpeakers
  BY KeepsSpeakersStep
<1> QED
  BY <1>1, Invariance, PTL DEF Spec, SpeakersKept, KeepsSpeakers

=============================================================================
