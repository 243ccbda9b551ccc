------------------------------- MODULE Aosc -------------------------------
(***************************************************************************)
(* The arrival-order speaker cache: which frames the FIFO and the cache    *)
(* hold, with which predictions, after every update.                       *)
(*                                                                         *)
(* The n-th frame ever emitted is the row n.  Its embedding is opaque to   *)
(* the code, so the row stands for it.  What the network predicts is the   *)
(* environment's choice: a voice gives a frame's probabilities (in         *)
(* hundredths, one per speaker) the first time the frame is in a window    *)
(* and every later time.                                                   *)
(***************************************************************************)
EXTENDS StreamGeometry, SequencesExt

CONSTANTS
    Geometries,    \* geometries the cache is built with
    Chunks,        \* what a chunk may hold: sequences of voices
    Ln,            \* natural logarithm of hundredths, in thousandths
    MaxFrames      \* bound on the frames of a stream, for model checking

Speakers == 1 .. NumSpeakers
Probs == [Speakers -> 0 .. 100]
Voice == [first : Probs, later : Probs]

ASSUME AoscConstants ==
    /\ \A g \in Geometries : g \in Geometry /\ ValidGeometry(g)
    /\ Chunks \subseteq Seq(Voice)
    /\ Ln \in [1 .. 100 -> Int]
    /\ \A p \in 1 .. 100 : Ln[p] <= 0 /\ Ln[p] >= -4606
    /\ MaxFrames \in Nat

(* Scoring constants of the model, in hundredths and thousandths.          *)
PredScoreThreshold == 25
ScoresBoostLatest == 50
SilThreshold == 20
StrongBoostRate == 75
WeakBoostRate == 150
MinPosScoresRate == 50

LogHalf == Ln[50]

(* Rows that are no frame: mean silence, and the context of a chunk.       *)
Silence == 0
Context == -1

(* Minus and plus infinity of the scores.                                  *)
NegInf == -1000000
PosInf == 1000000

VARIABLES
    geo,             \* geometry_
    voices,          \* the voice of every frame heard so far (environment)
    fifo,            \* fifo_: rows
    spkcache,        \* spkcache_: rows
    spkcache_preds,  \* predictions of its rows; none before the first overflow
    mean_sil,        \* the frames averaged in mean_sil_emb_
    emitted          \* predictions returned so far, in order (history)

vars == <<geo, voices, fifo, spkcache, spkcache_preds, mean_sil, emitted>>

Quiet == [s \in Speakers |-> 0]

(* A prediction remembers which row it is about; the code has no such tag. *)
Prediction(heard, row, fresh) ==
    [of |-> row,
     p |-> IF row \notin 1 .. Len(heard) THEN Quiet
           ELSE IF fresh THEN heard[row].first ELSE heard[row].later]

-----------------------------------------------------------------------------
(* Compression: a candidate is a speaker, a row of the overfull cache and  *)
(* the score of that row for that speaker.  Scores that tie here come from *)
(* equal probabilities, and so tie in the code's floats too, as long as Ln *)
(* and the voices give different probabilities different scores.           *)

PerSpk(g) == g.spkcache_len \div NumSpeakers - SilFramesPerSpk
StrongK(g) == (PerSpk(g) * StrongBoostRate) \div 100
WeakK(g) == (PerSpk(g) * WeakBoostRate) \div 100
MinPos(g) == (PerSpk(g) * MinPosScoresRate) \div 100

LnAbove(p) == Ln[Max2(p, PredScoreThreshold)]

(* How clearly speaker s, and nobody else, speaks.                         *)
SpeechScore(p, s) ==
    IF p[s] > 50
    THEN LnAbove(p[s]) - LnAbove(100 - p[s])
            + SumFunction([t \in Speakers |-> LnAbove(100 - p[t])]) - LogHalf
    ELSE NegInf

Positive(preds, s) == {f \in 1 .. Len(preds) : SpeechScore(preds[f].p, s) > 0}

Plus(score, boost) == IF score = NegInf THEN NegInf ELSE score + boost

(* Once a speaker has enough clear frames, its unclear ones are dropped;   *)
(* the newest rows, beyond the capacity, get a small advantage.            *)
BaseScore(g, preds, f, s) ==
    LET score == SpeechScore(preds[f].p, s)
        kept == IF Cardinality(Positive(preds, s)) >= MinPos(g) /\ score <= 0
                THEN NegInf ELSE score
    IN  IF f > g.spkcache_len THEN Plus(kept, ScoresBoostLatest) ELSE kept

Candidates(g, preds) ==
    {[spk |-> s, row |-> f, score |-> BaseScore(g, preds, f, s)] :
        f \in 1 .. Len(preds), s \in Speakers}

(* The order of the flat index, and of the sort by score with its ties.    *)
Before(c, d) == c.spk < d.spk \/ (c.spk = d.spk /\ c.row < d.row)
Ahead(c, d) == c.score > d.score \/ (c.score = d.score /\ Before(c, d))

Best(C, k) == {c \in C : Cardinality({d \in C : Ahead(d, c)}) < k}

Boosted(C, k, boost) ==
    LET top == UNION {Best({c \in C : c.spk = s}, k) : s \in Speakers}
    IN  (C \ top) \cup
            {[spk |-> c.spk, row |-> c.row, score |-> Plus(c.score, boost)] :
                c \in top}

(* Mutant of Scored: the best frames of a speaker are not favoured.        *)
ScoredUnfavoured(g, preds) ==
    Boosted(Candidates(g, preds), WeakK(g), -LogHalf)

Scored(g, preds) ==
    Boosted(Boosted(Candidates(g, preds), StrongK(g), -2 * LogHalf),
            WeakK(g), -LogHalf)

(* Mutant of SilenceSlots: silence is picked like an average frame.        *)
SilenceSlotsUnforced(n) ==
    {[spk |-> s, row |-> n + i, score |-> 0] :
        i \in 1 .. SilFramesPerSpk, s \in Speakers}

(* Slots past the last row that are always picked, for silence.            *)
SilenceSlots(n) ==
    {[spk |-> s, row |-> n + i, score |-> PosInf] :
        i \in 1 .. SilFramesPerSpk, s \in Speakers}

(* Mutant of Picked: a slot without a score is not disabled.               *)
PickedEvenDisabled(g, preds) ==
    Best(Scored(g, preds) \cup SilenceSlots(Len(preds)), g.spkcache_len)

(* The picked slots that stay enabled; the others go last, as silence.     *)
Picked(g, preds) ==
    {c \in Best(Scored(g, preds) \cup SilenceSlots(Len(preds)),
                g.spkcache_len) : c.score # NegInf}

(* The row each place of the new cache is copied from; 0 is no row.        *)
PickOrder(g, preds) ==
    LET picked == Picked(g, preds)
        place(c) == 1 + Cardinality({d \in picked : Before(d, c)})
        at(j) == {c \in picked : place(c) = j /\ c.row <= Len(preds)}
    IN  [j \in 1 .. g.spkcache_len |->
            IF at(j) = {} THEN 0 ELSE (CHOOSE c \in at(j) : TRUE).row]

CompressedCache(cache, order) ==
    [j \in DOMAIN order |-> IF order[j] = 0 THEN Silence ELSE cache[order[j]]]

CompressedPreds(preds, order) ==
    [j \in DOMAIN order |->
        IF order[j] = 0 THEN [of |-> Silence, p |-> Quiet] ELSE preds[order[j]]]

-----------------------------------------------------------------------------
(* The regions of a window's predictions, and the moves between buffers.   *)

FifoPreds(preds, l1, l2) == SubSeq(preds, l1 + 1, l1 + l2)

(* Mutant of ChunkPreds: the left context is taken for frames.             *)
ChunkPredsWithContext(preds, l1, l2, lc, valid) ==
    SubSeq(preds, l1 + l2 + 1, l1 + l2 + valid)

ChunkPreds(preds, l1, l2, lc, valid) ==
    SubSeq(preds, l1 + l2 + lc + 1, l1 + l2 + lc + valid)

(* Mutants of Remaining: the newest frames leave; one frame stays behind.  *)
RemainingOldest(rows, pop) == SubSeq(rows, 1, Len(rows) - pop)
RemainingOneMore(rows, pop) == SubSeq(rows, Max2(pop, 1), Len(rows))

Remaining(rows, pop) == SubSeq(rows, pop + 1, Len(rows))

(* The running mean of silence counts a popped frame nobody speaks in.     *)
IsSilent(pred) == SumFunction(pred.p) < SilThreshold

CountSilence(mean, preds) ==
    FoldLeft(LAMBDA frames, pred :
                IF IsSilent(pred) THEN Append(frames, pred.of) ELSE frames,
             mean, preds)

(* Mutant of AccumulateSilence: over the whole FIFO.                       *)
AccumulateSilenceAll(mean, preds, pop) == CountSilence(mean, preds)

AccumulateSilence(mean, preds, pop) == CountSilence(mean, SubSeq(preds, 1, pop))

(* Mutant of CacheKept: the captured predictions in the wrong order.       *)
CacheKeptSwapped(l1, preds, popPreds, kept) ==
    IF kept # <<>> THEN kept \o popPreds
    ELSE popPreds \o SubSeq(preds, 1, l1)

(* Predictions of the cached rows: appended to once they are kept, and     *)
(* captured from this very window when the cache first overflows.          *)
CacheKept(l1, preds, popPreds, kept) ==
    IF kept # <<>> THEN kept \o popPreds
    ELSE SubSeq(preds, 1, l1) \o popPreds

Init ==
    /\ geo \in Geometries
    /\ voices = <<>>
    /\ fifo = <<>>
    /\ spkcache = <<>>
    /\ spkcache_preds = <<>>
    /\ mean_sil = <<>>
    /\ emitted = <<>>

(* The rows of a chunk between its contexts, and what the network predicts *)
(* of the window: cache, FIFO and chunk.                                   *)
ChunkRows(chunk, lc, rc) ==
    LET t3 == lc + Len(chunk) + rc
    IN  [i \in 1 .. t3 |->
            IF i <= lc \/ i > t3 - rc THEN Context ELSE Len(voices) + i - lc]

WindowPreds(chunk, lc, rc) ==
    LET window == spkcache \o fifo \o ChunkRows(chunk, lc, rc)
    IN  [i \in 1 .. Len(window) |->
            Prediction(voices \o chunk, window[i],
                       i > Len(spkcache) + Len(fifo))]

(* What one call of update makes of its arguments before it moves rows.    *)
Window(chunk, lc, rc) ==
    LET l1 == Len(spkcache)
        l2 == Len(fifo)
        valid == Len(chunk)
        preds == WindowPreds(chunk, lc, rc)
        chunkPreds == ChunkPreds(preds, l1, l2, lc, valid)
    IN  [heard |-> voices \o chunk,
         preds |-> preds,
         chunkPreds |-> chunkPreds,
         pop |-> Popped(geo, valid, l2),
         fifo |-> fifo \o SubSeq(ChunkRows(chunk, lc, rc), lc + 1, lc + valid),
         fifoPreds |-> FifoPreds(preds, l1, l2) \o chunkPreds]

Emit(w) ==
    /\ voices' = w.heard
    /\ emitted' = emitted \o w.chunkPreds
    /\ UNCHANGED geo

(* The frames fit in the FIFO.                                             *)
Enqueue(w) ==
    /\ Len(w.fifo) <= geo.fifo_len
    /\ Emit(w)
    /\ fifo' = w.fifo
    /\ UNCHANGED <<spkcache, spkcache_preds, mean_sil>>

PopFifo(w) ==
    /\ Len(w.fifo) > geo.fifo_len
    /\ Emit(w)
    /\ fifo' = Remaining(w.fifo, w.pop)
    /\ mean_sil' = AccumulateSilence(mean_sil, w.fifoPreds, w.pop)

(* The oldest frames of the FIFO move to a cache that has room for them.   *)
FillCache(w) ==
    /\ PopFifo(w)
    /\ Len(spkcache) + w.pop <= geo.spkcache_len
    /\ spkcache' = spkcache \o SubSeq(w.fifo, 1, w.pop)
    /\ spkcache_preds' = IF spkcache_preds = <<>> THEN <<>>
                         ELSE spkcache_preds \o SubSeq(w.fifoPreds, 1, w.pop)

(* The cache overflows and is compressed to its capacity.                  *)
CompressCache(w) ==
    /\ PopFifo(w)
    /\ Len(spkcache) + w.pop > geo.spkcache_len
    /\ LET cache == spkcache \o SubSeq(w.fifo, 1, w.pop)
           preds == CacheKept(Len(spkcache), w.preds,
                              SubSeq(w.fifoPreds, 1, w.pop), spkcache_preds)
           order == PickOrder(geo, preds)
       IN  /\ spkcache' = CompressedCache(cache, order)
           /\ spkcache_preds' = CompressedPreds(preds, order)

(* One call of update; a chunk that is all context changes nothing.        *)
Update(chunk, lc, rc) ==
    \/ /\ chunk = <<>>
       /\ UNCHANGED vars
    \/ /\ chunk # <<>>
       /\ LET w == Window(chunk, lc, rc)
          IN  Enqueue(w) \/ FillCache(w) \/ CompressCache(w)

Next ==
    \E chunk \in Chunks, lc \in 0 .. geo.chunk_left_context,
       rc \in 0 .. geo.chunk_right_context :
        /\ Len(voices) + Len(chunk) <= MaxFrames
        /\ Update(chunk, lc, rc)

Spec == Init /\ [][Next]_vars


-----------------------------------------------------------------------------
(***************************************************************************)
(* Properties.                                                             *)
(***************************************************************************)

Frames == 1 .. Len(voices)

(* Frames the FIFO has handed over: every one went through the cache.      *)
Popd == 1 .. Len(voices) - Len(fifo)

(* What the network may have said of a row of the cache.                   *)
PredictionsOf(heard, row) ==
    {Prediction(heard, row, fresh) : fresh \in BOOLEAN}

(* Capacities hold between updates, and every row is a frame or silence.   *)
TypeOK ==
    /\ geo \in Geometries
    /\ Len(fifo) <= geo.fifo_len
    /\ Len(spkcache) <= geo.spkcache_len
    /\ \A j \in 1 .. Len(fifo) : fifo[j] \in Frames
    /\ \A j \in 1 .. Len(spkcache) : spkcache[j] \in Frames \cup {Silence}
    /\ spkcache_preds # <<>> => Len(spkcache) = geo.spkcache_len

(* Every cached row is paired with a prediction the network made for that  *)
(* very row, through the first capture, every append and every             *)
(* compression; a row of silence is paired with zeros.                     *)
RowsAligned ==
    spkcache_preds # <<>> =>
        /\ Len(spkcache_preds) = Len(spkcache)
        /\ \A j \in 1 .. Len(spkcache) :
              spkcache_preds[j] \in PredictionsOf(voices, spkcache[j])

(* The FIFO holds exactly the newest frames, in order, and the cache only  *)
(* older ones; until the cache first overflows, the two together are the   *)
(* whole stream, and nothing is lost.                                      *)
FifoIsRecent ==
    /\ \A j \in 1 .. Len(fifo) : fifo[j] = Len(voices) - Len(fifo) + j
    /\ \A j \in 1 .. Len(spkcache) : spkcache[j] \in Popd \cup {Silence}
    /\ spkcache_preds = <<>> => spkcache = [i \in Popd |-> i]

(* The timeline gets each frame once, in order, with the prediction of the *)
(* window that brought it, never a later one and never a context row.      *)
EmittedOnce ==
    emitted = [i \in Frames |-> [of |-> i, p |-> voices[i].first]]

(* The mean of silence counts each frame at most once, when it leaves the  *)
(* FIFO, by what the network said of it in that window or before.          *)
SilenceCountedOnce ==
    LET quiet(p) == SumFunction(p) < SilThreshold
    IN  /\ \A i, j \in 1 .. Len(mean_sil) :
              i < j => mean_sil[i] < mean_sil[j]
        /\ Range(mean_sil) \subseteq
              {f \in Popd : quiet(voices[f].first) \/ quiet(voices[f].later)}
        /\ {f \in Popd : quiet(voices[f].first) /\ quiet(voices[f].later)}
              \subseteq Range(mean_sil)

(* A compressed cache keeps silence for every speaker.                     *)
SilenceReserved ==
    spkcache_preds # <<>> =>
        Cardinality({j \in 1 .. Len(spkcache) : spkcache[j] = Silence})
            >= NumSpeakers * SilFramesPerSpk

(* A compressed cache holds no frame in which nobody speaks: a slot that   *)
(* was picked for want of anything better becomes silence.                 *)
OnlySpeechKept ==
    \A j \in 1 .. Len(spkcache_preds) :
        spkcache[j] # Silence => \E s \in Speakers : spkcache_preds[j].p[s] > 50

(* Predictions of the cached rows as the next window will hold them.       *)
CachedPreds ==
    IF spkcache_preds # <<>> THEN spkcache_preds
    ELSE [j \in 1 .. Len(spkcache) |-> Prediction(voices, spkcache[j], FALSE)]

(* Frames so clear that no unclear newer frame can take their place.       *)
Clear(preds, s) ==
    {f \in 1 .. Len(preds) : SpeechScore(preds[f].p, s) > ScoresBoostLatest}

(* A compression never forgets a speaker, however long the speaker has     *)
(* been silent and however much the others speak: it leaves at least as    *)
(* many rows of positive score as there were clear frames, up to the       *)
(* speaker's strong quota.  (Rows barely positive may be displaced: the    *)
(* bonus of the newest rows can lift a negative score above theirs.)       *)
SpeakersKept ==
    [][spkcache_preds' # <<>> =>
        \A s \in Speakers :
            Cardinality(Positive(spkcache_preds', s)) >=
                Min2(Cardinality(Clear(CachedPreds, s)), StrongK(geo))]_vars

(* The scheduler's account of the buffers (StreamGeometry) is what the     *)
(* updates do to them.                                                     *)
ImplementsBudget ==
    [][LET valid == Len(voices') - Len(voices)
       IN  /\ Len(fifo') = FifoAfter(geo, valid, Len(fifo))
           /\ Len(spkcache') =
                SpkAfter(geo, valid, Len(spkcache), Len(fifo))]_vars

=============================================================================
