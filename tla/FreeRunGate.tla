------------------------------ MODULE FreeRunGate ------------------------------
(***************************************************************************)
(* The lengths the free-running gate (m2_stage3_k5a.py) reasons about.     *)
(* NeMo's streaming loop is dumped chunk by chunk (dump_m2_reference.py),  *)
(* the engine runs the same recording and leaves a ledger and snapshots,   *)
(* and compare_audio lines the two up: the number of rows, the rows the    *)
(* final window carries on one side only, the compressions, and the FIFO   *)
(* and cache of every chunk.                                               *)
(*                                                                         *)
(* A row is the number of its 80 ms step; what it holds is not modelled.   *)
(* Two rows that are compared and are not the same row may or may not      *)
(* differ by more than the gate.                                           *)
(***************************************************************************)
EXTENDS Integers, Sequences, SequencesExt, FiniteSetsExt

CONSTANTS
    Geometries,  \* records chunk_len, fifo_len, spkcache_len, spkcache_update_period
    Lengths      \* the recordings, in mel frames

VARIABLES
    geo, mel_len,
    extra,       \* the frames the engine's front end emits beyond NeMo's: 0 or 1
    lost,        \* the chunk whose last row the engine loses, 0 if it is right
    pc,
    dump,        \* NeMo's chunks as the npz keeps them
    compression_chunks,
    ledger,      \* the engine's chunks and snapshots
    compressed,  \* the chunks that did compress, of NeMo and of the engine
    verdict
vars == << geo, mel_len, extra, lost, pc, dump, compression_chunks, ledger,
           compressed, verdict >>

SUB == 8
PAD == 32                                \* NeMo pads the features to a multiple of this
Sides == {"nemo", "engine"}
Window == SUB * geo.chunk_len

\* The rows of t mel frames: three stages of (t + 1) / 2.
sub_len(t) == (((((t + 1) \div 2) + 1) \div 2) + 1) \div 2

Fresh   == [spk |-> 0, fifo |-> << >>]
After(chunks) == IF chunks = << >> THEN Fresh ELSE Last(chunks)
Emitted(chunks) == FoldLeft(LAMBDA n, c : n + c.rows, 0, chunks)

(* What one chunk of rows does to the state, on either side: the FIFO      *)
(* takes the rows and gives what is over its length, a period at least,    *)
(* to the cache, which is compressed back to its length when over it.      *)
Popped(g, held, rows) ==
    IF held + rows <= g.fifo_len THEN 0
    ELSE Min({Max({g.spkcache_update_period, rows - g.fifo_len + held}), held + rows})
Compresses(g, before, rows) ==
    before.spk + Popped(g, Len(before.fifo), rows) > g.spkcache_len
streaming_update(g, before, ids) ==
    LET pop == Popped(g, Len(before.fifo), Len(ids))
    IN  [spk  |-> IF Compresses(g, before, Len(ids)) THEN g.spkcache_len ELSE before.spk + pop,
         fifo |-> SubSeq(before.fifo \o ids, pop + 1, Len(before.fifo) + Len(ids))]

Chunk(before, t, ids) ==
    LET st == streaming_update(geo, before, ids)
    IN  [t |-> t, rows |-> Len(ids), spk |-> st.spk, fifo |-> st.fifo,
         spk_before |-> before.spk, fifo_before |-> Len(before.fifo)]
Ids(done, rows) == [k \in 1 .. rows |-> done * geo.chunk_len + k]
AddIf(side, i, yes) ==
    compressed' = IF yes THEN [compressed EXCEPT ![side] = Append(@, i)] ELSE compressed

-----------------------------------------------------------------------------
TypeOK ==
    /\ geo \in Geometries /\ mel_len \in Lengths /\ extra \in {0, 1} /\ lost \in Nat
    /\ pc \in {"dump", "run", "judge", "over"}
    /\ \A s \in {dump, ledger} : \A i \in DOMAIN s :
          /\ s[i].rows \in 0 .. geo.chunk_len /\ s[i].spk \in 0 .. geo.spkcache_len
          /\ Len(s[i].fifo) <= geo.fifo_len
    /\ verdict \in {"none", "error", "green", "red"}

Init ==
    /\ geo \in Geometries /\ mel_len \in Lengths /\ extra \in {0, 1}
    /\ lost \in 0 .. (mel_len + extra + Window - 1) \div Window
    /\ pc = "dump" /\ dump = << >> /\ ledger = << >> /\ compression_chunks = << >>
    /\ compressed = [s \in Sides |-> << >>] /\ verdict = "none"

(* One chunk of the dump: the padded window, so its last rows may be rows  *)
(* NeMo masks.  A compression is recognised by its lengths: the cache is   *)
(* at its length, and held more before.                                    *)
NotedAsCompressed(before, c) ==
    /\ c.spk = geo.spkcache_len
    /\ before.spk + (Len(before.fifo) + c.rows - Len(c.fifo)) > geo.spkcache_len
Padded == ((mel_len + PAD - 1) \div PAD) * PAD
DumpChunk ==
    LET i == Len(dump)
        before == After(dump)
        rows == Min({Window, Padded - Window * i}) \div SUB
        c == Chunk(before, Min({Window, mel_len - Window * i}), Ids(i, rows))
    IN  /\ pc = "dump" /\ Window * i < Padded
        /\ dump' = Append(dump, c)
        /\ compression_chunks' = IF NotedAsCompressed(before, c)
                                 THEN Append(compression_chunks, i) ELSE compression_chunks
        /\ AddIf("nemo", i, Compresses(geo, before, rows))
        /\ UNCHANGED << geo, mel_len, extra, lost, pc, ledger, verdict >>
Dumped ==
    /\ pc = "dump" /\ Window * Len(dump) >= Padded /\ pc' = "run"
    /\ UNCHANGED << geo, mel_len, extra, lost, dump, compression_chunks, ledger,
                    compressed, verdict >>

(* One chunk of the engine: the valid rows of a window or of what is left  *)
(* at the end.                                                             *)
EngineTotal == mel_len + extra
EngineChunk ==
    LET i == Len(ledger)
        before == After(ledger)
        t == Min({Window, EngineTotal - Window * i})
        rows == sub_len(t) - (IF lost = i + 1 THEN 1 ELSE 0)
        c == Chunk(before, t, Ids(i, rows))
    IN  /\ pc = "run" /\ Window * i < EngineTotal
        /\ ledger' = Append(ledger, c)
        /\ AddIf("engine", i, Compresses(geo, before, rows))
        /\ UNCHANGED << geo, mel_len, extra, lost, pc, dump, compression_chunks, verdict >>
Ran ==
    /\ pc = "run" /\ Window * Len(ledger) >= EngineTotal /\ pc' = "judge"
    /\ UNCHANGED << geo, mel_len, extra, lost, dump, compression_chunks, ledger,
                    compressed, verdict >>

-----------------------------------------------------------------------------
(* compare_audio.  The lengths of G5: the rows NeMo's timeline would have  *)
(* without the rows of its padding, and what the one extra frame adds.     *)
feat_len_last == Last(dump).t
t_mel_last    == Last(ledger).t
fe_extra      == t_mel_last - feat_len_last
valid_last    == sub_len(feat_len_last)
fe_extra_rows == sub_len(t_mel_last) - valid_last
preds_full    == Last(dump).spk_before + Last(dump).fifo_before + Last(dump).rows
expected_ours == Emitted(dump)
                 - (preds_full - Last(dump).spk_before - Last(dump).fifo_before) + valid_last
phantom       == Emitted(dump) - expected_ours
len_diff      == Emitted(ledger) - expected_ours
LengthFits    == len_diff \in {0, fe_extra_rows}

(* G4: the compressions the ledger implies, replayed from its rows.        *)
Over(g, held) == held - g.fifo_len
PopAPeriod(g, held) ==
    IF held > g.fifo_len THEN Min({Max({g.spkcache_update_period, Over(g, held)}), held}) ELSE 0
Replay(st, c) ==
    LET held == st.fifo + c.rows
        pop == PopAPeriod(geo, held)
        full == st.spk + pop > geo.spkcache_len
    IN  [i |-> st.i + 1, fifo |-> held - pop,
         spk |-> IF full THEN geo.spkcache_len ELSE st.spk + pop,
         events |-> IF full THEN Append(st.events, st.i) ELSE st.events]
events_sim ==
    FoldLeft(Replay, [i |-> 0, fifo |-> 0, spk |-> 0, events |-> << >>], ledger).events

(* G3: the cache and the FIFO of every chunk both sides have.  Only the    *)
(* FIFO of the last chunk may be longer at NeMo, by the padding's rows or  *)
(* by those less the extra frame's; then a prefix of it is compared.       *)
Both    == 1 .. Min({Len(dump), Len(ledger)})
delta(i) == Len(dump[i].fifo) - Len(ledger[i].fifo)
\* Mutant: the extra frame has no part in it.
ExemptPadding(i) == i = Len(dump) /\ phantom > 0 /\ delta(i) = phantom
Exempt(i) ==
    /\ i = Len(dump) /\ phantom > 0
    /\ delta(i) = phantom \/ (delta(i) = phantom - fe_extra_rows /\ delta(i) > 0)
n_rows(i) == Min({(Min({t_mel_last, feat_len_last}) - SUB) \div SUB + 1,
                  Len(ledger[i].fifo), Len(dump[i].fifo)})
geometry_ok == \A i \in Both : /\ dump[i].spk = ledger[i].spk
                               /\ delta(i) = 0 \/ Exempt(i)
Compared(i) == IF delta(i) = 0 THEN 1 .. Len(dump[i].fifo)
               ELSE IF Exempt(i) THEN 1 .. n_rows(i) ELSE {}

(* The rows NeMo masked are the last of the last chunk's.                  *)
Masked(i, k)    == i = Len(dump) /\ dump[i].fifo[k] > (i - 1) * geo.chunk_len + valid_last
SameRow(i, k)   == dump[i].fifo[k] = ledger[i].fifo[k] /\ ~Masked(i, k)
Misaligned      == \E i \in Both : \E k \in Compared(i) : ~SameRow(i, k)
Structure       == LengthFits /\ geometry_ok /\ events_sim = compression_chunks

compare_audio ==
    /\ pc = "judge" /\ pc' = "over"
    /\ IF fe_extra \notin {0, 1} THEN verdict' = "error"
       ELSE \E loud \in IF Misaligned THEN BOOLEAN ELSE {FALSE} :
              verdict' = IF Structure /\ ~loud THEN "green" ELSE "red"
    /\ UNCHANGED << geo, mel_len, extra, lost, dump, compression_chunks, ledger, compressed >>

Next == DumpChunk \/ Dumped \/ EngineChunk \/ Ran \/ compare_audio
Spec == Init /\ [][Next]_vars

-----------------------------------------------------------------------------
Judged == pc = "over" /\ verdict # "error"
(* The compressions that are compared are those that happened: the dump    *)
(* recognises NeMo's by lengths alone, and the gate replays the engine's   *)
(* from its rows alone.                                                    *)
EventsAreCompressions ==
    Judged => compression_chunks = compressed["nemo"] /\ events_sim = compressed["engine"]

(* A green gate means the engine emitted NeMo's rows: in every chunk but   *)
(* the last exactly as many, in the last its valid ones and at most what   *)
(* the extra frame adds.                                                   *)
GreenIsAligned ==
    verdict = "green" =>
        /\ Len(ledger) = Len(dump)
        /\ \A i \in 1 .. Len(dump) - 1 : ledger[i].rows = dump[i].rows
        /\ Last(ledger).rows \in valid_last .. valid_last + fe_extra_rows

(* A right engine is not refused: unless its extra frame opens a window of *)
(* its own, or the padding makes NeMo's FIFO give rows the engine's does   *)
(* not, or the padding leaves no row for the extra frame's, nothing is red.*)
SamePops == Len(dump) = Len(ledger)
            /\ Last(dump).fifo_before + Last(dump).rows - Len(Last(dump).fifo)
               = Last(ledger).fifo_before + Last(ledger).rows - Len(Last(ledger).fifo)
RightIsGreen ==
    pc = "over" /\ lost = 0 /\ SamePops /\ (fe_extra_rows = 1 => phantom > 1)
        => verdict = "green"

(* "Compare the real prefix": of the last chunk's FIFO every row that is   *)
(* real on both sides and reads only frames both have is compared, the     *)
(* extra frame's row and the padded boundary's alone are exempt            *)
(* (m2_stage3_k5a.py:236, 244-250).                                        *)
CleanRow(k) == LET r == Last(dump).fifo[k] - (Len(dump) - 1) * geo.chunk_len - 1
               IN  SUB * r + SUB - 1 < Min({t_mel_last, feat_len_last})
RealPrefixIsCompared ==
    Judged /\ lost = 0 /\ Exempt(Len(dump)) =>
        \A k \in 1 .. Len(Last(ledger).fifo) : CleanRow(k) => k \in Compared(Len(dump))
=============================================================================
