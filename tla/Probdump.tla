------------------------------- MODULE Probdump -------------------------------
(***************************************************************************)
(* The probability dump: the file the patched binary writes for every run  *)
(* (a header of frame count and speaker count, then the probabilities row  *)
(* by row), the reader that must refuse a partial one, and the three       *)
(* comparisons made on what was read: probdiff, which judges whether two   *)
(* runs drifted, the parity gate, which judges an engine against a pinned  *)
(* observation, and the cross-card gate, which compares dumps of one input *)
(* from different cards pair by pair.                                      *)
(*                                                                         *)
(* A file is a sequence of words: two for the int64 frame count (the high  *)
(* one is 0), one for the speaker count, one per float.  A probability is  *)
(* a point of the grid 0..Grid, or one of the two floats on which equality *)
(* of values and equality of bytes part: NaN and -0.0.                     *)
(***************************************************************************)
EXTENDS Integers, Sequences, SequencesExt

CONSTANT Grid                   \* probability 1.0, in grid steps
ASSUME GridAssumption == Grid \in Nat \ {0}

NaN     == -1
NegZero == -2

IsNaN(x)   == x = NaN
Value(x)   == IF x = NegZero THEN 0 ELSE x
FEq(x, y)  == ~IsNaN(x) /\ ~IsNaN(y) /\ Value(x) = Value(y)
Gap(x, y)  == IF IsNaN(x) \/ IsNaN(y) THEN NaN
              ELSE IF Value(x) >= Value(y) THEN Value(x) - Value(y)
                                           ELSE Value(y) - Value(x)
\* x > y of IEEE floats: false as soon as one of them is NaN.
Above(x, y) == ~IsNaN(x) /\ ~IsNaN(y) /\ Value(x) > Value(y)

-----------------------------------------------------------------------------
(* Optional values: <<>> is None, <<x>> is x.                              *)
None      == << >>
Some(x)   == << x >>
Present(o) == o # None
The(o)    == o[1]

HeaderWords == 3

\* diar_probdump_write: header, then every probability.
DumpFile(frames, spk, values) == << frames, 0, spk >> \o values

\* What a child killed while it writes leaves on disk.
Partials(file) == { SubSeq(file, 1, k) : k \in 0 .. Len(file) - 1 }

WellFormed(file) ==
    /\ Len(file) >= HeaderWords
    /\ file[1] > 0
    /\ file[3] > 0
    /\ Len(file) >= HeaderWords + file[1] * file[3]

\* read_probdump: the dump, or None where the code raises ValueError.
ReadProbdump(file) ==
    IF WellFormed(file)
      THEN Some([frames |-> file[1], spk |-> file[3],
                 values |-> SubSeq(file, HeaderWords + 1,
                                   HeaderWords + file[1] * file[3])])
      ELSE None

Row(d, f)  == SubSeq(d.values, (f - 1) * d.spk + 1, f * d.spk)

FirstBest(row) ==
    CHOOSE i \in DOMAIN row :
        /\ \A j \in DOMAIN row : ~Above(row[j], row[i])
        /\ \A j \in 1 .. i - 1 : ~FEq(row[j], row[i])
        /\ ~IsNaN(row[i])

LastBest(row) ==
    CHOOSE i \in DOMAIN row :
        /\ \A j \in DOMAIN row : ~Above(row[j], row[i])
        /\ \A j \in i + 1 .. Len(row) : ~FEq(row[j], row[i])
        /\ ~IsNaN(row[i])

\* Mutant: `>=` for `>`, so that the last of equal speakers wins.
GateArgmaxLast(row) ==
    IF \A i \in DOMAIN row : IsNaN(row[i]) THEN 1 ELSE LastBest(row)

\* _argmax of the gate: starts below every float, so NaN never wins.
GateArgmax(row) ==
    IF \A i \in DOMAIN row : IsNaN(row[i]) THEN 1 ELSE FirstBest(row)

\* max(range(n), key=...): starts from the first item, where a NaN stays.
PyArgmax(row) == IF IsNaN(row[1]) THEN 1 ELSE FirstBest(row)

Gaps(a, b) == [i \in DOMAIN a |-> Gap(a[i], b[i])]

\* Running maximum with `if d > max`: a NaN gap never enters it.
Peak(gaps) ==
    LET Raise(d, m) == IF Above(d, m) THEN d ELSE m
    IN  FoldSeq(Raise, 0, gaps)

\* Running sum: one NaN gap makes it NaN.
Total(gaps) ==
    LET Add(d, t) == IF IsNaN(d) \/ IsNaN(t) THEN NaN ELSE d + t
    IN  FoldSeq(Add, 0, gaps)

Agreement(x, y, Argmax(_)) ==
    Cardinality({ f \in 1 .. x.frames : Argmax(Row(x, f)) = Argmax(Row(y, f)) })

SameValues(a, b) == /\ Len(a) = Len(b)
                    /\ \A i \in DOMAIN a : FEq(a[i], b[i])

(* probdiff: shapes first, then the bit-identical short circuit, then the  *)
(* metrics.  agree counts frames and total sums the gaps: the code divides *)
(* the first by the frames and the second by the number of values.  With   *)
(* different shapes there are no metrics, and the sweep reads defaults: no *)
(* difference, full agreement.                                             *)
ProbDiff(x, y) ==
    IF <<x.frames, x.spk>> # <<y.frames, y.spk>>
      THEN [shape_equal |-> FALSE, bit_identical |-> FALSE,
            max_abs |-> 0, total |-> 0, agree |-> x.frames]
    ELSE IF SameValues(x.values, y.values)
      THEN [shape_equal |-> TRUE, bit_identical |-> TRUE,
            max_abs |-> 0, total |-> 0, agree |-> x.frames]
    ELSE [shape_equal |-> TRUE, bit_identical |-> FALSE,
          max_abs |-> Peak(Gaps(x.values, y.values)),
          total   |-> Total(Gaps(x.values, y.values)),
          agree   |-> Agreement(x, y, PyArgmax)]

-----------------------------------------------------------------------------
(* The parity gate, with FRAME_PROBS_TOLERANCE in thousandths.             *)
AgreementMin == 999
MaxAbsMax    == 50
MeanAbsMax   == 5

\* `metric > limit` and `metric < limit` fail a gate: a NaN fails neither.
Tolerated(m, frames, n) ==
    /\ 1000 * m.agree >= AgreementMin * frames
    /\ 1000 * m.max_abs <= MaxAbsMax * Grid
    /\ IsNaN(m.total) \/ 1000 * m.total <= MeanAbsMax * Grid * n

\* frame_probs_gate(actual, fixture, mode): PASS?
GateMetrics(actual, fixture) ==
    LET a == [fixture EXCEPT !.values = actual]
        gaps == Gaps(actual, fixture.values)
    IN  [max_abs |-> Peak(gaps), total |-> Total(gaps),
         agree   |-> Agreement(a, fixture, GateArgmax),
         bit_identical |-> Peak(gaps) = 0]

Gate(actual, fixture, mode) ==
    /\ Len(actual) = Len(fixture.values)
    /\ \/ mode = "exact" /\ SameValues(actual, fixture.values)
       \/ /\ mode = "tolerance"
          /\ Tolerated(GateMetrics(actual, fixture), fixture.frames,
                       Len(fixture.values))

-----------------------------------------------------------------------------
(* The cross-card gate (ge_cross_diff.py).  A dump is its header, n rows   *)
(* of spk speakers, and the values behind it.  The outcome is the exit     *)
(* code: 0 green, 1 red or a traceback, 2 a dump that cannot be used.      *)
(* Dumps of a single speaker, which numpy would repeat over the columns of *)
(* another, are not among the inputs.                                      *)

\* The header is there and positive, and the payload is what it announces.
Usable(dump) == /\ dump.n > 0 /\ dump.spk > 0
                /\ Len(dump.values) = dump.n * dump.spk

\* numpy's maximum is NaN as soon as one element is.
Greatest(gaps) ==
    LET Raise(d, m) == IF IsNaN(d) \/ IsNaN(m) THEN NaN ELSE IF d > m THEN d ELSE m
    IN  FoldSeq(Raise, 0, gaps)
LessEq(mx, gate) == ~IsNaN(mx) /\ mx <= gate
Pairs(dumps) == {p \in (DOMAIN dumps) \X (DOMAIN dumps) : p[1] < p[2]}

Green(dumps, gate) ==
    \A p \in Pairs(dumps) :
        LessEq(Greatest(Gaps(dumps[p[1]].values, dumps[p[2]].values)), gate)

ExitCode(dumps, gate) ==
    IF Len(dumps) < 2 \/ \E k \in DOMAIN dumps : ~Usable(dumps[k]) THEN 2
    ELSE IF \E k \in DOMAIN dumps : dumps[k].n # dumps[1].n THEN 2
    ELSE IF \E k \in DOMAIN dumps : dumps[k].spk # dumps[1].spk THEN 1
    ELSE IF Green(dumps, gate) THEN 0 ELSE 1

(* Exit 0 means that the cards agree: any two dumps, of one shape, differ  *)
(* nowhere by more than the gate, and no value of any of them is NaN.      *)
GreenIsAgreement(dumps, gate) ==
    ExitCode(dumps, gate) = 0 =>
        \A j, k \in DOMAIN dumps :
            /\ dumps[j].n = dumps[k].n /\ dumps[j].spk = dumps[k].spk
            /\ Len(dumps[j].values) = Len(dumps[k].values)
            /\ \A p \in DOMAIN dumps[j].values :
                  /\ ~IsNaN(dumps[j].values[p])
                  /\ Value(dumps[j].values[p]) - Value(dumps[k].values[p]) <= gate

=============================================================================
