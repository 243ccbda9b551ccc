------------------------------ MODULE P100Session ------------------------------
(***************************************************************************)
(* The speed session on the P100 (sortformer_p100.py): the runtime is      *)
(* built and the model fetched, every mounted recording is collected (an   *)
(* mp3 converted first) with one synthetic tone, each is diarized          *)
(* RUNS_PER_FIXTURE times, and the report is emitted whatever raised.      *)
(*                                                                         *)
(* A label is the sanitised stem cut at 40 characters, so two recordings   *)
(* may share one.  A diarization that returns 0 leaves its RTTM, one that    *)
(* fails may leave a part; at most MaxOdd commands fail.                   *)
(***************************************************************************)
EXTENDS Integers, Sequences, FiniteSets, SequencesExt

CONSTANTS
    Mounts,            \* sequences of records label, kind ("wav"/"mp3"), whole, seconds
    RUNS_PER_FIXTURE,
    MaxOdd

VARIABLES
    mount, pc, todo,
    fixtures,  \* the recordings to measure, in order
    rttm,      \* label -> run -> << fixture that wrote it >> or << >>
    runs,      \* the return codes of the fixture being measured
    entries,   \* of the measured fixtures
    RESULT,    \* status, and the fixtures and fit once they are set
    emitted, exit, odd
vars == << mount, pc, todo, fixtures, rttm, runs, entries, RESULT, emitted, exit, odd >>

Tone     == [label |-> "synthetic_tone_60s", kind |-> "wav", whole |-> TRUE, seconds |-> 60]
Labels   == {Tone.label} \cup UNION {{s[k].label : k \in DOMAIN s} : s \in Mounts}
Iters    == 0 .. RUNS_PER_FIXTURE - 1
Stages   == << "pkg-config", "clone", "configure", "build", "find_binary", "curl" >>
Statuses == {"none", "pass", "partial", "error"}

TypeOK ==
    /\ mount \in Mounts /\ pc \in {"prepare", "measure", "emit", "over"}
    /\ rttm \in [Labels -> [Iters -> {<< >>} \cup {<< n >> : n \in 1 .. Len(fixtures)}]]
    /\ Len(runs) <= RUNS_PER_FIXTURE /\ Len(entries) <= Len(fixtures)
    /\ RESULT.status \in Statuses /\ emitted \in {<< >>} \cup {<< s >> : s \in Statuses}
    /\ exit \in {<< >>, << 0 >>, << 1 >>}

Init ==
    /\ mount \in Mounts /\ pc = "prepare" /\ todo = Stages /\ fixtures = << >>
    /\ rttm = [l \in Labels |-> [k \in Iters |-> << >>]]
    /\ runs = << >> /\ entries = << >>
    /\ RESULT = [status |-> "none", fixtures |-> << >>, fit |-> "none"]
    /\ emitted = << >> /\ exit = << >> /\ odd = 0

-----------------------------------------------------------------------------
Expected == UNCHANGED odd
Strange  == odd < MaxOdd /\ odd' = odd + 1
(* _main raised: the report keeps what it holds so far, and says error.    *)
Catch(kind) == pc' = "emit" /\ exit' = << 1 >>
Kept == UNCHANGED << mount, emitted >>

(* build_repo and the download: each raises when its command fails.        *)
build_repo ==
    /\ pc = "prepare" /\ todo # << >>
    /\ \/ Expected /\ todo' = Tail(todo) /\ UNCHANGED << pc, exit >>
       \/ Strange /\ Catch("RuntimeError") /\ UNCHANGED todo
    /\ Kept /\ UNCHANGED << fixtures, rttm, runs, entries, RESULT >>

(* Wavs first, then the mp3s that convert, then the tone.                  *)
Chosen(s, K) == [n \in 1 .. Cardinality(K) |->
                   s[CHOOSE k \in K : Cardinality({j \in K : j <= k}) = n]]
OfKind(kind) == {k \in DOMAIN mount : mount[k].kind = kind}
collect_fixtures ==
    /\ pc = "prepare" /\ todo = << >> /\ Expected
    /\ fixtures' = Chosen(mount, OfKind("wav"))
                    \o Chosen(mount, {k \in OfKind("mp3") : mount[k].whole}) \o << Tone >>
    /\ pc' = "measure"
    /\ Kept /\ UNCHANGED << todo, rttm, runs, entries, RESULT, exit >>

Index  == Len(entries) + 1
Now    == fixtures[Index]
(* diarize: the run's RTTM is removed, then the runtime writes it or fails.*)
Unlink(of)      == << >>
diarize ==
    /\ pc = "measure" /\ Index <= Len(fixtures) /\ Len(runs) < RUNS_PER_FIXTURE
    /\ LET k == Len(runs) IN
       \/ /\ Expected /\ runs' = Append(runs, 0)
          /\ rttm' = [rttm EXCEPT ![Now.label][k] = << Index >>]
       \/ /\ Strange /\ runs' = Append(runs, 1)
          /\ \E left \in {Unlink(rttm[Now.label][k]), << Index >>} :
                rttm' = [rttm EXCEPT ![Now.label][k] = left]
    /\ Kept /\ UNCHANGED << pc, todo, fixtures, entries, RESULT, exit >>

(* The entry, with the digest of the first run's RTTM; a recording whose   *)
(* header cannot be read raises here, after its runs.                      *)
Times(codes)    == {n \in DOMAIN codes : codes[n] = 0}
StatusOf(codes) == IF Cardinality(Times(codes)) = RUNS_PER_FIXTURE THEN "pass" ELSE "fail"
Entry ==
    /\ pc = "measure" /\ Index <= Len(fixtures) /\ Len(runs) = RUNS_PER_FIXTURE
    /\ IF Now.whole
       THEN /\ entries' = Append(entries, [of |-> Index, codes |-> runs,
                    rttm |-> rttm[Now.label][0], seconds |-> Now.seconds,
                    timed |-> Times(runs) # {}, status |-> StatusOf(runs)])
            /\ runs' = << >> /\ UNCHANGED << pc, exit >>
       ELSE Catch("wave.Error") /\ UNCHANGED << entries, runs >>
    /\ Kept /\ Expected /\ UNCHANGED << todo, fixtures, rttm, RESULT >>

(* The least-squares fit of wall time against length over the entries with *)
(* a median; it needs two points and a determinant that is not zero.       *)
Points == SelectSeq(entries, LAMBDA e : e.timed)
Total(F(_)) == FoldLeft(LAMBDA n, e : n + F(e), 0, Points)
Determinant == Len(Points) * Total(LAMBDA e : e.seconds * e.seconds)
               - Total(LAMBDA e : e.seconds) * Total(LAMBDA e : e.seconds)
fit_runtime == IF Len(Points) < 2 THEN "few"
               ELSE IF Determinant = 0 THEN "degenerate" ELSE "fit"
Measured ==
    /\ pc = "measure" /\ Index > Len(fixtures)
    /\ RESULT' = [fixtures |-> entries, fit |-> fit_runtime,
                  status |-> IF entries # << >> /\ \A k \in DOMAIN entries :
                                entries[k].status = "pass" THEN "pass" ELSE "partial"]
    /\ pc' = "emit" /\ exit' = << 0 >>
    /\ Kept /\ Expected /\ UNCHANGED << todo, fixtures, rttm, runs, entries >>

_emit ==
    /\ pc = "emit" /\ pc' = "over"
    /\ LET status == IF exit = << 0 >> THEN RESULT.status ELSE "error"
       IN  RESULT' = [RESULT EXCEPT !.status = status] /\ emitted' = << status >>
    /\ Expected /\ UNCHANGED << mount, todo, fixtures, rttm, runs, entries, exit >>

Next == build_repo \/ collect_fixtures \/ diarize \/ Entry \/ Measured \/ _emit

(* Every command has a timeout that run turns into a return code.          *)
Fairness == WF_vars(Next)
Spec == Init /\ [][Next]_vars /\ Fairness

-----------------------------------------------------------------------------
(* The digest an entry publishes is of an RTTM its own first run wrote,    *)
(* whatever other recording shares its label and whichever runs failed.    *)
DigestIsOwn == \A k \in DOMAIN entries :
    /\ entries[k].rttm \in {<< >>, << entries[k].of >>}
    /\ entries[k].codes[1] = 0 => entries[k].rttm # << >>

(* An emitted pass is backed by every run of every collected recording.    *)
PassIsBacked == emitted = << "pass" >> =>
    /\ exit = << 0 >> /\ Len(RESULT.fixtures) = Len(fixtures)
    /\ \A k \in DOMAIN fixtures : \A r \in 1 .. RUNS_PER_FIXTURE :
          RESULT.fixtures[k].codes[r] = 0

(* The fixed cost is told from the marginal rate only by recordings of two *)
(* lengths that were both timed.                                           *)
FitHasTwoLengths == RESULT.fit = "fit" <=>
    \E j, k \in DOMAIN RESULT.fixtures :
        /\ RESULT.fixtures[j].timed /\ RESULT.fixtures[k].timed
        /\ RESULT.fixtures[j].seconds # RESULT.fixtures[k].seconds

(* "Diagnostics must survive": every session ends with an emitted report.  *)
Emitted == pc = "over" /\ emitted # << >>
=============================================================================
