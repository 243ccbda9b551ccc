---------------------------- MODULE MatrixSession ----------------------------
(***************************************************************************)
(* The measurement kernel on the accelerator (sortformer_matrix): fixtures *)
(* from whatever audio is mounted, the GPU matrix, the offline and CPU     *)
(* comparisons, the directory-concurrency probe, the knob sweep, and the   *)
(* benchmark records.  Any step may raise; whatever happens, the report of *)
(* what was finished is emitted.  The probability sweep has a module of    *)
(* its own (ProbSweep); here it is the step between knobs and records.     *)
(***************************************************************************)
EXTENDS Naturals, Sequences, FiniteSets, SequencesExt

CONSTANTS
    Mounts,          \* sets of real recordings that may be mounted
    Synth,           \* the synthetic lengths, always written
    Measured,        \* what measure may return: [ok, identical, segments]
    N_DET_REPEAT,    \* runs per knob set
    KnobSets,        \* DET_SETS_V8, the baseline first
    Bodies,          \* segment bodies
    Outputs          \* what a run over the chunks may leave: chunk -> body

VARIABLES
    phase,     \* the step of _main that is next
    mount,     \* audio under /kaggle/input
    fixtures,  \* labels, in order
    report,    \* REPORT: the keys that are set so far
    status,    \* "running" | "pass" | "error"
    emitted,   \* the report on disk, optional
    jsonl      \* the benchmark records appended
vars == << phase, mount, fixtures, report, status, emitted, jsonl >>

None    == << >>
Some(v) == << v >>
Recordings == << "real_short", "real_mid", "real_long" >>
Real       == Range(Recordings)

\* [x for x in s if ...]: the elements of s at the positions K, in their order.
Chosen(s, K) == [n \in 1 .. Cardinality(K) |->
                   s[CHOOSE k \in K : Cardinality({j \in K : j <= k}) = n]]

Init ==
    /\ phase = "prepare"
    /\ mount \in Mounts
    /\ fixtures = << >>
    /\ report = << >>                 \* no key is set
    /\ status = "running"
    /\ emitted = None /\ jsonl = << >>

\* REPORT[key] = value at the end of a step; with(f, key, v) is the new report.
with(f, key, v) == [k \in DOMAIN f \cup {key} |-> IF k = key THEN v ELSE f[k]]
Step(p, next) == phase = p /\ status = "running" /\ phase' = next
                 /\ UNCHANGED << mount, status, emitted, jsonl >>

\* reset_workspace, environment, build (RuntimeBuild), model.
Prepare == Step("prepare", "fixtures") /\ UNCHANGED fixtures
           /\ report' = with(report, "build", TRUE)

\* Real audio first; a recording that has to be converted and cannot be is
\* left out; the synthetic lengths always follow.
build_fixtures ==
    /\ Step("fixtures", "matrix")
    /\ \E converted \in SUBSET mount :
        /\ fixtures' = Chosen(Recordings, {k \in 1 .. 3 : Recordings[k] \in converted})
                        \o Synth
        /\ report' = with(report, "fixtures", fixtures')

run_matrix ==
    /\ Step("matrix", "offline")
    /\ \E results \in [DOMAIN fixtures -> Measured] :
        report' = with(report, "gpu_streaming",
            [k \in DOMAIN fixtures |-> [label |-> fixtures[k], result |-> results[k]]])
    /\ UNCHANGED fixtures

select_entries(entries, labels) ==
    Chosen(entries, {k \in DOMAIN entries : entries[k].label \in labels})
Gpu         == report["gpu_streaming"]
RealEntries == select_entries(Gpu, Real)
Labels(es)  == [k \in DOMAIN es |-> es[k].label]
Compared    == Labels(IF RealEntries # << >> THEN RealEntries ELSE Gpu)
Upto(s, n)  == SubSeq(s, 1, IF Len(s) < n THEN Len(s) ELSE n)

determinism(entries) ==
    LET informative == {k \in DOMAIN entries :
                          entries[k].result.segments > 0 /\ entries[k].result.ok > 1}
    IN  [informative |-> Cardinality(informative),
         all_body_identical |->
            /\ informative # {}
            /\ \A k \in informative : entries[k].result.identical]

run_offline == Step("offline", "cpu") /\ UNCHANGED fixtures
               /\ report' = with(with(report, "determinism", determinism(Gpu)),
                                 "gpu_offline_preset", Upto(Compared, 2))
run_cpu     == Step("cpu", "concurrency") /\ UNCHANGED fixtures
               /\ report' = with(report, "cpu_fallback", Upto(Compared, 1))

(* run_concurrency: the chunks one by one, then the directory with one and *)
(* four workers.  A run may fail after any of its files was written.       *)
BodiesMatch(file, dir) ==
    /\ DOMAIN file # {} /\ DOMAIN dir # {}
    /\ DOMAIN dir = DOMAIN file
    /\ \A c \in DOMAIN file : dir[c] = file[c]

run_concurrency ==
    /\ Step("concurrency", "det")
    /\ IF RealEntries = << >> THEN report' = report
       ELSE \E file, dir \in Outputs :
              report' = with(report, "directory_concurrency",
                  [file |-> file, dir |-> dir, match |-> BodiesMatch(file, dir)])
    /\ UNCHANGED fixtures

(* run_det_sweep: each knob set runs N times; the first failure ends it.   *)
Unique(s) == Cardinality({s[k] : k \in DOMAIN s})
\* Mutant: a set that stopped early still reports agreement.
SetEntryAnyway(ok, hashes, base) ==
    [ok |-> ok, hashes |-> hashes, identical |-> Unique(hashes) = 1,
     rep0 |-> IF hashes # << >> THEN Some(hashes[1]) ELSE None,
     matches_baseline |-> IF base # None /\ hashes # << >>
                            THEN Some(Some(hashes[1]) = base[1].rep0) ELSE None]
SetEntry(ok, hashes, base) ==
    [ok |-> ok, hashes |-> hashes, identical |-> ok /\ Unique(hashes) = 1,
     rep0 |-> IF hashes # << >> THEN Some(hashes[1]) ELSE None,
     matches_baseline |-> IF base # None /\ hashes # << >>
                            THEN Some(Some(hashes[1]) = base[1].rep0) ELSE None]

\* The bodies of a set: all N of them, or fewer and then a failure.
Reps == { [ok |-> Len(s) = N_DET_REPEAT, hashes |-> s] :
            s \in UNION { [1 .. n -> Bodies] : n \in 0 .. N_DET_REPEAT } }

\* The first case of the sweeps, if there is one: the short or the mid recording.
DetCase == LET cases == select_entries(Gpu, {"real_short", "real_mid"})
           IN  IF cases # << >> THEN Some(cases[1].label) ELSE None

run_det_sweep ==
    /\ Step("det", "prob")
    /\ IF DetCase = None THEN report' = report
       ELSE \E runs \in [DOMAIN KnobSets -> Reps] :
              LET first == SetEntry(runs[1].ok, runs[1].hashes, None)
              IN  report' = with(report, "determinism_sweep",
                    [audio |-> DetCase[1],
                     sets  |-> [k \in DOMAIN KnobSets |->
                        IF k = 1 THEN first
                        ELSE SetEntry(runs[k].ok, runs[k].hashes, Some(first))]])
    /\ UNCHANGED fixtures

run_prob_sweep == Step("prob", "records") /\ UNCHANGED fixtures
                  /\ report' = IF DetCase = None THEN report
                               ELSE with(report, "prob_sweep", TRUE)

to_records == Step("records", "end") /\ UNCHANGED fixtures
              /\ report' = with(report, "records", Labels(Gpu))

\* Any step may raise before it has set its key: what was finished stays.
Raise ==
    /\ status = "running" /\ phase # "end"
    /\ status' = "error"
    /\ UNCHANGED << phase, mount, fixtures, report, emitted, jsonl >>

\* main: the status, the report, and the records if there are any.
main ==
    /\ emitted = None
    /\ status = "error" \/ phase = "end"
    /\ status' = IF status = "error" THEN "error" ELSE "pass"
    /\ emitted' = Some(with(report, "status", status'))
    /\ jsonl' = IF "records" \in DOMAIN report THEN report["records"] ELSE << >>
    /\ UNCHANGED << phase, mount, fixtures, report >>

_main == \/ Prepare \/ build_fixtures \/ run_matrix \/ run_offline \/ run_cpu
         \/ run_concurrency \/ run_det_sweep \/ run_prob_sweep \/ to_records
Next == _main \/ Raise \/ main
\* A step that neither returns nor raises is killed with the session.
Fairness == WF_vars(_main \/ main)
Spec == Init /\ [][Next]_vars /\ Fairness

-----------------------------------------------------------------------------
TypeOK ==
    /\ phase \in {"prepare", "fixtures", "matrix", "offline", "cpu", "concurrency",
                  "det", "prob", "records", "end"}
    /\ mount \in Mounts
    /\ Range(fixtures) \subseteq Real \cup Range(Synth)
    /\ status \in {"running", "pass", "error"}
    /\ Len(emitted) <= 1

(* Comparisons are on audio the matrix measured: the offline, CPU and knob *)
(* runs take recordings of the GPU matrix, synthetic tones only when there *)
(* was no recording at all, and the knob sweep never takes a tone.         *)
ComparedOnMeasuredAudio ==
    /\ \A key \in {"gpu_offline_preset", "cpu_fallback"} \cap DOMAIN report :
         /\ Range(report[key]) \subseteq Range(Labels(Gpu))
         /\ Range(Labels(Gpu)) \cap Real # {} => Range(report[key]) \subseteq Real
    /\ "determinism_sweep" \in DOMAIN report => report["determinism_sweep"].audio \in mount

(* A claim of agreement is backed by runs: a fixture with speech and two   *)
(* runs for the matrix, all N runs of a knob set with one body, the same   *)
(* set of files with the same bodies for the directory probe; a match with *)
(* the baseline needs a baseline run that came back with that body.        *)
AgreementIsBacked ==
    /\ "determinism" \in DOMAIN report /\ report["determinism"].all_body_identical =>
         \E k \in DOMAIN Gpu : Gpu[k].result.segments > 0 /\ Gpu[k].result.ok > 1
                               /\ Gpu[k].result.identical
    /\ "determinism_sweep" \in DOMAIN report =>
         LET sets == report["determinism_sweep"].sets IN
         \A k \in DOMAIN sets :
            /\ sets[k].identical => /\ Len(sets[k].hashes) = N_DET_REPEAT
                                    /\ Unique(sets[k].hashes) = 1
            /\ sets[k].matches_baseline = Some(TRUE) =>
                 sets[1].hashes # << >> /\ sets[1].hashes[1] = sets[k].hashes[1]

(* "bodies_match_file_baseline": every chunk the sequential runs wrote was *)
(* written by the directory run too, with the same body, and no other.     *)
MatchIsOfTheSameFiles ==
    "directory_concurrency" \in DOMAIN report =>
        LET c == report["directory_concurrency"] IN
        c.match => c.file = c.dir /\ DOMAIN c.file # {}

(* "diagnostics must survive": a session that ends, by itself or by an     *)
(* exception, leaves a report with every step it finished, and benchmark   *)
(* records only of sessions that finished them all, one per fixture.       *)
ReportSurvives ==
    emitted # None =>
        /\ \A key \in DOMAIN report : emitted[1][key] = report[key]
        /\ emitted[1]["status"] = "pass" <=> phase = "end"
        /\ jsonl # << >> => emitted[1]["status"] = "pass" /\ jsonl = fixtures

(* Every session emits its report.                                         *)
Emits == <>(emitted # None)
=============================================================================
