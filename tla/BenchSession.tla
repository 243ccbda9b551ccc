----------------------------- MODULE BenchSession -----------------------------
(***************************************************************************)
(* The three parts of a benchmark session: the build of the runtime, the   *)
(* measurements with their samplers, and the kernel that drives them.  A   *)
(* session starts them one after the other and they share no state that    *)
(* one changes under another, so a behaviour follows one part, the others  *)
(* waiting in their initial state.                                         *)
(***************************************************************************)
EXTENDS Naturals, Sequences, FiniteSets

CONSTANTS Upstreams, Leftovers, Trials, warmup, iterations, Bodies, MaxAsked,
          Mounts, Synth, Measured, N_DET_REPEAT, KnobSets, Outputs

VARIABLES
    part,                                                   \* the part followed
    at, apply_patch, disk, buildLog, record,                \* RuntimeBuild
    pc, m, i, files, child, runs, samplers, measured,       \* Measurement
    phase, mount, fixtures, report, status, emitted, jsonl  \* MatrixSession
buildVars   == << at, apply_patch, disk, buildLog, record >>
measureVars == << pc, m, i, files, child, runs, samplers, measured >>
matrixVars  == << phase, mount, fixtures, report, status, emitted, jsonl >>
vars        == << part, buildVars, measureVars, matrixVars >>

Build   == INSTANCE RuntimeBuild WITH log <- buildLog
Measure == INSTANCE Measurement WITH report <- measured
Matrix  == INSTANCE MatrixSession

Optional(S) == {<< >>} \cup {<< v >> : v \in S}
Texts == Upstreams \cup {Build!ApplyPatch(t).text : t \in Upstreams}
Trees == [source : Optional(Texts), shim : BOOLEAN,
          binary : Optional([of : Texts, whole : BOOLEAN]),
          model  : Optional({"part", "whole"})]

\* What an earlier session left is a source, patched or not, a binary of one
\* and a model; what is mounted are the known recordings, never a tone.
ASSUME Sessions ==
    /\ Trials \in Seq(STRING) \ {<< >>}
    /\ warmup \in Nat /\ iterations \in Nat \ {0}
    /\ Upstreams \subseteq Seq(STRING)
    /\ Leftovers \subseteq Trees
    /\ \A recordings \in Mounts : recordings \subseteq Matrix!Real
    /\ Synth \in Seq(STRING) /\ Matrix!Range(Synth) \cap Matrix!Real = {}
    /\ N_DET_REPEAT \in Nat /\ KnobSets \in Seq(STRING)
    /\ \A written \in Outputs : written \in [DOMAIN written -> Bodies]

Waiting(part_) == part # part_
Init ==
    /\ part \in {"build", "measure", "matrix"}
    /\ Build!Init
    /\ Waiting("build") => apply_patch /\ disk = Build!Empty
    /\ Measure!Init
    /\ Matrix!Init
    /\ Waiting("matrix") => mount = CHOOSE s \in Mounts : TRUE

Next ==
    \/ part = "build"   /\ Build!Next   /\ UNCHANGED << part, measureVars, matrixVars >>
    \/ part = "measure" /\ Measure!Next /\ UNCHANGED << part, buildVars, matrixVars >>
    \/ part = "matrix"  /\ Matrix!Next  /\ UNCHANGED << part, buildVars, measureVars >>

Spec == Init /\ [][Next]_vars
        /\ (part = "measure" => Measure!Fairness)
        /\ (part = "matrix"  => Matrix!Fairness)

-----------------------------------------------------------------------------
(* What is measured is the program and the model the report describes, and *)
(* a patch that is refused leaves no half-patched source, whatever command *)
(* fails and whatever an earlier session left.                             *)
BuiltIsReported ==
    /\ Build!TypeOK
    /\ Build!ReadyIsTheReport
    /\ Build!NeverHalfPatched

(* A measurement is of its own runs: a result never holds the output of    *)
(* another run, body_identical needs an equal body from every run that     *)
(* returned 0, and the summary of a joined sampler counts the samples its  *)
(* columns hold.                                                           *)
MeasuredIsItsOwn ==
    /\ Measure!TypeOK
    /\ Measure!NoStaleOutput
    /\ Measure!IdenticalIsAll
    /\ Measure!JoinedSummaryIsWhole

(* What a session claims is backed: comparisons run on audio the matrix    *)
(* measured, agreement is of runs that came back and agree, a match of the *)
(* directory probe is of the same files, and a session that ends leaves    *)
(* all it finished, with records only of a whole one.                      *)
ClaimsAreBacked ==
    /\ Matrix!TypeOK
    /\ Matrix!ComparedOnMeasuredAudio
    /\ Matrix!AgreementIsBacked
    /\ Matrix!MatchIsOfTheSameFiles
    /\ Matrix!ReportSurvives

(* Everything ends: every sampler thread after its stop, joined in time or *)
(* not, and every session with an emitted report.                          *)
SessionsEnd ==
    /\ part = "measure" => Measure!SamplersGo
    /\ part = "matrix" => Matrix!Emits
=============================================================================
