---------------------------- MODULE ParityPipeline ----------------------------
(***************************************************************************)
(* How ground truth comes to be: the sweep runs on the accelerator and     *)
(* exports a candidate per set, the candidates are downloaded, and fill    *)
(* turns one of them into the fixture that gates the engine.  A download   *)
(* may cut a payload short.                                                *)
(***************************************************************************)
EXTENDS ProbSweep

CONSTANTS Edits, Options, Outputs

ASSUME OutputsAssumption == Outputs \subseteq Seq(Int)

VARIABLES downloaded, probs, manifest, fill, gate
fixtureVars == << downloaded, probs, manifest, fill, gate >>

F == INSTANCE ParityFixture WITH candidates <- downloaded

PipelineInit == Init /\ F!Init /\ downloaded = << >>

Session == Rep \/ Judge \/ Export

Received(c) == {c} \cup { [c EXCEPT !.probs = p] : p \in Partials(c.probs) }

Download ==
    /\ pc = "done"
    /\ downloaded = << >>
    /\ downloaded' \in { d \in [DOMAIN candidates -> UNION { Received(c) : c \in Range(candidates) }] :
                           \A i \in DOMAIN d : d[i] \in Received(candidates[i]) }
    /\ UNCHANGED << probs, manifest, fill, gate >>

PipelineNext ==
    \/ Session /\ UNCHANGED fixtureVars
    \/ Download /\ UNCHANGED vars
    \/ F!Next /\ UNCHANGED vars
PipelineSpec == PipelineInit /\ [][PipelineNext]_<<vars, fixtureVars>>

-----------------------------------------------------------------------------
(* Truth comes from a run that worked: whatever loads as a fixture is the  *)
(* dump of a run 0 that returned 0, of the set the manifest names.         *)
TruthFromWholeRuns ==
    Present(F!Loaded) =>
        \E e \in Range(sweep) :
            /\ e.label = The(manifest).source.label
            /\ e.runs[1].rc = 0
            /\ e.runs[1].dump = probs

(* A verdict of the sweep is earned by all its runs: "identical" and its   *)
(* body-only form by every requested run, whole and equal, and a drift is  *)
(* blamed on the layer that drifted.                                       *)
VerdictIsEarned ==
    /\ TypeOK
    /\ IdenticalIsEarned
    /\ BodyVerdictIsEarned
    /\ DriftNamesTheLayer

(* What gates the engine is one observation: a candidate is run 0 whole,   *)
(* what loads is byte for byte the run 0 the manifest pins, and that run   *)
(* worked, whatever was cut, interrupted, filled twice or edited.          *)
FixtureIsTruth ==
    /\ F!TypeOK
    /\ CandidatesAreRunZero
    /\ F!LoadedIsTheObservation
    /\ TruthFromWholeRuns

(* The two judges of dumps agree: the exact gate passes nothing that the   *)
(* tolerance gate fails, and gate and probdiff compute the same metrics.   *)
GatesAgree == F!ExactIsTighter /\ F!GateAgreesWithProbdiff

(* What passes the gate is within max_abs of the fixture everywhere.       *)
PassIsWithinTheBand == F!PassIsWithinTheBand
=============================================================================
