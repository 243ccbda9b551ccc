---------------------------- MODULE ParityFixture ----------------------------
(***************************************************************************)
(* A parity fixture on disk: a payload (probs.f32) and a manifest that     *)
(* pins it.  fill writes the two files from a candidate directory, one     *)
(* after the other; load_case re-derives every pin and returns nothing of  *)
(* a fixture that disagrees; the gate compares an engine's probabilities   *)
(* with a loaded fixture.  The script may be interrupted between any two   *)
(* steps and run again, for the same fixture name, on another candidate;   *)
(* and a payload may be edited after its capture.                          *)
(*                                                                         *)
(* A digest stands for the bytes it was taken of.                          *)
(***************************************************************************)
EXTENDS Probdump, FiniteSets

CONSTANTS
    Edits,          \* payloads somebody puts in a fixture directory
    Options,        \* command lines: [src_commit, frame_grid_ms, allow_unstable]
    Outputs         \* engine outputs the gate is asked about

VARIABLES
    candidates,     \* candidate directories: sequence, as the sweep exports them
    probs,          \* <fixture>/probs.f32: optional file
    manifest,       \* <fixture>/manifest.json: optional manifest
    fill,           \* the fill in progress: step, candidate, command line
    gate            \* the last verdict asked for: [actual, mode, fixture, pass]
vars == << candidates, probs, manifest, fill, gate >>

Idle == [step |-> "idle"]

Init ==
    /\ probs = None
    /\ manifest = None
    /\ fill = Idle
    /\ gate = None

-----------------------------------------------------------------------------
(* manifest.py.  "torn" is a JSON text cut short.                          *)
Torn == [torn |-> TRUE]

WellFormedManifest(m) ==
    /\ ~m.torn
    /\ m.schema_version = 1
    /\ m.src_commit # ""                    \* provenance: non-empty strings
    /\ m.shape[1] > 0 /\ m.shape[2] > 0
    /\ m.nbytes = 4 * m.shape[1] * m.shape[2]
    /\ m.frame_grid_ms > 0
    /\ m.n_frames > 0 /\ m.n_spk > 0

\* The file length the manifest pins, in words.
PinnedLength(m) == HeaderWords + m.nbytes \div 4

\* Mutant: lengths and shapes are checked, the digest is not.
LoadCaseUnhashed(m, p) ==
    IF /\ Present(m)
       /\ WellFormedManifest(The(m))
       /\ Present(p)
       /\ Len(The(p)) = PinnedLength(The(m))
       /\ << The(p)[1], The(p)[3] >> = The(m).shape
      THEN ReadProbdump(The(p))
      ELSE None

(* load_case: the tensor, or None where it raises ManifestError or         *)
(* FixtureIntegrityError.                                                  *)
LoadCase(m, p) ==
    IF /\ Present(m)
       /\ WellFormedManifest(The(m))
       /\ Present(p)
       /\ Len(The(p)) = PinnedLength(The(m))
       /\ The(p) = The(m).sha256
       /\ << The(p)[1], The(p)[3] >> = The(m).shape
       /\ << The(p)[1], The(p)[3] >> = << The(m).n_frames, The(m).n_spk >>
      THEN ReadProbdump(The(p))
      ELSE None

-----------------------------------------------------------------------------
(* fill: everything is validated before anything is written.               *)
Exact(file) == WellFormed(file) /\ Len(file) = HeaderWords + file[1] * file[3]

Legitimate(c, o) ==
    /\ c.reps # << >>
    /\ c.reps[1].probs_available
    /\ c.cross_session_stable \/ o.allow_unstable
    /\ Present(c.reps[1].sha) => The(c.reps[1].sha) = c.probs
    /\ Exact(c.probs)

\* hash_groups: the reps by body; a rep without a body is a group of its own.
Deterministic(c) == Cardinality({ c.reps[i].body : i \in DOMAIN c.reps }) = 1

ManifestOf(c, o) ==
    [torn |-> FALSE, schema_version |-> 1,
     source |-> c,                          \* label, repeats, capture
     src_commit |-> o.src_commit,
     frame_grid_ms |-> o.frame_grid_ms,
     n_frames |-> c.probs[1], n_spk |-> c.probs[3],
     deterministic |-> Deterministic(c),
     shape |-> << c.probs[1], c.probs[3] >>,
     nbytes |-> 4 * c.probs[1] * c.probs[3],
     sha256 |-> c.probs]

Start ==
    /\ fill.step = "idle"
    /\ \E i \in DOMAIN candidates, o \in Options :
        /\ Legitimate(candidates[i], o)
        /\ fill' = [step |-> "probs", candidate |-> candidates[i], options |-> o]
    /\ UNCHANGED << candidates, probs, manifest, gate >>

WriteProbs ==
    /\ fill.step = "probs"
    /\ probs' = Some(fill.candidate.probs)
    /\ fill' = [fill EXCEPT !.step = "manifest"]
    /\ UNCHANGED << candidates, manifest, gate >>

WriteManifest ==
    /\ fill.step = "manifest"
    /\ manifest' = Some(ManifestOf(fill.candidate, fill.options))
    /\ fill' = [fill EXCEPT !.step = "check"]
    /\ UNCHANGED << candidates, probs, gate >>

\* The immediate self-check: the script reports success or raises; either way
\* what it wrote stays.
SelfCheck ==
    /\ fill.step = "check"
    /\ fill' = IF Present(LoadCase(manifest, probs))
                 THEN [fill EXCEPT !.step = "filled"] ELSE Idle
    /\ UNCHANGED << candidates, probs, manifest, gate >>

Finish ==
    /\ fill.step = "filled"
    /\ fill' = Idle
    /\ UNCHANGED << candidates, probs, manifest, gate >>

\* Interrupted: a file being written is cut anywhere.
Crash ==
    /\ fill.step # "idle"
    /\ fill' = Idle
    /\ \/ UNCHANGED << probs, manifest >>
       \/ /\ fill.step = "probs"
          /\ probs' \in { Some(p) : p \in Partials(fill.candidate.probs) }
          /\ UNCHANGED manifest
       \/ /\ fill.step = "manifest"
          /\ manifest' = Some(Torn)
          /\ UNCHANGED probs
    /\ UNCHANGED << candidates, gate >>

\* Somebody edits the payload after its capture.
Edit ==
    /\ fill.step = "idle"
    /\ Present(probs)
    /\ probs' \in { Some(p) : p \in Edits }
    /\ UNCHANGED << candidates, manifest, fill, gate >>

\* A test loads the fixture and gates an engine's output with it.
RunGate ==
    /\ fill.step = "idle"
    /\ LET f == LoadCase(manifest, probs) IN
       /\ Present(f)
       /\ \E actual \in Outputs, mode \in {"exact", "tolerance"} :
            gate' = Some([actual |-> actual, mode |-> mode, fixture |-> The(f),
                          source |-> The(manifest).source,
                          pass |-> Gate(actual, The(f), mode)])
    /\ UNCHANGED << candidates, probs, manifest, fill >>

Next == \/ Start \/ WriteProbs \/ WriteManifest \/ SelfCheck \/ Finish
        \/ Crash \/ Edit \/ RunGate
Spec == Init /\ [][Next]_vars

-----------------------------------------------------------------------------
(* Properties.                                                             *)
Loaded == LoadCase(manifest, probs)

TypeOK ==
    /\ fill.step \in {"idle", "probs", "manifest", "check", "filled"}
    /\ Len(probs) <= 1 /\ Len(manifest) <= 1 /\ Len(gate) <= 1
    /\ fill.step \in {"manifest", "check", "filled"} => Present(probs)
    /\ fill.step \in {"check", "filled"} => Present(manifest)

(* A fixture that loads is one observation: its payload is byte for byte   *)
(* the dump that run 0 of the candidate named by the manifest was pinned   *)
(* to, whatever was interrupted, filled again for another candidate, cut   *)
(* in transit or edited ("any post-capture edit fails load_case()").       *)
LoadedIsTheObservation ==
    Present(Loaded) =>
        /\ probs = The(manifest).source.reps[1].sha
        /\ Loaded = ReadProbdump(The(probs))

(* The two gate modes are ordered: what "exact" passes, "tolerance" passes *)
(* too.                                                                    *)
ExactIsTighter ==
    Present(gate) /\ The(gate).mode = "exact" /\ The(gate).pass =>
        Gate(The(gate).actual, The(gate).fixture, "tolerance")

(* The gate and probdiff are two implementations of the same metrics, one  *)
(* in parity/ and one in the harness: without NaN they agree on every      *)
(* output the gate is asked about.                                         *)
GateAgreesWithProbdiff ==
    LET g == The(gate)
        a == [g.fixture EXCEPT !.values = g.actual]
        d == ProbDiff(a, g.fixture)
        m == GateMetrics(g.actual, g.fixture)
    IN  /\ Present(gate)
        /\ Len(g.actual) = Len(g.fixture.values)
        /\ \A i \in DOMAIN g.actual : ~IsNaN(g.actual[i])
        /\ \A i \in DOMAIN g.fixture.values : ~IsNaN(g.fixture.values[i])
        => /\ d.max_abs = m.max_abs
           /\ d.total = m.total
           /\ d.agree = m.agree

(* "the gate fires on deviations beyond upstream's nondeterminism band":   *)
(* what passes the tolerance gate is within max_abs of the fixture at      *)
(* every element.  A NaN is not, and passes.                               *)
PassIsWithinTheBand ==
    LET g == The(gate) IN
    Present(gate) /\ g.pass =>
        \A i \in DOMAIN g.actual :
            /\ ~IsNaN(g.actual[i])
            /\ 1000 * Gap(g.actual[i], g.fixture.values[i]) <= MaxAbsMax * Grid

=============================================================================
