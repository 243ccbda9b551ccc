---------------------------- MODULE Stage3Kernel -----------------------------
(***************************************************************************)
(* The runner of the stage 3 gates: materialize the embedded sources,       *)
(* compile, selftest, get the weights, probe them, find the reference, run  *)
(* the gate in a process of its own, gather what it left.  A run that       *)
(* raised may be started again in the same machine, on the files the        *)
(* earlier one left.                                                        *)
(***************************************************************************)
EXTENDS Naturals, Sequences, FiniteSets, SequencesExt

CONSTANTS
    Payloads,  \* the gate pinned: a subset of {"k5a", "k6", "m3prof"}
    Archives,  \* what zips may be mounted: a set of sequences over the kinds below
    MaxRuns    \* bound: times the runner is started

VARIABLES
    gate, pc,
    run,      \* how often it was started
    mounted,  \* [weights, ref, zips]: what /kaggle/input holds
    weights,  \* the downloaded file: "none", "stub", "part" or "whole"
    using,    \* the weights this run goes on with, "none" before
    dfw1,     \* the container converted from the checkpoint
    fixtures, \* work/fixtures: the zips files in it are from
    ref,      \* << >>, or where the reference of this run was found
    out       \* /kaggle/working: run whose verdict is there, << >> if none is
vars == << gate, pc, run, mounted, weights, using, dfw1, fixtures, ref, out >>

\* Kinds of zip, as find_fixtures_dir tells them apart: no zip at all, without
\* the sentinel, with its directory but no probs, breaking off as it is
\* extracted, whole.
Kinds == {"nozip", "other", "noprobs", "corrupt", "good"}

Init ==
    /\ gate \in Payloads /\ pc = "compile" /\ run = 1
    /\ mounted \in [weights : BOOLEAN, ref : BOOLEAN, zips : Archives]
    /\ weights = "none" /\ using = "none" /\ dfw1 = "none"
    /\ fixtures = {} /\ ref = << >> /\ out = << >>

Raise == pc' = "raised"

-----------------------------------------------------------------------------
\* The sources are written once and stay; g++ or the selftest may fail.
compile_runner ==
    /\ pc = "compile"
    /\ pc' \in {"weights", "raised"}
    /\ UNCHANGED << gate, run, mounted, weights, using, dfw1, fixtures, ref, out >>

\* A mounted file first, then the download of an earlier run if it is large
\* enough.
Cached == weights \in {"part", "whole"}
Mounted ==
    /\ pc = "weights"
    /\ \/ mounted.weights /\ using' = "whole"
       \/ ~mounted.weights /\ Cached /\ using' = weights
    /\ pc' = IF gate = "k6" THEN "probe" ELSE "convert"
    /\ UNCHANGED << gate, run, mounted, weights, dfw1, fixtures, ref, out >>

\* curl leaves what it got.  A stub is refused for its size, a larger part
\* for curl's return code only.
Download ==
    /\ pc = "weights" /\ ~mounted.weights /\ ~Cached
    /\ \E got \in {"none", "stub", "part", "whole"} :
         /\ weights' = IF got = "none" THEN weights ELSE got
         /\ IF got = "whole" THEN /\ using' = got
                                  /\ pc' = IF gate = "k6" THEN "probe" ELSE "convert"
                             ELSE Raise /\ using' = using
    /\ UNCHANGED << gate, run, mounted, dfw1, fixtures, ref, out >>

\* _ensure_dfw1: the checkpoint is read whole, its tensors are the expected
\* ones or it raises, and the container is written.
_ensure_dfw1 ==
    /\ pc = "convert"
    /\ \/ using = "whole" /\ dfw1' = "whole" /\ pc' = "probe"
       \/ dfw1' = dfw1 /\ Raise
       \/ using = "whole" /\ dfw1' = "part" /\ Raise
    /\ UNCHANGED << gate, run, mounted, weights, using, fixtures, ref, out >>

\* --probe-weights reads every tensor of the file.
Probed(file)    == file = "whole"
Probe ==
    /\ pc = "probe"
    /\ IF Probed(IF gate = "k6" THEN using ELSE dfw1) THEN pc' = "find" ELSE Raise
    /\ UNCHANGED << gate, run, mounted, weights, using, dfw1, fixtures, ref, out >>

-----------------------------------------------------------------------------
\* The zips in order up to the first with the sentinel's probs; each that opens
\* and has the sentinel is extracted into an emptied directory.
Good(zips)   == {k \in DOMAIN zips : zips[k] = "good"}
Opened(zips) == {k \in DOMAIN zips : /\ zips[k] \notin {"nozip", "other"}
                                     /\ \A h \in Good(zips) : k <= h}
Extracted(dest, opened) ==
    IF opened = {} THEN dest ELSE {k \in opened : \A j \in opened : j <= k}

find_fixtures_dir ==
    /\ pc = "find" /\ gate = "k6"
    /\ IF mounted.ref
         THEN ref' = << "mount" >> /\ fixtures' = fixtures /\ pc' = "gate"
         ELSE /\ fixtures' = Extracted(fixtures, Opened(mounted.zips))
              /\ IF Good(mounted.zips) = {} THEN Raise /\ ref' = ref
                                            ELSE pc' = "gate" /\ ref' = << "zip" >>
    /\ UNCHANGED << gate, run, mounted, weights, using, dfw1, out >>

find_ref_dir ==
    /\ pc = "find" /\ gate # "k6"
    /\ IF mounted.ref THEN pc' = "gate" /\ ref' = << "mount" >>
                      ELSE Raise /\ ref' = ref
    /\ UNCHANGED << gate, run, mounted, weights, using, dfw1, fixtures, out >>

\* The gate writes its verdict or dies without; its return code is printed and
\* the runner returns 0 either way, raising only when the gate takes too long.
RunGate ==
    /\ pc = "gate"
    /\ \/ out' = << run >> /\ pc' = "end"
       \/ out' = out /\ pc' \in {"end", "raised"}
    /\ UNCHANGED << gate, run, mounted, weights, using, dfw1, fixtures, ref >>

Rerun ==
    /\ pc = "raised" /\ run < MaxRuns
    /\ run' = run + 1 /\ pc' = "compile" /\ using' = "none" /\ ref' = << >>
    /\ \E w, r \in BOOLEAN, z \in Archives :
         mounted' = [weights |-> w, ref |-> r, zips |-> z]
    /\ UNCHANGED << gate, weights, dfw1, fixtures, out >>

Next == \/ compile_runner \/ Mounted \/ Download \/ _ensure_dfw1 \/ Probe
        \/ find_fixtures_dir \/ find_ref_dir \/ RunGate \/ Rerun
Spec == Init /\ [][Next]_vars

-----------------------------------------------------------------------------
TypeOK == /\ pc \in {"compile", "weights", "convert", "probe", "find", "gate",
                     "end", "raised"}
          /\ weights \in {"none", "stub", "part", "whole"}
          /\ using \in {"none", "part", "whole"} /\ dfw1 \in {"none", "part", "whole"}
          /\ run \in 1 .. MaxRuns /\ Range(mounted.zips) \subseteq Kinds
          /\ fixtures \subseteq UNION {DOMAIN z : z \in Archives}

(* Every gate measures whole weights: a download cut off in an earlier run   *)
(* is large enough to be taken as cached, and goes no further than the probe *)
(* or the conversion.                                                        *)
GateOnWholeWeights ==
    pc = "gate" => /\ using = "whole"
                   /\ gate # "k6" => dfw1 = "whole"

(* The fixtures the K6 gate is given are those of one archive that has the   *)
(* sentinel, never joined with what another archive or an earlier run left.  *)
FixturesAreOfOneArchive ==
    pc = "gate" /\ ref = << "zip" >> =>
        \E k \in DOMAIN mounted.zips : mounted.zips[k] = "good" /\ fixtures = {k}
=============================================================================
