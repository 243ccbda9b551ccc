---------------------------- MODULE ReferenceDump -----------------------------
(***************************************************************************)
(* The two kernels that run NeMo to make references: the stage 0 spike      *)
(* (m2_stage0_refdump.py), which dumps the short and the mid audio whole    *)
(* and accepts a dump by its frame count, and the tail fixture              *)
(* (m2_tail_fixture.py), which runs production twice and NeMo once over one *)
(* slice.  Both go from step to step and end at the first that fails.       *)
(*                                                                          *)
(* A dump is what total_preds holds against the pinned frame count: as many *)
(* frames ("exact"), one more that is silent ("tail") or not ("loud"),      *)
(* fewer ("short").  At most MaxOdd answers are not the expected ones.      *)
(***************************************************************************)
EXTENDS Naturals, Sequences

CONSTANTS Mounts,       \* the sets of audios that may be mounted
          MaxOdd

VARIABLES
    job, audios,            \* which kernel, and the audios it finds
    pc, todo,               \* its step, and the labels still to dump
    npz,                    \* label -> << dump >> left in the outputs, or <<>>
    probs,                  \* production's probability dumps, one per run
    notes,                  \* what the tail report claims
    verdict, emitted, raised, odd
vars == << job, audios, pc, todo, npz, probs, notes, verdict, emitted, raised, odd >>

Labels  == {"short", "mid", "slice"}
Dumps   == {"exact", "tail", "loud", "short"}
Bodies  == {"x", "y"}

TypeOK ==
    /\ job \in {"stage0", "tail"} /\ audios \subseteq Labels
    /\ npz \in [Labels -> {<< >>} \cup {<< d >> : d \in Dumps}]
    /\ probs \in [{1, 2} -> {<< >>} \cup {<< b >> : b \in Bodies}]
    /\ verdict \in {"not-run", "no-nemo-checkpoint", "nemo-not-installable",
                    "nemo-ckpt-download-failed", "audio-missing", "dump-script-missing",
                    "nemo-dump-failed", "truncated", "nemo-ok", "production-failed",
                    "fixture-built"}
    /\ odd \in 0 .. MaxOdd

Init ==
    /\ job \in {"stage0", "tail"} /\ audios \in Mounts
    /\ pc = (IF job = "stage0" THEN "tree" ELSE "production") /\ todo = << >>
    /\ npz = [l \in Labels |-> << >>] /\ probs = [r \in {1, 2} |-> << >>]
    /\ notes = {} /\ verdict = "not-run" /\ emitted = FALSE /\ raised = FALSE /\ odd = 0

-----------------------------------------------------------------------------
Expected  == UNCHANGED odd
Strange   == odd < MaxOdd /\ odd' = odd + 1
GoTo(p)   == pc' = p /\ UNCHANGED << verdict, emitted, raised >>
EndsWith(v) == pc' = "over" /\ verdict' = v /\ emitted' = TRUE /\ UNCHANGED raised
Raises    == pc' = "over" /\ raised' = TRUE /\ UNCHANGED << verdict, emitted >>
Kept      == UNCHANGED << job, audios >>

(* One command of a step: it goes on, or the kernel ends with a verdict.   *)
Step(p, next, v) ==
    /\ pc = p
    /\ (Expected /\ GoTo(next)) \/ (Strange /\ EndsWith(v))
    /\ Kept /\ UNCHANGED << todo, npz, probs, notes >>

\* The listing of the repository; the text kept of it is its last part only.
s0_a == Step("tree", "pip", "no-nemo-checkpoint")
\* Installed, then imported; only the import decides.
s0_b == Step("pip", "ckpt", "nemo-not-installable")
s0_c == Step("ckpt", IF job = "stage0" THEN "audio" ELSE "script", "nemo-ckpt-download-failed")

find_audio ==
    /\ pc = "audio"
    /\ IF "short" \in audios THEN GoTo("script") ELSE EndsWith("audio-missing")
    /\ Kept /\ Expected /\ UNCHANGED << todo, npz, probs, notes >>

(* The labels of the loop.  Without the mid audio its pair is the empty    *)
(* tuple, which the loop cannot unpack.                                    *)
Loop == IF job = "tail" THEN << << "slice" >> >>
        ELSE IF "mid" \in audios THEN << << "short" >>, << "mid" >> >>
        ELSE << << "short" >>, << >> >>
script ==
    /\ pc = "script"
    /\ \/ Expected /\ GoTo("dump") /\ todo' = Loop
       \/ Strange /\ EndsWith("dump-script-missing") /\ UNCHANGED todo
    /\ Kept /\ UNCHANGED << npz, probs, notes >>

First == todo[1]
dump ==
    /\ pc = "dump" /\ todo # << >> /\ First # << >>
    /\ \/ \E d \in Dumps :
            /\ IF d = "exact" THEN Expected ELSE Strange
            /\ npz' = [npz EXCEPT ![First[1]] = << d >>] /\ GoTo("check")
       \/ Strange /\ EndsWith("nemo-dump-failed") /\ UNCHANGED npz
    /\ Kept /\ UNCHANGED << todo, probs, notes >>
unpack ==
    /\ pc = "dump" /\ todo # << >> /\ First = << >>
    /\ Raises /\ Kept /\ Expected /\ UNCHANGED << todo, npz, probs, notes >>

\* One extra frame is admitted if it is silent.
Admitted(d) == d \in {"exact", "tail"}
check ==
    /\ pc = "check" /\ job = "stage0"
    /\ IF Admitted(npz[First[1]][1])
       THEN GoTo("dump") /\ todo' = Tail(todo)
       ELSE EndsWith("truncated") /\ UNCHANGED todo
    /\ Kept /\ Expected /\ UNCHANGED << npz, probs, notes >>
nemo_ok ==
    /\ pc = "dump" /\ todo = << >>
    /\ EndsWith("nemo-ok") /\ Kept /\ Expected /\ UNCHANGED << todo, npz, probs, notes >>

-----------------------------------------------------------------------------
(* The tail fixture: the source audio cut and production built (both raise *)
(* when they cannot), production run, its dump read, production run again. *)
Runs(r, b) == probs' = [probs EXCEPT ![r] = << b >>]
build_and_cut ==
    /\ pc = "production"
    /\ \/ "mid" \in audios /\ Expected /\ GoTo("run1")
       \/ "mid" \in audios /\ Strange /\ Raises
       \/ "mid" \notin audios /\ Expected /\ Raises
    /\ Kept /\ UNCHANGED << todo, npz, probs, notes >>
production ==
    /\ pc = "run1"
    /\ \/ Expected /\ Runs(1, "x") /\ GoTo("run2")
       \/ Strange /\ EndsWith("production-failed") /\ UNCHANGED probs
    /\ Kept /\ UNCHANGED << todo, npz, notes >>

\* The second run is the same bytes.
SameBytes(second)       == second # << >> /\ second = probs[1]
run2 ==
    /\ pc = "run2"
    /\ \/ Expected /\ Runs(2, "x")
       \/ Strange /\ Runs(2, "y")
       \/ Strange /\ UNCHANGED probs
    /\ notes' = IF SameBytes(probs'[2]) THEN notes \cup {"bit_identical"} ELSE notes
    /\ GoTo("pip") /\ Kept /\ UNCHANGED << todo, npz >>

(* The dump is enough for the verdict; the comparison is noted if it can   *)
(* be made.                                                                *)
compare ==
    /\ pc = "check" /\ job = "tail"
    /\ \/ Expected /\ notes' = notes \cup {"compared"}
       \/ Strange /\ UNCHANGED notes
    /\ EndsWith("fixture-built") /\ Kept /\ UNCHANGED << todo, npz, probs >>

Next == \/ s0_a \/ s0_b \/ s0_c \/ find_audio \/ script \/ dump \/ unpack \/ check
        \/ nemo_ok \/ build_and_cut \/ production \/ run2 \/ compare
Spec == Init /\ [][Next]_vars

-----------------------------------------------------------------------------
(* An accepted reference covers the pinned frames of every audio it was    *)
(* made of, and nothing but silence beyond them; a fixture that was built  *)
(* has both sides, and calls production deterministic only after two runs  *)
(* with the same bytes.                                                    *)
AcceptedIsWhole ==
    /\ verdict = "nemo-ok" => \A l \in audios \cap {"short", "mid"} :
            npz[l] \in {<< "exact" >>, << "tail" >>}
    /\ verdict = "fixture-built" => probs[1] # << >> /\ npz["slice"] # << >>
    /\ "bit_identical" \in notes => probs[1] = probs[2] /\ probs[1] # << >>
=============================================================================
