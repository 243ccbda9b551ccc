----------------------------- MODULE OfficialBench -----------------------------
(***************************************************************************)
(* The bench of the official NeMo path (official_bench.py): the checkpoint *)
(* is fetched, directly or by the listing's name, then each wanted         *)
(* recording is streamed once to warm up and TimedPasses times with a      *)
(* clock, the per-chunk times taken in the last pass; the report is        *)
(* written when a stage ends the run, or at its end.                       *)
(***************************************************************************)
EXTENDS Naturals, Sequences

CONSTANTS
    Recordings,    \* a recording: << >> if not mounted, or << chunks, 16 kHz >>
    MaxOdd
TimedPasses == 3
Names == << "short", "mid" >>

VARIABLES
    audios,        \* the recording of each name
    pc, k, run,    \* the step, the recording, the pass (0 warms up)
    state,         \* chunks the streaming state has taken
    chunk_ms,      \* per-chunk times of the pass
    walls, entry,
    REPORT,        \* verdict, and the entries
    file,          \* official_bench.json
    odd
vars == << audios, pc, k, run, state, chunk_ms, walls, entry, REPORT, file, odd >>

NoEntry == [error |-> TRUE, walls |-> 0, n |-> 0, timed |-> 0, offline |-> FALSE]

TypeOK ==
    /\ audios \in [1 .. Len(Names) -> Recordings] /\ k \in 1 .. Len(Names) + 1
    /\ run \in 0 .. TimedPasses /\ walls \in 0 .. TimedPasses
    /\ pc \in {"pip", "curl", "tree", "listed", "load", "audio", "pass", "offline", "over"}
    /\ REPORT.verdict \in {"not-run", "pip-failed", "ckpt-download-failed", "ok"}
    /\ Len(REPORT.audios) < k /\ file \in {<< >>, << REPORT >>} /\ odd \in 0 .. MaxOdd

Init ==
    /\ audios \in [1 .. Len(Names) -> Recordings]
    /\ pc = "pip" /\ k = 1 /\ run = 0 /\ state = 0 /\ chunk_ms = 0 /\ walls = 0
    /\ entry = NoEntry /\ REPORT = [verdict |-> "not-run", audios |-> << >>]
    /\ file = << >> /\ odd = 0

-----------------------------------------------------------------------------
Expected == UNCHANGED odd
Strange  == odd < MaxOdd /\ odd' = odd + 1
Streams  == UNCHANGED << k, run, state, chunk_ms, walls, entry >>
GoTo(p)  == pc' = p /\ UNCHANGED << REPORT, file >>
Raises   == GoTo("over")
Writes(report) == REPORT' = report /\ file' = << report >> /\ pc' = "over"
EndsWith(v) == Writes([REPORT EXCEPT !.verdict = v])

pip == /\ pc = "pip"
       /\ (Expected /\ GoTo("curl")) \/ (Strange /\ EndsWith("pip-failed"))
       /\ UNCHANGED audios /\ Streams
(* The pinned name, else the first .nemo of the listing; a listing that    *)
(* fails, is no JSON or names none leaves the first curl's return code.    *)
curl == /\ pc = "curl"
        /\ (Expected /\ GoTo("load")) \/ (Strange /\ GoTo("tree"))
        /\ UNCHANGED audios /\ Streams
tree == /\ pc = "tree"
        /\ (Expected /\ GoTo("listed")) \/ (Strange /\ EndsWith("ckpt-download-failed"))
        /\ UNCHANGED audios /\ Streams
listed == /\ pc = "listed"
          /\ (Expected /\ GoTo("load")) \/ (Strange /\ EndsWith("ckpt-download-failed"))
          /\ UNCHANGED audios /\ Streams
(* The model restored: the verdict is ok from here on, unwritten yet.      *)
restore_from ==
    /\ pc = "load"
    /\ \/ Expected /\ REPORT' = [REPORT EXCEPT !.verdict = "ok"] /\ pc' = "audio"
          /\ UNCHANGED file
       \/ Strange /\ Raises
    /\ UNCHANGED audios /\ Streams

(* The next recording: an error entry if it is not mounted; the assertion  *)
(* on its rate raises.                                                     *)
find_audio ==
    /\ pc = "audio" /\ k <= Len(Names)
    /\ \/ /\ audios[k] = << >>
          /\ REPORT' = [REPORT EXCEPT !.audios = Append(@, NoEntry)] /\ k' = k + 1
          /\ UNCHANGED << pc, file, run, entry >>
       \/ /\ audios[k] # << >> /\ audios[k][2]
          /\ GoTo("pass") /\ run' = 0 /\ entry' = [NoEntry EXCEPT !.error = FALSE]
          /\ UNCHANGED k
       \/ audios[k] # << >> /\ ~audios[k][2] /\ Raises /\ UNCHANGED << k, run, entry >>
    /\ state' = 0 /\ chunk_ms' = 0 /\ walls' = 0
    /\ Expected /\ UNCHANGED audios

\* The pass that collects the per-chunk times.
Collects(pass) == pass = TimedPasses
streaming_pass ==
    /\ pc = "pass" /\ state < audios[k][1]
    /\ \/ /\ Expected /\ state' = state + 1
          /\ chunk_ms' = IF Collects(run) THEN chunk_ms + 1 ELSE chunk_ms
          /\ UNCHANGED pc
       \/ Strange /\ pc' = "over" /\ UNCHANGED << state, chunk_ms >>
    /\ UNCHANGED << audios, k, run, walls, entry, REPORT, file >>
EndPass ==
    /\ pc = "pass" /\ state = audios[k][1]
    /\ walls' = IF run = 0 THEN walls ELSE walls + 1
    /\ IF run < TimedPasses
       THEN run' = run + 1 /\ state' = 0 /\ chunk_ms' = 0 /\ UNCHANGED << pc, entry >>
       ELSE /\ entry' = [entry EXCEPT !.walls = walls', !.n = state, !.timed = chunk_ms]
            /\ pc' = "offline" /\ UNCHANGED << run, state, chunk_ms >>
    /\ Expected /\ UNCHANGED << audios, k, REPORT, file >>

(* The offline pass is best effort; then the entry joins the report.       *)
Saved(report)       == file
transcribe ==
    /\ pc = "offline"
    /\ \/ Expected /\ entry' = [entry EXCEPT !.offline = TRUE]
       \/ Strange  /\ UNCHANGED entry
    /\ REPORT' = [REPORT EXCEPT !.audios = Append(@, entry')]
    /\ file' = Saved(REPORT') /\ pc' = "audio" /\ k' = k + 1
    /\ UNCHANGED << audios, run, state, chunk_ms, walls >>
Done == /\ pc = "audio" /\ k > Len(Names) /\ Writes(REPORT)
        /\ Expected /\ UNCHANGED audios /\ Streams

Next == \/ pip \/ curl \/ tree \/ listed \/ restore_from \/ find_audio
        \/ streaming_pass \/ EndPass \/ transcribe \/ Done
Spec == Init /\ [][Next]_vars

-----------------------------------------------------------------------------
(* A report on disk that says ok is the whole bench: one entry for every   *)
(* wanted recording, an error only where it is not mounted, and else the   *)
(* wall of every timed pass and one time for every chunk of one pass.      *)
OkIsTheWholeBench ==
    file # << >> /\ file[1].verdict = "ok" =>
        /\ Len(file[1].audios) = Len(Names)
        /\ \A n \in DOMAIN file[1].audios :
              LET e == file[1].audios[n]
              IN  /\ e.error <=> audios[n] = << >>
                  /\ ~e.error => /\ e.walls = TimedPasses /\ e.timed = e.n
                                 /\ e.n = audios[n][1]
=============================================================================
