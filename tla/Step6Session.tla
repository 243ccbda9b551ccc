----------------------------- MODULE Step6Session -----------------------------
(***************************************************************************)
(* The Step 6 acceptance kernel (kaggle/m6_step6/framework.py and the five *)
(* split variants of it) and the harvest of the five sessions              *)
(* (scripts/harvest_step6b.py).  Each session builds diar-bench, runs its  *)
(* share of the fixtures on its share of the routes in worker threads,     *)
(* judges the results and writes a verdict.  The sessions share nothing,   *)
(* so they run one after the other here.                                   *)
(*                                                                         *)
(* A dump is a level, how far it is from the fixture: 0 identical, 1 within *)
(* the hard tier, 2 within the relaxed fp16 tier, 3 within the advisory    *)
(* tier, 4 beyond it.                                                      *)
(***************************************************************************)
EXTENDS Naturals, Sequences, FiniteSets, SequencesExt

CONSTANTS
    Datasets,   \* what the mounted dataset may hold: sets of fixtures
    Plans,      \* which sessions are run, in order
    MaxFaults   \* bound: runs and gates that do not go well, in all

VARIABLES
    dataset,  \* the fixtures mounted
    todo,     \* sessions still to run
    now,      \* the session running
    phase,    \* where it is
    gates,    \* REPORT["gates"]
    jobs,     \* fixture -> [at, routes, result]: the executor's futures
    dumps,    \* <<fixture, route>> -> level, under WORK
    out,      \* session -> what it left in /kaggle/working
    faults,
    \* the harvest
    stage,   \* "sessions", "download", "merge", "ended"
    left,    \* sessions still to download
    base,    \* session -> the files under --dir
    archive  \* the merged verdict, or "none"
svars == << dataset, todo, now, phase, gates, jobs, dumps, out, faults >>
mvars == << stage, left, base, archive >>
vars  == << svars, mvars >>

Split    == << "a", "b", "c", "d", "gpu" >>
Sessions == Range(Split) \cup {"all"}
\* The fixtures, in the order of their names.
Order    == << "full", "short", "preset", "mid" >>
Fixtures == Range(Order)

\* The role pins of the six kernels.
S6_ROLE(s) ==
    CASE s = "a"   -> [cases |-> {"short", "full"}, routes |-> "cpu", cpu_reps |-> 2]
      [] s \in {"b", "c"} -> [cases |-> {"mid"}, routes |-> "cpu", cpu_reps |-> 1]
      [] s = "d"   -> [cases |-> {"preset"}, routes |-> "cpu", cpu_reps |-> 2]
      [] s = "gpu" -> [cases |-> {"short", "mid", "preset"}, routes |-> "gpu", cpu_reps |-> 2]
      [] s = "all" -> [cases |-> Fixtures, routes |-> "all", cpu_reps |-> 2]

\* classify: the mode the manifest of a fixture asks for.
classify(label) == CASE label = "full"   -> "full-offline"
                     [] label = "preset" -> "offline-preset"
                     [] OTHER            -> "streaming"

\* sh raises RuntimeError, which a case survives; the CPU kernels still
\* carry the SystemExit of the first version, which it does not.
\* Mutant: they all do.
SurvivesShNever(s) == FALSE
SurvivesSh(s) == s \in {"gpu", "all"}

JOBS(s) == IF S6_ROLE(s).routes = "gpu" THEN 1 ELSE 4

\* The routes of a fixture, with their repetitions.
Routes(s, label) ==
    LET rr  == S6_ROLE(s).routes
        cpu == << << "cpu", S6_ROLE(s).cpu_reps >> >>
        gpu == << << "fp32", 3 >>, << "fp16", 3 >> >>
               \o IF classify(label) = "streaming" THEN << << "fp32jit", 2 >> >> ELSE << >>
    IN  IF classify(label) = "full-offline" THEN IF rr = "gpu" THEN << >> ELSE cpu
        ELSE CASE rr = "cpu" -> cpu
               [] rr = "gpu" -> gpu
               [] OTHER      -> cpu \o gpu

NoOut == [verdict |-> "none", gates |-> << >>, cases |-> << >>, ge_t4 |-> {}]

\* --dir may still hold the download of an earlier round.
Earlier(s) == [verdict |-> "s6-green",
               gates |-> [g \in {"cpu_selftest", "fatbin_3sass", "fatbin_ptx60",
                                 "jit_bin_ptx_only"} |-> TRUE],
               cases |-> << >>, ge_t4 |-> {}]

\* A container starts with an empty WORK and an empty /kaggle/working.
Init ==
    /\ dataset \in Datasets /\ todo \in Plans
    /\ now = "none" /\ phase = "idle"
    /\ gates = << >> /\ jobs = << >> /\ dumps = << >>
    /\ out = [s \in Sessions |-> NoOut]
    /\ faults = 0
    /\ stage = "sessions" /\ left = << >> /\ archive = "none"
    /\ base \in {[s \in Range(Split) |-> NoOut], [s \in Range(Split) |-> Earlier(s)]}

StartSession ==
    /\ phase = "idle" /\ todo # << >>
    /\ now' = Head(todo) /\ todo' = Tail(todo)
    /\ phase' = "build"
    /\ UNCHANGED << dataset, gates, jobs, dumps, out, faults >>

Ends == /\ phase' = "idle" /\ now' = "none"
        /\ gates' = << >> /\ jobs' = << >> /\ dumps' = << >>

\* Any command before the cases fails, or an input is not there: the kernel
\* ends without a verdict, whatever sh raises.
Dies ==
    /\ phase = "build" /\ faults < MaxFaults
    /\ faults' = faults + 1
    /\ Ends
    /\ UNCHANGED << dataset, todo, out >>

\* The builds, their gates, the weights and the fixtures; then one future per
\* fixture, in the order of their names.
Build ==
    /\ phase = "build"
    /\ \E bad \in {{}} \cup
            IF faults = MaxFaults THEN {}
            ELSE {{"cpu_selftest"}, {"fatbin_3sass"}, {"fatbin_ptx60"}, {"jit_bin_ptx_only"}} :
         /\ faults' = faults + Cardinality(bad)
         /\ gates' = IF S6_ROLE(now).routes = "cpu"
              THEN [cpu_selftest |-> "cpu_selftest" \notin bad]
              ELSE [g \in {"cpu_selftest", "fatbin_3sass", "fatbin_ptx60", "jit_bin_ptx_only"}
                       |-> g \notin bad]
    /\ jobs' = [l \in dataset \cap S6_ROLE(now).cases |->
                  [at |-> "queued", left |-> Routes(now, l), routes |-> << >>]]
    /\ phase' = "cases"
    /\ UNCHANGED << dataset, todo, now, dumps, out >>

Running == {l \in DOMAIN jobs : jobs[l].at = "running"}

\* A free worker takes the first of the queue.
StartJob(l) ==
    /\ phase = "cases" /\ jobs[l].at = "queued"
    /\ \A i, j \in DOMAIN Order :
          /\ i < j /\ Order[j] = l /\ Order[i] \in DOMAIN jobs
          => jobs[Order[i]].at # "queued"
    /\ Cardinality(Running) < JOBS(now)
    /\ jobs' = [jobs EXCEPT ![l].at = "running"]
    /\ UNCHANGED << dataset, todo, now, phase, gates, dumps, out, faults >>

-----------------------------------------------------------------------------
(* What one diar-bench process reports.                                    *)
Good == [det |-> TRUE, level |-> 0, ref |-> TRUE, refused |-> FALSE,
         stem |-> FALSE, slow |-> FALSE]
\* One repetition is always equal to itself.
Odd(reps) == {[Good EXCEPT !.level = v] : v \in 1 .. 4}
             \cup (IF reps > 1 THEN {[Good EXCEPT !.det = FALSE]} ELSE {})
             \cup {[Good EXCEPT !.ref = FALSE], [Good EXCEPT !.refused = TRUE],
                   [Good EXCEPT !.stem = TRUE], [Good EXCEPT !.slow = TRUE]}

wire_diff(x, y) == IF x < y THEN y - x ELSE x - y

\* The entry of a route: the comparisons whose dumps are there are made.
Entry(l, route, b) ==
    [bench |-> b,
     vs_cpu |-> IF route # "cpu" /\ << l, "cpu" >> \in DOMAIN dumps
                  THEN << wire_diff(b.level, dumps[<< l, "cpu" >>]) >> ELSE << >>,
     jit |-> IF route = "fp32jit" /\ << l, "fp32" >> \in DOMAIN dumps
                  THEN << wire_diff(b.level, dumps[<< l, "fp32" >>]) >> ELSE << >>]

With(f, k, v) == [x \in DOMAIN f \cup {k} |-> IF x = k THEN v ELSE f[x]]

\* case_job, one route at a time.
RunRoute(l) ==
    /\ phase = "cases" /\ jobs[l].at = "running" /\ jobs[l].left # << >>
    /\ LET r == Head(jobs[l].left)[1]
           reps == Head(jobs[l].left)[2]
       IN  \E b \in {Good} \cup (IF faults < MaxFaults THEN Odd(reps) ELSE {}) :
             /\ faults' = faults + IF b = Good THEN 0 ELSE 1
             /\ jobs' = [jobs EXCEPT ![l].left = Tail(@),
                                     ![l].routes = With(@, r, Entry(l, r, b))]
             /\ dumps' = With(dumps, << l, r >>, b.level)
    /\ UNCHANGED << dataset, todo, now, phase, gates, out >>

EndJob(l) ==
    /\ phase = "cases" /\ jobs[l].at = "running" /\ jobs[l].left = << >>
    /\ jobs' = [jobs EXCEPT ![l].at = "done"]
    /\ UNCHANGED << dataset, todo, now, phase, gates, dumps, out, faults >>

FailedAs(s)     == IF SurvivesSh(s) THEN "error" ELSE "exit"

\* The bench fails, times out, or its fixture or audio cannot be read.
FailJob(l) ==
    /\ phase = "cases" /\ jobs[l].at = "running" /\ faults < MaxFaults
    /\ faults' = faults + 1
    /\ jobs' = [jobs EXCEPT ![l].at = FailedAs(now)]
    /\ UNCHANGED << dataset, todo, now, phase, gates, dumps, out >>

-----------------------------------------------------------------------------
(* judge.                                                                  *)
ADVISORY == {"mid", "preset"}
Limit(l, route) == LET tier == IF l \in ADVISORY THEN 3 ELSE 1
                   IN  IF route = "fp16" /\ tier < 2 THEN 2 ELSE tier

RouteRed(l, route, e) ==
    LET b == e.bench IN
    \/ ~b.det
    \/ ~b.ref
    \/ b.level > Limit(l, route)
    \/ route \in {"fp32", "fp16"} /\ (b.refused \/ b.slow)
    \/ route = "fp32jit" /\ e.jit # << >> /\ e.jit[1] # 0
    \/ route = "fp32" /\ e.vs_cpu # << >> /\ e.vs_cpu[1] > 1

CaseRed(l, c) == c.error \/ \E r \in DOMAIN c.routes : RouteRed(l, r, c.routes[r])
judge(cases)  == IF \E l \in DOMAIN cases : CaseRed(l, cases[l]) THEN "s6-red" ELSE "s6-green"

Cases == [l \in DOMAIN jobs |-> [error |-> jobs[l].at = "error", routes |-> jobs[l].routes]]

\* The futures are collected; a SystemExit among them ends the kernel once
\* the others have ended.  Only fp32 dumps go to /kaggle/working, under
\* names of their own.
Collect ==
    /\ phase = "cases"
    /\ \A l \in DOMAIN jobs : jobs[l].at \in {"done", "error", "exit"}
    /\ out' = IF \E l \in DOMAIN jobs : jobs[l].at = "exit" THEN out
              ELSE [out EXCEPT ![now] =
                     [verdict |-> judge(Cases), gates |-> gates, cases |-> Cases,
                      ge_t4 |-> {l \in DOMAIN jobs : /\ jobs[l].at = "done"
                                                     /\ << l, "fp32" >> \in DOMAIN dumps}]]
    /\ Ends
    /\ UNCHANGED << dataset, todo, faults >>

SessionStep == \/ StartSession \/ Dies \/ Build \/ Collect
               \/ \E l \in DOMAIN jobs : StartJob(l) \/ RunRoute(l) \/ EndJob(l) \/ FailJob(l)

-----------------------------------------------------------------------------
(* The harvest: download the outputs of the five sessions, merge their     *)
(* verdicts, compare the dumps no session had together, archive a verdict. *)

StartHarvest ==
    /\ stage = "sessions" /\ phase = "idle" /\ todo = << >>
    /\ stage' = "download" /\ left' = Split
    /\ UNCHANGED << svars, base, archive >>

\* A download that fails is printed; whatever was there stays.
download ==
    /\ stage = "download" /\ left # << >>
    /\ \/ base' = [base EXCEPT ![Head(left)] = out[Head(left)]] /\ faults' = faults
       \/ /\ faults < MaxFaults /\ faults' = faults + 1
          /\ base' = base
    /\ left' = Tail(left)
    /\ UNCHANGED << dataset, todo, now, phase, gates, jobs, dumps, out, stage, archive >>

DownloadDone == /\ stage = "download" /\ left = << >>
                /\ stage' = "merge"
                /\ UNCHANGED << svars, left, base, archive >>

-----------------------------------------------------------------------------
(* load_verdict raises SystemExit.  Mutant: a missing verdict is empty.    *)
LoadedNever(b) == TRUE
Loaded(b) == \A s \in Range(Split) : b[s].verdict # "none"

PassThrough == {"cpu_selftest", "fatbin_3sass", "fatbin_ptx60", "jit_bin_ptx_only"}
Has(b, s, l) == l \in DOMAIN b[s].cases /\ ~b[s].cases[l].error
Merged(b) == {l \in Fixtures : \E s \in Range(Split) : Has(b, s, l)}

\* row[route]: the entry of the last session to have it.
LastSession(b, l, r) ==
    LET have == {k \in DOMAIN Split : /\ Has(b, Split[k], l)
                                      /\ r \in DOMAIN b[Split[k]].cases[l].routes}
    IN  Split[CHOOSE k \in have : \A j \in have : j <= k]
Rows(b, l) == UNION {DOMAIN b[s].cases[l].routes : s \in {t \in Range(Split) : Has(b, t, l)}}

\* The tier of the merge: only "v13-mid-streaming" is advisory here.
MergeLimit(l) == IF l = "mid" THEN 3 ELSE 1
RowRed(l, r, e) ==
    \/ ~e.bench.det
    \/ r = "cpu" /\ ~e.bench.ref
    \/ r \in {"cpu", "fp32", "fp32jit"} /\ e.bench.ref /\ e.bench.level > MergeLimit(l)
    \/ e.bench.stem
    \/ r = "fp32jit" /\ e.jit # << >> /\ e.jit[1] # 0

GateRed(b)  == \E g \in PassThrough : ~(g \in DOMAIN b["gpu"].gates /\ b["gpu"].gates[g])
CaseError(b) == \E s \in Range(Split) : \E l \in DOMAIN b[s].cases : b[s].cases[l].error
\* find: a dump by name among the outputs of a session, which only ever are
\* called "ge_t4" and the fixture.
find(b, s, name) == name \in {<< "ge_t4", l >> : l \in b[s].ge_t4}
CrossThere(b)    == /\ find(b, "b", << "mid", "cpu.rep0" >>)
                    /\ find(b, "c", << "mid", "cpu.rep1" >>)
CrossRed(b)      == "mid" \in Merged(b) /\ ~CrossThere(b)
\* load_wire unpacks sixteen bytes from a header of twelve, and raises.
Compares(b)      == "mid" \in Merged(b) /\ CrossThere(b)

Reasons(b) == \/ GateRed(b) \/ CaseError(b) \/ CrossRed(b)
              \/ \E l \in Merged(b) : \E r \in Rows(b, l) :
                    RowRed(l, r, b[LastSession(b, l, r)].cases[l].routes[r])

merge ==
    /\ stage = "merge"
    /\ archive' = IF ~Loaded(base) \/ Compares(base) THEN archive
                  ELSE IF Reasons(base) THEN "s6b-red" ELSE "s6b-green"
    /\ stage' = "ended"
    /\ UNCHANGED << svars, left, base >>

Next == \/ stage = "sessions" /\ SessionStep /\ UNCHANGED mvars
        \/ StartHarvest \/ download \/ DownloadDone \/ merge

\* The kernels and the harvest run to their ends: no step waits for another.
Fairness == WF_vars(Next)
Spec == Init /\ [][Next]_vars /\ Fairness

-----------------------------------------------------------------------------
TypeOK ==
    /\ now \in Sessions \cup {"none"} /\ phase \in {"idle", "build", "cases"}
    /\ DOMAIN jobs \subseteq dataset
    /\ Cardinality(Running) <= 4
    /\ faults \in 0 .. MaxFaults
    /\ stage \in {"sessions", "download", "merge", "ended"}
    /\ archive \in {"none", "s6b-green", "s6b-red"}
    /\ archive # "none" => stage = "ended"

(* "SystemExit escapes the per-case isolation and hard-kills the whole     *)
(* session": in a session that survives sh, once the cases began, a verdict *)
(* comes, names the fixtures that failed, and keeps every route the others *)
(* were to run.                                                            *)
OneFailureIsOneCase ==
    \A s \in {"gpu", "all"} : out[s].verdict # "none" =>
        \A l \in dataset \cap S6_ROLE(s).cases :
            /\ l \in DOMAIN out[s].cases
            /\ ~out[s].cases[l].error =>
                 DOMAIN out[s].cases[l].routes = {Routes(s, l)[k][1] : k \in DOMAIN Routes(s, l)}
InCases    == phase = "cases" /\ now \in {"gpu", "all"}
VerdictOut == \E s \in {"gpu", "all"} : out[s].verdict # "none"

(* A green session: every route of every fixture of its share has run, is  *)
(* deterministic, was compared with the fixture and lies in its tier, and  *)
(* no routed run fell back to the CPU.                                     *)
GreenSessionIsClean ==
    \A s \in Sessions : out[s].verdict = "s6-green" =>
        \A l \in dataset \cap S6_ROLE(s).cases :
            LET c == out[s].cases[l] IN
            /\ ~c.error
            /\ \A k \in DOMAIN Routes(s, l) :
                 LET r == Routes(s, l)[k][1]
                     b == c.routes[r].bench
                 IN  /\ b.det /\ b.ref
                     /\ b.level <= IF l \in {"mid", "preset"} THEN 3
                                   ELSE IF r = "fp16" THEN 2 ELSE 1
                     /\ r \in {"fp32", "fp16"} => ~b.refused /\ ~b.slow

(* A merged green stands on a verdict of every session, on all gates of    *)
(* the GPU session, and on no fixture that failed in any session; and each *)
(* row of its table was deterministic and in the tier of the merge.        *)
MergedGreenIsBacked ==
    archive = "s6b-green" =>
        /\ \A s \in Range(Split) : base[s].verdict # "none"
        /\ \A g \in PassThrough : base["gpu"].gates[g]
        /\ \A s \in Range(Split) : \A l \in DOMAIN base[s].cases : ~base[s].cases[l].error
        /\ \A l \in Merged(base) : \A r \in Rows(base, l) :
             LET b == base[LastSession(base, l, r)].cases[l].routes[r].bench
             IN  b.det /\ (r \in {"cpu", "fp32", "fp32jit"} /\ b.ref => b.level <= MergeLimit(l))
=============================================================================
