----------------------------- MODULE Measurement -----------------------------
(***************************************************************************)
(* measure: warm-up runs, then timed runs of one audio, a sampler thread   *)
(* beside them that asks the driver for the GPU's state.  Every question   *)
(* of the sampler is a child process too, and a question may take longer   *)
(* than the 10 s its stop is waited for: the thread then lives on into the *)
(* summary and into the next measurement.                                  *)
(***************************************************************************)
EXTENDS Naturals, Sequences, FiniteSets

CONSTANTS
    Trials,        \* the measurements of the session, in order
    warmup, iterations,
    Bodies,        \* segment bodies a run may write
    MaxAsked       \* bound: questions per sampler

VARIABLES
    pc,        \* "launch" | "child" | "read" | "join" | "count" | "columns" | "done"
    m,         \* index in Trials
    i,         \* runs of this measurement started, warm-ups first
    files,     \* out/<label>.<name>.rttm: [by, body] of the run that wrote it
    child,     \* return code of the child that just ended; how the join ended
    runs,      \* results of the timed runs of the latest measurement
    samplers,  \* per measurement: [at, stop, asked, samples]
    report     \* what measure returns, until the next one starts
vars == << pc, m, i, files, child, runs, samplers, report >>

None    == << >>
Some(v) == << v >>

Output(k)  == << Trials[m], k >>           \* .warm<k> and .run<k - warmup>
Paths      == { << Trials[n], k >> : n \in DOMAIN Trials, k \in 1 .. warmup + iterations }
Id         == << m, i >>                   \* this very run
NewSampler == [at |-> "loop", stop |-> FALSE, asked |-> 0, samples |-> 0]

Init ==
    /\ pc = "launch" /\ m = 1 /\ i = 1
    /\ files = [p \in Paths |-> None]
    /\ child = None
    /\ runs = << >> /\ samplers = << >> /\ report = None

(* diarize_once: the stale output goes first, the child runs to its end or *)
(* its time-out, and what it left is read back.                            *)
\* Mutant: the output of an earlier run stays where it is.
LaunchOnStale ==
    /\ pc = "launch"
    /\ pc' = "child"
    /\ runs' = IF i = 1 THEN << >> ELSE runs
    /\ report' = IF i = 1 THEN None ELSE report
    /\ samplers' = IF i = warmup + 1 THEN Append(samplers, NewSampler) ELSE samplers
    /\ UNCHANGED << m, i, files, child >>

Launch ==
    /\ pc = "launch"
    /\ pc' = "child"
    /\ files' = [files EXCEPT ![Output(i)] = None]
    /\ runs' = IF i = 1 THEN << >> ELSE runs
    /\ report' = IF i = 1 THEN None ELSE report
    /\ samplers' = IF i = warmup + 1 THEN Append(samplers, NewSampler) ELSE samplers
    /\ UNCHANGED << m, i, child >>

\* Return code 124 is the time-out.  The RTTM may be missing after either.
ChildEnds ==
    /\ pc = "child"
    /\ pc' = "read"
    /\ \E rc \in {0, 124}, body \in {None} \cup {Some(b) : b \in Bodies} :
        /\ child' = Some(rc)
        /\ files' = [files EXCEPT ![Output(i)] =
                       IF body = None THEN @ ELSE Some([by |-> Id, body |-> body[1]])]
    /\ UNCHANGED << m, i, runs, samplers, report >>

Result == [returncode  |-> child[1],
           output      |-> files[Output(i)],
           id          |-> Id]

LastRun     == i = warmup + iterations

diarize_once ==
    /\ pc = "read"
    /\ runs' = IF i > warmup THEN Append(runs, Result) ELSE runs
    /\ child' = None
    /\ IF LastRun
         THEN pc' = "join" /\ i' = i
              /\ samplers' = [samplers EXCEPT ![m].stop = TRUE]
         ELSE pc' = "launch" /\ i' = i + 1 /\ samplers' = samplers
    /\ UNCHANGED << m, files, report >>

(* GpuSampler: the thread of measurement s.                                *)
\* Mutant: the loop goes on without looking at the event.
SamplerChecksNothing(s) ==
    /\ samplers[s].at = "loop"
    /\ samplers[s].asked < MaxAsked
    /\ samplers' = [samplers EXCEPT ![s].at = "query"]
    /\ UNCHANGED << pc, m, i, files, child, runs, report >>

SamplerChecks(s) ==
    /\ samplers[s].at = "loop"
    /\ samplers[s].stop \/ samplers[s].asked < MaxAsked
    /\ samplers' = [samplers EXCEPT ![s].at = IF samplers[s].stop THEN "gone" ELSE "query"]
    /\ UNCHANGED << pc, m, i, files, child, runs, report >>

\* The driver answers with six numbers, or with anything else, or too late.
SamplerAnswered(s) ==
    /\ samplers[s].at = "query"
    /\ \E got \in {0, 1} :
        samplers' = [samplers EXCEPT ![s].at = "wait", ![s].asked = @ + 1,
                                     ![s].samples = @ + got]
    /\ UNCHANGED << pc, m, i, files, child, runs, report >>

SamplerWakes(s) ==
    /\ samplers[s].at = "wait"
    /\ samplers' = [samplers EXCEPT ![s].at = "loop"]
    /\ UNCHANGED << pc, m, i, files, child, runs, report >>

\* stop: the join ends because the thread did, or after its 10 seconds.
Join ==
    /\ pc = "join"
    /\ pc' = "count"
    /\ child' = Some(IF samplers[m].at = "gone" THEN "joined" ELSE "timed out")
    /\ UNCHANGED << m, i, files, runs, samplers, report >>

\* The runs that returned 0, and those of them whose body could be hashed.
Ok     == {k \in DOMAIN runs : runs[k].returncode = 0}
Hashed == {k \in Ok : runs[k].output # None}

BodyIdentical == /\ Ok # {}
                 /\ Cardinality(Hashed) = Cardinality(Ok)
                 /\ Cardinality({runs[k].output[1].body : k \in Hashed}) = 1

\* summary reads the samples column by column, the count first; the thread
\* of a join that timed out may append in between.
Count ==
    /\ pc = "count"
    /\ pc' = "columns"
    /\ report' = Some(
         [of |-> m, iterations_ok |-> Cardinality(Ok), body_identical |-> BodyIdentical,
          joined |-> child = Some("joined"),
          sample_count |-> samplers[m].samples, columns |-> None,
          rttm |-> files[Output(warmup + 1)],
          status |-> IF Cardinality(Ok) = iterations THEN "pass" ELSE "fail"])
    /\ UNCHANGED << m, i, files, child, runs, samplers >>

\* The columns, and on to the next measurement of the session.
Columns ==
    /\ pc = "columns"
    /\ report' = [report EXCEPT ![1].columns = Some(samplers[m].samples)]
    /\ child' = None
    /\ IF m < Len(Trials) THEN pc' = "launch" /\ m' = m + 1 /\ i' = 1
                          ELSE pc' = "done" /\ UNCHANGED << m, i >>
    /\ UNCHANGED << files, runs, samplers >>

Measure == Launch \/ ChildEnds \/ diarize_once \/ Join \/ Count \/ Columns
Sampling(s) == SamplerChecks(s) \/ SamplerAnswered(s) \/ SamplerWakes(s)

Next == Measure \/ \E s \in DOMAIN samplers : Sampling(s)

\* A question is bounded by its 30 s time-out, a run by its own, the join by
\* its 10 s: every one of them goes on.
Fairness == /\ WF_vars(Measure)
            /\ \A s \in DOMAIN Trials : WF_vars(s \in DOMAIN samplers /\ Sampling(s))
Spec == Init /\ [][Next]_vars /\ Fairness

-----------------------------------------------------------------------------
TypeOK ==
    /\ pc \in {"launch", "child", "read", "join", "count", "columns", "done"}
    /\ m \in DOMAIN Trials /\ i \in 1 .. warmup + iterations
    /\ Len(runs) <= iterations
    /\ Len(samplers) <= m /\ Len(report) <= 1

(* A result holds what its own run wrote, never the file of a warm-up, of  *)
(* an earlier run or of an earlier measurement of the same label; and the  *)
(* RTTM a measurement reports is that of its own run 0.                    *)
NoStaleOutput ==
    /\ \A r \in DOMAIN runs :
          runs[r].output # None => runs[r].output[1].by = runs[r].id
    /\ report # None /\ report[1].rttm # None =>
          report[1].rttm[1].by = << report[1].of, warmup + 1 >>

(* "body_identical" is said only when every run that returned 0 left an    *)
(* RTTM and all of them hold the same body.                                *)
IdenticalIsAll ==
    LET done == {r \in DOMAIN runs : runs[r].returncode = 0} IN
    pc = "columns" /\ report[1].body_identical =>
        /\ done # {}
        /\ \A r \in done : runs[r].output # None
        /\ \A r, q \in done : runs[r].output[1].body = runs[q].output[1].body

(* The summary is of one moment, count and columns over the same samples,  *)
(* whenever the sampler was really joined.                                 *)
JoinedSummaryIsWhole ==
    report # None =>
        (report[1].joined /\ report[1].columns # None =>
            report[1].columns[1] = report[1].sample_count)

(* The session is done with its measurements, and no sampler outlives it   *)
(* for good: every thread that was started sees its event.                 *)
SamplersGo == <>[](pc = "done" /\ \A s \in DOMAIN samplers : samplers[s].at = "gone")
=============================================================================
