----------------------------- MODULE Stage3Gates ------------------------------
(***************************************************************************)
(* The two gates of stage 3.  Both put one job per unit of work into a pool *)
(* of threads, each job running the runner in a process of its own and      *)
(* reading back the files that process wrote, and judge the records when    *)
(* all jobs are done.  A K5a job is one feed of one audio, a K6 job one     *)
(* fixture case, run twice when it is the determinism case.                 *)
(***************************************************************************)
EXTENDS Naturals, Sequences, FiniteSets, SequencesExt

CONSTANTS
    CASES,            \* audios of K5a, fixture directories of K6
    DETERMINISM_CASE, \* of CASES
    ADVISORY_CASES,   \* a subset of CASES
    JobsArg,          \* --jobs
    MaxOdd            \* bound: outcomes that are not good, in all

VARIABLES
    gate,     \* "k5a" or "k6"
    found,    \* cases whose reference is there
    broken,   \* K6: cases whose manifest cannot be read
    pc,       \* main thread: "driver", "pool", "judge", "end", "dead"
    workers,  \* threads of the pool
    queue,    \* jobs not yet taken, in order
    at,       \* job taken -> [step, pass, got], what it is at and has read
    disk,     \* prefix -> [by, value]: the files a process left
    record,   \* job -> [error, got]: what its future returned
    compared, \* K5a: cases compared on the main thread
    reasons,  \* cases the verdict complains of
    verdict,  \* "none", "green", "red", "infra"
    odd
vars == << gate, found, broken, pc, workers, queue, at, disk, record, compared,
           reasons, verdict, odd >>

Odd        == odd < MaxOdd /\ odd' = odd + 1
Empty      == [x \in {} |-> {}]
Put(f, k, v) == [x \in DOMAIN f \cup {k} |-> IF x = k THEN v ELSE f[x]]

\* What a run of the runner gives, against its reference: within the hard
\* gates, within the advisory ones only, outside both.
Values == {"in", "wide", "off"}

-----------------------------------------------------------------------------
\* One job per (label, feed), per case directory.
Feeds == << "whole", "drip" >>
JobsOf(c) == IF gate = "k5a" THEN [k \in 1 .. 2 |-> << c, Feeds[k] >>]
                             ELSE << << c, "case" >> >>
Passes(job) == IF gate = "k6" /\ job[1] = DETERMINISM_CASE THEN 2 ELSE 1

\* The files of a pass.  Mutant: the feeds of an audio share theirs.
PrefixOfCase(job, pass) == << job[1], "any", pass >>
Prefix(job, pass)       == << job[1], job[2], pass >>

\* The longest audio first, so the cases come in any order.
Jobs(cases) == IF gate = "k5a"
                 THEN [n \in 1 .. 2 * Len(cases) |-> JobsOf(cases[(n + 1) \div 2])[2 - (n % 2)]]
                 ELSE [n \in DOMAIN cases |-> JobsOf(cases[n])[1]]

Least(a, b) == IF a < b THEN a ELSE b
Workers(jobs)       == LET n == Least(JobsArg, Len(jobs)) IN IF n > 1 THEN n ELSE 1

Init ==
    /\ gate \in {"k5a", "k6"}
    /\ found \in SUBSET CASES
    /\ broken \in {b \in SUBSET found : gate = "k6" /\ Cardinality(b) <= 1} \cup {{}}
    /\ pc = "driver" /\ workers = 0 /\ queue = << >>
    /\ at = Empty /\ disk = Empty /\ record = Empty
    /\ compared = {} /\ reasons = {} /\ verdict = "none" /\ odd = 0

\* The selftest or the probe fails, or K6 has no case: an infra verdict.  A
\* manifest that cannot be read ends K6 as the jobs are sorted, outside any
\* handler.
Infra ==
    /\ pc = "driver"
    /\ \/ Odd
       \/ gate = "k6" /\ found = {} /\ odd' = odd
    /\ verdict' = "infra" /\ pc' = "end"
    /\ UNCHANGED << gate, found, broken, workers, queue, at, disk, record,
                    compared, reasons >>

Driver ==
    /\ pc = "driver" /\ (gate = "k6" => found # {})
    /\ \E cases \in SetToSeqs(found) :
       LET n == Workers(Jobs(cases)) IN
       IF broken # {} \/ n = 0 THEN pc' = "dead" /\ UNCHANGED << workers, queue >>
       ELSE pc' = "pool" /\ workers' = n /\ queue' = Jobs(cases)
    /\ UNCHANGED << gate, found, broken, at, disk, record, compared, reasons,
                    verdict, odd >>

-----------------------------------------------------------------------------
Take ==
    /\ pc = "pool" /\ queue # << >> /\ Cardinality(DOMAIN at) < workers
    /\ at' = Put(at, Head(queue), [step |-> "run", pass |-> 1, got |-> << >>])
    /\ queue' = Tail(queue)
    /\ UNCHANGED << gate, found, broken, pc, workers, disk, record, compared,
                    reasons, verdict, odd >>

Return(job, r) ==
    /\ record' = Put(record, job, r)
    /\ at' = [j \in DOMAIN at \ {job} |-> at[j]]

\* The process ends and its files are there, or it fails; so does a fixture
\* that is not the pinned one, or audio that is not there, before it runs.
RunnerEnds(job) ==
    /\ job \in DOMAIN at /\ at[job].step = "run"
    /\ \/ \E v \in Values :
            /\ IF v = "in" THEN odd' = odd ELSE Odd
            /\ disk' = Put(disk, Prefix(job, at[job].pass),
                           [by |-> << job, at[job].pass >>, value |-> v])
            /\ at' = [at EXCEPT ![job].step = "read"]
            /\ record' = record
       \/ Odd /\ Return(job, [error |-> TRUE, got |-> << >>]) /\ disk' = disk
    /\ UNCHANGED << gate, found, broken, pc, workers, queue, compared, reasons, verdict >>

\* What the process left is read, and the next pass begins or the job is done.
ReadBack(job) ==
    /\ job \in DOMAIN at /\ at[job].step = "read"
    /\ LET a == at[job]
           got == Append(a.got, disk[Prefix(job, a.pass)])
       IN  IF a.pass < Passes(job)
             THEN /\ at' = [at EXCEPT ![job] = [step |-> "run", pass |-> a.pass + 1,
                                                got |-> got]]
                  /\ record' = record
             ELSE Return(job, [error |-> FALSE, got |-> got])
    /\ UNCHANGED << gate, found, broken, pc, workers, queue, disk, compared,
                    reasons, verdict, odd >>

PoolDone ==
    /\ pc = "pool" /\ queue = << >> /\ DOMAIN at = {}
    /\ pc' = "judge"
    /\ UNCHANGED << gate, found, broken, workers, queue, at, disk, record,
                    compared, reasons, verdict, odd >>

-----------------------------------------------------------------------------
Within(c, v) == v = "in" \/ (gate = "k6" /\ c \in ADVISORY_CASES /\ v = "wide")
Records(c)   == [k \in DOMAIN JobsOf(c) |-> record[JobsOf(c)[k]]]
\* The passes that must be equal: two feeds, two runs.
Outputs(c) == IF gate = "k5a" THEN << Records(c)[1].got[1], Records(c)[2].got[1] >>
                              ELSE Records(c)[1].got
Equal(c) == LET o == Outputs(c) IN \A i, k \in DOMAIN o : o[i].value = o[k].value
Errors(c) == \E k \in DOMAIN JobsOf(c) : Records(c)[k].error

\* What the verdict holds against a case.
Blamed(c) ==
    IF c \notin found THEN gate = "k5a"
    ELSE Errors(c) \/ ~Within(c, Outputs(c)[1].value) \/ ~Equal(c)

\* K5a compares on the main thread, one audio after the other; a shape that
\* does not fit raises there.
compare_audio ==
    /\ pc = "judge" /\ gate = "k5a"
    /\ \E c \in found \ compared :
         /\ compared' = compared \cup {c}
         /\ \/ pc' = pc /\ odd' = odd
            \/ ~Errors(c) /\ Odd /\ pc' = "dead"
    /\ UNCHANGED << gate, found, broken, workers, queue, at, disk, record,
                    reasons, verdict >>

judge ==
    /\ pc = "judge" /\ (gate = "k5a" => compared = found)
    /\ reasons' = {c \in CASES : Blamed(c)}
    /\ verdict' = IF reasons' = {} THEN "green" ELSE "red"
    /\ pc' = "end"
    /\ UNCHANGED << gate, found, broken, workers, queue, at, disk, record,
                    compared, odd >>

AllJobs == {<< c, f >> : c \in CASES, f \in {"whole", "drip", "case"}}
Next == \/ Infra \/ Driver \/ Take \/ PoolDone \/ compare_audio \/ judge
        \/ \E job \in AllJobs : RunnerEnds(job) \/ ReadBack(job)

\* A thread of the pool and the processes it waits for go on, and so does the
\* main thread.
Fairness == WF_vars(Next)
Spec == Init /\ [][Next]_vars /\ Fairness

-----------------------------------------------------------------------------
TypeOK == /\ pc \in {"driver", "pool", "judge", "end", "dead"}
          /\ DOMAIN at \cup DOMAIN record \subseteq AllJobs
          /\ Cardinality(DOMAIN at) <= workers
          /\ compared \subseteq found /\ reasons \subseteq CASES
          /\ verdict \in {"none", "green", "red", "infra"} /\ odd \in 0 .. MaxOdd

(* "Jobs are order-free": whatever the order the processes end in, a record  *)
(* holds the output of its own process, pass by pass.                        *)
RecordsAreOwn ==
    \A job \in DOMAIN record : ~record[job].error =>
        /\ Len(record[job].got) = Passes(job)
        /\ \A p \in DOMAIN record[job].got : record[job].got[p].by = << job, p >>

(* A green verdict is backed for every case found, by a process that ended   *)
(* well: the output is within the case's own gates and equals that of the    *)
(* other feed or of the second run; K5a also misses no reference.            *)
GreenIsBacked ==
    verdict = "green" =>
        /\ gate = "k5a" => found = CASES
        /\ gate = "k6" => found # {}
        /\ \A c \in found, p \in DOMAIN disk : p[1] = c =>
              /\ disk[p].value \in IF gate = "k6" /\ c \in ADVISORY_CASES
                                     THEN {"in", "wide"} ELSE {"in"}
              /\ \A q \in DOMAIN disk : q[1] = c => disk[q].value = disk[p].value
        /\ \A c \in found : \E p \in DOMAIN disk : p[1] = c

(* A gate dies without a verdict in two places only: at a K6 manifest it     *)
(* cannot read and in a K5a comparison; whatever else fails or is missing, a *)
(* verdict is written in the end.                                            *)
Ended == \/ verdict # "none"
         \/ pc = "dead" /\ (broken # {} \/ compared # {})
=============================================================================
