------------------------------ MODULE ProbSweep ------------------------------
(***************************************************************************)
(* The probability sweep of the measurement kernel (run_prob_sweep): one   *)
(* audio is diarized several times by the same binary, every run dumps its *)
(* frame probabilities, and a verdict says whether the runs drifted and in *)
(* which layer.  The first run is then exported as a parity candidate      *)
(* (_export_parity_candidate).  A run is a child process: it may fail, be  *)
(* killed on its timeout, and leave a partial dump behind.                 *)
(***************************************************************************)
EXTENDS Probdump, FiniteSets

CONSTANTS
    Sets,               \* DET_SETS_V9: sequence of [label, reps]
    StableCases,        \* SESSION_STABLE_CASES
    Switches,           \* what PROBDUMP_ENABLED may be set to
    Children            \* what a run may do: [rc, body, dump]; dump optional

ASSUME SweepAssumption ==
    /\ Sets \in Seq(Range(Sets)) /\ Sets # << >>
    /\ \A i \in DOMAIN Sets : Sets[i].reps \in Nat \ {0}
    /\ Switches \subseteq BOOLEAN
    /\ \A child \in Children :
          \/ child.dump = None
          \/ child.dump = Some(The(child.dump)) /\ The(child.dump) \in Seq(Int)

VARIABLES
    PROBDUMP_ENABLED,  \* the switch of this session: the binary is patched
    pc,          \* "rep" | "judge" | "export" | "done"
    set,         \* index in Sets
    disk,        \* case_dir: per rep, the dump file (optional) and the RTTM
    reps,        \* case_entry["reps"]
    rep_dumps,   \* parsed dumps, optional each
    rep_hashes,  \* RTTM bodies (a hash stands for its body)
    ok,
    sweep,       \* the case entries reported
    candidates   \* parity_candidates/: label -> candidate directory
vars == << PROBDUMP_ENABLED, pc, set, disk, reps, rep_dumps, rep_hashes, ok, sweep, candidates >>

Label == Sets[set].label

Init ==
    /\ PROBDUMP_ENABLED \in Switches
    /\ pc = "rep" /\ set = 1
    /\ disk = << >> /\ reps = << >> /\ rep_dumps = << >> /\ rep_hashes = << >>
    /\ ok = TRUE
    /\ sweep = << >>
    /\ candidates = << >>

(* diarize_once on a fresh pair of paths: stale files are unlinked before  *)
(* the child starts, and the dump's digest is taken whatever became of the *)
(* child.  Without a dump path the child writes no dump.                   *)
DumpOf(child) == IF PROBDUMP_ENABLED THEN child.dump ELSE None

Record(child) ==
    [rc   |-> child.rc,
     sha  |-> DumpOf(child),
     body |-> IF child.rc = 0 THEN Some(child.body) ELSE None,
     probs_available |->
        /\ child.rc = 0
        /\ Present(DumpOf(child))
        /\ Present(ReadProbdump(The(DumpOf(child))))]

\* Mutant: the loop breaks without marking the case.
RepFailedSilently(child) ==
    /\ child.rc # 0
    /\ pc' = "judge"
    /\ UNCHANGED << ok, rep_dumps, rep_hashes >>

\* A run that failed ends the case at once: nothing of it is compared.
RepFailed(child) ==
    /\ child.rc # 0
    /\ ok' = FALSE
    /\ pc' = "judge"
    /\ UNCHANGED << rep_dumps, rep_hashes >>

LastRep(n)     == n = Sets[set].reps

\* An unpatched binary: only the bodies can be compared.
RepWithoutDump(child) ==
    /\ child.rc = 0
    /\ ~PROBDUMP_ENABLED
    /\ rep_hashes' = Append(rep_hashes, child.body)
    /\ rep_dumps' = Append(rep_dumps, None)
    /\ pc' = IF LastRep(Len(reps')) THEN "judge" ELSE "rep"
    /\ UNCHANGED ok

\* The run came back: its dump is read, and a missing or a corrupt one ends
\* the case.
RepDumped(child) ==
    LET parsed == IF Record(child).probs_available
                    THEN ReadProbdump(The(child.dump)) ELSE None
    IN  /\ child.rc = 0
        /\ PROBDUMP_ENABLED
        /\ rep_hashes' = Append(rep_hashes, child.body)
        /\ rep_dumps' = Append(rep_dumps, parsed)
        /\ ok' = (ok /\ Present(parsed))
        /\ pc' = IF ~Present(parsed) \/ LastRep(Len(reps'))
                   THEN "judge" ELSE "rep"

Rep ==
    /\ pc = "rep"
    /\ \E child \in Children :
        /\ reps' = Append(reps, Record(child))
        /\ disk' = Append(disk, [dump |-> DumpOf(child), rttm |-> child.body,
                                 rc |-> child.rc])
        /\ RepFailed(child) \/ RepWithoutDump(child) \/ RepDumped(child)
    /\ UNCHANGED << PROBDUMP_ENABLED, set, sweep, candidates >>

-----------------------------------------------------------------------------
(* The analysis: rep 0 against every later rep, at both levels.            *)
ProbsOk == /\ rep_dumps # << >>
           /\ \A i \in DOMAIN rep_dumps : Present(rep_dumps[i])

ProbPairs == IF Len(rep_dumps) >= 2 /\ ProbsOk
               THEN [i \in 1 .. Len(rep_dumps) - 1 |->
                        ProbDiff(The(rep_dumps[1]), The(rep_dumps[i + 1]))]
               ELSE << >>

ProbsBit == IF ProbPairs # << >>
              THEN \A i \in DOMAIN ProbPairs : ProbPairs[i].bit_identical
              ELSE Len(rep_dumps) = 1 /\ ProbsOk

MaxAbs == LET Worst(p, m) == IF p.max_abs > m THEN p.max_abs ELSE m
          IN  FoldSeq(Worst, 0, ProbPairs)

UniqueBodies == Cardinality(Range(rep_hashes))

Verdict ==
    IF ~PROBDUMP_ENABLED /\ ok /\ UniqueBodies = 1 THEN "identical_body_only"
    ELSE IF ~ProbsOk THEN "no_dump"
    ELSE CASE ProbsBit  /\ UniqueBodies = 1 -> "identical"
           [] ~ProbsBit /\ UniqueBodies > 1 -> "neural_drift"
           [] ProbsBit  /\ UniqueBodies > 1 -> "host_race"
           [] ~ProbsBit /\ UniqueBodies = 1 -> "sub_hysteresis_drift"
           [] OTHER                         -> "unreachable"

Judge ==
    /\ pc = "judge"
    /\ sweep' = Append(sweep,
         [label |-> Label, reps |-> reps, returncode_ok |-> ok,
          probs_bit_identical |-> ProbsOk /\ ProbsBit,
          max_abs |-> MaxAbs,
          body_identical |-> ok /\ UniqueBodies = 1,
          verdict |-> IF ok THEN Verdict ELSE "run_failed",
          runs |-> disk])
    /\ pc' = "export"
    /\ UNCHANGED << PROBDUMP_ENABLED, set, disk, reps, rep_dumps, rep_hashes, ok,
                    candidates >>

(* _export_parity_candidate: rep 0's dump and RTTM are copied out of the   *)
(* work directory, with the provenance, and the next set starts afresh.    *)
Exportable == /\ reps # << >>
              /\ reps[1].probs_available
              /\ Present(disk[1].dump)

Export ==
    /\ pc = "export"
    /\ candidates' =
         IF Exportable
           THEN Append(candidates,
                  [label |-> Label, probs |-> The(disk[1].dump),
                   rttm |-> disk[1].rttm, reps |-> reps,
                   cross_session_stable |-> Label \in StableCases])
           ELSE candidates
    /\ IF set < Len(Sets) THEN set' = set + 1 /\ pc' = "rep"
                          ELSE set' = set /\ pc' = "done"
    /\ disk' = << >> /\ reps' = << >> /\ rep_dumps' = << >> /\ rep_hashes' = << >>
    /\ ok' = TRUE
    /\ UNCHANGED << PROBDUMP_ENABLED, sweep >>

Done == pc = "done" /\ UNCHANGED vars

Next == Rep \/ Judge \/ Export \/ Done
Spec == Init /\ [][Next]_vars /\ WF_vars(Rep \/ Judge \/ Export)

-----------------------------------------------------------------------------
(* Properties.  `runs` of an entry is what the runs really left on disk.   *)
Whole(file) == Present(file) /\ Present(ReadProbdump(The(file)))
SameDump(x, y) ==
    LET a == The(ReadProbdump(The(x)))
        b == The(ReadProbdump(The(y)))
    IN  /\ a.frames = b.frames /\ a.spk = b.spk
        /\ SameValues(a.values, b.values)
BodiesDiffer(e) == \E i, j \in DOMAIN e.runs : e.runs[i].rttm # e.runs[j].rttm
DumpsDrift(e)   == \E i \in 2 .. Len(e.runs) :
                      ~SameDump(e.runs[1].dump, e.runs[i].dump)

TypeOK ==
    /\ PROBDUMP_ENABLED \in BOOLEAN
    /\ pc \in {"rep", "judge", "export", "done"}
    /\ set \in DOMAIN Sets
    /\ Len(rep_dumps) <= Len(reps) /\ Len(rep_hashes) = Len(rep_dumps)
    /\ Len(disk) = Len(reps) /\ Len(reps) <= Sets[set].reps
    /\ ok \in BOOLEAN
    /\ Len(sweep) <= Len(Sets)
    /\ Len(candidates) <= Len(sweep)

(* "identical" is only said of a case whose every requested run returned 0 *)
(* and left a whole dump, all of them equal, with equal bodies: no failed, *)
(* missing or partial run reads as agreement.                              *)
IdenticalIsEarned ==
    \A i \in DOMAIN sweep :
        LET e == sweep[i] IN
        e.verdict = "identical" =>
            /\ Len(e.runs) = Sets[i].reps
            /\ \A r \in DOMAIN e.runs : e.runs[r].rc = 0 /\ Whole(e.runs[r].dump)
            /\ ~BodiesDiffer(e)
            /\ ~DumpsDrift(e)

(* With an unpatched binary, "identical_body_only" is only said when every *)
(* requested run returned 0 and all the bodies are the same.               *)
BodyVerdictIsEarned ==
    \A i \in DOMAIN sweep :
        LET e == sweep[i] IN
        e.verdict = "identical_body_only" =>
            /\ ~PROBDUMP_ENABLED
            /\ Len(e.runs) = Sets[i].reps
            /\ \A r \in DOMAIN e.runs : e.runs[r].rc = 0
            /\ ~BodiesDiffer(e)

(* A drift verdict blames the layer that drifted: "host_race" only when    *)
(* all dumps agree and the bodies do not, "neural_drift" only when both    *)
(* differ, "sub_hysteresis_drift" only when the dumps alone differ; and    *)
(* every case gets one of the documented verdicts.                         *)
DriftNamesTheLayer ==
    \A i \in DOMAIN sweep :
        LET e == sweep[i] IN
        /\ e.verdict # "unreachable"
        /\ e.verdict = "host_race"    => BodiesDiffer(e) /\ ~DumpsDrift(e)
        /\ e.verdict = "neural_drift" => BodiesDiffer(e) /\ DumpsDrift(e)
        /\ e.verdict = "sub_hysteresis_drift" => ~BodiesDiffer(e) /\ DumpsDrift(e)

(* What is exported for a fixture is one observation: a whole dump and the *)
(* RTTM of the same successful run 0, however the later runs ended.        *)
CandidatesAreRunZero ==
    \A i \in DOMAIN candidates :
        \E e \in Range(sweep) :
            /\ e.label = candidates[i].label
            /\ e.runs[1].rc = 0
            /\ e.runs[1].dump = Some(candidates[i].probs)
            /\ e.runs[1].rttm = candidates[i].rttm
            /\ Whole(e.runs[1].dump)

=============================================================================
