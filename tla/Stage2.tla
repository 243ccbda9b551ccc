-------------------------------- MODULE Stage2 --------------------------------
(***************************************************************************)
(* The stage 2 kernel: the runner that finds the checkpoint and runs the   *)
(* four gates one after the other in its own interpreter, and what each    *)
(* gate makes of the reference dump.  K1 (head and transformer) and K2     *)
(* (conformer) feed every layer the reference output of the layer before   *)
(* and measure the chunks dumped in depth; K3 (the stem) measures every    *)
(* chunk; K4 probes NeMo itself and measures without a gate.               *)
(*                                                                         *)
(* A difference is "in" or "out" of its gate or not a number.  A chunk of  *)
(* the dump says whether it was dumped in depth, whether its stem has fill *)
(* rows past the valid ones, and whether the valid count is the one the    *)
(* length formula gives.  At most MaxOdd of the answers are odd.           *)
(***************************************************************************)
EXTENDS Naturals, Sequences, SequencesExt

CONSTANTS
    Npz,        \* what may be mounted: label -> <<>> or << chunks of the npz >>
    Absent,     \* the sets of gates whose source may be nowhere
    MaxOdd

VARIABLES
    dump, ckpt, absent,     \* the session's inputs
    pc, gate,               \* the runner
    results,                \* gate -> what the runner notes of it
    queue, measured,        \* of the gate that runs: chunks to go, metric -> values
    reports,                \* gate -> the verdict it emitted, if any
    odd
vars == << dump, ckpt, absent, pc, gate, results, queue, measured, reports, odd >>

Gates  == << "k1", "k2", "k3", "k4" >>
Names  == {Gates[i] : i \in 1 .. 4}
Labels == << "short", "mid" >>
Values == {"in", "out", "nan"}
Metrics(g) == CASE g = "k1" -> {"blocks", "head", "proj"}
                [] g = "k2" -> {"layers"}
                [] g = "k3" -> {"valid", "fill", "bias"}
                [] g = "k4" -> {}

TypeOK ==
    /\ pc \in {"ckpt", "gate", "chunks", "over"} /\ gate \in 1 .. 4
    /\ results \in [Names -> {"none", "missing", "exit-0", "error"}]
    /\ reports \in [Names -> {"none", "infra", "green", "red", "measured"}]
    /\ \A k \in DOMAIN measured : measured[k] \in Seq(Values)
    /\ odd \in 0 .. MaxOdd

Nothing == [k \in {} |-> << >>]
Init ==
    /\ dump \in Npz /\ ckpt = FALSE /\ absent \in Absent
    /\ pc = "ckpt" /\ gate = 1 /\ queue = << >> /\ measured = Nothing
    /\ results = [g \in Names |-> "none"] /\ reports = [g \in Names |-> "none"]
    /\ odd = 0

(* Mounted, cached or downloaded; without it the kernel says so and ends.  *)
Inputs == UNCHANGED << dump, absent >>
_ensure_ckpt ==
    /\ pc = "ckpt"
    /\ \/ ckpt' = TRUE /\ pc' = "gate" /\ UNCHANGED odd
       \/ odd < MaxOdd /\ odd' = odd + 1 /\ pc' = "over" /\ UNCHANGED ckpt
    /\ Inputs /\ UNCHANGED << gate, queue, measured, results, reports >>

Now == Gates[gate]
(* The gate that ran leaves its result, and the next one starts.           *)
GateEnds(result) ==
    /\ results' = [results EXCEPT ![Now] = result]
    /\ IF gate = 4 THEN pc' = "over" /\ UNCHANGED gate
                   ELSE pc' = "gate" /\ gate' = gate + 1
Emits(verdict) == reports' = [reports EXCEPT ![Now] = verdict]

(* No sibling, no earlier copy and nothing embedded.                       *)
_materialize ==
    /\ pc = "gate" /\ Now \in absent
    /\ GateEnds("missing")
    /\ Inputs /\ UNCHANGED << ckpt, queue, measured, reports, odd >>

(* The dump is found by its short half; the other half may be missing.     *)
HasRef == dump["short"] # << >>
InfraVerdict ==
    /\ pc = "gate" /\ Now \notin absent /\ ~HasRef
    /\ Emits("infra") /\ GateEnds("exit-0")
    /\ Inputs /\ UNCHANGED << ckpt, queue, measured, odd >>

Sees(g, chunk) == g = "k3" \/ chunk.deep
ChunksOf(g) ==
    FlattenSeq([i \in 1 .. 2 |->
        IF dump[Labels[i]] = << >> THEN << >>
        ELSE SelectSeq(Head(dump[Labels[i]]), LAMBDA chunk : Sees(g, chunk))])

(* The checkpoint's tensors by name; one that lacks a name raises.         *)
LoadWeights ==
    /\ pc = "gate" /\ Now \notin absent /\ HasRef /\ Now # "k4"
    /\ \/ /\ pc' = "chunks" /\ queue' = ChunksOf(Now)
          /\ measured' = [k \in Metrics(Now) |-> << >>]
          /\ UNCHANGED << gate, results, odd >>
       \/ /\ odd < MaxOdd /\ odd' = odd + 1
          /\ GateEnds("error") /\ UNCHANGED << queue, measured >>
    /\ Inputs /\ UNCHANGED << ckpt, reports >>

(* K2 needs as many rows as the state lengths say once there is a chunk    *)
(* before it; K3 needs the valid count its own length formula gives.       *)
Asserts(g, chunk) == \/ g = "k2" /\ ~chunk.first /\ chunk.fill
                     \/ g = "k3" /\ chunk.drift
(* A fill row of K3 is measured where the chunk has some, else it is 0.    *)
MeasureChunk ==
    /\ pc = "chunks" /\ queue # << >>
    /\ IF Asserts(Now, Head(queue))
       THEN GateEnds("error") /\ UNCHANGED << queue, measured, odd >>
       ELSE /\ \E got \in [Metrics(Now) -> Values] :
                   LET strange == {k \in Metrics(Now) : got[k] # "in"}
                   IN  /\ strange = {} \/ odd < MaxOdd
                       /\ odd' = odd + (IF strange = {} THEN 0 ELSE 1)
                       /\ Head(queue).fill \/ strange \cap {"fill", "bias"} = {}
                       /\ measured' = [k \in Metrics(Now) |-> Append(measured[k], got[k])]
            /\ queue' = Tail(queue) /\ UNCHANGED << pc, gate, results >>
    /\ Inputs /\ UNCHANGED << ckpt, reports >>

\* What the worst of no values is.
Default(k) == IF k \in {"fill", "bias"} THEN "in" ELSE "nan"
(* Python's max keeps the first of two values that do not compare.         *)
Worst(k) ==
    LET vs == measured[k]
    IN  IF vs = << >> THEN Default(k)
        ELSE IF vs[1] = "nan" THEN "nan"
        ELSE IF Contains(vs, "out") THEN "out" ELSE "in"
Judge ==
    /\ pc = "chunks" /\ queue = << >>
    /\ Emits(IF \A k \in Metrics(Now) : Worst(k) = "in" THEN "green" ELSE "red")
    /\ GateEnds("exit-0")
    /\ Inputs /\ UNCHANGED << ckpt, queue, measured, odd >>

(* K4 builds the model, hooks layer 0 and compares; whatever raises there  *)
(* ends it, whatever raises in the stem probe (which imports K3's source   *)
(* from K4's directory) is noted in the report.                            *)
Probe ==
    /\ pc = "gate" /\ Now \notin absent /\ HasRef /\ Now = "k4"
    /\ \/ Emits("measured") /\ GateEnds("exit-0") /\ UNCHANGED odd
       \/ /\ odd < MaxOdd /\ odd' = odd + 1
          /\ GateEnds("error") /\ UNCHANGED reports
    /\ measured' = Nothing
    /\ Inputs /\ UNCHANGED << ckpt, queue >>

Next == \/ _ensure_ckpt \/ _materialize \/ InfraVerdict \/ LoadWeights
        \/ MeasureChunk \/ Judge \/ Probe
Fairness == WF_vars(Next)
Spec == Init /\ [][Next]_vars /\ Fairness

-----------------------------------------------------------------------------
(* A green verdict is backed: every gated metric that has no default was   *)
(* measured on some chunk, nothing measured was out of its gate, and the   *)
(* first value of each metric was a number.  (A later NaN stays unseen.)   *)
ReportsMeasured ==
    \A g \in Names : reports[g] = "none" /\ reports'[g] = "green" =>
        \A k \in Metrics(g) :
            /\ k \in {"fill", "bias"} \/ Len(measured[k]) > 0
            /\ ~Contains(measured[k], "out")
            /\ Len(measured[k]) > 0 => measured[k][1] # "nan"

(* A kernel that got its checkpoint comes to the end with an account of    *)
(* all four gates, whatever one of them raised: a verdict file from each   *)
(* gate that returned, a note of the runner for each that did not.         *)
Accounted ==
    /\ pc = "over"
    /\ ckpt => \A g \in Names :
         /\ results[g] # "none"
         /\ reports[g] # "none" <=> results[g] = "exit-0"
         /\ results[g] = "missing" <=> g \in absent

=============================================================================
