--------------------------- MODULE MCParityPipeline ---------------------------
(* One set of two runs and, for the mixing of two observations, that set   *)
(* and a set of one run; a stable and an unstable label.                   *)
EXTENDS ParityPipeline

D1  == DumpFile(2, 2, << 4, 0, 0, 4 >>)
D2  == DumpFile(2, 2, << 4, 1, 0, 4 >>)
Cut == SubSeq(D1, 1, 6)

StableSet   == [label |-> "short_streaming", reps |-> 2]
UnstableSet == [label |-> "mid_offline", reps |-> 1]
TwoSets == << StableSet, UnstableSet >>
OneSet  == << StableSet >>
Stable  == {"short_streaming"}

SmallChildren ==
    [rc : {0}, body : {"b1"}, dump : {Some(D1), Some(D2), Some(Cut)}]
        \cup [rc : {0}, body : {"b2"}, dump : {Some(D2)}]
        \cup [rc : {124}, body : {"b1"}, dump : {Some(Cut), Some(D1)}]

CommandLines ==
    {[src_commit |-> "abc", frame_grid_ms |-> 80, allow_unstable |-> TRUE],
     [src_commit |-> "",    frame_grid_ms |-> 80, allow_unstable |-> FALSE]}
EditedPayloads == {D2, DumpFile(2, 2, << 0, 4, 0, 4 >>)}

EngineOutputs == { << 4, 0, 0, 4 >>, << 4, 1, 0, 4 >>, << 0, 4, 1, 4 >>,
                   << 4, NegZero, 0, 4 >>, << 4, 4, 0, 4 >>, << 4, 0, 0 >> }
NaNOutputs == EngineOutputs \cup { << 4, NaN, 0, 4 >> }
=============================================================================
