---------------------------- MODULE MCBenchSession ----------------------------
(* Upstream: the pinned source, one with the anchor inside a function, one *)
(* with a second loop anchor, one without <cstdio>, one with the dump in.  Two measurements of   *)
(* one label, two timed runs each, one question per sampler.  One or two   *)
(* recordings, one synthetic length, two knob sets of two runs.            *)
EXTENDS BenchSession

Pinned    == << "incl", "{", "ns", "{", "join", "loop", "}" >>
InsideFn  == << "incl", "{", "{", "ns", "}", "join", "loop" >>
TwoLoops  == << "incl", "{", "ns", "{", "join", "loop", "loop", "}" >>
NoCstdio  == << "{", "ns", "{", "join", "loop", "}" >>
Dumping   == << "hdr", "incl", "{", "ns", "helper", "{", "join", "loop", "call", "}" >>
Sources   == {Pinned, InsideFn, TwoLoops, NoCstdio, Dumping}
Old       == [of |-> Pinned, whole |-> TRUE]
OldTrees  == {[source |-> << >>, shim |-> FALSE, binary |-> << >>, model |-> << >>],
              [source |-> << Pinned >>, shim |-> TRUE, binary |-> << Old >>,
               model |-> << "whole" >>]}

SameLabel  == << "real_short", "real_short" >>
TwoBodies  == {"x", "y"}
SomeMounts == {{}, {"real_short"}, {"real_mid", "real_long"}}
OneTone    == << "synth_300s" >>
Outcomes   == {[ok |-> 2, identical |-> TRUE, segments |-> 1],
               [ok |-> 2, identical |-> FALSE, segments |-> 1],
               [ok |-> 2, identical |-> TRUE, segments |-> 0]}
TwoKnobs   == << "baseline", "no_batching" >>
ChunkFiles == {<< >>, << "x" >>, << "x", "x" >>, << "x", "y" >>}
===============================================================================
