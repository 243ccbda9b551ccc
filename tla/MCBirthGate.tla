---------------------------- MODULE MCBirthGate ----------------------------
(* Frames for model checking BirthGate with three channels: a clean win of *)
(* each of two channels, a fading handoff, an overlap with a tie, a weak   *)
(* transient over a speaker, silence.                                      *)
EXTENDS BirthGate

P(a, b, c) == [s \in Speakers |-> CASE s = 0 -> a [] s = 1 -> b [] OTHER -> c]

SmallFrames ==
    {P(96, 0, 0), P(1, 95, 0), P(10, 92, 0), P(40, 0, 40), P(0, 0, 0)}

=============================================================================
