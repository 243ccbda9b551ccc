------------------------------ MODULE MCAosc ------------------------------
(* Geometries, chunks and logarithms for model checking Aosc.              *)
EXTENDS Aosc

G(spk, fifo_len, period, lc, rc) ==
    [spkcache_len |-> spk, fifo_len |-> fifo_len, chunk_len |-> 3,
     spkcache_update_period |-> period,
     chunk_left_context |-> lc, chunk_right_context |-> rc]

(* The smallest cache two speakers may have and a larger one; no FIFO, a   *)
(* FIFO shorter and longer than a chunk; a period below and above a chunk. *)
SmallGeometries ==
    {G(4, 0, 1, 1, 0), G(6, 2, 4, 0, 1), G(8, 4, 2, 0, 0), G(10, 0, 3, 0, 0)}

(* The logarithms the voices need; distinct voices get distinct scores.    *)
LnTable ==
    [p \in 1 .. 100 |->
        CASE p < 40 -> -1386
          [] p = 40 -> -916
          [] p = 49 -> -713
          [] p = 50 -> -693
          [] p = 51 -> -673
          [] p = 60 -> -511
          [] p = 90 -> -105
          [] p = 95 -> -51
          [] p = 96 -> -41
          [] OTHER -> 0]

P(a, b) == [s \in Speakers |-> IF s = 1 THEN a ELSE b]
Steady(p) == [first |-> p, later |-> p]

One == Steady(P(90, 0))         \* the first speaker, clearly
Faint == Steady(P(60, 0))       \* the first speaker, less clearly
Barely == Steady(P(51, 0))      \* the first speaker, only just
Unclear == Steady(P(51, 4))     \* not even that, by a hair
Two == Steady(P(0, 95))         \* the second speaker
Both == Steady(P(60, 60))       \* both: no one's clear speech
Nobody == Steady(P(5, 0))
Retracted == [first |-> P(90, 0), later |-> P(0, 5)]
Discovered == [first |-> P(5, 5), later |-> P(0, 95)]

(* Turns of speakers, silence, changes of mind, and a chunk of context     *)
(* only.                                                                   *)
Utterances ==
    {<<>>, <<One, Faint, Two>>, <<Two, Two, Two>>, <<Both, Faint, One>>,
     <<Nobody, Nobody, Nobody>>, <<Retracted, Both, Both>>,
     <<Nobody, Discovered>>, <<Barely, Two, Two>>,
     <<Unclear, Unclear, Unclear>>}

=============================================================================
