-------------------------- MODULE MCStreamEngine --------------------------
(* Geometries for model checking StreamEngine.                             *)
EXTENDS StreamEngine

G(spk, fifo, chunk, period, lc, rc) ==
    [spkcache_len |-> spk, fifo_len |-> fifo, chunk_len |-> chunk,
     spkcache_update_period |-> period,
     chunk_left_context |-> lc, chunk_right_context |-> rc]

(* Every shape the scheduler distinguishes: one-frame chunks, contexts     *)
(* longer than a chunk, chunks off the 32-mel grid, no FIFO at all, and    *)
(* geometries the constructor must refuse.                                 *)
SmallGeometries ==
    {G(2, fifo, chunk, period, lc, rc) :
        fifo \in {0, 2}, chunk \in 0 .. 3, period \in {1, 3},
        lc \in {0, 1, 3}, rc \in {-1, 0, 2}}

(* The geometries the program ships.                                       *)
Presets == {Streaming, OfflinePreset}

=============================================================================
