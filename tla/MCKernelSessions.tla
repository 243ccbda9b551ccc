--------------------------- MODULE MCKernelSessions ---------------------------
(***************************************************************************)
(* Small instances of the programs around the Kaggle service.  A log of    *)
(* two events, two wanted files of three, a dataset of two.  Three of the  *)
(* four fixtures, with and without the one of the cross comparison, in one *)
(* session or in five.  Two C++ sources and one gate script to embed, two  *)
(* replacements.  Archives with and without the sentinel, whole, corrupt   *)
(* and of another layout.  Three geometries and recordings whose length is *)
(* on, beside and far from a multiple of the window, the padding and the   *)
(* subsampling.                                                            *)
(***************************************************************************)
EXTENDS KernelSessions, TLC

TwoFiles   == << "weights", "audio" >>
ThreeFiles == << "verdict", "log", "dump" >>
WantedTwo  == {"verdict", "dump"}

Fixtures3 == {{"short", "full", "preset"}, {"short", "mid", "preset"}}
OneOrFive   == {<< "all" >>, << "a", "b", "c", "d", "gpu" >>}

AllSteps  == {3, 4, 5}
TwoBlobs  == << "cpp1", "cpp2" >>
OneScript == << "k5a" >>

AllGates     == {"k5a", "k6", "m3prof"}
SomeArchives == {<< >>, << "good" >>, << "noprobs", "good" >>,
                 << "corrupt", "nozip", "good" >>, << "other", "corrupt" >>}
TwoCases     == {"mid", "short"}
Advisory     == {"mid"}

Chunk(first, deep, fill, drift) ==
    [first |-> first, deep |-> deep, fill |-> fill, drift |-> drift]
SomeDumps ==
    {[short |-> << >>, mid |-> << >>],
     [short |-> << << Chunk(TRUE, TRUE, FALSE, FALSE), Chunk(FALSE, TRUE, FALSE, FALSE) >> >>,
      mid |-> << << Chunk(FALSE, FALSE, TRUE, FALSE) >> >>],
     [short |-> << << Chunk(TRUE, FALSE, FALSE, FALSE) >> >>, mid |-> << >>],
     [short |-> << << Chunk(TRUE, TRUE, FALSE, FALSE) >> >>,
      mid |-> << << Chunk(FALSE, TRUE, TRUE, FALSE), Chunk(FALSE, FALSE, FALSE, TRUE) >> >>]}
SomeAbsent == {{}, {"k1"}, {"k3", "k4"}}
SomeAudios == {{}, {"short"}, {"mid"}, {"short", "mid"}}

Geometry(clen, fifo, cache, period) ==
    [chunk_len |-> clen, fifo_len |-> fifo, spkcache_len |-> cache,
     spkcache_update_period |-> period]
ThreeGeometries == {Geometry(4, 16, 32, 16), Geometry(8, 16, 20, 8), Geometry(8, 20, 24, 9)}
SomeLengths     == {1, 8, 9, 31, 32, 33, 40, 56, 57, 63, 64, 65, 72, 80, 88, 95, 96,
                    288, 290, 300, 311, 312, 313, 320} \cup 176 .. 200

\* A limit of four rows and sixteen mel frames, odd and even chains, a head
\* or none, the host alone, and a route built from other weights.
Setup(conf, tf, encoder, head, stem, same) ==
    [conf |-> conf, tf |-> tf, encoder |-> encoder, head |-> head, stem |-> stem, same |-> same,
     max_l |-> 4, max_t_mel |-> 16, pos_emb_max_len |-> 6]
SomeSetups ==
    {Setup(1, 2, TRUE, TRUE, TRUE, TRUE), Setup(2, 1, TRUE, FALSE, TRUE, TRUE),
     Setup(1, 1, FALSE, FALSE, FALSE, TRUE), Setup(3, 3, TRUE, TRUE, FALSE, FALSE)}
\* At the limits, over either limit or both, over the position table,
\* tapped, without mel frames, and without anything.
Window(t_mel, state, taps) == [t_mel |-> t_mel, state |-> state, taps |-> taps]
SomeWindows ==
    {Window(16, 2, FALSE), Window(9, 3, FALSE), Window(24, 3, FALSE),
     Window(8, 6, FALSE), Window(9, 1, TRUE), Window(0, 3, FALSE), Window(0, 0, FALSE)}

Recording(label, kind, whole, seconds) ==
    [label |-> label, kind |-> kind, whole |-> whole, seconds |-> seconds]
SomeRecordings ==
    {<< >>,
     << Recording("a", "wav", TRUE, 5), Recording("a", "mp3", TRUE, 7) >>,
     << Recording("a", "wav", TRUE, 60), Recording("b", "mp3", FALSE, 9) >>,
     << Recording("a", "wav", TRUE, 5), Recording("b", "wav", FALSE, 5) >>}
Benched == {<< >>, << 2, TRUE >>, << 3, TRUE >>, << 1, FALSE >>}

-----------------------------------------------------------------------------
(* The inputs of the stateless algorithms.                                 *)
TwoConfigurations ==
    {[D |-> 16, FF |-> 24, X |-> 8, I |-> 12, SPK |-> 4, C |-> 2, F |-> 128,
      K |-> 9, H |-> 8, layers |-> 1, xlayers |-> 2, pe |-> 6],
     [D |-> 6, FF |-> 12, X |-> 8, I |-> 16, SPK |-> 2, C |-> 3, F |-> 40,
      K |-> 5, H |-> 2, layers |-> 2, xlayers |-> 1, pe |-> 6]}
WeightInputs ==
    UNION {{<< "weights", c, key, how >> :
              key \in DOMAIN WeightLists!StateDict(c), how \in {"missing", "shape"}}
           \cup {<< "weights", c, WeightLists!pe, how >> : how \in {"whole", "foreign"}} :
              c \in TwoConfigurations}
\* The shipped model stated in full, its required keys alone, and both with
\* one key left out or changed.
Needed ==
    << "encoder", "d_model" >> :> 512 @@ << "encoder", "feat_in" >> :> 128
    @@ << "encoder", "n_layers" >> :> 17 @@ << "encoder", "n_heads" >> :> 8
    @@ << "encoder", "conv_kernel_size" >> :> 9 @@ << "transformer", "num_layers" >> :> 18
    @@ << "transformer", "hidden_size" >> :> 192 @@ << "transformer", "inner_size" >> :> 768
    @@ << "transformer", "num_attention_heads" >> :> 8
Optional ==
    << "encoder", "ff_expansion_factor" >> :> 4 @@ << "encoder", "subsampling_factor" >> :> 8
    @@ << "encoder", "subsampling_conv_channels" >> :> 256 @@ << "encoder", "xscaling" >> :> 1
    @@ << "encoder", "pos_emb_max_len" >> :> 5000 @@ << "max_num_of_spks" >> :> 4
    @@ << "modules", "num_spks" >> :> 4 @@ << "preprocessor", "sample_rate" >> :> 16000
    @@ << "preprocessor", "window_size" >> :> 25 @@ << "preprocessor", "window_stride" >> :> 10
    @@ << "preprocessor", "n_fft" >> :> 512 @@ << "preprocessor", "features" >> :> 128
    @@ << "preprocessor", "preemph" >> :> 970
    @@ [p \in {<< "modules", k >> : k \in DOMAIN Keys!Scoring} |-> Keys!Scoring[p[2]]]
Full   == Needed @@ Optional
Without(model, path) == [p \in DOMAIN model \ {path} |-> model[p]]
ConfigInputs ==
    {<< "config", model >> : model \in {Needed, Full}
        \cup {Without(Full, path) : path \in DOMAIN Optional}
        \cup UNION {{path :> v @@ Full, path :> v @@ Needed} :
                      path \in DOMAIN Full, v \in {3, 64, 80}}}
\* The shipped model and a small one, and how long the window may be.
ArenaInputs ==
    {<< "arena", c, max_l >> : max_l \in {1, 2, 5, 12, 292, 528}, c \in
        {[D |-> 512, FF |-> 2048, X |-> 192, I |-> 768, SPK |-> 4, K |-> 9, H |-> 8, XH |-> 8,
          layers |-> 17, xlayers |-> 18],
         [D |-> 16, FF |-> 24, X |-> 32, I |-> 33, SPK |-> 3, K |-> 9, H |-> 2, XH |-> 4,
          layers |-> 2, xlayers |-> 1]}}
\* Thresholds apart and equal, pads longer and shorter than the gap closed.
Cut(on, off, pad_on, pad_off, gap, duration) ==
    [frame |-> 2, onset |-> on, offset |-> off, pad_onset |-> pad_on, pad_offset |-> pad_off,
     min_gap |-> gap, min_duration |-> duration]
SpeechInputs ==
    {<< "speech", c, n[1], n[2] >> : n \in {<< 4, {0, 1, 2, 3, 4} >>, << 6, {0, 2, 4} >>},
        c \in {Cut(2, 2, 0, 0, 0, 0), Cut(3, 1, 0, 0, 4, 0), Cut(3, 3, 1, 1, 1, 3),
               Cut(3, 1, 3, 1, 2, 5), Cut(3, 1, 1, 0, 3, 6), Cut(3, 1, 0, 0, 3, 5)}}
RowInputs == {<< "rows", t, n >> : t \in 0 .. 26, n \in -1 .. 27}
Pinned    == << "incl", "{", "ns", "{", "join", "loop", "}" >>
PatchInputs ==
    {<< "patch", text >> : text \in
        {Pinned, << "incl", "{", "{", "ns", "}", "join", "loop" >>,
         << "incl", "{", "ns", "{", "join", "loop", "loop", "}" >>,
         << "{", "ns", "{", "join", "loop", "}" >>}}
Dump(n, spk, values) == [n |-> n, spk |-> spk, values |-> values]
Cell(v)   == Dump(1, 2, << v, 0 >>)
CardDumps ==
    {Dump(1, 2, v) : v \in [1 .. 2 -> {0, 1, 2, Cards!NaN}]}
    \cup {Dump(2, 2, << 0, 0, 0, 1 >>), Dump(2, 2, << 0, 0 >>), Dump(0, 2, << >>),
          Dump(1, 3, << 0, 0, 0 >>)}
CardInputs ==
    {<< "cross", cards, gate >> :
        cards \in [1 .. 2 -> CardDumps] \cup [1 .. 3 -> {Cell(v) : v \in {0, 1, 2, Cards!NaN}}],
        gate \in {0, 1}}
===============================================================================
