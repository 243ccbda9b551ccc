------------------------------ MODULE ModelConfig ------------------------------
(***************************************************************************)
(* The configuration keys of a weight file: what the converter derives      *)
(* from a NeMo model_config.yaml (f32bin_writer.py), what the synthetic     *)
(* bench writes (bench_engine_synth.py), and what the loader makes of them  *)
(* (parse_config of sortformer.cpp), which has a default for every key.     *)
(* Keys lose their common prefix "sortformer."; a float is counted in       *)
(* thousandths, and Guard stands for the one log-zero guard, 2^-24.         *)
(***************************************************************************)
EXTENDS Integers, Sequences, FiniteSets, TLC

Guard == "2^-24"

(* A NeMo configuration is a function from the paths it states to values.  *)
States(model, path)       == path \in DOMAIN model
Given(model, path, other) == IF States(model, path) THEN model[path] ELSE other

Scoring ==
    [spkcache_sil_frames_per_spk |-> 3, pred_score_threshold |-> 250,
     scores_boost_latest |-> 50, sil_threshold |-> 200, strong_boost_rate |-> 750,
     weak_boost_rate |-> 1500, min_pos_scores_rate |-> 500]

\* `enc["..."]` and `tf["..."]` raise without the key: the models state those.
dfw1_config_pairs(model) ==
    LET need(k)   == << "encoder", k >> :> model[<< "encoder", k >>]
        enc(k, d) == << "encoder", k >> :> Given(model, << "encoder", k >>, d)
        pp(k, d)  == << "preprocessor", k >> :> Given(model, << "preprocessor", k >>, d)
        tf(k, of) == << "transformer", k >> :> model[<< "transformer", of >>]
        d_model   == model[<< "encoder", "d_model" >>]
        feat_in   == model[<< "encoder", "feat_in" >>]
    IN  need("d_model") @@ need("n_layers") @@ need("n_heads")
        @@ need("conv_kernel_size") @@ need("feat_in")
        @@ (<< "encoder", "d_ff" >> :>
              d_model * Given(model, << "encoder", "ff_expansion_factor" >>, 4))
        @@ enc("subsampling_factor", 8) @@ enc("subsampling_conv_channels", 256)
        @@ enc("xscaling", 1) @@ enc("pos_emb_max_len", 5000)
        @@ tf("n_layers", "num_layers") @@ tf("hidden_size", "hidden_size")
        @@ tf("inner_size", "inner_size") @@ tf("n_heads", "num_attention_heads")
        @@ (<< "num_speakers" >> :>
              Given(model, << "max_num_of_spks" >>, Given(model, << "modules", "num_spks" >>, 4)))
        @@ pp("sample_rate", 16000) @@ pp("window_size", 25) @@ pp("window_stride", 10)
        @@ pp("n_fft", 512) @@ pp("features", feat_in) @@ pp("preemph", 970)
        @@ (<< "preprocessor", "log_zero_guard" >> :> Guard)
        @@ [p \in {<< "scoring", k >> : k \in DOMAIN Scoring} |->
                Given(model, << "modules", p[2] >>, Scoring[p[2]])]

\* cfg_pairs of the bench: all of them constants but the sizes.
cfg_pairs(c) ==
    << "encoder", "d_model" >> :> c.d_model @@ << "encoder", "n_layers" >> :> c.layers
    @@ << "encoder", "n_heads" >> :> 8 @@ << "encoder", "d_ff" >> :> 4 * c.d_model
    @@ << "encoder", "conv_kernel_size" >> :> 9 @@ << "encoder", "subsampling_factor" >> :> 8
    @@ << "encoder", "subsampling_conv_channels" >> :> c.channels
    @@ << "encoder", "feat_in" >> :> 128 @@ << "encoder", "xscaling" >> :> 1
    @@ << "encoder", "pos_emb_max_len" >> :> 5000
    @@ << "transformer", "n_layers" >> :> c.layers
    @@ << "transformer", "hidden_size" >> :> c.d_model
    @@ << "transformer", "inner_size" >> :> 4 * c.d_model @@ << "transformer", "n_heads" >> :> 8
    @@ << "num_speakers" >> :> 4
    @@ << "preprocessor", "sample_rate" >> :> 16000 @@ << "preprocessor", "window_size" >> :> 25
    @@ << "preprocessor", "window_stride" >> :> 10 @@ << "preprocessor", "n_fft" >> :> 512
    @@ << "preprocessor", "features" >> :> 128 @@ << "preprocessor", "preemph" >> :> 970
    @@ << "preprocessor", "log_zero_guard" >> :> Guard
    @@ [p \in {<< "scoring", k >> : k \in DOMAIN Scoring} |-> Scoring[p[2]]]

-----------------------------------------------------------------------------
(* The loader.  FrontendConfig is compiled in.                             *)
fe == [sample_rate |-> 16000, window_size |-> 25, window_stride |-> 10, n_fft |-> 512,
       preemph |-> 970, log_zero_guard |-> Guard]
n_mels == 128

\* A field of the configuration is named by the key it is read from.
parse_config(file) ==
    LET Read(part, defaults) ==
            [p \in {<< part, k >> : k \in DOMAIN defaults} |-> Given(file, p, defaults[p[2]])]
    IN  Read("encoder", [d_model |-> 512, n_layers |-> 17, n_heads |-> 8, d_ff |-> 2048,
                         conv_kernel_size |-> 9, subsampling_factor |-> 8,
                         subsampling_conv_channels |-> 256, feat_in |-> 128, xscaling |-> 1,
                         pos_emb_max_len |-> 5000])
        @@ Read("transformer", [n_layers |-> 18, hidden_size |-> 192, inner_size |-> 768,
                                n_heads |-> 8])
        @@ (<< "num_speakers" >> :> Given(file, << "num_speakers" >>, 4))
        @@ Read("scoring",
                [spkcache_sil_frames_per_spk |-> 3, pred_score_threshold |-> 250,
                 scores_boost_latest |-> 50, sil_threshold |-> 200, strong_boost_rate |-> 750,
                 weak_boost_rate |-> 1500, min_pos_scores_rate |-> 500])

\* The variants only a GGUF can name; the converter writes none of them.
Variant(file) ==
    \/ Given(file, << "encoder", "use_bias" >>, 1) = 0
    \/ Given(file, << "encoder", "conv_norm" >>, "batch_norm") # "batch_norm"
    \/ Given(file, << "transformer", "pre_ln" >>, 0) # 0

Mismatch(file, c) ==
    \/ \E k \in DOMAIN fe : Given(file, << "preprocessor", k >>, fe[k]) # fe[k]
    \/ LET mels == Given(file, << "preprocessor", "features" >>, c[<< "encoder", "feat_in" >>])
       IN  mels # c[<< "encoder", "feat_in" >>] \/ mels # n_mels

Structural(c) ==
    /\ \A p \in DOMAIN c \ {<< "encoder", "xscaling" >>, << "transformer", "n_heads" >>} :
          p[1] # "scoring" => c[p] > 0
    /\ c[<< "encoder", "d_model" >>] % c[<< "encoder", "n_heads" >>] = 0
    /\ c[<< "transformer", "hidden_size" >>] % c[<< "transformer", "n_heads" >>] = 0

Refused(file) ==
    LET c == parse_config(file) IN Variant(file) \/ Mismatch(file, c) \/ ~Structural(c)

-----------------------------------------------------------------------------
(* A NeMo configuration that is converted and loaded is the one the engine *)
(* runs: what it states arrives at its field, what it leaves out is what a *)
(* file without configuration would mean, and one whose front end is not   *)
(* the compiled one is refused ("this engine's FE is not configurable").   *)
(* Converter and bench write the same keys, and the loader reads all.      *)
ConfigArrives(model) ==
    LET file == dfw1_config_pairs(model)
        c    == parse_config(file)
        none == parse_config(<< >>)
        Arrives(path, key) == c[key] = IF States(model, path) THEN model[path] ELSE none[key]
        front == {"sample_rate", "window_size", "window_stride", "n_fft", "preemph"}
        bench == cfg_pairs([d_model |-> 64, layers |-> 2, channels |-> 16])
    IN  /\ DOMAIN file = DOMAIN bench
        /\ DOMAIN file = DOMAIN c \cup {<< "preprocessor", k >> : k \in DOMAIN fe \cup {"features"}}
        /\ ~Refused(bench)
        /\ \A p \in DOMAIN c : p[1] = "encoder" /\ p[2] # "d_ff" => Arrives(p, p)
        /\ \A k \in DOMAIN Scoring : Arrives(<< "modules", k >>, << "scoring", k >>)
        /\ Arrives(<< "transformer", "num_layers" >>, << "transformer", "n_layers" >>)
        /\ Arrives(<< "transformer", "hidden_size" >>, << "transformer", "hidden_size" >>)
        /\ Arrives(<< "transformer", "inner_size" >>, << "transformer", "inner_size" >>)
        /\ Arrives(<< "transformer", "num_attention_heads" >>, << "transformer", "n_heads" >>)
        /\ c[<< "encoder", "d_ff" >>] % c[<< "encoder", "d_model" >>] = 0
        /\ \/ ~States(model, << "max_num_of_spks" >>)
           \/ Arrives(<< "max_num_of_spks" >>, << "num_speakers" >>)
        /\ Refused(file) <=>
              \/ \E k \in front : Given(model, << "preprocessor", k >>, fe[k]) # fe[k]
              \/ Given(model, << "preprocessor", "features" >>, n_mels) # n_mels
              \/ model[<< "encoder", "feat_in" >>] # n_mels
              \/ ~Structural(c)
=============================================================================
