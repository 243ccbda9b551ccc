------------------------------- MODULE Weights --------------------------------
(***************************************************************************)
(* The weights: the writer of the DFW1 container (f32bin_writer.py), the    *)
(* synthetic model of bench_engine_synth.py, and the loader that parses the *)
(* configuration, binds every slot by name and shape and refuses what it    *)
(* does not expect (sortformer.cpp).  Three lists of the tensor names are    *)
(* kept by hand, one per program.  A name is the tuple of its parts, a      *)
(* tensor its shape and the checkpoint key it comes from.                   *)
(***************************************************************************)
EXTENDS Naturals, Sequences, FiniteSets, FiniteSetsExt, SequencesExt, TLC

Shaped(names, shape) == [n \in names |-> shape]
Join(fs) == FoldLeft(LAMBDA f, g : f @@ g, << >>, fs)
\* A module with a weight of this shape, and its bias along the first axis.
Linear(p, shape) == (p \o << "weight" >> :> shape) @@ (p \o << "bias" >> :> << shape[1] >>)
Linears(p, table) == Join([k \in DOMAIN table |-> Linear(p \o table[k][1], table[k][2])])
PerLayer(n, Table(_)) == Join([i \in 1 .. n |-> Table(i)])

\* subsampling_freq_bins, factor 8: three convolutions with stride 2.
freq_bins(len) == LET Half(x) == ((x - 1) \div 2) + 1 IN Half(Half(Half(len)))
n_fft == 512

-----------------------------------------------------------------------------
(* The slots of the engine, with their shapes.                             *)
StemSlots(c) ==
    LET p == << "encoder", "pre_encode" >> IN
    Linears(p, << << << "conv.0" >>, << c.C, 3, 3 >> >>, << << "conv.2" >>, << c.C, 3, 3 >> >>,
                  << << "conv.3" >>, << c.C, c.C >> >>,  << << "conv.5" >>, << c.C, 3, 3 >> >>,
                  << << "conv.6" >>, << c.C, c.C >> >>,
                  << << "out" >>, << c.D, c.C * freq_bins(c.F) >> >> >>)

ConformerSlots(c, i) ==
    LET p == << "encoder", "layers", i >> IN
    Linears(p, << << << "norm_feed_forward1" >>, << c.D >> >>,
                  << << "feed_forward1", "linear1" >>, << c.FF, c.D >> >>,
                  << << "feed_forward1", "linear2" >>, << c.D, c.FF >> >>,
                  << << "norm_self_att" >>, << c.D >> >>,
                  << << "self_attn", "linear_q" >>, << c.D, c.D >> >>,
                  << << "self_attn", "linear_k" >>, << c.D, c.D >> >>,
                  << << "self_attn", "linear_v" >>, << c.D, c.D >> >>,
                  << << "self_attn", "linear_out" >>, << c.D, c.D >> >>,
                  << << "norm_conv" >>, << c.D >> >>,
                  << << "conv", "pointwise_conv1" >>, << 2 * c.D, c.D >> >>,
                  << << "conv", "depthwise_conv" >>, << c.D, c.K >> >>,
                  << << "conv", "batch_norm" >>, << c.D >> >>,
                  << << "conv", "pointwise_conv2" >>, << c.D, c.D >> >>,
                  << << "norm_feed_forward2" >>, << c.D >> >>,
                  << << "feed_forward2", "linear1" >>, << c.FF, c.D >> >>,
                  << << "feed_forward2", "linear2" >>, << c.D, c.FF >> >>,
                  << << "norm_out" >>, << c.D >> >> >>)
    @@ Shaped({p \o << "self_attn", "linear_pos", "weight" >>}, << c.D, c.D >>)
    @@ Shaped({p \o << "self_attn", b >> : b \in {"pos_bias_u", "pos_bias_v"}},
              << c.H, c.D \div c.H >>)
    @@ Shaped({p \o << "conv", "batch_norm", r >> : r \in {"running_mean", "running_var"}},
              << c.D >>)

TransformerSlots(c, i) ==
    LET p == << "transformer", "layers", i >>
        sub == << "query_net", "key_net", "value_net", "out_projection" >> IN
    Linears(p, [k \in 1 .. 4 |-> << << "first_sub_layer", sub[k] >>, << c.X, c.X >> >>]
               \o << << << "layer_norm_1" >>, << c.X >> >>,
                     << << "second_sub_layer", "dense_in" >>, << c.I, c.X >> >>,
                     << << "second_sub_layer", "dense_out" >>, << c.X, c.I >> >>,
                     << << "layer_norm_2" >>, << c.X >> >> >>)

collect_slots(c) ==
    StemSlots(c)
    @@ PerLayer(c.layers, LAMBDA i : ConformerSlots(c, i))
    @@ Linear(<< "encoder_proj" >>, << c.X, c.D >>)
    @@ PerLayer(c.xlayers, LAMBDA i : TransformerSlots(c, i))
    @@ Linear(<< "head", "first_hidden_to_hidden" >>, << c.X, c.X >>)
    @@ Linear(<< "head", "single_hidden_to_spks" >>, << c.SPK, c.X >>)
    @@ (<< "preprocessor", "fb" >> :> << c.F, (n_fft \div 2) + 1 >>)

-----------------------------------------------------------------------------
(* The names the writer expects.                                           *)
Both(p, modules) == {p \o m \o << w >> : m \in modules, w \in {"weight", "bias"}}
expected_dfw1_tensor_names(c) ==
    Both(<< "encoder", "pre_encode" >>,
         {<< "conv.0" >>, << "conv.2" >>, << "conv.3" >>, << "conv.5" >>, << "conv.6" >>,
          << "out" >>})
    \cup UNION {LET p == << "encoder", "layers", i >> IN
                Both(p, {<< "norm_feed_forward1" >>, << "norm_self_att" >>, << "norm_conv" >>,
                         << "norm_feed_forward2" >>, << "norm_out" >>}
                        \cup {<< f, l >> : f \in {"feed_forward1", "feed_forward2"},
                                           l \in {"linear1", "linear2"}}
                        \cup {<< "self_attn", l >> : l \in {"linear_q", "linear_k", "linear_v",
                                                            "linear_out"}}
                        \cup {<< "conv", l >> : l \in {"pointwise_conv1", "depthwise_conv",
                                                       "batch_norm", "pointwise_conv2"}})
                \cup {p \o << "self_attn", "linear_pos", "weight" >>,
                      p \o << "self_attn", "pos_bias_u" >>, p \o << "self_attn", "pos_bias_v" >>,
                      p \o << "conv", "batch_norm", "running_mean" >>,
                      p \o << "conv", "batch_norm", "running_var" >>} : i \in 1 .. c.layers}
    \cup Both(<< >>, {<< "encoder_proj" >>})
    \cup UNION {Both(<< "transformer", "layers", i >>,
                     {<< "first_sub_layer", l >> : l \in {"query_net", "key_net", "value_net",
                                                          "out_projection"}}
                     \cup {<< "second_sub_layer", l >> : l \in {"dense_in", "dense_out"}}
                     \cup {<< "layer_norm_1" >>, << "layer_norm_2" >>}) : i \in 1 .. c.xlayers}
    \cup Both(<< "head" >>, {<< "first_hidden_to_hidden" >>, << "single_hidden_to_spks" >>})
    \cup {<< "preprocessor", "fb" >>}

\* shapes_for: the synthetic model has 128 mel bands, kernels of 9, 8 heads; a
\* convolution keeps the axes of size 1.
shapes_for(c) ==
    LET D == c.D  X == c.X
        stem == << "encoder", "pre_encode" >>
        dw == << c.C, 1, 3, 3 >>  pw == << c.C, c.C, 1, 1 >>
        Layer(i) ==
            LET p == << "encoder", "layers", i >>
                L(names, shape) == Join([k \in DOMAIN names |-> Linear(p \o names[k], shape)]) IN
            L(<< << "norm_feed_forward1" >>, << "norm_self_att" >>, << "norm_conv" >>,
                 << "conv", "batch_norm" >>, << "norm_feed_forward2" >>, << "norm_out" >> >>,
              << D >>)
            @@ L(<< << "feed_forward1", "linear1" >>, << "feed_forward2", "linear1" >> >>,
                 << c.FF, D >>)
            @@ L(<< << "feed_forward1", "linear2" >>, << "feed_forward2", "linear2" >> >>,
                 << D, c.FF >>)
            @@ L(<< << "self_attn", "linear_q" >>, << "self_attn", "linear_k" >>,
                    << "self_attn", "linear_v" >>, << "self_attn", "linear_out" >>,
                    << "conv", "pointwise_conv2" >> >>, << D, D >>)
            @@ L(<< << "conv", "pointwise_conv1" >> >>, << 2 * D, D >>)
            @@ L(<< << "conv", "depthwise_conv" >> >>, << D, 1, 9 >>)
            @@ Shaped({p \o << "self_attn", "linear_pos", "weight" >>}, << D, D >>)
            @@ Shaped({p \o << "self_attn", "pos_bias_u" >>, p \o << "self_attn", "pos_bias_v" >>},
                      << 8, D \div 8 >>)
            @@ Shaped({p \o << "conv", "batch_norm", "running_mean" >>,
                       p \o << "conv", "batch_norm", "running_var" >>}, << D >>)
        Block(i) ==
            LET p == << "transformer", "layers", i >>
                L(names, shape) == Join([k \in DOMAIN names |-> Linear(p \o names[k], shape)]) IN
            L(<< << "layer_norm_1" >>, << "layer_norm_2" >> >>, << X >>)
            @@ L(<< << "first_sub_layer", "query_net" >>, << "first_sub_layer", "key_net" >>,
                    << "first_sub_layer", "value_net" >>,
                    << "first_sub_layer", "out_projection" >> >>, << X, X >>)
            @@ L(<< << "second_sub_layer", "dense_in" >> >>, << c.I, X >>)
            @@ L(<< << "second_sub_layer", "dense_out" >> >>, << X, c.I >>)
    IN  Linears(stem, << << << "conv.0" >>, dw >>, << << "conv.2" >>, dw >>,
                         << << "conv.3" >>, pw >>, << << "conv.5" >>, dw >>,
                         << << "conv.6" >>, pw >>,
                         << << "out" >>, << D, c.C * freq_bins(128) >> >> >>)
        @@ PerLayer(c.layers, Layer) @@ PerLayer(c.xlayers, Block)
        @@ Linear(<< "encoder_proj" >>, << X, D >>)
        @@ Linear(<< "head", "first_hidden_to_hidden" >>, << X, X >>)
        @@ Linear(<< "head", "single_hidden_to_spks" >>, << c.SPK, X >>)
        @@ (<< "preprocessor", "fb" >> :> << 128, 257 >>)

-----------------------------------------------------------------------------
(* From the checkpoint's keys to the container's names.                    *)
NoName == << >>
SkipExact == {<< "encoder", "pos_enc", "pe" >>, << "preprocessor", "featurizer", "fb" >>,
              << "preprocessor", "featurizer", "window" >>,
              << "sortformer_modules", "hidden_to_spks", "weight" >>,
              << "sortformer_modules", "hidden_to_spks", "bias" >>}

remap(key) ==
    IF \/ key \in SkipExact \/ key[1] \in {"spec_augmentation", "loss"}
       \/ Last(key) = "num_batches_tracked"
      THEN NoName
    ELSE CASE key[1] = "sortformer_modules" /\ key[2] = "encoder_proj" -> Tail(key)
           [] key[1] = "sortformer_modules" /\ key[2] # "encoder_proj" ->
                << "head" >> \o Tail(key)
           [] key[1] = "transformer_encoder" -> << "transformer" >> \o Tail(key)
           [] key[1] = "encoder" -> key
           [] OTHER -> NoName

\* A state_dict is a function from keys to shapes.  The filterbank comes with an
\* axis of size 1 in front, which is squeezed.
nemo_state_dict_to_dfw1_tensors(sd) ==
    LET fb   == << "preprocessor", "featurizer", "fb" >>
        kept == {k \in DOMAIN sd : remap(k) # NoName}
    IN  {[name |-> remap(k), dims |-> sd[k], from |-> k] : k \in kept}
        \cup (IF fb \in DOMAIN sd
                THEN {[name |-> << "preprocessor", "fb" >>, dims |-> Tail(sd[fb]), from |-> fb]}
                ELSE {})

\* _ensure_dfw1: what it converts must be what is expected, no less, no more.
Converts(c, sd) ==
    {t.name : t \in nemo_state_dict_to_dfw1_tensors(sd)} = expected_dfw1_tensor_names(c)

-----------------------------------------------------------------------------
(* The loader: a file is [route, tensors].                                 *)
\* Axes of size 1 are stripped from the file's shapes; the slots' are as they are.
canonical(shape) == SelectSeq(shape, LAMBDA d : d # 1)

pe == << "encoder", "pos_enc", "pe" >>
PeRule(c, file) ==
    LET has == {t \in file.tensors : t.name = pe} IN
    /\ \A t \in has : canonical(t.dims) = << (2 * c.pe) - 1, c.D >>
    /\ has = {} => file.route # "GGUF"

Covered(c, file) ==
    LET names == {t.name : t \in file.tensors} IN
    /\ DOMAIN collect_slots(c) \subseteq names
    /\ names \subseteq DOMAIN collect_slots(c) \cup {pe}

ShapesFit(c, file) ==
    LET slots == collect_slots(c) IN
    \A t \in file.tensors :
        t.name \in DOMAIN slots => canonical(t.dims) = slots[t.name]

Loads(c, file) == Covered(c, file) /\ ShapesFit(c, file) /\ PeRule(c, file)
\* What each slot is bound to.
Bound(c, file) ==
    [n \in DOMAIN collect_slots(c) |-> (CHOOSE t \in file.tensors : t.name = n).from]

-----------------------------------------------------------------------------
(* The checkpoint of the model, as NeMo names it.                          *)
NemoKey(n) ==
    CASE n[1] = "encoder_proj" -> << "sortformer_modules" >> \o n
      [] n[1] = "head"         -> << "sortformer_modules" >> \o Tail(n)
      [] n[1] = "transformer"  -> << "transformer_encoder" >> \o Tail(n)
      [] n[1] = "preprocessor" -> << "preprocessor", "featurizer", "fb" >>
      [] OTHER                 -> n
StateDict(c) ==
    LET slots == collect_slots(c) IN
    [k \in {NemoKey(n) : n \in DOMAIN slots} |->
        LET n == CHOOSE n \in DOMAIN slots : NemoKey(n) = k
        IN  IF n[1] = "preprocessor" THEN << 1 >> \o slots[n] ELSE slots[n]]
    @@ Shaped(SkipExact \cup {<< "encoder", "layers", i, "conv", "batch_norm",
                                 "num_batches_tracked" >> : i \in 1 .. c.layers}, << 3 >>)

\* A state_dict with one thing wrong with it.
Damaged(sd, key, how) ==
    CASE how = "whole"   -> sd
      [] how = "missing" -> [k \in DOMAIN sd \ {key} |-> sd[k]]
      [] how = "foreign" -> sd @@ (<< "encoder", "adapter", "weight" >> :> << 3 >>)
      [] how = "shape"   -> [sd EXCEPT ![key] = Append(@, 5)]

(* The three lists name the same tensors, and the synthetic model has the    *)
(* shapes the engine expects once axes of size 1 are stripped.  (A head of   *)
(* one dimension or one speaker is such an axis, which the slots keep: the   *)
(* configurations have neither.)                                             *)
ThreeListsAgree(c) ==
    LET slots == collect_slots(c) IN
    /\ expected_dfw1_tensor_names(c) = DOMAIN slots
    /\ c.F = 128 /\ c.K = 9 /\ c.H = 8 =>
         /\ DOMAIN shapes_for(c) = DOMAIN slots
         /\ \A n \in DOMAIN slots : canonical(shapes_for(c)[n]) = slots[n]

(* A checkpoint that is whole converts and loads; one that misses a tensor   *)
(* or has a foreign one does not convert; one with a wrong shape does not    *)
(* load; and every slot is bound to the checkpoint's own tensor of that      *)
(* name.  The container has no position table, and needs none.               *)
ConvertedIsBound(c, key, how) ==
    LET sd   == Damaged(StateDict(c), key, how)
        file == [route |-> "DFW1", tensors |-> nemo_state_dict_to_dfw1_tensors(sd)]
        used == remap(key) # NoName \/ key = << "preprocessor", "featurizer", "fb" >>
    IN  /\ Converts(c, sd) <=> how # "foreign" /\ (used => how # "missing")
        /\ Converts(c, sd) =>
             /\ Loads(c, file) <=> (used => how # "shape")
             /\ LET bound == Bound(c, file)
                IN  \A n \in DOMAIN bound : bound[n] = NemoKey(n)

(* A file with anything but the slots, the position table aside, is refused  *)
(* ("name typo or foreign model?"), and the GGUF route needs that table.     *)
ForeignIsRefused(c) ==
    LET slots == collect_slots(c)
        own   == {[name |-> n, dims |-> slots[n], from |-> n] : n \in DOMAIN slots}
        table == [name |-> pe, dims |-> << (2 * c.pe) - 1, c.D >>, from |-> pe]
        alien == [name |-> << "encoder", "adapter", "weight" >>, dims |-> << 3 >>, from |-> pe]
    IN  /\ Loads(c, [route |-> "GGUF", tensors |-> own \cup {table}])
        /\ ~Loads(c, [route |-> "GGUF", tensors |-> own])
        /\ \A r \in {"GGUF", "DFW1"} :
             ~Loads(c, [route |-> r, tensors |-> own \cup {table, alien}])
=============================================================================
