------------------------------- MODULE Network --------------------------------
(***************************************************************************)
(* The network as five programs transcribe it: the engine (subsampling,    *)
(* mha, conv, sortformer.cpp), its device stem (stem_cuda.cpp), its numpy  *)
(* mirror (mirror_sortformer.py) and the stage 2 gates K1, K2 and K3.      *)
(* What is modelled is which inputs meet in which output: a value is the   *)
(* set of the paths that lead to it, a path the taps taken on the way.  A  *)
(* whole layer is a term: which operation takes which tensors and values.  *)
(* Two transcriptions that reach every output by the same paths differ at  *)
(* most by rounding.                                                       *)
(***************************************************************************)
EXTENDS Integers, Sequences, SequencesExt, FiniteSets

-----------------------------------------------------------------------------
(* The stem.  A row is a set of paths; the empty set is a row of zeros.    *)
Zero   == {}
Mel(t) == [r \in 1 .. t |-> {<< r >>}]
ool(x) == (x + 2 - 3) \div 2 + 1
Pad(x) == << Zero >> \o x \o << Zero >>

\* One output row of stage k from its three taps, with the bias of the stage.
Mix(k, taps) == {<< k >>} \cup UNION {{<< k, j >> \o p : p \in taps[j]} : j \in 1 .. 3}

\* Three strided copies of the padded rows, one per tap, side by side.
conv_stage(k, x) ==
    LET cols == [h \in 0 .. 2 |-> [r \in 1 .. ool(Len(x)) |-> Pad(x)[h + 2 * (r - 1) + 1]]]
    IN  [r \in 1 .. ool(Len(x)) |-> Mix(k, << cols[0][r], cols[1][r], cols[2][r] >>)]

\* A patch of three padded rows per output row.
dw_conv2d(k, x) == [r \in 1 .. ool(Len(x)) |-> Mix(k, SubSeq(Pad(x), 2 * r - 1, 2 * r + 1))]

\* The input row of every tap, skipped where there is none.
conv2d_relu(k, x) ==
    LET At(hi) == IF hi < 0 \/ hi >= Len(x) THEN Zero ELSE x[hi + 1]
    IN  [r \in 1 .. ool(Len(x)) |->
            Mix(k, [kh \in 1 .. 3 |-> At((r - 1) * 2 - 1 + (kh - 1))])]

zero_time_rows(x, l) == [r \in DOMAIN x |-> IF r > l THEN Zero ELSE x[r]]

\* The last Linear; a row of zeros comes out as the bias.
Out(rows) == [r \in DOMAIN rows |-> {<< 0 >>} \cup {<< 0 >> \o p : p \in rows[r]}]
Fill == {<< 0 >>}

Stages(Conv(_, _), t, feat_len) ==
    LET l1 == ool(feat_len)  l2 == ool(l1)  l3 == ool(l2)
        s0 == zero_time_rows(Conv(1, zero_time_rows(Mel(t), feat_len)), l1)
        s1 == zero_time_rows(Conv(2, s0), l2)
        s2 == zero_time_rows(Conv(3, s1), l3)
    IN  Out(s2)

\* K3 is always given the length; the other two take the window without one.
pre_encode(t, feat_len)          == Stages(conv_stage, t, feat_len)
subsampling(t, feat_len)         == Stages(dw_conv2d, t,
    IF feat_len <= 0 \/ feat_len > t THEN t ELSE feat_len)
subsampling_forward(t, feat_len) == Stages(conv2d_relu, t,
    IF feat_len <= 0 \/ feat_len > t THEN t ELSE feat_len)

(* stem_cuda.cpp: the rows of every stage lie in a buffer as long as the    *)
(* longest window, after them what an earlier, longer window left there.   *)
(* The im2col of the first stage masks the input as it gathers it; the     *)
(* rows past the length of a stage are cleared, those past the window not. *)
Stale == {<< "stale" >>}
\* Mutant: a stage reads as far as the buffer goes.
device_stage_unbounded(k, buffer, in, out, l) ==
    [r \in 1 .. out |-> IF r > l THEN Zero ELSE
        Mix(k, [kh \in 1 .. 3 |-> LET hi == (r - 1) * 2 - 1 + (kh - 1) IN
            IF hi \in 0 .. Len(buffer) - 1 THEN buffer[hi + 1] ELSE Zero])]
    \o [r \in 1 .. Len(buffer) - out |-> Stale]
device_stage(k, buffer, in, out, l) ==
    [r \in 1 .. out |-> IF r > l THEN Zero ELSE
        Mix(k, [kh \in 1 .. 3 |-> LET hi == (r - 1) * 2 - 1 + (kh - 1) IN
            IF hi \in 0 .. in - 1 THEN buffer[hi + 1] ELSE Zero])]
    \o [r \in 1 .. Len(buffer) - out |-> Stale]

stem_forward(t, feat_len) ==
    LET fl == IF feat_len <= 0 \/ feat_len > t THEN t ELSE feat_len
        l1 == ool(fl)  l2 == ool(l1)  l3 == ool(l2)
        t1 == ool(t)   t2 == ool(t1)  t3 == ool(t2)
        dmel == Mel(t) \o [r \in 1 .. 8 |-> Stale]
        s0 == device_stage(1, dmel, fl, t1, l1)
        s1 == device_stage(2, s0, t1, t2, l2)
        s2 == device_stage(3, s1, t2, t3, l3)
    IN  Out(SubSeq(s2, 1, t3))

-----------------------------------------------------------------------------
(* The table of relative positions: row r of a table for l frames is       *)
(* position l - 1 - r.  Python's rows are counted from 0 here too.         *)
relpos_table(l) == [r \in 0 .. 2 * l - 2 |-> l - 1 - r]

\* The slice of a stored table the engine copies, and the mirror's.
pe_rows(max) == 2 * max - 1
PeSlice(max, l) ==
    LET center == pe_rows(max) \div 2 + 1
    IN  [r \in 0 .. 2 * l - 2 |-> relpos_table(max)[center - l + r]]
MirrorSlice(max, l) ==
    [r \in 0 .. 2 * l - 2 |-> relpos_table(max)[max - l + r]]

(* Attention.  bd of a query and a table row is which bias it carries and  *)
(* which position; a score is its content term and its position term.      *)
Bd(bias, pe)  == [q \in 0 .. (Cardinality(DOMAIN pe) - 1) \div 2 |->
                     [r \in DOMAIN pe |-> << bias, q, pe[r] >>]]
Score(q, k, bias, position) == << << bias, q, k >>, position >>
Frames(l) == 0 .. l - 1

\* The engine: rel_shift stores key-major, attention reads it transposed.
rel_shift_forward(bd, l) == [k \in Frames(l) |-> [j \in Frames(l) |-> bd[j][k - j + l - 1]]]
EngineScores(l, pe) ==
    LET shifted == rel_shift_forward(Bd("v", pe), l)
    IN  [i \in Frames(l) |-> [j \in Frames(l) |-> Score(i, j, "u", shifted[j][i])]]

\* K2: query-major, S[q, k] = bd[q, k - q + T - 1].
shift_torch(bd, l) == [q \in Frames(l) |-> [k \in Frames(l) |-> bd[q][k - q + l - 1]]]
K2Scores(l, pe) ==
    LET shifted == shift_torch(Bd("v", pe), l)
    IN  [q \in Frames(l) |-> [k \in Frames(l) |-> Score(q, k, "u", shifted[q][k])]]

\* The mirror adds pos_bias_u to the query of both terms.
MirrorScores(l, pe) ==
    LET bd == Bd("u", pe)
    IN  [i \in Frames(l) |-> [j \in Frames(l) |-> Score(i, j, "u", bd[i][j - i + l - 1])]]

\* NeMo: a zero column before the 2l - 1 of bd, the whole read again in rows
\* of l, its first row dropped, what is left read in rows of 2l - 1.
rel_shift(bd, l) ==
    [q \in Frames(l) |-> [k \in Frames(l) |->
        LET n == q * (2 * l - 1) + k + l IN bd[n \div (2 * l)][(n % (2 * l)) - 1]]]
NeMoScores(l) ==
    LET shifted == rel_shift(Bd("v", relpos_table(l)), l)
    IN  [q \in Frames(l) |-> [k \in Frames(l) |-> Score(q, k, "u", shifted[q][k])]]

-----------------------------------------------------------------------------
(* The depthwise convolution of a conformer layer: the frame under each    *)
(* tap, for the taps that have one.                                        *)
conv1d_depthwise(l, kernel) ==
    LET pad == (kernel - 1) \div 2
    IN  [t \in Frames(l) |-> {<< k, t - pad + k >> : k \in
            {k \in 0 .. kernel - 1 : t - pad + k \in Frames(l)}}]
\* K2 gathers windows of the padded rows; a tap on the padding adds nothing.
K2Windows(l, kernel) ==
    LET pad == (kernel - 1) \div 2
        gp  == [i \in 0 .. l + 2 * pad - 1 |-> IF i - pad \in Frames(l) THEN {i - pad} ELSE {}]
    IN  [t \in Frames(l) |-> {<< k, f >> : k \in 0 .. kernel - 1, f \in Frames(l)} \cap
            UNION {{<< k, f >> : f \in gp[t + k]} : k \in 0 .. kernel - 1}]

-----------------------------------------------------------------------------
(* Layers as terms: an operation, its tensors, its arguments.  Two layers   *)
(* with the same term compute the same up to rounding.  A tensor is its     *)
(* name in the checkpoint, without the number of the layer.                 *)
Term(op, w, args) == << op, w, args >>
Both(p)    == << p \o << "weight" >>, p \o << "bias" >> >>
Bare(p)    == << p \o << "weight" >>, << >> >>
Lin(w, x)  == Term("linear", w, << x >>)
Norm(w, x) == Term("layernorm", w, << x >>)
Of(op, x)  == Term(op, << >>, << x >>)
Plus(x, y) == Term("plus", << >>, {x, y})
Dot(x, y)  == Term("dot", << >>, << x, y >>)
Biased(b, x) == Term("bias", b, << x >>)
BatchNorm(p) == << p \o << "weight" >>, p \o << "bias" >>, p \o << "running_mean" >>,
                   p \o << "running_var" >> >>
X   == Term("x", << >>, << >>)
Pos == Term("pos_emb", << >>, << >>)

Softmax(scores) == Term("softmax", << >>, scores)
RelAttention(q, k, v, r, bu, bv) ==
    Dot(Softmax(<< Dot(Biased(bu, q), k), Dot(Biased(bv, q), r) >>), v)
Attention(q, k, v) == Dot(Softmax(<< Dot(q, k) >>), v)

\* The slots the loader fills, one pair of tensors each.
ConformerLayerWeights ==
    LET Ff(m, i) == Both(<< m, i >>)  Attn(i) == Both(<< "self_attn", i >>)
    IN [n_ff1 |-> Both(<< "norm_feed_forward1" >>),
        ff1_1 |-> Ff("feed_forward1", "linear1"), ff1_2 |-> Ff("feed_forward1", "linear2"),
        n_sa |-> Both(<< "norm_self_att" >>), q |-> Attn("linear_q"), k |-> Attn("linear_k"),
        v |-> Attn("linear_v"), pos |-> Bare(<< "self_attn", "linear_pos" >>),
        bu |-> << "self_attn", "pos_bias_u" >>, bv |-> << "self_attn", "pos_bias_v" >>,
        out |-> Attn("linear_out"), n_conv |-> Both(<< "norm_conv" >>),
        pw1 |-> Both(<< "conv", "pointwise_conv1" >>),
        dw |-> Both(<< "conv", "depthwise_conv" >>), bn |-> BatchNorm(<< "conv", "batch_norm" >>),
        pw2 |-> Both(<< "conv", "pointwise_conv2" >>), n_ff2 |-> Both(<< "norm_feed_forward2" >>),
        ff2_1 |-> Ff("feed_forward2", "linear1"), ff2_2 |-> Ff("feed_forward2", "linear2"),
        n_out |-> Both(<< "norm_out" >>)]
TransformerBlockWeights ==
    LET Sub(m, i) == Both(<< m, i >>)
    IN [q |-> Sub("first_sub_layer", "query_net"), k |-> Sub("first_sub_layer", "key_net"),
        v |-> Sub("first_sub_layer", "value_net"), o |-> Sub("first_sub_layer", "out_projection"),
        ln1 |-> Both(<< "layer_norm_1" >>), f1 |-> Sub("second_sub_layer", "dense_in"),
        f2 |-> Sub("second_sub_layer", "dense_out"), ln2 |-> Both(<< "layer_norm_2" >>)]
HeadWeights == [hidden |-> Both(<< "first_hidden_to_hidden" >>),
                spks |-> Both(<< "single_hidden_to_spks" >>)]

(* The engine on the host.                                                  *)
conformer_ff_forward(x, l1, l2) == Lin(l2, Of("silu", Lin(l1, x)))
relpos_mha_forward(x, pos, w) ==
    Lin(w.out, RelAttention(Lin(w.q, x), Lin(w.k, x), Lin(w.v, x), Lin(w.pos, pos), w.bu, w.bv))
conformer_conv_forward(x, w) ==
    LET d == Term("depthwise", w.dw, << Of("glu", Lin(w.pw1, x)) >>)
    IN  Lin(w.pw2, Of("silu", Term("batchnorm", w.bn, << d >>)))
conformer_layer_forward(x, pos, w) ==
    LET r1 == Plus(x, Of("half", conformer_ff_forward(Norm(w.n_ff1, x), w.ff1_1, w.ff1_2)))
        r2 == Plus(r1, relpos_mha_forward(Norm(w.n_sa, r1), pos, w))
        r3 == Plus(r2, conformer_conv_forward(Norm(w.n_conv, r2), w))
        r4 == Plus(r3, Of("half", conformer_ff_forward(Norm(w.n_ff2, r3), w.ff2_1, w.ff2_2)))
    IN  Norm(w.n_out, r4)
transformer_block_forward(x, w) ==
    LET h1 == Norm(w.ln1, Plus(Lin(w.o, Attention(Lin(w.q, x), Lin(w.k, x), Lin(w.v, x))), x))
    IN  Norm(w.ln2, Plus(Lin(w.f2, Of("relu", Lin(w.f1, h1))), h1))
diar_head_forward(x, w) ==
    Of("sigmoid", Lin(w.spks, Of("relu", Lin(w.hidden, Of("relu", x)))))

(* The engine on the device: a layer is a run of kernels over the buffers   *)
(* of one scratch, << destination, operation, tensors, sources >> each; a   *)
(* buffer holds what was written last, or what an earlier layer left.       *)
Applied(op, w, a) ==
    CASE op = "copy"      -> a[1]
      [] op = "plus"      -> Plus(a[1], a[2])
      [] op = "plus half" -> Plus(a[1], Of("half", a[2]))
      [] op = "dwconv_bn_silu" ->
            Of("silu", Term("batchnorm", w[2], << Term("depthwise", w[1], a) >>))
      [] OTHER            -> Term(op, w, a)
Launch(b, step) ==
    [b EXCEPT ![step[1]] =
        Applied(step[2], step[3], [i \in DOMAIN step[4] |-> b[step[4][i]]])]
Buffers == {"x", "pos", "y", "res", "tmp", "attn", "ff_up", "pw1", "glu_out", "dw_out", "dq",
            "dkbuf", "dv", "dp", "qu", "qv", "ac", "bd", "probs", "otmp", "ctx", "attn_out",
            "h1_ln", "ff_out", "ff_mid", "dhead", "dlogits"}
Device(program) ==
    FoldLeft(Launch, [b \in Buffers |-> CASE b = "x" -> X [] b = "pos" -> Pos
                                          [] OTHER -> Term("stale", << >>, << >>)], program)

gpu_ff(n, l1, l2) ==
    << << "tmp", "layernorm", n, << "res" >> >>,   << "ff_up", "linear", l1, << "tmp" >> >>,
       << "ff_up", "silu", << >>, << "ff_up" >> >>, << "tmp", "linear", l2, << "ff_up" >> >>,
       << "res", "plus half", << >>, << "res", "tmp" >> >> >>
gpu_relpos_mha(x, pos, y, w) ==
    << << "dq", "linear", w.q, << x >> >>,     << "dkbuf", "linear", w.k, << x >> >>,
       << "dv", "linear", w.v, << x >> >>,     << "dp", "linear", w.pos, << pos >> >>,
       << "qu", "copy", << >>, << "dq" >> >>,  << "qu", "bias", w.bu, << "qu" >> >>,
       << "qv", "copy", << >>, << "dq" >> >>,  << "qv", "bias", w.bv, << "qv" >> >>,
       << "ac", "dot", << >>, << "qu", "dkbuf" >> >>, << "bd", "dot", << >>, << "qv", "dp" >> >>,
       << "probs", "softmax", << >>, << "ac", "bd" >> >>,
       << "otmp", "dot", << >>, << "probs", "dv" >> >>, << y, "linear", w.out, << "otmp" >> >> >>
gpu_conformer_layer(w) ==
    << << "res", "copy", << >>, << "x" >> >> >>
    \o gpu_ff(w.n_ff1, w.ff1_1, w.ff1_2)
    \o << << "tmp", "layernorm", w.n_sa, << "res" >> >> >>
    \o gpu_relpos_mha("tmp", "pos", "attn", w)
    \o << << "res", "plus", << >>, << "res", "attn" >> >>,
          << "tmp", "layernorm", w.n_conv, << "res" >> >>,
          << "pw1", "linear", w.pw1, << "tmp" >> >>, << "glu_out", "glu", << >>, << "pw1" >> >>,
          << "dw_out", "dwconv_bn_silu", << w.dw, w.bn >>, << "glu_out" >> >>,
          << "tmp", "linear", w.pw2, << "dw_out" >> >>,
          << "res", "plus", << >>, << "res", "tmp" >> >> >>
    \o gpu_ff(w.n_ff2, w.ff2_1, w.ff2_2)
    \o << << "y", "layernorm", w.n_out, << "res" >> >> >>
gpu_transformer_block(w) ==
    << << "dq", "linear", w.q, << "x" >> >>, << "dkbuf", "linear", w.k, << "x" >> >>,
       << "dv", "linear", w.v, << "x" >> >>, << "ac", "dot", << >>, << "dq", "dkbuf" >> >>,
       << "probs", "softmax", << >>, << "ac" >> >>, << "ctx", "dot", << >>, << "probs", "dv" >> >>,
       << "attn_out", "linear", w.o, << "ctx" >> >>,
       << "attn_out", "plus", << >>, << "attn_out", "x" >> >>,
       << "h1_ln", "layernorm", w.ln1, << "attn_out" >> >>,
       << "ff_mid", "linear", w.f1, << "h1_ln" >> >>, << "ff_mid", "relu", << >>, << "ff_mid" >> >>,
       << "ff_out", "linear", w.f2, << "ff_mid" >> >>,
       << "ff_out", "plus", << >>, << "ff_out", "h1_ln" >> >>,
       << "y", "layernorm", w.ln2, << "ff_out" >> >> >>
encoder_forward_headed(w) ==
    << << "x", "relu", << >>, << "x" >> >>, << "dhead", "linear", w.hidden, << "x" >> >>,
       << "dhead", "relu", << >>, << "dhead" >> >>,
       << "dlogits", "linear", w.spks, << "dhead" >> >>,
       << "dhead", "sigmoid", << >>, << "dlogits" >> >> >>

(* The mirror names its tensors where it uses them.                        *)
conformer_ff(x, p) ==
    Lin(Both(p \o << "linear2" >>), Of("silu", Lin(Both(p \o << "linear1" >>), x)))
relpos_mha(x, pe, p) ==
    LET Proj(i) == Lin(Both(p \o << i >>), x)
    IN  Lin(Both(p \o << "linear_out" >>),
            RelAttention(Proj("linear_q"), Proj("linear_k"), Proj("linear_v"),
                         Lin(Bare(p \o << "linear_pos" >>), pe),
                         p \o << "pos_bias_u" >>, p \o << "pos_bias_u" >>))
conformer_conv(x, p) ==
    LET g == Of("glu", Lin(Both(p \o << "pointwise_conv1" >>), x))
        y == Term("depthwise", Both(p \o << "depthwise_conv" >>), << g >>)
        n == Term("batchnorm", BatchNorm(p \o << "batch_norm" >>), << y >>)
    IN  Lin(Both(p \o << "pointwise_conv2" >>), Of("silu", n))
conformer_layer(x, pe) ==
    LET Ln(n, res) == Norm(Both(<< n >>), res)
        f1 == conformer_ff(Ln("norm_feed_forward1", x), << "feed_forward1" >>)
        r1 == Plus(x, Of("half", f1))
        r2 == Plus(r1, relpos_mha(Ln("norm_self_att", r1), pe, << "self_attn" >>))
        r3 == Plus(r2, conformer_conv(Ln("norm_conv", r2), << "conv" >>))
        f2 == conformer_ff(Ln("norm_feed_forward2", r3), << "feed_forward2" >>)
        r4 == Plus(r3, Of("half", f2))
    IN  Ln("norm_out", r4)
plain_mha(x, p) ==
    LET Proj(i) == Lin(Both(p \o << i >>), x)
    IN  Lin(Both(p \o << "out_projection" >>),
            Attention(Proj("query_net"), Proj("key_net"), Proj("value_net")))
transformer_block(x) ==
    LET h  == Norm(Both(<< "layer_norm_1" >>), Plus(x, plain_mha(x, << "first_sub_layer" >>)))
        ff == Of("relu", Lin(Both(<< "second_sub_layer", "dense_in" >>), h))
        f2 == Lin(Both(<< "second_sub_layer", "dense_out" >>), ff)
    IN  Norm(Both(<< "layer_norm_2" >>), Plus(f2, h))
diar_head(x) ==
    Of("sigmoid", Lin(Both(<< "single_hidden_to_spks" >>),
        Of("relu", Lin(Both(<< "first_hidden_to_hidden" >>), Of("relu", x)))))

(* The gates load each tensor under a key of their own and pair weight and  *)
(* bias again where they use them; K2 renames once more per layer.          *)
K1Block ==
    LET First(i, t)  == << "first_sub_layer", i, t >>
        Second(i, t) == << "second_sub_layer", i, t >>
    IN [q_w |-> First("query_net", "weight"), qb |-> First("query_net", "bias"),
        k_w |-> First("key_net", "weight"),   kb |-> First("key_net", "bias"),
        v_w |-> First("value_net", "weight"), vb |-> First("value_net", "bias"),
        o_w |-> First("out_projection", "weight"), ob |-> First("out_projection", "bias"),
        g1 |-> << "layer_norm_1", "weight" >>, b1 |-> << "layer_norm_1", "bias" >>,
        g2 |-> << "layer_norm_2", "weight" >>, b2 |-> << "layer_norm_2", "bias" >>,
        f1_w |-> Second("dense_in", "weight"), f1_b |-> Second("dense_in", "bias"),
        f2_w |-> Second("dense_out", "weight"), f2_b |-> Second("dense_out", "bias")]
K1TransformerBlock(x, wt) ==
    LET Proj(w, b) == Lin(<< w, b >>, x)
        ao == Lin(<< wt.o_w, wt.ob >>,
                  Attention(Proj(wt.q_w, wt.qb), Proj(wt.k_w, wt.kb), Proj(wt.v_w, wt.vb)))
        h1 == Norm(<< wt.g1, wt.b1 >>, Plus(ao, x))
        fo == Lin(<< wt.f2_w, wt.f2_b >>, Of("relu", Lin(<< wt.f1_w, wt.f1_b >>, h1)))
    IN  Norm(<< wt.g2, wt.b2 >>, Plus(fo, h1))
K1Head ==
    LET Name(i, t) == << i, t >>
    IN [hw |-> Name("first_hidden_to_hidden", "weight"),
        hb |-> Name("first_hidden_to_hidden", "bias"),
        sw |-> Name("single_hidden_to_spks", "weight"),
        sb |-> Name("single_hidden_to_spks", "bias")]
K1DiarHead(x, w) ==
    Of("sigmoid", Lin(<< w.sw, w.sb >>, Of("relu", Lin(<< w.hw, w.hb >>, Of("relu", x)))))

K2Attn ==
    LET Of2(i, t) == << "self_attn", i, t >>
    IN [q_w |-> Of2("linear_q", "weight"), qb |-> Of2("linear_q", "bias"),
        k_w |-> Of2("linear_k", "weight"), kb |-> Of2("linear_k", "bias"),
        v_w |-> Of2("linear_v", "weight"), vb |-> Of2("linear_v", "bias"),
        pos_w |-> Of2("linear_pos", "weight"), bu |-> << "self_attn", "pos_bias_u" >>,
        bv |-> << "self_attn", "pos_bias_v" >>,
        o_w |-> Of2("linear_out", "weight"), ob |-> Of2("linear_out", "bias")]
K2Ff(m) == [w1 |-> << m, "linear1", "weight" >>, bb1 |-> << m, "linear1", "bias" >>,
            w2 |-> << m, "linear2", "weight" >>, bb2 |-> << m, "linear2", "bias" >>]
K2Norms ==
    LET G(m) == << m, "weight" >>  B(m) == << m, "bias" >>
    IN [g1 |-> G("norm_feed_forward1"), b1 |-> B("norm_feed_forward1"),
        ga |-> G("norm_self_att"), ba |-> B("norm_self_att"),
        gc |-> G("norm_conv"), bc |-> B("norm_conv"),
        g2 |-> G("norm_feed_forward2"), b2 |-> B("norm_feed_forward2"),
        go |-> G("norm_out"), bo |-> B("norm_out")]
K2Conv == [pw1 |-> Both(<< "conv", "pointwise_conv1" >>),
           dw  |-> Both(<< "conv", "depthwise_conv" >>),
           bn  |-> BatchNorm(<< "conv", "batch_norm" >>),
           pw2 |-> Both(<< "conv", "pointwise_conv2" >>)]
K2Wt ==
    LET ff1 == K2Ff("feed_forward1")  ff2 == K2Ff("feed_forward2")
    IN [g1 |-> K2Norms.g1, b1 |-> K2Norms.b1, w1 |-> ff1.w1, bb1 |-> ff1.bb1, w2 |-> ff1.w2,
        bb2 |-> ff1.bb2, ga |-> K2Norms.ga, ba |-> K2Norms.ba, attn |-> K2Attn,
        gc |-> K2Norms.gc, bc |-> K2Norms.bc, conv |-> K2Conv, g2 |-> K2Norms.g2,
        b2 |-> K2Norms.b2, w3 |-> ff2.w1, bb3 |-> ff2.bb1, w4 |-> ff2.w2, bb4 |-> ff2.bb2,
        go |-> K2Norms.go, bo |-> K2Norms.bo]
K2ConformerFf(x, w1, b1, w2, b2) == Lin(<< w2, b2 >>, Of("silu", Lin(<< w1, b1 >>, x)))
K2RelposMha(x, pe, wt) ==
    Lin(<< wt.o_w, wt.ob >>,
        RelAttention(Lin(<< wt.q_w, wt.qb >>, x), Lin(<< wt.k_w, wt.kb >>, x),
                     Lin(<< wt.v_w, wt.vb >>, x), Lin(<< wt.pos_w, << >> >>, pe), wt.bu, wt.bv))
K2ConformerConv(x, wt) ==
    LET dw == Term("depthwise", wt.dw, << Of("glu", Lin(wt.pw1, x)) >>)
    IN  Lin(wt.pw2, Of("silu", Term("batchnorm", wt.bn, << dw >>)))
K2Layer(x, pe, wt) ==
    LET f1 == K2ConformerFf(Norm(<< wt.g1, wt.b1 >>, x), wt.w1, wt.bb1, wt.w2, wt.bb2)
        r1 == Plus(x, Of("half", f1))
        r2 == Plus(r1, K2RelposMha(Norm(<< wt.ga, wt.ba >>, r1), pe, wt.attn))
        r3 == Plus(r2, K2ConformerConv(Norm(<< wt.gc, wt.bc >>, r2), wt.conv))
        f2 == K2ConformerFf(Norm(<< wt.g2, wt.b2 >>, r3), wt.w3, wt.bb3, wt.w4, wt.bb4)
    IN  Norm(<< wt.go, wt.bo >>, Plus(r3, Of("half", f2)))

-----------------------------------------------------------------------------
(* The input of the first layer: speaker cache, FIFO and chunk in this     *)
(* order.  K2 rebuilds the first two from what the dump of the previous    *)
(* chunk left, cut to the lengths this chunk began with.                   *)
run_chunk(spkcache, fifo, chunk) == spkcache \o fifo \o chunk
LastOf(s, n) == IF n = 0 THEN << >> ELSE SubSeq(s, Len(s) - n + 1, Len(s))
Layer00(after, lens, pre_encode_) ==
    LastOf(after.spkcache, lens[1]) \o LastOf(after.fifo, lens[2]) \o pre_encode_

-----------------------------------------------------------------------------
(* The four stems reach every row by the same paths, the device stem        *)
(* whatever its buffers held before, and put as many rows as the length    *)
(* chain of the encoder says.                                              *)
StemsAgree(t, feat_len) ==
    /\ subsampling(t, feat_len) = subsampling_forward(t, feat_len)
    /\ feat_len \in 1 .. t => pre_encode(t, feat_len) = subsampling(t, feat_len)
    /\ stem_forward(t, feat_len) = subsampling_forward(t, feat_len)
    /\ Len(subsampling_forward(t, feat_len)) = (t + 7) \div 8

(* The valid rows of a padded window are the rows of the window without    *)
(* its padding, and every row past them is the bias of the last Linear     *)
(* alone: what a chunk's embeddings are does not depend on the width of    *)
(* the window it was put in.                                               *)
StemIgnoresPadding(t, feat_len) ==
    LET rows == subsampling_forward(t, feat_len)
        n    == (feat_len + 7) \div 8
    IN  /\ SubSeq(rows, 1, n) = subsampling_forward(feat_len, feat_len)
        /\ \A r \in n + 1 .. Len(rows) : rows[r] = Fill

(* The engine, with the stored table or its own, and K2 score query q and  *)
(* key k as NeMo's pad-and-view shift does; the mirror puts the same       *)
(* position there.  Every slice stays within the stored table.             *)
ScoresAgree(max, l) ==
    /\ EngineScores(l, PeSlice(max, l)) = NeMoScores(l)
    /\ EngineScores(l, relpos_table(l)) = K2Scores(l, relpos_table(l))
    /\ MirrorSlice(max, l) = PeSlice(max, l)
    /\ \A q, k \in Frames(l) :
        /\ MirrorScores(l, relpos_table(l))[q][k][2][3] = q - k
        /\ EngineScores(l, relpos_table(l))[q][k][2] = << "v", q, q - k >>

(* A layer is the same term wherever it is computed: on the host, by the   *)
(* kernels of the device over scratch that begins as an earlier layer left *)
(* it, in K1 or K2 under their own keys, and in the mirror, whose position *)
(* term alone carries pos_bias_u where the others carry pos_bias_v.        *)
LayersAgree ==
    LET w == ConformerLayerWeights
        t == TransformerBlockWeights
        h == HeadWeights
        conformer == conformer_layer_forward(X, Pos, w)
        block     == transformer_block_forward(X, t)
        head      == diar_head_forward(X, h)
    IN  /\ Device(gpu_conformer_layer(w)).y = conformer
        /\ K2Layer(X, Pos, K2Wt) = conformer
        /\ conformer_layer(X, Pos) = conformer_layer_forward(X, Pos, [w EXCEPT !.bv = w.bu])
        /\ conformer_layer(X, Pos) # conformer
        /\ Device(gpu_transformer_block(t)).y = block
        /\ K1TransformerBlock(X, K1Block) = block
        /\ transformer_block(X) = block
        /\ Device(encoder_forward_headed(h)).dhead = head
        /\ K1DiarHead(X, K1Head) = head
        /\ diar_head(X) = head

(* A conformer layer of K2 takes the engine's frames: the same one under   *)
(* each tap of its convolution, and the input of its first layer the       *)
(* engine's whenever the dump of the previous chunk is the state the chunk *)
(* began with.                                                             *)
K2IsTheEngine(l, kernel) ==
    /\ conv1d_depthwise(l, kernel) = K2Windows(l, kernel)
    /\ \A s, f \in 0 .. 2 :
        LET spk == [i \in 1 .. s |-> << "spk", i >>]
            fif == [i \in 1 .. f |-> << "fifo", i >>]
            pre == [i \in 1 .. l |-> << "pre", i >>]
        IN  Layer00([spkcache |-> spk, fifo |-> fif], << s, f >>, pre)
                = run_chunk(spk, fif, pre)
=============================================================================
