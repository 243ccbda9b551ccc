----------------------------- MODULE DeviceArena ------------------------------
(***************************************************************************)
(* The device memory of the two CUDA routes.  Each route sizes one arena   *)
(* by a formula and then takes spans from it one after the other; a layer  *)
(* cuts the scratch it is handed into regions of its own and keeps the     *)
(* last one for the fp16 copies of its GEMM inputs.  Sizes are in floats;  *)
(* an fp16 value takes half of one.                                        *)
(*                                                                         *)
(* A configuration c is the one of Weights (D, FF, X, I, SPK, H, K, layers *)
(* and xlayers) and XH, the heads of the transformer.                      *)
(***************************************************************************)
EXTENDS Integers, Sequences, SequencesExt

Half(n)  == (n + 1) \div 2
Total(s) == FoldLeft(+, 0, s)
Times(n, s) == [i \in 1 .. n * Len(s) |-> s[((i - 1) % Len(s)) + 1]]

-----------------------------------------------------------------------------
(* The scratch of the layers, as its size is announced and as it is cut.   *)
mha_scratch_floats(t, c, h) ==
    LET p == 2 * t - 1
    IN  6 * t * c + p * c + h * t * (2 * t + p) + Half(p * c)

conformer_layer_scratch_floats(t, c, d_ff, h) ==
    7 * t * c + t * d_ff + mha_scratch_floats(t, c, h) + Half(t * d_ff)

transformer_block_scratch_floats(t, h, inner, heads) ==
    7 * t * h + t * inner + 2 * heads * t * t + Half(t * inner)

\* What a layer cuts from its scratch, the fp16 copy, and the inputs of the
\* GEMMs that are copied there.
gpu_relpos_mha(t, c) ==
    LET tc == t * c.D  pc == (2 * t - 1) * c.D
    IN  [regions |-> << tc, tc, tc, tc, tc, pc, tc,
                        c.H * t * t, c.H * t * (2 * t - 1), c.H * t * t >>,
         cast16  |-> Half(pc), inputs |-> {tc, pc},
         scratch |-> mha_scratch_floats(t, c.D, c.H)]

gpu_conformer_layer(t, c) ==
    LET tc == t * c.D
    IN  [regions |-> << tc, tc, tc, t * c.FF, 2 * tc, tc, tc,
                        mha_scratch_floats(t, c.D, c.H) >>,
         cast16  |-> Half(t * c.FF), inputs |-> {tc, t * c.FF},
         scratch |-> conformer_layer_scratch_floats(t, c.D, c.FF, c.H)]

gpu_transformer_block(t, c) ==
    LET th == t * c.X
    IN  [regions |-> << th, th, th, th, th, th, th, t * c.I, c.XH * t * t, c.XH * t * t >>,
         cast16  |-> Half(t * c.I), inputs |-> {th, t * c.I},
         scratch |-> transformer_block_scratch_floats(t, c.X, c.I, c.XH)]

Layers(t, c) == << gpu_relpos_mha(t, c), gpu_conformer_layer(t, c), gpu_transformer_block(t, c) >>

-----------------------------------------------------------------------------
(* The arena of the encoder route: the budget of the constructor, and the  *)
(* spans it then takes.                                                    *)
conf_w(c)  == 10 * c.D + 4 * c.FF * c.D + 4 * c.FF + 4 * c.D + 5 * c.D * c.D
                + 6 * c.D + 3 * c.D * c.D + c.D * c.K + 8 * c.D

EncoderBudget(c, max_l, head) ==
    LET tf_w      == 4 * c.X * c.X + 8 * c.X + 2 * c.I * c.X + c.I + c.X
        head_wts  == IF head THEN c.X * c.X + c.X + c.SPK * c.X + c.SPK ELSE 0
        head_acts == IF head THEN max_l * (c.X + c.SPK) ELSE 0
        acts      == max_l * c.D + (2 * max_l - 1) * c.D + 4 * max_l * c.D + 2 * max_l * c.X
                       + conformer_layer_scratch_floats(max_l, c.D, c.FF, c.H)
                       + transformer_block_scratch_floats(max_l, c.X, c.I, c.XH)
                       + Half(max_l * c.D)
    IN  c.layers * conf_w(c) + c.xlayers * tf_w + c.X * c.D + c.X
          + acts + head_wts + head_acts + 2 ^ 20

\* upload_f32, or upload_f16 of a matrix on the fp16 route.
Matrix(n, fp16) == IF fp16 THEN Half(n) ELSE n

ConformerSpans(c, fp16) ==
    Times(10, << c.D >>)                                              \* norms
    \o Times(4, << Matrix(c.FF * c.D, fp16) >>) \o << c.FF, c.D, c.FF, c.D >>
    \o Times(5, << Matrix(c.D * c.D, fp16) >>) \o Times(6, << c.D >>) \* attention
    \o << Matrix(2 * c.D * c.D, fp16), 2 * c.D, c.D * c.K >>
    \o Times(5, << c.D >>) \o << Matrix(c.D * c.D, fp16), c.D >>      \* convolution

TransformerSpans(c, fp16) ==
    Times(4, << Matrix(c.X * c.X, fp16), c.X >>) \o Times(4, << c.X >>)
    \o << Matrix(c.I * c.X, fp16), c.I, Matrix(c.X * c.I, fp16), c.X >>

EncoderSpans(c, max_l, head, fp16) ==
    LET lc == max_l * c.D  lx == max_l * c.X
    IN  << c.layers * Total(ConformerSpans(c, fp16)), c.xlayers * Total(TransformerSpans(c, fp16)) >>
        \o << c.X, Matrix(c.X * c.D, fp16) >>
        \o (IF head THEN << c.X * c.X, c.X, c.SPK * c.X, c.SPK >> ELSE << >>)
        \o << lc, 2 * lc - c.D, lc, lc, lx, lx, lx,
              conformer_layer_scratch_floats(max_l, c.D, c.FF, c.H),
              transformer_block_scratch_floats(max_l, c.X, c.I, c.XH), Half(lc) >>
        \o (IF head THEN << lx, max_l * c.SPK >> ELSE << >>)

(* The arena of the stem route, whose geometry is pinned.                  *)
col_len(n) == (n + 2 - 3) \div 2 + 1
C0 == 256
f1 == col_len(128)
f2 == col_len(f1)
f3 == col_len(f2)

StemBudget(max_t_mel) ==
    LET t1 == col_len(max_t_mel)  t2 == col_len(t1)  t3 == col_len(t2)
    IN  (C0 * 9 + C0) * 3 + (C0 * C0 + C0) * 2 + 512 * C0 * f3 + 512
          + max_t_mel * 128 + t1 * f1 * 9 + t1 * f1 * C0 * 2 + t2 * f2 * C0 * 2
          + t3 * f3 * C0 * 2 + t3 * C0 * f3 + t3 * 512 + 2 ^ 20

StemSpans(max_t_mel) ==
    LET t1 == col_len(max_t_mel)  t2 == col_len(t1)  t3 == col_len(t2)
    IN  << C0 * 9, C0, C0 * 9, C0, C0 * C0, C0, C0 * 9, C0, C0 * C0, C0, 512 * C0 * f3, 512,
           max_t_mel * 128, t1 * f1 * 9, t1 * f1 * C0, t2 * f2 * C0, t2 * f2 * C0,
           t3 * f3 * C0, t3 * f3 * C0, t3 * C0 * f3, t3 * 512 >>

\* GpuArena::alloc dies when a span does not fit in what is left.
Allocates(cap, spans) == Total(spans) <= cap

-----------------------------------------------------------------------------
(* No constructor exhausts the arena it sized itself, in either storage,   *)
(* with and without the head; the formulas repeat the long lists of spans  *)
(* by hand, and their slack hides a missing term until a model is large.   *)
ArenaHolds(c, max_l) ==
    /\ \A head, fp16 \in BOOLEAN :
        Allocates(EncoderBudget(c, max_l, head), EncoderSpans(c, max_l, head, fp16))
    /\ Allocates(StemBudget(max_l), StemSpans(max_l))

(* The regions of a layer end before its fp16 copy, the copy holds every   *)
(* GEMM input, and a window of t frames needs no more scratch than the     *)
(* route reserved for max_l.                                               *)
ScratchFits(c, t, max_l) ==
    \A k \in 1 .. 3 :
        LET layer == Layers(t, c)[k]
        IN  /\ Total(layer.regions) <= layer.scratch - layer.cast16
            /\ \A n \in layer.inputs : Half(n) <= layer.cast16
            /\ layer.scratch <= Layers(max_l, c)[k].scratch
===============================================================================
