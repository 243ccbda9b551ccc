---------------------------- MODULE DeviceRoutes ------------------------------
(***************************************************************************)
(* sortformer_run_chunk with the device routes attached: stem, then        *)
(* encoder, each asked first and the host standing in when it refuses.     *)
(* The routes live as long as their process and keep their buffers from    *)
(* one chunk to the next; a window is as long as its state, so every chunk *)
(* runs beside what a longer one left.                                     *)
(*                                                                         *)
(* A row is << n, k >>: k operations on the rows of chunk n.  An operation *)
(* reads its input whole (attention mixes all rows), so one row of another *)
(* chunk, or of another depth, spoils every row of its output.             *)
(***************************************************************************)
EXTENDS Integers, Sequences, FiniteSets, SequencesExt

CONSTANTS
    Setups,      \* the routes attached, their limits and the model's
    Windows,     \* [t_mel, state, taps]: mel frames and state rows of a chunk
    MaxChunks,   \* bound: chunks run
    MaxFaults    \* bound: CUDA calls that fail

VARIABLES
    setup,
    pc,       \* "idle" | "stem" | "concat" | "headed" | "plain" | "host"
    window,
    chunk,    \* chunks begun
    mem,      \* the vectors of the chunk and the buffers of both arenas
    count,    \* the counters of the routes
    ends,     \* how every chunk ended, and where
    faults
vars == << setup, pc, window, chunk, mem, count, ends, faults >>

col_len(n) == (n + 2 - 3) \div 2 + 1
subsampled_len(t) == IF t <= 0 THEN 0 ELSE col_len(col_len(col_len(t)))
T3(w) == subsampled_len(w.t_mel)
L(w)  == w.state + T3(w)

-----------------------------------------------------------------------------
(* Memory.  Junk is what nobody wrote.                                     *)
Junk      == << 0, 0 >>
Rows(n, v) == [r \in 1 .. n |-> v]

\* The first `in` rows of `from` give the first `out` rows of `to`, `by`
\* operations further on; `pe` rows of the position table are read beside
\* them.  What is written past a buffer lands in its neighbours.
Op(from, to, in, out, by, pe) ==
    [from |-> from, to |-> to, in |-> in, out |-> out, by |-> by, pe |-> pe]

Value(m, op) ==
    LET rows == {m[op.from][r] : r \in 1 .. op.in \cap DOMAIN m[op.from]}
        v    == CHOOSE v \in rows : TRUE
    IN  IF /\ op.in <= Len(m[op.from])
           /\ Cardinality(rows) = 1 /\ v # Junk
           /\ op.pe <= Len(m.dpe)
           /\ \A r \in 1 .. op.pe : m.dpe[r][1] = v[1]
        THEN << v[1], v[2] + op.by >> ELSE Junk

Do(m, op) ==
    [m EXCEPT ![op.to] =
        [r \in DOMAIN @ |-> IF op.out > Len(@) THEN Junk
                            ELSE IF r <= op.out THEN Value(m, op) ELSE @[r]]]
Run(ops, k) == FoldLeft(Do, mem, SubSeq(ops, 1, k))

-----------------------------------------------------------------------------
(* The operations of the routes, in the order of their stream.             *)
StemOps(w) ==
    LET t == w.t_mel  t1 == col_len(t)  t2 == col_len(t1)  t3 == T3(w)
    IN  << Op("mel", "dmel", t, t, 0, 0), Op("dmel", "s0", t, t1, 1, 0),
           Op("s0", "s1", t1, t2, 1, 0), Op("s1", "s2", t2, t3, 1, 0),
           Op("s2", "dy", t3, t3, 1, 0), Op("dy", "embs", t3, t3, 0, 0) >>

\* The buffer each layer of a chain reads and the one it writes: the input
\* of the chain is left out of the ping-pong.
PingPong(input, a, b, layers) ==
    LET at[i \in 0 .. layers] ==
            IF i = 0 THEN << input, a >>
            ELSE << at[i - 1][2], IF at[i - 1][1] = input THEN b ELSE at[i - 1][1] >>
    IN  at

\* Mutant: the result is taken where an odd number of layers leaves it.
ResultOdd == IF setup.tf = 0 THEN "dpx" ELSE "tf0"
Result == PingPong("dpx", "tf0", "tf1", setup.tf)[setup.tf][1]

chain_run(n) ==
    LET conf == PingPong("dx", "conf0", "conf1", setup.conf)
        tf   == PingPong("dpx", "tf0", "tf1", setup.tf)
    IN  << Op("x", "dx", n, n, 0, 0), Op("pe", "dpe", 2 * n - 1, 2 * n - 1, 0, 0) >>
        \o [i \in 1 .. setup.conf |-> Op(conf[i - 1][1], conf[i - 1][2], n, n, 1, 2 * n - 1)]
        \o << Op(conf[setup.conf][1], "dpx", n, n, 1, 0) >>
        \o [i \in 1 .. setup.tf |-> Op(tf[i - 1][1], tf[i - 1][2], n, n, 1, 0)]

encoder_forward(n) == chain_run(n) \o << Op(Result, "px", n, n, 0, 0) >>
encoder_forward_headed(n) ==
    chain_run(n) \o << Op(Result, "dhead", n, n, 1, 0), Op("dhead", "dlogits", n, n, 1, 0),
                       Op("dlogits", "dhead", n, n, 1, 0), Op("dhead", "preds", n, n, 0, 0) >>

\* The same on the host, in vectors of the chunk's own.
HostStem(w)     == << Op("mel", "embs", w.t_mel, T3(w), 4, 0) >>
HostChain(n)    == << Op("x", "px", n, n, setup.conf + 1 + setup.tf, 0) >>
HostHead(n)     == << Op("px", "preds", n, n, 3, 0) >>

-----------------------------------------------------------------------------
Buffers(s) ==
    [dmel |-> Rows(s.max_t_mel, Junk), s0 |-> Rows(col_len(s.max_t_mel), Junk),
     s1 |-> Rows(col_len(col_len(s.max_t_mel)), Junk), s2 |-> Rows(subsampled_len(s.max_t_mel), Junk),
     dy |-> Rows(subsampled_len(s.max_t_mel), Junk)]
    @@ [b \in {"dx", "conf0", "conf1", "dpx", "tf0", "tf1", "dhead", "dlogits"} |->
          Rows(s.max_l, Junk)]
    @@ [dpe |-> Rows(2 * s.max_l - 1, Junk)]
Vectors(w, n) ==
    [mel |-> Rows(w.t_mel, << n, 0 >>), embs |-> Rows(T3(w), Junk), x |-> << >>,
     pe |-> Rows(2 * L(w) - 1, << n, 0 >>), px |-> Rows(L(w), Junk),
     preds |-> Rows(L(w), Junk)]

NoCalls == [calls |-> 0, headed_calls |-> 0, refused |-> 0, stem_calls |-> 0, stem_refused |-> 0]
Some(S) == CHOOSE s \in S : TRUE

Init ==
    /\ setup \in Setups
    /\ pc = "idle" /\ chunk = 0 /\ faults = 0
    /\ window = Some(Windows)
    /\ mem = Vectors(window, 0) @@ Buffers(setup)
    /\ count = NoCalls
    /\ ends = << >>

Ends(how) == /\ pc' = "idle"
             /\ ends' = Append(ends, [window |-> window, by |-> how, at |-> pc])
Throw     == Ends("throw")
Asked     == ~window.taps
Counted(c) == count' = [k \in DOMAIN count |-> count[k] + (IF k \in c THEN 1 ELSE 0)]

\* A window of no rows is answered at once.
Call ==
    /\ pc = "idle" /\ chunk < MaxChunks
    /\ \E w \in Windows :
        /\ window' = w
        /\ chunk' = chunk + 1
        /\ IF L(w) <= 0
           THEN /\ ends' = Append(ends, [window |-> w, by |-> "empty", at |-> pc])
                /\ UNCHANGED << pc, mem >>
           ELSE /\ pc' = "stem"
                /\ mem' = Vectors(w, chunk + 1) @@ mem
                /\ UNCHANGED ends
    /\ UNCHANGED << setup, count, faults >>

\* A CUDA error leaves after any part of the operations and throws.
Fails(ops) ==
    /\ faults < MaxFaults
    /\ faults' = faults + 1
    /\ \E k \in 0 .. Len(ops) : mem' = Run(ops, k)
    /\ Throw
    /\ UNCHANGED << setup, window, chunk, count >>

StemAsked == pc = "stem" /\ T3(window) > 0 /\ setup.stem /\ Asked

StemRefuses == StemAsked /\ window.t_mel > setup.max_t_mel

SubsamplingForward ==
    /\ pc = "stem"
    /\ StemAsked => StemRefuses
    /\ Counted(IF StemRefuses THEN {"stem_refused"} ELSE {})
    /\ mem' = IF T3(window) > 0 THEN Run(HostStem(window), 1) ELSE mem
    /\ pc' = "concat"
    /\ UNCHANGED << setup, window, chunk, ends, faults >>

StemForward ==
    /\ StemAsked /\ ~StemRefuses /\ setup.same
    /\ mem' = Run(StemOps(window), Len(StemOps(window)))
    /\ Counted({"stem_calls"})
    /\ pc' = "concat"
    /\ UNCHANGED << setup, window, chunk, ends, faults >>

StemFails == StemAsked /\ ~StemRefuses /\ setup.same /\ Fails(StemOps(window))

\* Built from other weights: said only of a window that is not too long.
Mismatch ==
    /\ ~setup.same
    /\ \/ StemAsked /\ ~StemRefuses
       \/ pc \in {"headed", "plain"} /\ L(window) <= setup.max_l
    /\ Throw
    /\ UNCHANGED << setup, window, chunk, mem, count, faults >>

\* Concatenation and position table; the table may be too short.
Concat ==
    /\ pc = "concat"
    /\ IF L(window) > setup.pos_emb_max_len
       THEN Throw /\ UNCHANGED mem
       ELSE /\ mem' = [mem EXCEPT !.x = Rows(window.state, << chunk, 4 >>) \o mem.embs]
            /\ pc' = IF ~setup.encoder \/ ~Asked THEN "host"
                     ELSE IF setup.head THEN "headed" ELSE "plain"
            /\ UNCHANGED ends
    /\ UNCHANGED << setup, window, chunk, count, faults >>

\* A route with a head that refuses is asked again without it.
OnceRefused == IF pc = "headed" THEN "plain" ELSE "host"

Refuse ==
    /\ pc \in {"headed", "plain"}
    /\ L(window) > setup.max_l
    /\ Counted({"refused"})
    /\ pc' = OnceRefused
    /\ UNCHANGED << setup, window, chunk, mem, ends, faults >>

Serves(p) == pc = p /\ setup.same /\ L(window) <= setup.max_l

Headed ==
    /\ Serves("headed")
    /\ LET ops == encoder_forward_headed(L(window)) IN mem' = Run(ops, Len(ops))
    /\ Counted({"calls", "headed_calls"})
    /\ Ends("device")
    /\ UNCHANGED << setup, window, chunk, faults >>

Plain ==
    /\ Serves("plain")
    /\ LET ops == encoder_forward(L(window)) \o HostHead(L(window)) IN mem' = Run(ops, Len(ops))
    /\ Counted({"calls"})
    /\ Ends("device")
    /\ UNCHANGED << setup, window, chunk, faults >>

EncoderFails ==
    \/ Serves("headed") /\ Fails(encoder_forward_headed(L(window)))
    \/ Serves("plain") /\ Fails(encoder_forward(L(window)))

Host ==
    /\ pc = "host"
    /\ mem' = Run(HostChain(L(window)) \o HostHead(L(window)), 2)
    /\ Ends("host")
    /\ UNCHANGED << setup, window, chunk, count, faults >>

Next == \/ Call \/ SubsamplingForward \/ StemForward \/ StemFails \/ Mismatch \/ Concat
        \/ Refuse \/ Headed \/ Plain \/ EncoderFails \/ Host
Spec == Init /\ [][Next]_vars

-----------------------------------------------------------------------------
(* Vectors are as long as the window, buffers as long as they were made,   *)
(* and nothing is in memory that a chunk begun did not write.              *)
TypeOK ==
    /\ setup \in Setups /\ window \in Windows
    /\ pc \in {"idle", "stem", "concat", "headed", "plain", "host"}
    /\ chunk \in 0 .. MaxChunks /\ faults \in 0 .. MaxFaults
    /\ Len(ends) = (IF pc = "idle" THEN chunk ELSE chunk - 1)
    /\ \A b \in DOMAIN mem : \A r \in DOMAIN mem[b] : mem[b][r][1] \in 0 .. chunk
    /\ \A b \in DOMAIN Buffers(setup) : Len(mem[b]) = Len(Buffers(setup)[b])

(* Whoever serves it, device or host, a chunk gets the embeddings and the  *)
(* predictions of its own rows after every layer of the model, in any      *)
(* order of longer and shorter windows, refusals, and CUDA errors that     *)
(* left the buffers half written.                                          *)
ServedIsReference ==
    pc = "idle" /\ ends # << >> /\ Last(ends).by \in {"device", "host"} =>
        /\ mem.embs = Rows(T3(window), << chunk, 4 >>)
        /\ mem.preds = Rows(L(window), << chunk, 4 + setup.conf + 1 + setup.tf + 3 >>)

(* What a bench reads from the counters after its chunks: a call for every *)
(* one the device answered, and a refusal for every one that fell back to  *)
(* the host for its length; a route with a head counts that one twice.     *)
Ended(by) == Cardinality({i \in DOMAIN ends : ends[i].by \in by})
CountersAddUp ==
    pc = "idle" =>
        /\ count.calls = Ended({"device"})
        /\ count.headed_calls = (IF setup.head THEN count.calls ELSE 0)
        /\ count.refused = (IF setup.head THEN 2 ELSE 1) *
              Cardinality({i \in DOMAIN ends : ends[i].by = "host" /\ setup.encoder /\ ~ends[i].window.taps})
        /\ setup.stem => count.stem_calls + count.stem_refused =
              Cardinality({i \in DOMAIN ends :
                  /\ ~ends[i].window.taps /\ T3(ends[i].window) > 0
                  /\ ends[i].by # "empty" /\ ends[i].at # "stem"})
=============================================================================
