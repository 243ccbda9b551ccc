------------------------------ MODULE GateKernel ------------------------------
(***************************************************************************)
(* The numeric gate kernels of the CUDA backend, steps 3 to 5: build and    *)
(* run a CPU selftest, build a fat binary, look into it, run its bench,    *)
(* build a binary with PTX only, run its parity section, and judge the     *)
(* rows both printed.  The kinds of rows are cut to those that are treated *)
(* differently: gated and compared, compared only, gated only, timed only. *)
(***************************************************************************)
EXTENDS Naturals, FiniteSets

CONSTANTS
    Steps,  \* the kernels run: a subset of 3 .. 5
    MaxOdd  \* bound: outcomes that are not good, in all

VARIABLES
    step,     \* which kernel
    pc,       \* the command it is at
    fat,      \* what cuobjdump lists of the fat binary: [sass, ptx]
    sass,     \* rows parsed from the first bench: <<kind, shape>> -> [pass, val]
    jit,      \* rows parsed from the second
    gates,    \* REPORT["gates"]
    verdict,  \* "none", "green", "red"
    odd
vars == << step, pc, fat, sass, jit, gates, verdict, odd >>

All3 == {"sm_60", "sm_70", "sm_75"}

\* What the benches print, with --parity-only and without.
Parity(s) == CASE s = 3 -> {<< "parity", "a" >>, << "parity", "b" >>}
               [] s = 4 -> {<< "mha", "a" >>, << "mha", "b" >>, << "linear", "512" >>}
               [] s = 5 -> {<< "mha", "a" >>, << "mha", "b" >>, << "linear", "512" >>,
                            << "linear_h", "a" >>}
Timed(s)  == CASE s = 3 -> {<< "fuse", "" >>}
               [] s = 4 -> {}
               [] s = 5 -> {<< "gemm_p50", "a" >>, << "full", "20" >>, << "full", "26" >>,
                            << "h_full", "20" >>, << "h_full", "26" >>}

\* The kinds gate_from is called with, for either bench.
Gated(s, which) == CASE s = 3 -> IF which = "sass" THEN {"parity", "fuse"} ELSE {"parity"}
                     [] s = 4 -> {"mha"}
                     [] s = 5 -> IF which = "sass" THEN {"mha", "linear_h", "gemm_p50"}
                                                   ELSE {"mha", "linear_h"}
Compared(s) == IF s = 3 THEN {} ELSE {"mha", "linear", "linear_h"}

Init ==
    /\ step \in Steps
    /\ pc = "selftest"
    /\ fat = [sass |-> {}, ptx |-> FALSE]
    /\ sass = << >> /\ jit = << >> /\ gates = << >>
    /\ verdict = "none" /\ odd = 0

Goes(to) == pc' = to
Odd      == odd < MaxOdd /\ odd' = odd + 1
\* A later gate of the same name replaces the earlier.
Merge(g, more) == [x \in DOMAIN g \cup DOMAIN more |->
                     IF x \in DOMAIN more THEN more[x] ELSE g[x]]
Named(name, ok) == [g \in {name} |-> ok]

-----------------------------------------------------------------------------
\* sh: a checked command that fails ends the kernel.
NextOf(failed, to)    == IF failed THEN "exit" ELSE to

\* g++ or the selftest fails; or it ends, with its last line or without.  In
\* step 3 the gate holds of the lines printed, were there none.
selftest ==
    /\ pc = "selftest"
    /\ \/ Odd /\ Goes(NextOf(TRUE, "build")) /\ gates' = gates
       \/ \E ok \in BOOLEAN : /\ IF ok THEN odd' = odd ELSE Odd
                              /\ gates' = Merge(gates, Named(<< "cpu", "selftest" >>, ok))
                              /\ Goes("build")
    /\ UNCHANGED << step, fat, sass, jit, verdict >>

\* nvcc, then cuobjdump, whose failure only means nothing is listed.
build ==
    /\ pc = "build"
    /\ \/ Odd /\ Goes(NextOf(TRUE, "bench")) /\ UNCHANGED << fat, gates >>
       \/ \E a \in {All3, {"sm_75"}, {}} : \E p \in BOOLEAN :
            /\ IF a = All3 /\ p THEN odd' = odd ELSE Odd
            /\ fat' = [sass |-> a, ptx |-> p]
            /\ gates' = Merge(Merge(gates, Named(<< "fatbin", "sass_all3" >>, All3 \subseteq a)),
                               Named(<< "fatbin", "ptx_compute60" >>, p))
            /\ Goes("bench")
    /\ UNCHANGED << step, sass, jit, verdict >>

\* The rows of one run: good ones, or with one that fails, is off, or is not
\* a line json.loads reads.
Good == [pass |-> TRUE, val |-> 1]
Rows(keys) == [k \in keys |-> Good]
Spoilt(keys, k) == {[Rows(keys) EXCEPT ![k].pass = FALSE],
                    [Rows(keys) EXCEPT ![k].val = 2], Rows(keys \ {k})}
OddRows(keys) == {Rows({})} \cup UNION {Spoilt(keys, k) : k \in keys}

Select(rows, kind) == {r \in DOMAIN rows : r[1] = kind}

Passes(rows, kind) == Select(rows, kind) # {} /\ \A r \in Select(rows, kind) : rows[r].pass

\* gate_from, for every kind gated.
GatesFrom(which, rows) ==
    [g \in {<< which, k >> : k \in Gated(step, which)} |-> Passes(rows, g[2])]

\* by_t is a dictionary over the frame count.
fp16_not_slower(rows) ==
    /\ Select(rows, "full") # {} /\ Select(rows, "h_full") # {}
    /\ \A r \in Select(rows, "full") :
         LET h == << "h_full", r[2] >>
         IN  h \in DOMAIN rows /\ rows[h].val <= rows[r].val

bench ==
    /\ pc = "bench"
    /\ \/ Odd /\ Goes(NextOf(TRUE, "build_ptx")) /\ UNCHANGED << sass, gates >>
       \/ LET good == Rows(Parity(step) \cup Timed(step)) IN
          \E rows \in {good} \cup OddRows(DOMAIN good) :
            /\ IF rows = good THEN odd' = odd ELSE Odd
            /\ sass' = rows
            /\ gates' = Merge(gates,
                  IF step = 5
                    THEN Merge(GatesFrom("sass", rows),
                               Named(<< "sass", "fp16_not_slower" >>, fp16_not_slower(rows)))
                    ELSE GatesFrom("sass", rows))
            /\ Goes("build_ptx")
    /\ UNCHANGED << step, fat, jit, verdict >>

build_ptx ==
    /\ pc = "build_ptx"
    /\ \/ Odd /\ Goes(NextOf(TRUE, "bench_ptx"))
       \/ odd' = odd /\ Goes("bench_ptx")
    /\ UNCHANGED << step, fat, sass, jit, gates, verdict >>

\* A row only the first run has is a mismatch; one only the second has is not.
jit_identical(a, b) ==
    LET keys == {r \in DOMAIN a : r[1] \in Compared(step)}
    IN  keys # {} /\ \A r \in keys : r \in DOMAIN b /\ a[r].val = b[r].val

bench_ptx ==
    /\ pc = "bench_ptx"
    /\ \/ Odd /\ Goes(NextOf(TRUE, "judge")) /\ UNCHANGED << jit, gates >>
       \/ LET good == Rows(Parity(step)) IN
          \E rows \in {good} \cup OddRows(DOMAIN good) :
            /\ IF rows = good THEN odd' = odd ELSE Odd
            /\ jit' = rows
            /\ gates' = Merge(gates,
                  IF step = 3 THEN GatesFrom("jit", rows)
                    ELSE Merge(GatesFrom("jit", rows),
                               Named(<< "jit", "bitidentical" >>, jit_identical(sass, rows))))
            /\ Goes("judge")
    /\ UNCHANGED << step, fat, sass, verdict >>

judge ==
    /\ pc = "judge"
    /\ verdict' = IF \A g \in DOMAIN gates : gates[g] THEN "green" ELSE "red"
    /\ Goes("end")
    /\ UNCHANGED << step, fat, sass, jit, gates, odd >>

Next == selftest \/ build \/ bench \/ build_ptx \/ bench_ptx \/ judge
Spec == Init /\ [][Next]_vars

-----------------------------------------------------------------------------
TypeOK == /\ pc \in {"selftest", "build", "bench", "build_ptx", "bench_ptx",
                     "judge", "exit", "end"}
          /\ DOMAIN sass \subseteq Parity(step) \cup Timed(step)
          /\ DOMAIN jit \subseteq Parity(step)
          /\ odd \in 0 .. MaxOdd

(* A green verdict rests on rows that are there: both benches ran to their  *)
(* ends on the three architectures and the PTX, each gated kind has rows,   *)
(* every one of them passing, each parity row of the first run has its      *)
(* equal in the second, and no fp16 time is above the fp32 time beside it.  *)
GreenIsProved ==
    verdict = "green" =>
        /\ fat = [sass |-> All3, ptx |-> TRUE]
        /\ \A k \in Gated(step, "sass") : \E r \in DOMAIN sass : r[1] = k
        /\ \A k \in Gated(step, "jit") : \E r \in DOMAIN jit : r[1] = k
        /\ \A r \in DOMAIN sass : r[1] \in Gated(step, "sass") => sass[r].pass
        /\ \A r \in DOMAIN jit : r[1] \in Gated(step, "jit") => jit[r].pass
        /\ step > 3 => \A r \in DOMAIN sass \cap Parity(step) :
                          r \in DOMAIN jit /\ jit[r].val = sass[r].val
        /\ step = 5 => \A t \in {"20", "26"} : << "full", t >> \in DOMAIN sass =>
                          sass[<< "h_full", t >>].val <= sass[<< "full", t >>].val
=============================================================================
