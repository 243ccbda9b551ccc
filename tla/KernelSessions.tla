---------------------------- MODULE KernelSessions ----------------------------
(***************************************************************************)
(* The programs on either side of the Kaggle service: the client and the   *)
(* generators that stand on the desk, the kernels that run there, the      *)
(* gates the kernels start, and the engine with its device routes that a   *)
(* session runs on the GPU.  They meet in files only, each of which is     *)
(* there before the next program starts, so no step of one comes between   *)
(* two of another: a behaviour follows one program, the others waiting in  *)
(* an initial state.  The part "pure" follows no program; it evaluates the *)
(* algorithms without state (Weights, ModelConfig, Network, DeviceArena,   *)
(* Segments, ProbdumpPatch, Probdump) on one input.                        *)
(***************************************************************************)
EXTENDS Integers, Sequences, FiniteSets

CONSTANTS
    Events, OutputFiles, Wanted, Folder, MaxReconnects,      \* KaggleClient
    MaxVersions, MaxCommands,                   \* KaggleClient, KernelBuild
    Datasets, Plans, MaxFaults,                                 \* Step6Session
    Steps,                                                      \* GateKernel
    Blobs, Texts, Reps, MaxEdits,                              \* KernelBuild
    Payloads, Archives, MaxRuns,                             \* Stage3Kernel
    CASES, DETERMINISM_CASE, ADVISORY_CASES, JobsArg,          \* Stage3Gates
    Npz, Absent,                                                    \* Stage2
    AudioMounts,                                             \* ReferenceDump
    Geometries, Lengths,                                       \* FreeRunGate
    RecordingMounts, RUNS_PER_FIXTURE,                         \* P100Session
    Setups, Windows, MaxChunks,                               \* DeviceRoutes
    Recordings,                                              \* OfficialBench
    MaxOdd,                                  \* bound: outcomes not good, in all
    \* inputs of "pure"
    Configurations, Models, RowCounts, Arenas, Speech, Patches, CrossInputs

\* Files are listed by name, a pattern matches some of those listed, and the
\* bounds are numbers.
ASSUME FilesAndBounds ==
    /\ Blobs \in Seq(STRING) /\ Texts \in Seq(STRING)
    /\ OutputFiles \in Seq(STRING) /\ Folder \in Seq(STRING)
    /\ Wanted \subseteq {OutputFiles[k] : k \in DOMAIN OutputFiles}
    /\ Events \in Nat /\ MaxVersions \in Nat /\ MaxCommands \in Nat
    /\ MaxEdits \in Nat /\ Reps \in Nat

VARIABLES
    part,   \* the part followed
    input,  \* the input of the part "pure"
    \* KaggleClient: the client and the service
    clientServer, clientCmd, clientDisk, clientCommands, clientExit,
    \* Step6Session: the five sessions and their harvest
    dataset, mergeTodo, now, phase, mergeGates, jobs, dumps, mergeOut,
    mergeFaults, stage, mergeLeft, mergeBase, archive,
    \* GateKernel: the GPU kernels of steps 3 to 5
    gpuStep, gpuPc, fat, sass, jit, gpuGates, gpuVerdict, gpuOdd,
    \* KernelBuild: the kernel generators
    buildSrc, pins, anchors, kernel, buildMeta, runner, buildEntry,
    derived, buildCmd, clean, checked, edits, buildCommands, buildExit,
    \* Stage3Kernel: a stage-3 kernel
    s3Gate, s3Pc, s3Run, mounted, weights, using, dfw1, s3Fixtures, ref,
    s3Out,
    \* Stage3Gates: the gate it starts
    g3Gate, found, broken, g3Pc, workers, g3Queue, at, g3Disk, record,
    compared, reasons, g3Verdict, g3Odd,
    \* Stage2: the stage-2 kernel
    s2Dump, ckpt, absent, s2Pc, s2Gate, results, s2Queue, measured,
    reports, s2Odd,
    \* ReferenceDump: the reference dumps
    job, refAudios, refPc, refTodo, npz, probs, notes, refVerdict,
    refEmitted, raised, refOdd,
    \* FreeRunGate: the free-running gate
    geo, mel_len, extra, lost, freePc, freeDump, compression_chunks,
    ledger, compressed, freeVerdict,
    \* P100Session: the P100 session
    mount, pPc, pTodo, pFixtures, rttm, runs, entries, RESULT, pEmitted,
    pExit, pOdd,
    \* DeviceRoutes: the device routes of diar-bench
    setup, rPc, window, chunk, mem, count, ends, rFaults,
    \* OfficialBench: the official bench
    oAudios, oPc, oK, oRun, oState, chunk_ms, walls, oEntry, REPORT, file,
    oOdd

clientVars   == << clientServer, clientCmd, clientDisk, clientCommands,
                   clientExit >>
step6Vars    == << dataset, mergeTodo, now, phase, mergeGates, jobs, dumps,
                   mergeOut, mergeFaults, stage, mergeLeft, mergeBase,
                   archive >>
gpuVars      == << gpuStep, gpuPc, fat, sass, jit, gpuGates, gpuVerdict,
                   gpuOdd >>
buildVars    == << buildSrc, pins, anchors, kernel, buildMeta, runner,
                   buildEntry, derived, buildCmd, clean, checked, edits,
                   buildCommands, buildExit >>
stage3Vars   == << s3Gate, s3Pc, s3Run, mounted, weights, using, dfw1,
                   s3Fixtures, ref, s3Out >>
gates3Vars   == << g3Gate, found, broken, g3Pc, workers, g3Queue, at,
                   g3Disk, record, compared, reasons, g3Verdict, g3Odd >>
stage2Vars   == << s2Dump, ckpt, absent, s2Pc, s2Gate, results, s2Queue,
                   measured, reports, s2Odd >>
refsVars     == << job, refAudios, refPc, refTodo, npz, probs, notes,
                   refVerdict, refEmitted, raised, refOdd >>
freeVars     == << geo, mel_len, extra, lost, freePc, freeDump,
                   compression_chunks, ledger, compressed, freeVerdict >>
p100Vars     == << mount, pPc, pTodo, pFixtures, rttm, runs, entries,
                   RESULT, pEmitted, pExit, pOdd >>
routesVars   == << setup, rPc, window, chunk, mem, count, ends, rFaults >>
officialVars == << oAudios, oPc, oK, oRun, oState, chunk_ms, walls, oEntry,
                   REPORT, file, oOdd >>
vars == << part, input, clientVars, step6Vars, gpuVars, buildVars,
        stage3Vars, gates3Vars, stage2Vars, refsVars,
        freeVars, p100Vars, routesVars, officialVars >>

Client    == INSTANCE KaggleClient WITH
    server <- clientServer, cmd <- clientCmd, disk <- clientDisk,
    commands <- clientCommands, exit <- clientExit
Step6     == INSTANCE Step6Session WITH
    todo <- mergeTodo, gates <- mergeGates, out <- mergeOut,
    faults <- mergeFaults, left <- mergeLeft, base <- mergeBase
Gpu       == INSTANCE GateKernel WITH
    step <- gpuStep, pc <- gpuPc, gates <- gpuGates, verdict <- gpuVerdict,
    odd <- gpuOdd
Build     == INSTANCE KernelBuild WITH
    src <- buildSrc, meta <- buildMeta, entry <- buildEntry,
    cmd <- buildCmd, commands <- buildCommands, exit <- buildExit
Stage3    == INSTANCE Stage3Kernel WITH
    gate <- s3Gate, pc <- s3Pc, run <- s3Run, fixtures <- s3Fixtures,
    out <- s3Out
Gates3    == INSTANCE Stage3Gates WITH
    gate <- g3Gate, pc <- g3Pc, queue <- g3Queue, disk <- g3Disk,
    verdict <- g3Verdict, odd <- g3Odd
Stage2Run == INSTANCE Stage2 WITH
    dump <- s2Dump, pc <- s2Pc, gate <- s2Gate, queue <- s2Queue,
    odd <- s2Odd
Refs      == INSTANCE ReferenceDump WITH
    audios <- refAudios, pc <- refPc, todo <- refTodo,
    verdict <- refVerdict, emitted <- refEmitted, odd <- refOdd,
    Mounts <- AudioMounts
Free      == INSTANCE FreeRunGate WITH
    pc <- freePc, dump <- freeDump, verdict <- freeVerdict
P100      == INSTANCE P100Session WITH
    pc <- pPc, todo <- pTodo, fixtures <- pFixtures, emitted <- pEmitted,
    exit <- pExit, odd <- pOdd, Mounts <- RecordingMounts
Routes    == INSTANCE DeviceRoutes WITH
    pc <- rPc, faults <- rFaults
Official  == INSTANCE OfficialBench WITH
    audios <- oAudios, pc <- oPc, k <- oK, run <- oRun, state <- oState,
    entry <- oEntry, odd <- oOdd
WeightLists == INSTANCE Weights
Keys        == INSTANCE ModelConfig
Forward     == INSTANCE Network
Arena       == INSTANCE DeviceArena
Turns       == INSTANCE Segments
Patch       == INSTANCE ProbdumpPatch
Cards       == INSTANCE Probdump WITH Grid <- 2

-----------------------------------------------------------------------------
\* Archives hold the kinds of zip told apart, recordings have what a mount
\* has, and each is diarized at least once; sessions are those there are, of
\* the fixtures there are.
ASSUME SessionInputs ==
    /\ MaxOdd \in Nat /\ MaxFaults \in Nat
    /\ Datasets \subseteq SUBSET Step6!Fixtures /\ Plans \subseteq Seq(Step6!Sessions)
    /\ Steps \subseteq 3 .. 5 /\ AudioMounts \subseteq SUBSET Refs!Labels
    /\ Recordings \subseteq {<< >>} \cup (Nat \X BOOLEAN)
    /\ Archives \subseteq Seq(Stage3!Kinds) /\ MaxRuns \in Nat \ {0}
    /\ IsFiniteSet(CASES) /\ JobsArg \in Int
    /\ RecordingMounts \subseteq
           Seq([label : STRING, kind : {"wav", "mp3"}, whole : BOOLEAN, seconds : Nat])
    /\ RUNS_PER_FIXTURE \in Nat \ {0}

Inputs == Configurations \cup Models \cup RowCounts \cup Arenas \cup Speech \cup Patches \cup CrossInputs
Some(S) == CHOOSE s \in S : TRUE
Parts  == {"client", "step6", "gpu", "build", "stage3", "gates3", "stage2",
           "refs", "free", "p100", "routes", "official", "pure"}

\* One initial state is enough of a program that is not followed.
Waiting ==
    /\ IF part = "step6" THEN TRUE
       ELSE /\ dataset = Some(Datasets)
            /\ mergeTodo = Some(Plans)
            /\ mergeBase = [s \in {"a", "b", "c", "d", "gpu"} |-> Step6!NoOut]
    /\ IF part = "gpu" THEN TRUE
       ELSE /\ gpuStep = Some(Steps)
    /\ IF part = "stage3" THEN TRUE
       ELSE /\ s3Gate = Some(Payloads)
            /\ mounted = [weights |-> TRUE, ref |-> TRUE, zips |-> << >>]
    /\ IF part = "gates3" THEN TRUE
       ELSE /\ g3Gate = "k5a"
            /\ found = {}
            /\ broken = {}
    /\ IF part = "stage2" THEN TRUE
       ELSE /\ s2Dump = Some(Npz)
            /\ absent = {}
    /\ IF part = "refs" THEN TRUE
       ELSE /\ job = "tail"
            /\ refAudios = {}
    /\ IF part = "free" THEN TRUE
       ELSE /\ geo = Some(Geometries)
            /\ mel_len = Some(Lengths)
            /\ extra = 0
            /\ lost = 0
    /\ IF part = "p100" THEN TRUE
       ELSE /\ mount = << >>
    /\ IF part = "routes" THEN TRUE
       ELSE /\ setup = Some(Setups)
    /\ IF part = "official" THEN TRUE
       ELSE /\ oAudios = << << >>, << >> >>
Init ==
    /\ part \in Parts
    /\ Waiting
    /\ Client!Init
    /\ Step6!Init
    /\ Gpu!Init
    /\ Build!Init
    /\ Stage3!Init
    /\ Gates3!Init
    /\ Stage2Run!Init
    /\ Refs!Init
    /\ Free!Init
    /\ P100!Init
    /\ Routes!Init
    /\ Official!Init
    /\ input \in IF part = "pure" THEN Inputs ELSE {<< "none" >>}

\* A step of part p leaves everything of the other parts alone.
Only(p) ==
    /\ UNCHANGED << part, input >>
    /\ IF p = "client" THEN TRUE ELSE UNCHANGED clientVars
    /\ IF p = "step6" THEN TRUE ELSE UNCHANGED step6Vars
    /\ IF p = "gpu" THEN TRUE ELSE UNCHANGED gpuVars
    /\ IF p = "build" THEN TRUE ELSE UNCHANGED buildVars
    /\ IF p = "stage3" THEN TRUE ELSE UNCHANGED stage3Vars
    /\ IF p = "gates3" THEN TRUE ELSE UNCHANGED gates3Vars
    /\ IF p = "stage2" THEN TRUE ELSE UNCHANGED stage2Vars
    /\ IF p = "refs" THEN TRUE ELSE UNCHANGED refsVars
    /\ IF p = "free" THEN TRUE ELSE UNCHANGED freeVars
    /\ IF p = "p100" THEN TRUE ELSE UNCHANGED p100Vars
    /\ IF p = "routes" THEN TRUE ELSE UNCHANGED routesVars
    /\ IF p = "official" THEN TRUE ELSE UNCHANGED officialVars
Next ==
    \/ part = "client" /\ Client!Next /\ Only("client")
    \/ part = "step6" /\ Step6!Next /\ Only("step6")
    \/ part = "gpu" /\ Gpu!Next /\ Only("gpu")
    \/ part = "build" /\ Build!Next /\ Only("build")
    \/ part = "stage3" /\ Stage3!Next /\ Only("stage3")
    \/ part = "gates3" /\ Gates3!Next /\ Only("gates3")
    \/ part = "stage2" /\ Stage2Run!Next /\ Only("stage2")
    \/ part = "refs" /\ Refs!Next /\ Only("refs")
    \/ part = "free" /\ Free!Next /\ Only("free")
    \/ part = "p100" /\ P100!Next /\ Only("p100")
    \/ part = "routes" /\ Routes!Next /\ Only("routes")
    \/ part = "official" /\ Official!Next /\ Only("official")

\* The programs a liveness property is about run on: the client by its own
\* fairness, the sessions and gates as processes nothing suspends.
Fairness == /\ Client!Fairness
            /\ WF_vars(part \in {"step6", "gates3", "stage2", "p100"} /\ Next)
Spec == Init /\ [][Next]_vars /\ Fairness

-----------------------------------------------------------------------------
(* What each program promises, with the types of its state.                *)

(* The client keeps its word whatever the service loses: an event of the   *)
(* log is printed once, in order; a push that exits 0 started a session    *)
(* with every data source; a download that exits 0 has every wanted file;  *)
(* a dataset is made of its whole folder or not at all.                    *)
ClientKeepsItsWord ==
    part = "client" =>
        /\ Client!TypeOK
        /\ Client!LogPrintedOnce
        /\ Client!PushedIsWhole
        /\ Client!DownloadIsWhole
        /\ Client!DatasetIsTheFolder

(* What was generated and verified carries the sources: as they were when  *)
(* verified, today's when checked, one pin flipped in an entry and every   *)
(* replacement once in the derived bench.                                  *)
GeneratedIsFresh ==
    part = "build" =>
        /\ Build!TypeOK
        /\ Build!BuiltIsVerified
        /\ Build!CheckedEntryIsFresh
        /\ Build!EntryHasItsPin
        /\ Build!DerivedIsWhole

(* A green verdict, a pass, an accepted dump and an "ok" report each rest  *)
(* on every run, route, case and row they speak of, and a fixture that     *)
(* fails costs its session nothing but its own rows.                       *)
GreenIsBacked ==
    /\ part = "step6" => /\ Step6!TypeOK
                         /\ Step6!OneFailureIsOneCase
                         /\ Step6!GreenSessionIsClean
                         /\ Step6!MergedGreenIsBacked
    /\ part = "gpu"      => Gpu!TypeOK /\ Gpu!GreenIsProved
    /\ part = "gates3"   => Gates3!TypeOK /\ Gates3!GreenIsBacked
    /\ part = "stage2"   => Stage2Run!TypeOK
    /\ part = "refs"     => Refs!TypeOK /\ Refs!AcceptedIsWhole
    /\ part = "p100"     => P100!TypeOK /\ P100!PassIsBacked
    /\ part = "official" => Official!TypeOK /\ Official!OkIsTheWholeBench

(* What a program reads is what it was meant for, though runs share their  *)
(* directories: the gate's weights are whole and its fixtures those of one *)
(* archive, a record holds the output of its own process, and a digest is  *)
(* of the RTTM of its own entry.                                           *)
InputIsItsOwn ==
    /\ part = "stage3" => /\ Stage3!TypeOK
                          /\ Stage3!GateOnWholeWeights
                          /\ Stage3!FixturesAreOfOneArchive
    /\ part = "gates3" => Gates3!RecordsAreOwn
    /\ part = "p100"   => P100!DigestIsOwn

(* The K5a gate compares the compressions that happened, is green only if  *)
(* the engine emitted NeMo's rows, and is green, but at two boundaries, of *)
(* an engine that did.                                                     *)
FreeRunJudgesRight ==
    part = "free" =>
        /\ Free!TypeOK
        /\ Free!EventsAreCompressions
        /\ Free!GreenIsAligned
        /\ Free!RightIsGreen

(* A chunk gets its own embeddings and predictions, whoever serves it and  *)
(* whatever longer chunk left its rows, and the counters of the bench      *)
(* account for every chunk that came to a route.                           *)
RoutesServeTheirChunk ==
    part = "routes" =>
        /\ Routes!TypeOK
        /\ Routes!ServedIsReference
        /\ Routes!CountersAddUp

(* Every program ends, and has then said all: a log reported as ended was  *)
(* printed whole, a green stage-2 gate measured every metric that has no   *)
(* default, every command ends, a session that began its cases writes a    *)
(* verdict, a stage-3 gate too but for its two unguarded raises, a stage-2 *)
(* kernel with its checkpoint accounts for four gates, and a P100 session  *)
(* emits its report ("exits after --seconds so callers are never blocked", *)
(* "diagnostics must survive").                                            *)
Busy  == \/ part = "client" /\ clientCmd # Client!Idle
         \/ part = "step6" /\ Step6!InCases
         \/ part \in {"gates3", "stage2", "p100"}
Ended == /\ part = "client" => clientCmd = Client!Idle
         /\ part = "step6"  => Step6!VerdictOut
         /\ part = "gates3" => Gates3!Ended
         /\ part = "stage2" => Stage2Run!Accounted
         /\ part = "p100"   => P100!Emitted
ProgramsEndInFull ==
    /\ [][Client!EndsWhole]_vars
    /\ [][Stage2Run!ReportsMeasured]_vars
    /\ Busy ~> Ended

-----------------------------------------------------------------------------
(* The algorithms without state, each on the inputs it is made for.        *)
Of(kind) == part = "pure" /\ input[1] = kind

(* Programs that must compute the same do: the converter, the loader and   *)
(* the mirror list the same tensors, and what converts is bound to its own *)
(* slots while another model is refused; the four stems put the same       *)
(* frames behind every row, padded or not, the four relative shifts the    *)
(* same position behind every score, and every layer is the same term on   *)
(* the host, on the device over stale scratch, in the gates and, but for   *)
(* one bias, in the mirror.  The arena a route sizes holds every span it   *)
(* takes, and the scratch of a layer its regions for every shorter window. *)
(* Segments are the stretches of padded speech, final after a pad and a    *)
(* gap, and the port differs from to_segments where its comment says.  A   *)
(* patched source has its helper at file scope, and exit 0 of the          *)
(* cross-card diff means that any two cards agree.  A converted            *)
(* configuration arrives at the loader's fields, and is refused exactly    *)
(* where the engine has no choice.  The P100 session fits its runtime to   *)
(* recordings of two lengths or not at all.                                *)
AlgorithmsAgree ==
    /\ Of("weights") => WeightLists!ConvertedIsBound(input[2], input[3], input[4])
    /\ Of("weights") /\ input[4] = "whole" =>
           /\ WeightLists!ThreeListsAgree(input[2])
           /\ WeightLists!ForeignIsRefused(input[2])
    /\ Of("config") => Keys!ConfigArrives(input[2])
    /\ Of("rows") =>
           LET t == input[2]
               n == input[3]
           IN  /\ t > 0 => Forward!StemsAgree(t, n)
               /\ n \in 1 .. t => Forward!StemIgnoresPadding(t, n)
               /\ n \in 1 .. 5 /\ t \in n .. 7 => Forward!ScoresAgree(t, n)
               /\ t \in 1 .. 6 /\ n \in {1, 3, 5, 9} => Forward!K2IsTheEngine(t, n)
               /\ t = 1 /\ n = 1 => Forward!LayersAgree
    /\ Of("arena") =>
           /\ Arena!ArenaHolds(input[2], input[3])
           /\ \A t \in 1 .. input[3] : t <= 12 => Arena!ScratchFits(input[2], t, input[3])
    /\ Of("speech") => \A p \in [1 .. input[3] -> input[4]] :
           /\ Turns!SegmentsAreStretches(input[2], p)
           /\ Turns!SegmentsSettle(input[2], p)
           /\ Turns!PortDiffersAsListed(input[2], p)
    /\ Of("patch") => Patch!PatchedOnceAtFileScope(input[2])
    /\ Of("cross") => Cards!GreenIsAgreement(input[2], input[3])
    /\ part = "p100" => P100!FitHasTwoLengths

(* The free-running gate compares every real row of the last chunk's FIFO, *)
(* as its comment says.                                                    *)
RealPrefixIsCompared == part = "free" => Free!RealPrefixIsCompared
=============================================================================
