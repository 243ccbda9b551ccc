----------------------------- MODULE SessionProofs -----------------------------
(***************************************************************************)
(* Proofs about the programs that run at the Kaggle service, as            *)
(* KernelSessions composes them with the others: whose input a stage-3     *)
(* kernel, its gates and the P100 session read, for any archives mounted,  *)
(* any cases, any recordings and any number of runs, workers and outcomes; *)
(* and what a green verdict, a pass or an accepted dump of any of them     *)
(* rests on.                                                               *)
(***************************************************************************)
EXTENDS KernelSessions, SelectionProofs, SequenceTheorems, TLAPS

\* Each program takes a step of its own or waits.
LEMMA SessionsOrWait ==
    ASSUME [Next]_vars
    PROVE  /\ Stage3!Next \/ UNCHANGED stage3Vars
           /\ Gates3!Next \/ UNCHANGED gates3Vars
           /\ P100!Next \/ UNCHANGED p100Vars
           /\ Step6!Next \/ UNCHANGED step6Vars
           /\ Gpu!Next \/ UNCHANGED gpuVars
           /\ Stage2Run!Next \/ UNCHANGED stage2Vars
           /\ Refs!Next \/ UNCHANGED refsVars
           /\ Official!Next \/ UNCHANGED officialVars
<1>1. Stage3!Next \/ UNCHANGED stage3Vars
  BY SMT DEF Next, Only, vars, stage3Vars
<1>2. Gates3!Next \/ UNCHANGED gates3Vars
  BY SMT DEF Next, Only, vars, gates3Vars
<1>3. P100!Next \/ UNCHANGED p100Vars
  BY SMT DEF Next, Only, vars, p100Vars
<1>4. Step6!Next \/ UNCHANGED step6Vars
  BY SMT DEF Next, Only, vars, step6Vars
<1>5. Gpu!Next \/ UNCHANGED gpuVars
  BY SMT DEF Next, Only, vars, gpuVars
<1>6. Stage2Run!Next \/ UNCHANGED stage2Vars
  BY SMT DEF Next, Only, vars, stage2Vars
<1>7. Refs!Next \/ UNCHANGED refsVars
  BY SMT DEF Next, Only, vars, refsVars
<1>8. Official!Next \/ UNCHANGED officialVars
  BY SMT DEF Next, Only, vars, officialVars
<1> QED
  BY <1>1, <1>2, <1>3, <1>4, <1>5, <1>6, <1>7, <1>8

-----------------------------------------------------------------------------
(* The stage-3 kernel: whole weights, and fixtures of one archive.         *)

Mounts3 == [weights : BOOLEAN, ref : BOOLEAN, zips : Archives]

\* What the probe lets pass is whole, and what it probes was converted from a
\* whole checkpoint.
WholeOnTheWay ==
    /\ s3Pc = "probe" /\ s3Gate # "k6" => using = "whole"
    /\ s3Pc = "find" => /\ using = "whole"
                        /\ s3Gate # "k6" => dfw1 = "whole"

Stage3Inv == /\ Stage3!TypeOK
             /\ mounted \in Mounts3
             /\ WholeOnTheWay
             /\ Stage3!GateOnWholeWeights
             /\ Stage3!FixturesAreOfOneArchive

\* What is left after the archives is the first that has the sentinel's probs.
LEMMA OneArchiveStays ==
    ASSUME NEW dest, NEW zips \in Archives, Stage3!Good(zips) # {}
    PROVE  \E k \in DOMAIN zips :
              zips[k] = "good" /\ Stage3!Extracted(dest, Stage3!Opened(zips)) = {k}
<1> USE DEF Stage3!Good, Stage3!Opened
<1>1. DOMAIN zips \subseteq Nat
  BY SessionInputs
<1>2. PICK m \in Stage3!Good(zips) : \A h \in Stage3!Good(zips) : m <= h
  <2>1. Stage3!Good(zips) \subseteq Nat
    BY <1>1
  <2> HIDE DEF Stage3!Good
  <2> QED
    BY <2>1, LeastNat
<1>3. m \in Stage3!Opened(zips)
  BY <1>2
<1>4. \A j \in Stage3!Opened(zips) : j <= m
  BY <1>2
<1>5. \A k \in Stage3!Opened(zips) :
          (\A j \in Stage3!Opened(zips) : j <= k) <=> k = m
  <2>1. m \in Nat /\ \A k \in Stage3!Opened(zips) : k \in Nat
    BY <1>1, <1>3
  <2>2. m <= m
    BY <2>1
  <2>3. \A k \in Stage3!Opened(zips) : m <= k /\ k <= m => k = m
    BY <2>1
  <2> HIDE DEF Stage3!Opened
  <2> QED
    BY <1>3, <1>4, <2>3
<1>6. Stage3!Extracted(dest, Stage3!Opened(zips)) = {m}
  <2> HIDE DEF Stage3!Opened
  <2> QED
    BY <1>3, <1>5 DEF Stage3!Extracted
<1> QED
  BY <1>2, <1>6

\* The stage-3 kernel starts so.
LEMMA Stage3Starts ==
    ASSUME Stage3!Init
    PROVE  Stage3Inv
<1> USE DEF Stage3!Init
<1>1. Stage3!TypeOK /\ mounted \in Mounts3
  <2>1. mounted \in Mounts3
    BY DEF Mounts3
  <2>2. Stage3!Range(mounted.zips) \subseteq Stage3!Kinds
    BY <2>1, SessionInputs DEF Mounts3, Stage3!Range
  <2>3. s3Run \in 1 .. MaxRuns
    BY SessionInputs
  <2> QED
    BY <2>1, <2>2, <2>3 DEF Stage3!TypeOK
<1>2. WholeOnTheWay /\ Stage3!GateOnWholeWeights /\ Stage3!FixturesAreOfOneArchive
  BY DEF WholeOnTheWay, Stage3!GateOnWholeWeights, Stage3!FixturesAreOfOneArchive
<1> QED
  BY <1>1, <1>2 DEF Stage3Inv

\* Every step of the stage-3 kernel keeps this.
LEMMA Stage3Keeps ==
    ASSUME Stage3Inv, Stage3!Next \/ UNCHANGED stage3Vars
    PROVE  Stage3Inv'
<1> USE DEF Stage3Inv
<1> DEFINE Types == Stage3!TypeOK /\ mounted \in Mounts3
           Whole == WholeOnTheWay /\ Stage3!GateOnWholeWeights
<1>1. CASE UNCHANGED stage3Vars
  <2>1. Types'
    BY <1>1 DEF stage3Vars, Stage3!TypeOK, Mounts3
  <2>2. Whole' /\ Stage3!FixturesAreOfOneArchive'
    BY <1>1 DEF stage3Vars, WholeOnTheWay, Stage3!GateOnWholeWeights,
                Stage3!FixturesAreOfOneArchive
  <2> QED
    BY <2>1, <2>2
\* Up to the probe the fixtures are not touched, nor is the gate at hand.
<1>2. CASE \/ Stage3!compile_runner \/ Stage3!Mounted \/ Stage3!Download
           \/ Stage3!_ensure_dfw1 \/ Stage3!Probe
  <2> USE DEF Stage3!compile_runner, Stage3!Mounted, Stage3!Download, Stage3!_ensure_dfw1,
              Stage3!Probe, Stage3!Raise, Stage3!Cached, Stage3!Probed
  <2>1. Types'
    BY <1>2 DEF Stage3!TypeOK, Mounts3
  <2>2. Whole'
    BY <1>2 DEF WholeOnTheWay, Stage3!GateOnWholeWeights
  <2>3. s3Pc' # "gate"
    BY <1>2
  <2> QED
    BY <2>1, <2>2, <2>3 DEF Stage3!FixturesAreOfOneArchive
<1>3. CASE Stage3!find_fixtures_dir \/ Stage3!find_ref_dir
  <2> USE DEF Stage3!find_fixtures_dir, Stage3!find_ref_dir, Stage3!Raise
  <2>1. Types'
    <3>1. Stage3!Extracted(s3Fixtures, Stage3!Opened(mounted.zips))
             \subseteq UNION {DOMAIN z : z \in Archives}
      <4>1. mounted.zips \in Archives
        BY DEF Mounts3
      <4>2. Stage3!Opened(mounted.zips) \subseteq DOMAIN mounted.zips
        BY DEF Stage3!Opened
      <4> HIDE DEF Stage3!Opened
      <4> QED
        BY <4>1, <4>2 DEF Stage3!Extracted, Stage3!TypeOK
    <3> HIDE DEF Stage3!Extracted
    <3> QED
      BY <1>3, <3>1 DEF Stage3!TypeOK, Mounts3
  <2>2. Whole'
    BY <1>3 DEF WholeOnTheWay, Stage3!GateOnWholeWeights
  <2>3. Stage3!FixturesAreOfOneArchive'
    <3>1. CASE Stage3!Good(mounted.zips) = {} \/ mounted.ref \/ Stage3!find_ref_dir
      <4>1. s3Pc' = "raised" \/ ref' = << "mount" >>
        BY <1>3, <3>1
      <4> QED
        BY <4>1 DEF Stage3!FixturesAreOfOneArchive
    <3>2. CASE /\ Stage3!Good(mounted.zips) # {} /\ ~mounted.ref
               /\ Stage3!find_fixtures_dir
      <4>1. /\ mounted.zips \in Archives /\ mounted' = mounted
            /\ s3Fixtures' = Stage3!Extracted(s3Fixtures, Stage3!Opened(mounted.zips))
        BY <3>2 DEF Mounts3
      <4> QED
        BY <3>2, <4>1, OneArchiveStays DEF Stage3!FixturesAreOfOneArchive
    <3> QED
      BY <1>3, <3>1, <3>2
  <2> QED
    BY <2>1, <2>2, <2>3
<1>4. CASE Stage3!RunGate \/ Stage3!Rerun
  <2> USE DEF Stage3!RunGate, Stage3!Rerun
  <2>1. Types'
    <3>1. mounted' \in Mounts3
      BY <1>4 DEF Mounts3
    <3>2. Stage3!Range(mounted'.zips) \subseteq Stage3!Kinds
      BY <3>1, SessionInputs DEF Mounts3, Stage3!Range
    <3>3. s3Run' \in 1 .. MaxRuns
      BY <1>4, SessionInputs DEF Stage3!TypeOK
    <3> QED
      BY <1>4, <3>1, <3>2, <3>3 DEF Stage3!TypeOK
  <2>2. s3Pc' \in {"end", "raised", "compile"}
    BY <1>4
  <2> QED
    BY <2>1, <2>2 DEF WholeOnTheWay, Stage3!GateOnWholeWeights,
                      Stage3!FixturesAreOfOneArchive
<1> QED
  BY <1>1, <1>2, <1>3, <1>4 DEF Stage3!Next

-----------------------------------------------------------------------------
(* The pool of the gates: a job reads back what its own process wrote.     *)

Files == [by : Gates3!AllJobs \X (1 .. 2), value : Gates3!Values]
Tasks == [step : {"run", "read"}, pass : 1 .. 2, got : Seq(Files)]
Records == [error : BOOLEAN, got : Seq(Files)]

PoolTypes ==
    /\ found \subseteq CASES
    /\ g3Queue \in Seq(Gates3!AllJobs)
    /\ at \in [DOMAIN at -> Tasks] /\ DOMAIN at \subseteq Gates3!AllJobs
    /\ g3Disk \in [DOMAIN g3Disk -> Files]
    /\ record \in [DOMAIN record -> Records] /\ DOMAIN record \subseteq Gates3!AllJobs

\* A job has read one file of its own for each pass behind it, and one that is
\* about to read finds the file of its process.
ReadsItsOwn ==
    \A j \in DOMAIN at :
        /\ at[j].pass <= Gates3!Passes(j)
        /\ Len(at[j].got) = at[j].pass - 1
        /\ \A p \in DOMAIN at[j].got : at[j].got[p].by = << j, p >>
        /\ at[j].step = "read" =>
               /\ Gates3!Prefix(j, at[j].pass) \in DOMAIN g3Disk
               /\ g3Disk[Gates3!Prefix(j, at[j].pass)].by = << j, at[j].pass >>

PoolInv == PoolTypes /\ ReadsItsOwn /\ Gates3!RecordsAreOwn

\* What Stage3Gates queues are jobs of the gate.
LEMMA JobsAreJobs ==
    ASSUME found \subseteq CASES, NEW cases \in Gates3!SetToSeqs(found)
    PROVE  Gates3!Jobs(cases) \in Seq(Gates3!AllJobs)
<1>1. Cardinality(found) \in Nat
  BY SessionInputs, FS_Subset, FS_CardinalityType
<1>2. cases \in [1 .. Cardinality(found) -> found]
  BY DEF Gates3!SetToSeqs, Gates3!Cardinality, Cardinality
<1>3. cases \in Seq(found) /\ Len(cases) = Cardinality(found) /\ Len(cases) \in Nat
  BY <1>1, <1>2
<1>4. \A c \in found : /\ << c, "case" >> \in Gates3!AllJobs
                       /\ << c, "whole" >> \in Gates3!AllJobs
                       /\ << c, "drip" >> \in Gates3!AllJobs
  BY DEF Gates3!AllJobs
<1>5. CASE g3Gate = "k5a"
  <2>1. ASSUME NEW n \in 1 .. 2 * Len(cases)
        PROVE  Gates3!JobsOf(cases[(n + 1) \div 2])[2 - (n % 2)] \in Gates3!AllJobs
    <3>1. (n + 1) \div 2 \in 1 .. Len(cases) /\ 2 - (n % 2) \in {1, 2}
      BY <1>3
    <3>2. cases[(n + 1) \div 2] \in found
      BY <1>3, <3>1
    <3>3. ASSUME NEW c \in found, NEW k \in {1, 2}
          PROVE  Gates3!JobsOf(c)[k] \in Gates3!AllJobs
      <4>1. Gates3!JobsOf(c)[k] = << c, Gates3!Feeds[k] >>
        BY <1>5 DEF Gates3!JobsOf
      <4>2. Gates3!Feeds[k] \in {"whole", "drip"}
        BY DEF Gates3!Feeds
      <4> QED
        BY <1>4, <4>1, <4>2
    <3> QED
      BY <3>1, <3>2, <3>3
  <2>2. 2 * Len(cases) \in Nat
    BY <1>3
  <2> QED
    BY <1>5, <2>1, <2>2, IsASeq DEF Gates3!Jobs
<1>6. CASE g3Gate # "k5a"
  <2>1. \A n \in 1 .. Len(cases) : Gates3!JobsOf(cases[n])[1] \in Gates3!AllJobs
    <3>1. ASSUME NEW n \in 1 .. Len(cases)
          PROVE  cases[n] \in found /\ Gates3!JobsOf(cases[n])[1] = << cases[n], "case" >>
      BY <1>3, <1>6 DEF Gates3!JobsOf
    <3> QED
      BY <1>4, <3>1
  <2>2. DOMAIN cases = 1 .. Len(cases)
    BY <1>3
  <2>3. Gates3!Jobs(cases) = [n \in 1 .. Len(cases) |-> Gates3!JobsOf(cases[n])[1]]
    BY <1>6, <2>2 DEF Gates3!Jobs
  <2> QED
    BY <1>3, <2>1, <2>3
<1> QED
  BY <1>5, <1>6

\* Two passes write to the same file only if they are of the same job.
LEMMA FilesApart ==
    ASSUME NEW j \in Gates3!AllJobs, NEW i \in Gates3!AllJobs, NEW p, NEW q,
           Gates3!Prefix(j, p) = Gates3!Prefix(i, q)
    PROVE  j = i /\ p = q
  BY DEF Gates3!AllJobs, Gates3!Prefix

\* The pool starts empty.
LEMMA PoolStarts ==
    ASSUME Gates3!Init
    PROVE  PoolInv
<1>1. << >> \in Seq(Gates3!AllJobs)
  OBVIOUS
<1>2. DOMAIN Gates3!Empty = {}
  BY DEF Gates3!Empty
<1>3. Gates3!Empty \in [{} -> Tasks] /\ Gates3!Empty \in [{} -> Files]
      /\ Gates3!Empty \in [{} -> Records]
  BY DEF Gates3!Empty
<1> QED
  BY <1>1, <1>2, <1>3 DEF Gates3!Init, PoolInv, PoolTypes, ReadsItsOwn, Gates3!RecordsAreOwn

\* A worker takes a job.
LEMMA TakeKeeps ==
    ASSUME PoolInv, Gates3!Take
    PROVE  PoolInv'
<1> DEFINE j == Head(g3Queue)
           task == [step |-> "run", pass |-> 1, got |-> << >>]
<1> USE DEF PoolInv, Gates3!Take
<1>1. /\ g3Queue # << >> /\ g3Queue' = Tail(g3Queue) /\ at' = Gates3!Put(at, j, task)
      /\ UNCHANGED << g3Gate, found, g3Disk, record >>
  BY DEF task, j
<1>2. j \in Gates3!AllJobs /\ g3Queue' \in Seq(Gates3!AllJobs)
  BY <1>1 DEF PoolTypes
<1>3. task \in Tasks /\ task.step = "run" /\ task.pass = 1 /\ task.got = << >>
  BY DEF Tasks
<1> HIDE DEF j, task
<1>4. /\ at' \in [DOMAIN at' -> Tasks] /\ DOMAIN at' = DOMAIN at \cup {j}
      /\ at'[j] = task /\ \A x \in DOMAIN at : x # j => at'[x] = at[x]
  <2>1. at \in [DOMAIN at -> Tasks]
    BY DEF PoolTypes
  <2> QED
    BY <1>1, <1>3, <2>1 DEF Gates3!Put
<1>5. PoolTypes'
  BY <1>1, <1>2, <1>4 DEF PoolTypes
<1>6. ReadsItsOwn'
  <2>1. ASSUME NEW i \in DOMAIN at', i # j
        PROVE  i \in DOMAIN at /\ at'[i] = at[i]
    BY <1>4, <2>1
  <2>2. Gates3!Passes(j) \in {1, 2}
    BY DEF Gates3!Passes
  <2> QED
    BY <1>1, <1>3, <1>4, <2>1, <2>2 DEF ReadsItsOwn, Gates3!Passes, Gates3!Prefix
<1>7. Gates3!RecordsAreOwn'
  BY <1>1 DEF Gates3!RecordsAreOwn, Gates3!Passes
<1> QED
  BY <1>5, <1>6, <1>7

\* A job returns what it got, or an error: it is taken no more.
LEMMA ReturnKeeps ==
    ASSUME PoolInv, NEW j \in DOMAIN at, NEW r \in Records, Gates3!Return(j, r),
           UNCHANGED << g3Gate, found, g3Queue, g3Disk >>,
           ~r.error => /\ Len(r.got) = Gates3!Passes(j)
                       /\ \A p \in DOMAIN r.got : r.got[p].by = << j, p >>
    PROVE  PoolInv'
<1> USE DEF PoolInv
<1>1. /\ record' = Gates3!Put(record, j, r)
      /\ at' = [i \in DOMAIN at \ {j} |-> at[i]]
  BY DEF Gates3!Return
<1>2. /\ record' \in [DOMAIN record' -> Records] /\ DOMAIN record' = DOMAIN record \cup {j}
      /\ record'[j] = r /\ \A x \in DOMAIN record : x # j => record'[x] = record[x]
  <2>1. record \in [DOMAIN record -> Records]
    BY DEF PoolTypes
  <2> QED
    BY <1>1, <2>1 DEF Gates3!Put
<1>3. /\ DOMAIN at' = DOMAIN at \ {j} /\ \A i \in DOMAIN at' : at'[i] = at[i]
      /\ at' \in [DOMAIN at' -> Tasks]
  BY <1>1 DEF PoolTypes
<1>4. PoolTypes'
  BY <1>2, <1>3 DEF PoolTypes
<1>5. ReadsItsOwn'
  BY <1>3 DEF ReadsItsOwn, Gates3!Passes, Gates3!Prefix
<1>6. Gates3!RecordsAreOwn'
  BY <1>2 DEF Gates3!RecordsAreOwn, Gates3!Passes
<1> QED
  BY <1>4, <1>5, <1>6

\* A runner ends with its file written, or another outcome.
LEMMA RunnerEndsKeeps ==
    ASSUME PoolInv, NEW j \in Gates3!AllJobs, Gates3!RunnerEnds(j)
    PROVE  PoolInv'
<1> USE DEF PoolInv
<1>1. /\ j \in DOMAIN at /\ at[j].step = "run" /\ at[j] \in Tasks
      /\ UNCHANGED << g3Gate, found, g3Queue >>
  BY DEF Gates3!RunnerEnds, PoolTypes
<1>2. CASE Gates3!Return(j, [error |-> TRUE, got |-> << >>]) /\ g3Disk' = g3Disk
  <2>1. [error |-> TRUE, got |-> << >>] \in Records
    BY DEF Records
  <2> QED
    BY <1>1, <1>2, <2>1, ReturnKeeps
<1>3. ASSUME NEW v \in Gates3!Values,
             g3Disk' = Gates3!Put(g3Disk, Gates3!Prefix(j, at[j].pass),
                                  [by |-> << j, at[j].pass >>, value |-> v]),
             at' = [at EXCEPT ![j].step = "read"],
             record' = record
      PROVE  PoolInv'
  <2> DEFINE prefix == Gates3!Prefix(j, at[j].pass)
             written == [by |-> << j, at[j].pass >>, value |-> v]
  <2>1. written \in Files /\ written.by = << j, at[j].pass >>
    BY <1>1 DEF Files, Tasks
  <2>2. g3Disk' = Gates3!Put(g3Disk, prefix, written)
    BY <1>3
  <2> HIDE DEF written
  <2>3. /\ g3Disk' \in [DOMAIN g3Disk' -> Files] /\ DOMAIN g3Disk' = DOMAIN g3Disk \cup {prefix}
        /\ g3Disk'[prefix] = written
        /\ \A x \in DOMAIN g3Disk : x # prefix => g3Disk'[x] = g3Disk[x]
    <3> HIDE DEF prefix
    <3>1. g3Disk \in [DOMAIN g3Disk -> Files]
      BY DEF PoolTypes
    <3> QED
      BY <2>1, <2>2, <3>1 DEF Gates3!Put
  <2>4. /\ DOMAIN at' = DOMAIN at /\ at' \in [DOMAIN at' -> Tasks]
        /\ at'[j].step = "read" /\ at'[j].pass = at[j].pass /\ at'[j].got = at[j].got
        /\ \A i \in DOMAIN at : i # j => at'[i] = at[i]
    BY <1>1, <1>3 DEF PoolTypes, Tasks
  <2>5. PoolTypes'
    BY <1>1, <1>3, <2>3, <2>4 DEF PoolTypes
  <2>6. ASSUME NEW i \in DOMAIN at, i # j
        PROVE  /\ Gates3!Prefix(i, at[i].pass) # prefix
               /\ i \in Gates3!AllJobs
    BY <2>6, FilesApart DEF PoolTypes
  <2>7. ReadsItsOwn'
    <3> SUFFICES ASSUME NEW i \in DOMAIN at'
                 PROVE  /\ at'[i].pass <= Gates3!Passes(i)'
                        /\ Len(at'[i].got) = at'[i].pass - 1
                        /\ \A p \in DOMAIN at'[i].got : at'[i].got[p].by = << i, p >>
                        /\ at'[i].step = "read" =>
                             /\ Gates3!Prefix(i, at'[i].pass) \in DOMAIN g3Disk'
                             /\ g3Disk'[Gates3!Prefix(i, at'[i].pass)].by = << i, at'[i].pass >>
      BY DEF ReadsItsOwn, Gates3!Prefix
    <3>1. Gates3!Passes(i)' = Gates3!Passes(i)
      BY <1>1 DEF Gates3!Passes
    <3>2. CASE i = j
      BY <1>1, <2>1, <2>3, <2>4, <3>1, <3>2 DEF ReadsItsOwn
    <3>3. CASE i # j
      <4>1. i \in DOMAIN at /\ at'[i] = at[i]
        BY <2>4, <3>3
      <4>2. Gates3!Prefix(i, at[i].pass) # prefix
        BY <2>6, <3>3, <4>1
      <4> HIDE DEF prefix
      <4> QED
        BY <2>3, <3>1, <4>1, <4>2 DEF ReadsItsOwn
    <3> QED
      BY <3>2, <3>3
  <2>8. Gates3!RecordsAreOwn'
    BY <1>1, <1>3 DEF Gates3!RecordsAreOwn, Gates3!Passes
  <2> QED
    BY <2>5, <2>7, <2>8
<1> QED
  BY <1>2, <1>3 DEF Gates3!RunnerEnds

\* The worker reads its own files back.
LEMMA ReadBackKeeps ==
    ASSUME PoolInv, NEW j \in Gates3!AllJobs, Gates3!ReadBack(j)
    PROVE  PoolInv'
<1> USE DEF PoolInv
<1> DEFINE a == at[j]
           read == g3Disk[Gates3!Prefix(j, a.pass)]
           got == Append(a.got, read)
<1>1. /\ j \in DOMAIN at /\ a.step = "read" /\ a \in Tasks
      /\ UNCHANGED << g3Gate, found, g3Queue, g3Disk >>
  BY DEF Gates3!ReadBack, PoolTypes
<1>2. /\ IF a.pass < Gates3!Passes(j)
           THEN /\ at' = [at EXCEPT ![j] = [step |-> "run", pass |-> a.pass + 1, got |-> got]]
                /\ record' = record
           ELSE Gates3!Return(j, [error |-> FALSE, got |-> got])
  BY DEF Gates3!ReadBack
<1>3. /\ a.pass \in 1 .. 2 /\ a.got \in Seq(Files) /\ Len(a.got) = a.pass - 1
      /\ \A p \in DOMAIN a.got : a.got[p].by = << j, p >>
      /\ a.pass <= Gates3!Passes(j)
  BY <1>1 DEF Tasks, ReadsItsOwn
<1>4. read \in Files /\ read.by = << j, a.pass >>
  BY <1>1 DEF ReadsItsOwn, PoolTypes
<1> HIDE DEF read, a
<1>5. /\ got \in Seq(Files) /\ Len(got) = a.pass
      /\ \A p \in DOMAIN got : got[p].by = << j, p >>
  <2>1. got \in Seq(Files) /\ Len(got) = a.pass
    BY <1>3, <1>4
  <2>2. ASSUME NEW p \in DOMAIN got PROVE got[p].by = << j, p >>
    <3>1. CASE p = a.pass
      BY <1>3, <1>4, <3>1
    <3>2. CASE p # a.pass
      BY <1>3, <1>4, <2>1, <3>2
    <3> QED
      BY <3>1, <3>2
  <2> QED
    BY <2>1, <2>2
<1> HIDE DEF got
<1>6. CASE a.pass < Gates3!Passes(j)
  <2> DEFINE next == [step |-> "run", pass |-> a.pass + 1, got |-> got]
  <2>1. Gates3!Passes(j) \in {1, 2}
    BY DEF Gates3!Passes
  <2>2. /\ next \in Tasks /\ next.step = "run" /\ next.pass = a.pass + 1 /\ next.got = got
    BY <1>3, <1>5, <1>6, <2>1 DEF Tasks
  <2>3. at' = [at EXCEPT ![j] = next] /\ record' = record
    BY <1>2, <1>6
  <2> HIDE DEF next
  <2>4. /\ DOMAIN at' = DOMAIN at /\ at' \in [DOMAIN at' -> Tasks] /\ at'[j] = next
        /\ \A i \in DOMAIN at : i # j => at'[i] = at[i]
    BY <1>1, <2>2, <2>3 DEF PoolTypes
  <2>5. PoolTypes'
    BY <1>1, <2>3, <2>4 DEF PoolTypes
  <2>6. ReadsItsOwn'
    <3>1. /\ next.pass <= Gates3!Passes(j) /\ Len(next.got) = next.pass - 1
          /\ next.step # "read"
      BY <1>3, <1>5, <1>6, <2>1, <2>2
    <3>2. \A i : Gates3!Passes(i)' = Gates3!Passes(i)
      BY <1>1 DEF Gates3!Passes
    <3>3. \A p \in DOMAIN next.got : next.got[p].by = << j, p >>
      BY <1>5, <2>2
    <3>4. ASSUME NEW i \in DOMAIN at', i # j
          PROVE  i \in DOMAIN at /\ at'[i] = at[i]
      BY <2>4, <3>4
    <3> QED
      BY <1>1, <2>4, <3>1, <3>2, <3>3, <3>4 DEF ReadsItsOwn, Gates3!Prefix
  <2>7. Gates3!RecordsAreOwn'
    BY <1>1, <2>3 DEF Gates3!RecordsAreOwn, Gates3!Passes
  <2> QED
    BY <2>5, <2>6, <2>7
<1>7. CASE ~ (a.pass < Gates3!Passes(j))
  <2> DEFINE r == [error |-> FALSE, got |-> got]
  <2>1. Gates3!Passes(j) \in {1, 2}
    BY DEF Gates3!Passes
  <2>2. a.pass = Gates3!Passes(j)
    BY <1>3, <1>7, <2>1
  <2>3. r \in Records /\ r.got = got
    BY <1>5 DEF Records
  <2>4. Gates3!Return(j, r)
    BY <1>2, <1>7
  <2> HIDE DEF r
  <2> QED
    BY <1>1, <1>5, <2>2, <2>3, <2>4, ReturnKeeps
<1> QED
  BY <1>6, <1>7

\* Every step of a gate keeps this.
LEMMA PoolKeeps ==
    ASSUME PoolInv, Gates3!Next \/ UNCHANGED gates3Vars
    PROVE  PoolInv'
<1> USE DEF PoolInv
<1>1. CASE \/ UNCHANGED << g3Gate, found, g3Queue, at, g3Disk, record >>
           \/ Gates3!Driver
  <2>1. g3Queue' \in Seq(Gates3!AllJobs)
    <3>1. CASE UNCHANGED g3Queue
      BY <3>1 DEF PoolTypes
    <3>2. CASE \E cases \in Gates3!SetToSeqs(found) : g3Queue' = Gates3!Jobs(cases)
      BY <3>2, JobsAreJobs DEF PoolTypes
    <3> QED
      BY <1>1, <3>1, <3>2 DEF Gates3!Driver
  <2>2. UNCHANGED << g3Gate, found, at, g3Disk, record >>
    BY <1>1 DEF Gates3!Driver
  <2>3. PoolTypes'
    BY <2>1, <2>2 DEF PoolTypes
  <2>4. ReadsItsOwn' /\ Gates3!RecordsAreOwn'
    BY <2>2 DEF ReadsItsOwn, Gates3!RecordsAreOwn, Gates3!Passes, Gates3!Prefix
  <2> QED
    BY <2>3, <2>4
<1>2. CASE \/ UNCHANGED gates3Vars \/ Gates3!Infra \/ Gates3!PoolDone
           \/ Gates3!compare_audio \/ Gates3!judge
  <2>1. UNCHANGED << g3Gate, found, g3Queue, at, g3Disk, record >>
    BY <1>2 DEF gates3Vars, Gates3!Infra, Gates3!PoolDone, Gates3!compare_audio, Gates3!judge
  <2> QED
    BY <1>1, <2>1
<1> QED
  BY <1>1, <1>2, TakeKeeps, RunnerEndsKeeps, ReadBackKeeps DEF Gates3!Next

-----------------------------------------------------------------------------
(* The gates: a job is queued, at work or recorded, in one of the three    *)
(* only, so nothing writes to a file again once it was read.               *)

OfGate(j) == IF g3Gate = "k5a" THEN j[2] \in {"whole", "drip"} ELSE j[2] = "case"
Taken     == DOMAIN at \cup DOMAIN record

EachJobOnce ==
    /\ \A n \in DOMAIN g3Queue :
          /\ OfGate(g3Queue[n]) /\ g3Queue[n] \notin Taken
          /\ \A m \in DOMAIN g3Queue : g3Queue[m] = g3Queue[n] => m = n
    /\ \A j \in Taken : OfGate(j)
    /\ DOMAIN at \cap DOMAIN record = {}

\* Between the driver and the verdict every job of a case found is somewhere.
NoJobLost ==
    /\ g3Pc \in {"pool", "judge"} =>
          \A c \in found : \A k \in DOMAIN Gates3!JobsOf(c) :
              \/ Gates3!JobsOf(c)[k] \in Taken
              \/ \E n \in DOMAIN g3Queue : g3Queue[n] = Gates3!JobsOf(c)[k]
    /\ g3Pc # "pool" => g3Queue = << >> /\ DOMAIN at = {}
    /\ g3Pc = "driver" => DOMAIN record = {}

\* What a job got is what its files hold.
FilesAreRead ==
    /\ \A p \in DOMAIN g3Disk :
          \E j \in Taken : \E q \in 1 .. Gates3!Passes(j) : p = Gates3!Prefix(j, q)
    /\ \A j \in DOMAIN at : \A q \in DOMAIN at[j].got :
          /\ Gates3!Prefix(j, q) \in DOMAIN g3Disk
          /\ g3Disk[Gates3!Prefix(j, q)] = at[j].got[q]
    /\ \A j \in DOMAIN record : \A q \in DOMAIN record[j].got :
          /\ Gates3!Prefix(j, q) \in DOMAIN g3Disk
          /\ g3Disk[Gates3!Prefix(j, q)] = record[j].got[q]

GateTypes ==
    /\ Gates3!TypeOK /\ workers \in Nat /\ g3Gate \in {"k5a", "k6"}
    /\ g3Pc \in {"pool", "judge"} => g3Gate = "k5a" \/ found # {}
    /\ g3Verdict # "none" => g3Pc = "end"

GateInv == GateTypes /\ EachJobOnce /\ NoJobLost /\ FilesAreRead /\ Gates3!GreenIsBacked

\* There are finitely many jobs: a pool that drains has had them all.
LEMMA FewJobs == IsFiniteSet(Gates3!AllJobs)
<1>1. IsFiniteSet({"whole", "drip", "case"})
  <2>1. {"whole", "drip", "case"} = ({"whole"} \cup {"drip"}) \cup {"case"}
    OBVIOUS
  <2>2. IsFiniteSet({"whole"} \cup {"drip"})
    BY FS_Singleton, FS_AddElement
  <2> QED
    BY <2>1, <2>2, FS_AddElement
<1>2. IsFiniteSet(CASES \X {"whole", "drip", "case"})
  BY <1>1, SessionInputs, FS_Product
<1>3. Gates3!AllJobs = CASES \X {"whole", "drip", "case"}
  BY DEF Gates3!AllJobs
<1> QED
  BY <1>2, <1>3

\* The queue the driver makes: every job of every case found, once.
LEMMA JobsOnce ==
    ASSUME found \subseteq CASES, g3Gate \in {"k5a", "k6"}, NEW cases \in Gates3!SetToSeqs(found)
    PROVE  LET jobsOf == Gates3!Jobs(cases)
           IN  /\ \A n \in DOMAIN jobsOf : OfGate(jobsOf[n])
               /\ \A m, n \in DOMAIN jobsOf : jobsOf[m] = jobsOf[n] => m = n
               /\ \A c \in found : \A k \in DOMAIN Gates3!JobsOf(c) :
                     \E n \in DOMAIN jobsOf : jobsOf[n] = Gates3!JobsOf(c)[k]
<1> DEFINE N == Cardinality(found)
           jobsOf == Gates3!Jobs(cases)
<1>1. N \in Nat /\ IsFiniteSet(found)
  BY SessionInputs, FS_Subset, FS_CardinalityType
<1>2. /\ cases \in [1 .. N -> found]
      /\ \A i, j \in 1 .. N : i # j => cases[i] # cases[j]
  BY DEF Gates3!SetToSeqs, Gates3!Cardinality, Cardinality
<1>3. \A c \in found : \E i \in 1 .. N : cases[i] = c
  <2>1. cases \in Injection(1 .. N, found)
    BY <1>2 DEF Injection, IsInjective
  <2>2. Cardinality(1 .. N) = N
    BY <1>1, FS_Interval
  <2>3. cases \in Surjection(1 .. N, found)
    BY <1>1, <2>1, <2>2, FS_Injection
  <2> QED
    BY <2>3 DEF Surjection
<1>4. Len(cases) = N /\ DOMAIN cases = 1 .. N
  BY <1>1, <1>2
<1> HIDE DEF N
<1>5. CASE g3Gate = "k5a"
  <2>1. jobsOf = [n \in 1 .. 2 * N |-> Gates3!JobsOf(cases[(n + 1) \div 2])[2 - (n % 2)]]
    BY <1>4, <1>5 DEF Gates3!Jobs
  <2>2. \A c : /\ DOMAIN Gates3!JobsOf(c) = 1 .. 2
               /\ Gates3!JobsOf(c)[1] = << c, "whole" >>
               /\ Gates3!JobsOf(c)[2] = << c, "drip" >>
    BY <1>5 DEF Gates3!JobsOf, Gates3!Feeds
  <2> HIDE DEF jobsOf
  <2>3. ASSUME NEW n \in 1 .. 2 * N
        PROVE  /\ (n + 1) \div 2 \in 1 .. N /\ 2 - (n % 2) \in {1, 2}
               /\ n = 2 * ((n + 1) \div 2) - 2 + (2 - (n % 2))
    BY <1>1
  <2>4. ASSUME NEW n \in 1 .. 2 * N
        PROVE  \E i \in 1 .. N, k \in {1, 2} :
                  /\ jobsOf[n] = << cases[i], IF k = 1 THEN "whole" ELSE "drip" >>
                  /\ n = 2 * i - 2 + k
    <3> DEFINE i == (n + 1) \div 2
               k == 2 - (n % 2)
    <3>1. i \in 1 .. N /\ k \in {1, 2} /\ n = 2 * i - 2 + k
      BY <2>3
    <3>2. jobsOf[n] = Gates3!JobsOf(cases[i])[k]
      BY <2>1
    <3> HIDE DEF i, k
    <3> QED
      BY <2>2, <3>1, <3>2
  <2>5. ASSUME NEW i \in 1 .. N, NEW k \in {1, 2}
        PROVE  /\ 2 * i - 2 + k \in 1 .. 2 * N
               /\ jobsOf[2 * i - 2 + k] = << cases[i], IF k = 1 THEN "whole" ELSE "drip" >>
    <3> DEFINE n == 2 * i - 2 + k
    <3>1. n \in 1 .. 2 * N /\ (n + 1) \div 2 = i /\ 2 - (n % 2) = k
      <4>1. CASE k = 1
        BY <1>1, <4>1
      <4>2. CASE k = 2
        BY <1>1, <4>2
      <4> QED
        BY <4>1, <4>2
    <3>2. jobsOf[n] = Gates3!JobsOf(cases[i])[k]
      BY <2>1, <3>1
    <3> HIDE DEF n
    <3> QED
      BY <2>2, <3>1, <3>2 DEF n
  <2>6. DOMAIN jobsOf = 1 .. 2 * N
    BY <2>1
  <2>7. \A n \in DOMAIN jobsOf : OfGate(jobsOf[n])
    BY <1>5, <2>4, <2>6 DEF OfGate
  <2>8. ASSUME NEW m \in DOMAIN jobsOf, NEW n \in DOMAIN jobsOf, jobsOf[m] = jobsOf[n]
        PROVE  m = n
    <3>1. PICK i \in 1 .. N, k \in {1, 2} :
             /\ jobsOf[n] = << cases[i], IF k = 1 THEN "whole" ELSE "drip" >>
             /\ n = 2 * i - 2 + k
      BY <2>4, <2>6
    <3>2. PICK h \in 1 .. N, l \in {1, 2} :
             /\ jobsOf[m] = << cases[h], IF l = 1 THEN "whole" ELSE "drip" >>
             /\ m = 2 * h - 2 + l
      BY <2>4, <2>6
    <3>3. cases[i] = cases[h] /\ k = l
      BY <2>8, <3>1, <3>2
    <3>4. i = h
      BY <1>2, <3>3
    <3> QED
      BY <3>1, <3>2, <3>3, <3>4
  <2>9. ASSUME NEW c \in found, NEW k \in DOMAIN Gates3!JobsOf(c)
        PROVE  \E n \in DOMAIN jobsOf : jobsOf[n] = Gates3!JobsOf(c)[k]
    <3>1. PICK i \in 1 .. N : cases[i] = c
      BY <1>3
    <3>2. k \in {1, 2}
      BY <2>2
    <3> QED
      BY <2>2, <2>5, <2>6, <3>1, <3>2
  <2> QED
    BY <2>7, <2>8, <2>9 DEF jobsOf
<1>6. CASE g3Gate # "k5a"
  <2>1. \A c : DOMAIN Gates3!JobsOf(c) = {1} /\ Gates3!JobsOf(c)[1] = << c, "case" >>
    BY <1>6 DEF Gates3!JobsOf
  <2>2. jobsOf = [n \in 1 .. N |-> Gates3!JobsOf(cases[n])[1]]
    BY <1>4, <1>6 DEF Gates3!Jobs
  <2> HIDE DEF jobsOf
  <2>3. DOMAIN jobsOf = 1 .. N /\ \A n \in 1 .. N : jobsOf[n] = << cases[n], "case" >>
    BY <2>1, <2>2
  <2>4. \A m, n \in DOMAIN jobsOf : jobsOf[m] = jobsOf[n] => m = n
    BY <1>2, <2>3
  <2> QED
    BY <1>3, <1>6, <2>1, <2>3, <2>4 DEF OfGate, jobsOf
<1> QED
  BY <1>5, <1>6

\* A gate starts with all its jobs to queue.
LEMMA GateStarts ==
    ASSUME Gates3!Init
    PROVE  GateInv
<1> USE DEF Gates3!Init
<1>1. DOMAIN Gates3!Empty = {}
  BY DEF Gates3!Empty
<1>2. DOMAIN << >> = {}
  OBVIOUS
<1>3. Gates3!TypeOK
  <2>1. Gates3!Cardinality(DOMAIN at) = 0
    BY <1>1, FS_EmptySet DEF Gates3!Cardinality, Cardinality
  <2> QED
    BY <1>1, <2>1, SessionInputs DEF Gates3!TypeOK
<1> QED
  BY <1>1, <1>2, <1>3 DEF GateInv, GateTypes, EachJobOnce, NoJobLost, FilesAreRead, Taken,
                          Gates3!GreenIsBacked

\* A worker takes the first job of the queue.
LEMMA GateTakes ==
    ASSUME PoolInv, GateInv, Gates3!Take
    PROVE  GateInv'
<1> USE DEF GateInv, Gates3!Take
<1> DEFINE j == Head(g3Queue)
           task == [step |-> "run", pass |-> 1, got |-> << >>]
<1>1. /\ g3Pc = "pool" /\ g3Queue # << >> /\ g3Queue' = Tail(g3Queue) /\ at' = Gates3!Put(at, j, task)
      /\ Gates3!Cardinality(DOMAIN at) < workers
      /\ UNCHANGED << g3Gate, found, g3Pc, workers, g3Disk, record, compared, reasons,
                      g3Verdict, g3Odd >>
  BY DEF task, j
<1>2. /\ g3Queue \in Seq(Gates3!AllJobs) /\ DOMAIN at \subseteq Gates3!AllJobs
      /\ g3Queue' \in Seq(Gates3!AllJobs) /\ j = g3Queue[1] /\ 1 \in DOMAIN g3Queue
      /\ \A n \in DOMAIN g3Queue' : n + 1 \in DOMAIN g3Queue /\ g3Queue'[n] = g3Queue[n + 1]
      /\ \A n \in DOMAIN g3Queue : n = 1 \/ (n - 1 \in DOMAIN g3Queue' /\ g3Queue'[n - 1] = g3Queue[n])
  BY <1>1 DEF PoolInv, PoolTypes
<1>3. j \in Gates3!AllJobs /\ task.got = << >>
  BY <1>2
<1> HIDE DEF j, task
<1>4. /\ DOMAIN at' = DOMAIN at \cup {j}
      /\ at'[j] = task /\ \A x \in DOMAIN at : x # j => at'[x] = at[x]
  BY <1>1 DEF Gates3!Put
<1>5. GateTypes'
  <2>1. Cardinality(DOMAIN at') <= workers
    <3>1. IsFiniteSet(DOMAIN at)
      BY <1>2, FewJobs, FS_Subset
    <3>2. /\ Cardinality(DOMAIN at') \in {Cardinality(DOMAIN at), Cardinality(DOMAIN at) + 1}
          /\ Cardinality(DOMAIN at) \in Nat
      BY <1>4, <3>1, FS_AddElement, FS_CardinalityType
    <3>3. Cardinality(DOMAIN at) < workers
      BY <1>1 DEF Gates3!Cardinality, Cardinality
    <3> QED
      BY <3>2, <3>3 DEF GateTypes
  <2>2. Gates3!Cardinality(DOMAIN at') <= workers
    BY <2>1 DEF Gates3!Cardinality, Cardinality
  <2>3. DOMAIN at' \cup DOMAIN record' \subseteq Gates3!AllJobs
    BY <1>1, <1>3, <1>4 DEF GateTypes, Gates3!TypeOK
  <2> QED
    BY <1>1, <2>2, <2>3 DEF GateTypes, Gates3!TypeOK
<1>6. /\ j \notin Taken /\ OfGate(j) /\ Taken' = Taken \cup {j}
      /\ \A x : OfGate(x)' = OfGate(x)
  BY <1>1, <1>2, <1>4 DEF EachJobOnce, Taken, OfGate
<1>7. EachJobOnce'
  <2>1. ASSUME NEW n \in DOMAIN g3Queue'
        PROVE  /\ OfGate(g3Queue'[n]) /\ g3Queue'[n] \notin Taken'
               /\ \A m \in DOMAIN g3Queue' : g3Queue'[m] = g3Queue'[n] => m = n
    <3>1. /\ n + 1 \in DOMAIN g3Queue /\ g3Queue'[n] = g3Queue[n + 1] /\ n \in Nat /\ n + 1 # 1
      BY <1>2
    <3>2. OfGate(g3Queue[n + 1]) /\ g3Queue[n + 1] \notin Taken
      BY <3>1 DEF EachJobOnce
    <3>3. g3Queue[n + 1] # j
      BY <1>2, <3>1 DEF EachJobOnce
    <3>4. ASSUME NEW m \in DOMAIN g3Queue', g3Queue'[m] = g3Queue'[n]
          PROVE  m = n
      <4>1. m + 1 \in DOMAIN g3Queue /\ g3Queue'[m] = g3Queue[m + 1] /\ m \in Nat
        BY <1>2
      <4>2. m + 1 = n + 1
        BY <3>1, <3>4, <4>1 DEF EachJobOnce
      <4> QED
        BY <3>1, <4>1, <4>2
    <3> QED
      BY <1>6, <3>1, <3>2, <3>3, <3>4
  <2>2. DOMAIN at' \cap DOMAIN record' = {} /\ \A i \in Taken' : OfGate(i)
    BY <1>1, <1>4, <1>6 DEF EachJobOnce, Taken
  <2> QED
    BY <1>6, <2>1, <2>2 DEF EachJobOnce
<1>8. NoJobLost'
  <2>1. ASSUME NEW x, \/ x \in Taken \/ \E n \in DOMAIN g3Queue : g3Queue[n] = x
        PROVE  \/ x \in Taken' \/ \E n \in DOMAIN g3Queue' : g3Queue'[n] = x
    BY <1>2, <1>6, <2>1
  <2>2. \A c : Gates3!JobsOf(c)' = Gates3!JobsOf(c)
    BY <1>1 DEF Gates3!JobsOf
  <2> QED
    BY <1>1, <2>1, <2>2 DEF NoJobLost
<1>9. FilesAreRead'
  <2>1. \A i : Gates3!Passes(i)' = Gates3!Passes(i)
    BY <1>1 DEF Gates3!Passes
  <2>2. \A i, q : Gates3!Prefix(i, q)' = Gates3!Prefix(i, q)
    BY DEF Gates3!Prefix
  <2>3. DOMAIN at'[j].got = {}
    BY <1>3, <1>4
  <2>4. \A i \in DOMAIN at' : i = j \/ (i \in DOMAIN at /\ at'[i] = at[i])
    BY <1>4
  <2> QED
    BY <1>1, <1>6, <2>1, <2>2, <2>3, <2>4 DEF FilesAreRead
<1>10. Gates3!GreenIsBacked'
  BY <1>1 DEF GateTypes, Gates3!GreenIsBacked
<1> QED
  BY <1>5, <1>7, <1>8, <1>9, <1>10

\* A job that is over goes from the ones at work to the recorded ones.
LEMMA GateReturns ==
    ASSUME PoolInv, GateInv, NEW j \in DOMAIN at, NEW r \in Records, Gates3!Return(j, r),
           UNCHANGED << g3Gate, found, g3Pc, workers, g3Queue, g3Disk, compared, reasons,
                        g3Verdict >>,
           g3Odd' \in 0 .. MaxOdd,
           \A q \in DOMAIN r.got : /\ Gates3!Prefix(j, q) \in DOMAIN g3Disk
                                   /\ g3Disk[Gates3!Prefix(j, q)] = r.got[q]
    PROVE  GateInv'
<1> USE DEF GateInv
<1>1. /\ record' = Gates3!Put(record, j, r)
      /\ at' = [i \in DOMAIN at \ {j} |-> at[i]]
  BY DEF Gates3!Return
<1>2. /\ DOMAIN record' = DOMAIN record \cup {j}
      /\ record'[j] = r /\ \A x \in DOMAIN record : x # j => record'[x] = record[x]
  BY <1>1 DEF Gates3!Put
<1>3. /\ DOMAIN at' = DOMAIN at \ {j} /\ \A i \in DOMAIN at' : at'[i] = at[i]
  BY <1>1
<1>4. Taken' = Taken /\ \A x : OfGate(x)' = OfGate(x)
  BY <1>2, <1>3 DEF Taken, OfGate
<1>5. g3Pc = "pool" /\ j \in Gates3!AllJobs
  BY DEF NoJobLost, PoolInv, PoolTypes
<1>6. GateTypes'
  <2>1. Cardinality(DOMAIN at') <= workers
    <3>1. IsFiniteSet(DOMAIN at)
      BY FewJobs, FS_Subset DEF PoolInv, PoolTypes
    <3>2. /\ Cardinality(DOMAIN at') <= Cardinality(DOMAIN at)
          /\ Cardinality(DOMAIN at) \in Nat /\ Cardinality(DOMAIN at') \in Nat
      BY <1>3, <3>1, FS_Subset, FS_CardinalityType
    <3>3. Cardinality(DOMAIN at) <= workers
      BY DEF GateTypes, Gates3!TypeOK, Gates3!Cardinality, Cardinality
    <3> QED
      BY <3>2, <3>3 DEF GateTypes
  <2>2. Gates3!Cardinality(DOMAIN at') <= workers
    BY <2>1 DEF Gates3!Cardinality, Cardinality
  <2>3. DOMAIN at' \cup DOMAIN record' \subseteq Gates3!AllJobs
    BY <1>2, <1>3 DEF GateTypes, Gates3!TypeOK
  <2> QED
    BY <2>2, <2>3 DEF GateTypes, Gates3!TypeOK
<1>7. EachJobOnce'
  BY <1>2, <1>3, <1>4 DEF EachJobOnce
<1>8. NoJobLost'
  <2>1. \A c : Gates3!JobsOf(c)' = Gates3!JobsOf(c)
    BY DEF Gates3!JobsOf
  <2> QED
    BY <1>4, <1>5, <2>1 DEF NoJobLost
<1>9. FilesAreRead'
  <2>1. \A i : Gates3!Passes(i)' = Gates3!Passes(i)
    BY DEF Gates3!Passes
  <2>2. \A i \in DOMAIN record' : i = j \/ (i \in DOMAIN record /\ record'[i] = record[i])
    BY <1>2
  <2> QED
    BY <1>2, <1>3, <1>4, <2>1, <2>2 DEF FilesAreRead, Gates3!Prefix
<1>10. Gates3!GreenIsBacked'
  BY <1>5 DEF GateTypes, Gates3!GreenIsBacked
<1> QED
  BY <1>6, <1>7, <1>8, <1>9, <1>10

\* A runner ends: what was written is what its case asks, but for an odd one.
LEMMA GateRuns ==
    ASSUME PoolInv, GateInv, NEW j \in Gates3!AllJobs, Gates3!RunnerEnds(j)
    PROVE  GateInv'
<1> USE DEF GateInv
<1>1. /\ j \in DOMAIN at /\ at[j].step = "run" /\ at[j] \in Tasks
      /\ UNCHANGED << g3Gate, found, g3Pc, workers, g3Queue, compared, reasons, g3Verdict >>
      /\ g3Odd' \in 0 .. MaxOdd
  <2>1. g3Odd \in 0 .. MaxOdd /\ MaxOdd \in Nat
    BY SessionInputs DEF GateTypes, Gates3!TypeOK
  <2>2. g3Odd' = g3Odd \/ (g3Odd < MaxOdd /\ g3Odd' = g3Odd + 1)
    BY DEF Gates3!RunnerEnds, Gates3!Odd
  <2>3. g3Odd' \in 0 .. MaxOdd
    BY <2>1, <2>2
  <2> QED
    BY <2>3 DEF Gates3!RunnerEnds, PoolInv, PoolTypes
<1>2. CASE Gates3!Return(j, [error |-> TRUE, got |-> << >>]) /\ g3Disk' = g3Disk
  <2>1. [error |-> TRUE, got |-> << >>] \in Records
    BY DEF Records
  <2> QED
    BY <1>1, <1>2, <2>1, GateReturns
<1>3. ASSUME NEW v \in Gates3!Values,
             g3Disk' = Gates3!Put(g3Disk, Gates3!Prefix(j, at[j].pass),
                                  [by |-> << j, at[j].pass >>, value |-> v]),
             at' = [at EXCEPT ![j].step = "read"],
             record' = record
      PROVE  GateInv'
  <2> DEFINE prefix == Gates3!Prefix(j, at[j].pass)
             written == [by |-> << j, at[j].pass >>, value |-> v]
  <2>1. g3Disk' = Gates3!Put(g3Disk, prefix, written)
    BY <1>3
  <2>2. /\ DOMAIN g3Disk' = DOMAIN g3Disk \cup {prefix}
        /\ \A x \in DOMAIN g3Disk : x # prefix => g3Disk'[x] = g3Disk[x]
    <3> HIDE DEF prefix, written
    <3> QED
      BY <2>1 DEF Gates3!Put
  <2>3. /\ DOMAIN at' = DOMAIN at
        /\ at'[j].got = at[j].got /\ \A i \in DOMAIN at : i # j => at'[i] = at[i]
    BY <1>1, <1>3 DEF Tasks
  <2>4. g3Pc = "pool" /\ Taken' = Taken /\ \A x : OfGate(x)' = OfGate(x)
    BY <1>1, <1>3, <2>3 DEF NoJobLost, Taken, OfGate
  <2>5. GateTypes'
    BY <1>1, <1>3, <2>3 DEF GateTypes, Gates3!TypeOK
  <2>6. EachJobOnce'
    BY <1>1, <1>3, <2>3, <2>4 DEF EachJobOnce
  <2>7. NoJobLost'
    <3>1. \A c : Gates3!JobsOf(c)' = Gates3!JobsOf(c)
      BY <1>1 DEF Gates3!JobsOf
    <3> QED
      BY <1>1, <2>3, <2>4, <3>1 DEF NoJobLost
  <2>8. FilesAreRead'
    <3>1. \A i : Gates3!Passes(i)' = Gates3!Passes(i)
      BY <1>1 DEF Gates3!Passes
    <3>2. /\ DOMAIN at \subseteq Gates3!AllJobs /\ DOMAIN record \subseteq Gates3!AllJobs
          /\ at[j].pass \in 1 .. Gates3!Passes(j) /\ Len(at[j].got) = at[j].pass - 1
          /\ at[j].got \in Seq(Files) /\ at[j].pass \in Nat /\ j \notin DOMAIN record
      <4>1. Gates3!Passes(j) \in {1, 2}
        BY DEF Gates3!Passes
      <4> QED
        BY <1>1, <4>1 DEF PoolInv, PoolTypes, ReadsItsOwn, Tasks, EachJobOnce
    <3>3. ASSUME NEW i \in DOMAIN at, NEW q \in DOMAIN at[i].got
          PROVE  Gates3!Prefix(i, q) # prefix
      <4>1. CASE i = j
        <5>1. q # at[j].pass
          BY <3>2, <4>1
        <5> QED
          BY <4>1, <5>1, FilesApart
      <4>2. CASE i # j
        BY <3>2, <4>2, FilesApart
      <4> QED
        BY <4>1, <4>2
    <3>4. ASSUME NEW i \in DOMAIN record, NEW q \in DOMAIN record[i].got
          PROVE  Gates3!Prefix(i, q) # prefix
      BY <3>2, FilesApart
    <3>5. \A p \in DOMAIN g3Disk' :
             \E i \in Taken' : \E q \in 1 .. Gates3!Passes(i)' : p = Gates3!Prefix(i, q)
      <4>1. prefix = Gates3!Prefix(j, at[j].pass) /\ j \in Taken'
        BY <1>1, <2>4 DEF Taken
      <4> HIDE DEF prefix
      <4> QED
        BY <2>2, <2>4, <3>1, <3>2, <4>1 DEF FilesAreRead
    <3>6. \A i \in DOMAIN at' : \A q \in DOMAIN at'[i].got :
             /\ Gates3!Prefix(i, q) \in DOMAIN g3Disk'
             /\ g3Disk'[Gates3!Prefix(i, q)] = at'[i].got[q]
      <4> SUFFICES ASSUME NEW i \in DOMAIN at', NEW q \in DOMAIN at'[i].got
                   PROVE  /\ Gates3!Prefix(i, q) \in DOMAIN g3Disk'
                          /\ g3Disk'[Gates3!Prefix(i, q)] = at'[i].got[q]
        OBVIOUS
      <4>1. i \in DOMAIN at /\ at'[i].got = at[i].got
        BY <2>3
      <4>2. Gates3!Prefix(i, q) # prefix
        BY <3>3, <4>1
      <4> HIDE DEF prefix
      <4> QED
        BY <2>2, <4>1, <4>2 DEF FilesAreRead
    <3>7. \A i \in DOMAIN record' : \A q \in DOMAIN record'[i].got :
             /\ Gates3!Prefix(i, q) \in DOMAIN g3Disk'
             /\ g3Disk'[Gates3!Prefix(i, q)] = record'[i].got[q]
      <4> HIDE DEF prefix
      <4> QED
        BY <1>3, <2>2, <3>4 DEF FilesAreRead
    <3> QED
      BY <3>5, <3>6, <3>7 DEF FilesAreRead, Gates3!Prefix
  <2>9. Gates3!GreenIsBacked'
    BY <1>1, <2>4 DEF GateTypes, Gates3!GreenIsBacked
  <2> QED
    BY <2>5, <2>6, <2>7, <2>8, <2>9
<1> QED
  BY <1>2, <1>3 DEF Gates3!RunnerEnds

\* A worker reads back what its runners wrote.
LEMMA GateReads ==
    ASSUME PoolInv, GateInv, NEW j \in Gates3!AllJobs, Gates3!ReadBack(j)
    PROVE  GateInv'
<1> USE DEF GateInv
<1> DEFINE a == at[j]
           read == g3Disk[Gates3!Prefix(j, a.pass)]
           got == Append(a.got, read)
<1>1. /\ j \in DOMAIN at /\ a.step = "read" /\ a \in Tasks
      /\ UNCHANGED << g3Gate, found, g3Pc, workers, g3Queue, g3Disk, compared, reasons,
                      g3Verdict, g3Odd >>
  BY DEF Gates3!ReadBack, PoolInv, PoolTypes
<1>2. /\ IF a.pass < Gates3!Passes(j)
           THEN /\ at' = [at EXCEPT ![j] = [step |-> "run", pass |-> a.pass + 1, got |-> got]]
                /\ record' = record
           ELSE Gates3!Return(j, [error |-> FALSE, got |-> got])
  BY DEF Gates3!ReadBack
<1>3. /\ a.pass \in 1 .. 2 /\ a.got \in Seq(Files) /\ Len(a.got) = a.pass - 1
      /\ Gates3!Prefix(j, a.pass) \in DOMAIN g3Disk
      /\ \A q \in DOMAIN a.got : /\ Gates3!Prefix(j, q) \in DOMAIN g3Disk
                                 /\ g3Disk[Gates3!Prefix(j, q)] = a.got[q]
  BY <1>1 DEF Tasks, PoolInv, ReadsItsOwn, FilesAreRead
<1>4. read \in Files
  BY <1>3 DEF PoolInv, PoolTypes
<1>5. read = g3Disk[Gates3!Prefix(j, a.pass)]
  OBVIOUS
<1> HIDE DEF read, a
<1>6. /\ got \in Seq(Files)
      /\ \A q \in DOMAIN got : /\ Gates3!Prefix(j, q) \in DOMAIN g3Disk
                               /\ g3Disk[Gates3!Prefix(j, q)] = got[q]
  <2>1. got \in Seq(Files)
    BY <1>3, <1>4
  <2>2. ASSUME NEW q \in DOMAIN got
        PROVE  /\ Gates3!Prefix(j, q) \in DOMAIN g3Disk
               /\ g3Disk[Gates3!Prefix(j, q)] = got[q]
    <3>1. CASE q = a.pass
      BY <1>3, <1>4, <1>5, <3>1
    <3>2. CASE q # a.pass
      BY <1>3, <1>4, <2>1, <3>2
    <3> QED
      BY <3>1, <3>2
  <2> QED
    BY <2>1, <2>2
<1> HIDE DEF got
<1>7. CASE a.pass < Gates3!Passes(j)
  <2> DEFINE next == [step |-> "run", pass |-> a.pass + 1, got |-> got]
  <2>1. at' = [at EXCEPT ![j] = next] /\ record' = record /\ next.got = got
    BY <1>2, <1>7
  <2> HIDE DEF next
  <2>2. /\ DOMAIN at' = DOMAIN at /\ at'[j] = next
        /\ \A i \in DOMAIN at : i # j => at'[i] = at[i]
    BY <1>1, <2>1
  <2>3. g3Pc = "pool" /\ Taken' = Taken /\ \A x : OfGate(x)' = OfGate(x)
    BY <1>1, <2>1, <2>2 DEF NoJobLost, Taken, OfGate
  <2>4. GateTypes'
    BY <1>1, <2>1, <2>2 DEF GateTypes, Gates3!TypeOK
  <2>5. EachJobOnce'
    BY <1>1, <2>1, <2>2, <2>3 DEF EachJobOnce
  <2>6. NoJobLost'
    <3>1. \A c : Gates3!JobsOf(c)' = Gates3!JobsOf(c)
      BY <1>1 DEF Gates3!JobsOf
    <3> QED
      BY <1>1, <2>2, <2>3, <3>1 DEF NoJobLost
  <2>7. FilesAreRead'
    <3>1. \A i : Gates3!Passes(i)' = Gates3!Passes(i)
      BY <1>1 DEF Gates3!Passes
    <3>2. \A i \in DOMAIN at' : i = j \/ (i \in DOMAIN at /\ at'[i] = at[i])
      BY <2>2
    <3> QED
      BY <1>1, <1>6, <2>1, <2>2, <2>3, <3>1, <3>2 DEF FilesAreRead, Gates3!Prefix
  <2>8. Gates3!GreenIsBacked'
    BY <1>1, <2>3 DEF GateTypes, Gates3!GreenIsBacked
  <2> QED
    BY <2>4, <2>5, <2>6, <2>7, <2>8
<1>8. CASE ~ (a.pass < Gates3!Passes(j))
  <2> DEFINE r == [error |-> FALSE, got |-> got]
  <2>1. r \in Records /\ r.got = got
    BY <1>6 DEF Records
  <2>2. Gates3!Return(j, r)
    BY <1>2, <1>8
  <2>3. g3Odd' \in 0 .. MaxOdd
    BY <1>1 DEF GateTypes, Gates3!TypeOK
  <2> HIDE DEF r
  <2> QED
    BY <1>1, <1>6, <2>1, <2>2, <2>3, GateReturns
<1> QED
  BY <1>7, <1>8

\* Blamed for nothing, a case has files, all within its gates and all equal.
LEMMA BlamelessIsBacked ==
    ASSUME PoolInv, GateInv, g3Pc = "judge", NEW c \in found, ~Gates3!Blamed(c)
    PROVE  /\ \E p \in DOMAIN g3Disk : p[1] = c
           /\ \A p \in DOMAIN g3Disk : p[1] = c =>
                 /\ g3Disk[p].value \in IF g3Gate = "k6" /\ c \in ADVISORY_CASES
                                          THEN {"in", "wide"} ELSE {"in"}
                 /\ \A q \in DOMAIN g3Disk : q[1] = c => g3Disk[q].value = g3Disk[p].value
<1> USE DEF GateInv
<1> DEFINE own == Gates3!JobsOf(c)
<1>1. /\ ~Gates3!Errors(c) /\ Gates3!Equal(c)
      /\ Gates3!Within(c, Gates3!Outputs(c)[1].value)
  BY DEF Gates3!Blamed
<1>2. /\ g3Queue = << >> /\ DOMAIN at = {} /\ Taken = DOMAIN record
      /\ \A k \in DOMAIN own : own[k] \in DOMAIN record
  BY DEF NoJobLost, Taken
<1>3. \A k \in DOMAIN own : ~record[own[k]].error
  BY <1>1 DEF Gates3!Errors, Gates3!Records
\* A recorded job of the case: what it got are its files.
<1>4. ASSUME NEW j \in DOMAIN record, ~record[j].error
      PROVE  /\ record[j].got \in Seq(Files) /\ Len(record[j].got) = Gates3!Passes(j)
             /\ DOMAIN record[j].got = 1 .. Gates3!Passes(j)
             /\ Gates3!Passes(j) \in {1, 2}
             /\ \A q \in 1 .. Gates3!Passes(j) :
                   /\ Gates3!Prefix(j, q) \in DOMAIN g3Disk
                   /\ g3Disk[Gates3!Prefix(j, q)] = record[j].got[q]
  <2>1. record[j] \in Records
    BY DEF PoolInv, PoolTypes
  <2>2. record[j].got \in Seq(Files) /\ Len(record[j].got) = Gates3!Passes(j)
    BY <1>4, <2>1 DEF Records, PoolInv, Gates3!RecordsAreOwn
  <2>3. Gates3!Passes(j) \in {1, 2}
    BY DEF Gates3!Passes
  <2> QED
    BY <2>2, <2>3 DEF FilesAreRead
<1>5. \A j, q : Gates3!Prefix(j, q)[1] = j[1]
  BY DEF Gates3!Prefix
<1>6. DOMAIN record \subseteq Gates3!AllJobs
  BY DEF PoolInv, PoolTypes
<1>7. CASE g3Gate = "k5a"
  <2>1. /\ DOMAIN own = {1, 2} /\ own[1] = << c, "whole" >> /\ own[2] = << c, "drip" >>
        /\ \A j : Gates3!Passes(j) = 1
    BY <1>7 DEF Gates3!JobsOf, Gates3!Feeds, Gates3!Passes
  <2>2. Gates3!Outputs(c) = << record[own[1]].got[1], record[own[2]].got[1] >>
    BY <1>7, <2>1 DEF Gates3!Outputs, Gates3!Records
  <2>3. /\ record[own[1]].got[1].value = "in" /\ record[own[2]].got[1].value = "in"
    BY <1>1, <1>7, <2>2 DEF Gates3!Within, Gates3!Equal
  <2>4. ASSUME NEW p \in DOMAIN g3Disk, p[1] = c
        PROVE  g3Disk[p].value = "in"
    <3>0. PICK j \in DOMAIN record : \E q \in 1 .. Gates3!Passes(j) : p = Gates3!Prefix(j, q)
      BY <1>2 DEF FilesAreRead
    <3>1. PICK q \in 1 .. Gates3!Passes(j) : p = Gates3!Prefix(j, q)
      BY <3>0
    <3>2. OfGate(j) /\ j \in Gates3!AllJobs /\ j[1] = c
      BY <1>2, <1>5, <1>6, <2>4, <3>1 DEF EachJobOnce
    <3>3. j = own[1] \/ j = own[2]
      BY <1>7, <2>1, <3>2 DEF OfGate, Gates3!AllJobs
    <3> QED
      BY <1>3, <1>4, <2>1, <2>3, <3>1, <3>3
  <2>5. Gates3!Prefix(own[1], 1) \in DOMAIN g3Disk /\ Gates3!Prefix(own[1], 1)[1] = c
    BY <1>2, <1>3, <1>4, <1>5, <2>1
  <2> QED
    BY <1>7, <2>4, <2>5
<1>8. CASE g3Gate = "k6"
  <2>1. DOMAIN own = {1} /\ own[1] = << c, "case" >>
    BY <1>8 DEF Gates3!JobsOf
  <2> DEFINE j == own[1]
  <2>2. Gates3!Outputs(c) = record[j].got
    BY <1>8, <2>1 DEF Gates3!Outputs, Gates3!Records
  <2>3. j \in DOMAIN record /\ ~record[j].error /\ j[1] = c
    BY <1>2, <1>3, <2>1
  <2>4. \A q \in 1 .. Gates3!Passes(j) : record[j].got[q].value = record[j].got[1].value
    <3>1. 1 \in 1 .. Gates3!Passes(j)
      BY <1>4, <2>3
    <3> QED
      BY <1>1, <1>4, <2>2, <2>3, <3>1 DEF Gates3!Equal
  <2>5. record[j].got[1].value \in IF g3Gate = "k6" /\ c \in ADVISORY_CASES
                                     THEN {"in", "wide"} ELSE {"in"}
    BY <1>1, <1>8, <2>2 DEF Gates3!Within
  <2> HIDE DEF j
  <2>6. ASSUME NEW p \in DOMAIN g3Disk, p[1] = c
        PROVE  g3Disk[p].value = record[j].got[1].value
    <3>0. PICK i \in DOMAIN record : \E q \in 1 .. Gates3!Passes(i) : p = Gates3!Prefix(i, q)
      BY <1>2 DEF FilesAreRead
    <3>1. PICK q \in 1 .. Gates3!Passes(i) : p = Gates3!Prefix(i, q)
      BY <3>0
    <3>2. OfGate(i) /\ i \in Gates3!AllJobs /\ i[1] = c
      BY <1>2, <1>5, <1>6, <2>6, <3>1 DEF EachJobOnce
    <3>3. i = j
      BY <1>8, <2>1, <3>2 DEF OfGate, Gates3!AllJobs, j
    <3> QED
      BY <1>4, <2>3, <2>4, <3>1, <3>3
  <2>7. Gates3!Prefix(j, 1) \in DOMAIN g3Disk /\ Gates3!Prefix(j, 1)[1] = c
    BY <1>4, <1>5, <2>3
  <2> QED
    BY <2>5, <2>6, <2>7
<1> QED
  BY <1>7, <1>8 DEF GateTypes

\* The verdict is judged on the records.
LEMMA GateJudges ==
    ASSUME PoolInv, GateInv, Gates3!judge
    PROVE  GateInv'
<1> USE DEF GateInv
<1>1. /\ g3Pc = "judge" /\ g3Pc' = "end"
      /\ reasons' = {c \in CASES : Gates3!Blamed(c)}
      /\ g3Verdict' = IF reasons' = {} THEN "green" ELSE "red"
      /\ UNCHANGED << g3Gate, found, workers, g3Queue, at, g3Disk, record, compared, g3Odd >>
  BY DEF Gates3!judge
<1>2. GateTypes'
  BY <1>1 DEF GateTypes, Gates3!TypeOK
<1>3. EachJobOnce' /\ NoJobLost'
  BY <1>1 DEF EachJobOnce, NoJobLost, Taken, OfGate
<1>4. FilesAreRead'
  BY <1>1 DEF FilesAreRead, Taken, Gates3!Passes, Gates3!Prefix
<1>5. Gates3!GreenIsBacked'
  <2>1. CASE reasons' # {}
    BY <1>1, <2>1 DEF Gates3!GreenIsBacked
  <2>2. CASE reasons' = {}
    <3>1. \A c \in CASES : ~Gates3!Blamed(c)
      BY <1>1, <2>2
    <3>2. found \subseteq CASES
      BY DEF PoolInv, PoolTypes
    <3>3. g3Gate = "k5a" => found = CASES
      BY <3>1, <3>2 DEF Gates3!Blamed
    <3>4. g3Gate = "k6" => found # {}
      BY <1>1 DEF GateTypes
    <3>5. ASSUME NEW c \in found
          PROVE  /\ \E p \in DOMAIN g3Disk : p[1] = c
                 /\ \A p \in DOMAIN g3Disk : p[1] = c =>
                       /\ g3Disk[p].value \in IF g3Gate = "k6" /\ c \in ADVISORY_CASES
                                                THEN {"in", "wide"} ELSE {"in"}
                       /\ \A q \in DOMAIN g3Disk : q[1] = c => g3Disk[q].value = g3Disk[p].value
      BY <1>1, <3>1, <3>2, BlamelessIsBacked
    <3> QED
      BY <1>1, <3>3, <3>4, <3>5 DEF Gates3!GreenIsBacked
  <2> QED
    BY <2>1, <2>2
<1> QED
  BY <1>2, <1>3, <1>4, <1>5

\* Every step of a gate keeps this.
LEMMA GateKeeps ==
    ASSUME PoolInv, GateInv, Gates3!Next \/ UNCHANGED gates3Vars
    PROVE  GateInv'
<1> USE DEF GateInv
<1>0. g3Odd \in 0 .. MaxOdd /\ MaxOdd \in Nat
  BY SessionInputs DEF GateTypes, Gates3!TypeOK
<1>1. CASE Gates3!Driver
  <2>1. /\ g3Pc = "driver" /\ (g3Gate = "k6" => found # {})
        /\ UNCHANGED << g3Gate, found, at, g3Disk, record, compared, reasons, g3Verdict, g3Odd >>
    BY <1>1 DEF Gates3!Driver
  <2>2. /\ g3Queue = << >> /\ DOMAIN at = {} /\ DOMAIN record = {} /\ Taken = {} /\ Taken' = {}
        /\ g3Verdict = "none"
        /\ \A x : OfGate(x)' = OfGate(x)
    BY <2>1 DEF NoJobLost, Taken, OfGate, GateTypes
  <2>3. PICK cases \in Gates3!SetToSeqs(found) :
           \/ g3Pc' = "dead" /\ UNCHANGED << workers, g3Queue >>
           \/ /\ g3Pc' = "pool" /\ workers' = Gates3!Workers(Gates3!Jobs(cases))
              /\ g3Queue' = Gates3!Jobs(cases)
    BY <1>1 DEF Gates3!Driver
  <2>4. found \subseteq CASES /\ g3Gate \in {"k5a", "k6"}
    BY DEF PoolInv, PoolTypes, GateTypes
  <2>5. Gates3!Workers(Gates3!Jobs(cases)) \in Nat
    <3>1. Len(Gates3!Jobs(cases)) \in Nat
      BY <2>4, JobsAreJobs
    <3> QED
      BY <3>1, SessionInputs DEF Gates3!Workers, Gates3!Least
  <2>6. GateTypes'
    <3>1. workers' \in Nat /\ Gates3!Cardinality(DOMAIN at') <= workers'
      <4>1. Gates3!Cardinality(DOMAIN at') = 0
        BY <2>1, <2>2, FS_EmptySet DEF Gates3!Cardinality, Cardinality
      <4> QED
        BY <2>3, <2>5, <4>1 DEF GateTypes
    <3> QED
      BY <2>1, <2>2, <2>3, <2>4, <3>1 DEF GateTypes, Gates3!TypeOK
  <2>7. /\ \A n \in DOMAIN g3Queue' : OfGate(g3Queue'[n])
        /\ \A m, n \in DOMAIN g3Queue' : g3Queue'[m] = g3Queue'[n] => m = n
        /\ g3Pc' = "pool" => \A c \in found : \A k \in DOMAIN Gates3!JobsOf(c) :
              \E n \in DOMAIN g3Queue' : g3Queue'[n] = Gates3!JobsOf(c)[k]
    <3>1. CASE g3Pc' = "dead"
      BY <2>2, <2>3, <3>1
    <3>2. CASE g3Pc' = "pool"
      BY <2>3, <2>4, <3>2, JobsOnce
    <3> QED
      BY <2>3, <3>1, <3>2
  <2>8. EachJobOnce'
    BY <2>1, <2>2, <2>7 DEF EachJobOnce
  <2>9. NoJobLost'
    <3>1. \A c : Gates3!JobsOf(c)' = Gates3!JobsOf(c)
      BY <2>1 DEF Gates3!JobsOf
    <3> QED
      BY <2>1, <2>2, <2>3, <2>7, <3>1 DEF NoJobLost
  <2>10. FilesAreRead' /\ Gates3!GreenIsBacked'
    BY <2>1, <2>2 DEF FilesAreRead, Gates3!GreenIsBacked, Gates3!Passes, Gates3!Prefix
  <2> QED
    BY <2>6, <2>8, <2>9, <2>10
<1>2. CASE \/ UNCHANGED gates3Vars \/ Gates3!Infra \/ Gates3!PoolDone \/ Gates3!compare_audio
  <2> USE DEF gates3Vars, Gates3!Infra, Gates3!PoolDone, Gates3!compare_audio, Gates3!Odd
  <2>1. /\ UNCHANGED << g3Gate, found, workers, g3Queue, at, g3Disk, record, reasons >>
        /\ g3Odd' \in 0 .. MaxOdd
        /\ compared' \subseteq found
    BY <1>0, <1>2 DEF GateTypes, Gates3!TypeOK
  <2>2. /\ g3Pc' \in {"driver", "pool", "judge", "end", "dead"}
        /\ g3Pc' = g3Pc \/ g3Pc' \in {"end", "dead"} \/ (g3Pc = "pool" /\ g3Pc' = "judge")
        /\ g3Pc' # "pool" => g3Queue = << >> /\ DOMAIN at = {}
        /\ g3Verdict' \in {"none", "green", "red", "infra"}
        /\ g3Verdict' # "none" => g3Pc' = "end"
        /\ g3Verdict' = "green" => g3Verdict = "green"
    BY <1>2 DEF GateTypes, Gates3!TypeOK, NoJobLost
  <2>3. GateTypes'
    BY <2>1, <2>2 DEF GateTypes, Gates3!TypeOK
  <2>4. EachJobOnce'
    BY <2>1 DEF EachJobOnce, Taken, OfGate
  <2>5. NoJobLost'
    <3>1. \A c : Gates3!JobsOf(c)' = Gates3!JobsOf(c)
      BY <2>1 DEF Gates3!JobsOf
    <3> QED
      BY <2>1, <2>2, <3>1 DEF NoJobLost, Taken
  <2>6. FilesAreRead' /\ Gates3!GreenIsBacked'
    BY <2>1, <2>2 DEF FilesAreRead, Taken, Gates3!GreenIsBacked, Gates3!Passes, Gates3!Prefix
  <2> QED
    BY <2>3, <2>4, <2>5, <2>6
<1> QED
  BY <1>1, <1>2, GateJudges, GateTakes, GateRuns, GateReads DEF Gates3!Next

-----------------------------------------------------------------------------
(* The P100 session: the digest of an entry is of its own recording.       *)

Recorded == [label : P100!Labels, kind : {"wav", "mp3"}, whole : BOOLEAN, seconds : Nat]
Traces   == {<< >>} \cup {<< n >> : n \in Nat}
Measures == [of : Nat, codes : Seq({0, 1}), rttm : Traces, seconds : Nat, timed : BOOLEAN,
             status : {"pass", "fail"}]

SpeedTypes ==
    /\ mount \in RecordingMounts
    /\ pPc = "prepare" => runs = << >>
    /\ pFixtures \in Seq(Recorded)
    /\ rttm \in [P100!Labels -> [P100!Iters -> Traces]]
    /\ runs \in Seq({0, 1}) /\ entries \in Seq(Measures)

\* Once the first run of a recording is over, the trace of that run is of this
\* recording, or nothing if the run failed.
FirstRunIsOwn ==
    Len(runs) > 0 =>
        /\ P100!Index <= Len(pFixtures)
        /\ rttm[P100!Now.label][0] \in {<< >>, << P100!Index >>}
        /\ runs[1] = 0 => rttm[P100!Now.label][0] = << P100!Index >>

SpeedInv == SpeedTypes /\ FirstRunIsOwn /\ P100!DigestIsOwn

\* What is prepared was mounted.
LEMMA RecordedOfTheMount ==
    ASSUME mount \in RecordingMounts, NEW K, K \subseteq DOMAIN mount
    PROVE  P100!Chosen(mount, K) \in Seq(Recorded)
<1> DEFINE S == {mount[k] : k \in DOMAIN mount}
           T == [label : STRING, kind : {"wav", "mp3"}, whole : BOOLEAN, seconds : Nat]
<1>1. mount \in Seq(T)
  BY SessionInputs
<1>2. \A k \in DOMAIN mount : mount[k].label \in P100!Labels
  BY DEF P100!Labels
<1>3. S \subseteq Recorded
  <2>1. \A m \in T : m.label \in P100!Labels => m \in Recorded
    BY DEF Recorded
  <2> HIDE DEF T
  <2>2. \A k \in DOMAIN mount : mount[k] \in T
    BY <1>1
  <2> QED
    BY <1>2, <2>1, <2>2
<1>4. mount \in Seq(S)
  BY <1>1
<1>5. P100!Chosen(mount, K) = Chosen(mount, K)
  BY DEF P100!Chosen, P100!Cardinality, Cardinality, Chosen
<1> HIDE DEF S
<1>6. Chosen(mount, K) \in Seq(S)
  BY <1>4, Choosing
<1> QED
  BY <1>3, <1>5, <1>6, SeqMonotonic

\* The P100 session starts so.
LEMMA SpeedStarts ==
    ASSUME P100!Init
    PROVE  SpeedInv
<1> USE DEF P100!Init
<1>1. /\ << >> \in Seq(Recorded) /\ << >> \in Seq({0, 1}) /\ << >> \in Seq(Measures)
      /\ Len(<< >>) = 0
  OBVIOUS
<1>2. SpeedTypes
  BY <1>1 DEF SpeedTypes, Traces
<1> QED
  BY <1>1, <1>2 DEF SpeedInv, FirstRunIsOwn, P100!DigestIsOwn

\* A run writes the RTTM of its own recording and iteration.
LEMMA DiarizeKeeps ==
    ASSUME SpeedInv, P100!diarize
    PROVE  SpeedInv'
<1> USE DEF SpeedInv
<1> DEFINE index == P100!Index
           label == P100!Now.label
           k == Len(runs)
<1>1. /\ pPc = "measure" /\ index <= Len(pFixtures) /\ k < RUNS_PER_FIXTURE
      /\ UNCHANGED << mount, pPc, pFixtures, entries >>
  BY DEF P100!diarize, P100!Kept
<1>2. /\ index \in Nat \ {0} /\ index' = index
      /\ k \in P100!Iters /\ k \in Nat /\ 0 \in P100!Iters
  <2>1. index \in Nat \ {0} /\ index' = index
    BY <1>1 DEF P100!Index, SpeedTypes
  <2>2. k \in Nat
    BY DEF SpeedTypes
  <2> QED
    BY <1>1, <2>1, <2>2, SessionInputs DEF P100!Iters
<1>3. label \in P100!Labels /\ P100!Now.label' = label
  <2>1. index \in 1 .. Len(pFixtures) /\ pFixtures \in Seq(Recorded)
    BY <1>1, <1>2 DEF SpeedTypes
  <2>2. pFixtures[index] \in Recorded
    BY <2>1
  <2> QED
    BY <1>1, <1>2, <2>2 DEF P100!Now, Recorded
<1>4. PICK code \in {0, 1}, left \in {<< >>, << index >>} :
         /\ runs' = Append(runs, code)
         /\ rttm' = [rttm EXCEPT ![label][k] = left]
         /\ code = 0 => left = << index >>
  BY DEF P100!diarize, P100!Unlink
<1>5. left \in Traces
  BY <1>2 DEF Traces
<1>6. rttm \in [P100!Labels -> [P100!Iters -> Traces]]
  BY DEF SpeedTypes
<1> HIDE DEF index, label, k
<1>7. /\ rttm' \in [P100!Labels -> [P100!Iters -> Traces]]
      /\ rttm'[label][k] = left
      /\ k # 0 => rttm'[label][0] = rttm[label][0]
  BY <1>2, <1>3, <1>4, <1>5, <1>6
<1>8. /\ runs' \in Seq({0, 1}) /\ runs'[1] = IF k = 0 THEN code ELSE runs[1]
  BY <1>2, <1>4 DEF SpeedTypes, k
<1>9. SpeedTypes'
  <2>1. P100!Labels' = P100!Labels /\ P100!Iters' = P100!Iters
    BY DEF P100!Labels, P100!Iters, P100!Tone
  <2> QED
    BY <1>1, <1>7, <1>8, <2>1 DEF SpeedTypes, Recorded
<1>10. FirstRunIsOwn'
  <2>1. rttm'[label][0] \in {<< >>, << index >>}
        /\ (runs'[1] = 0 => rttm'[label][0] = << index >>)
    <3>1. CASE k = 0
      BY <1>4, <1>7, <1>8, <3>1
    <3>2. CASE k # 0
      <4>1. Len(runs) > 0
        BY <1>2, <3>2 DEF k
      <4> QED
        BY <1>7, <1>8, <3>2, <4>1 DEF FirstRunIsOwn, index, label
    <3> QED
      BY <3>1, <3>2
  <2> QED
    BY <1>1, <1>2, <1>3, <2>1 DEF FirstRunIsOwn, index
<1>11. P100!DigestIsOwn'
  BY <1>1 DEF P100!DigestIsOwn
<1> QED
  BY <1>9, <1>10, <1>11

\* The entry of a recording is made of its own runs.
LEMMA EntryIsOwn ==
    ASSUME SpeedInv, P100!Entry
    PROVE  SpeedInv'
<1> USE DEF SpeedInv
<1>1. /\ pPc = "measure" /\ P100!Index <= Len(pFixtures) /\ Len(runs) = RUNS_PER_FIXTURE
      /\ UNCHANGED << mount, pFixtures, rttm >>
      /\ pPc' \in {"measure", "emit"}
  BY DEF P100!Entry, P100!Kept, P100!Catch
<1>2. CASE entries' = entries /\ runs' = runs
  BY <1>1, <1>2 DEF SpeedTypes, FirstRunIsOwn, P100!DigestIsOwn, P100!Index, P100!Now,
                    P100!Labels, P100!Iters, P100!Tone, Recorded
<1>3. CASE P100!Now.whole
  <2> DEFINE entry == [of |-> P100!Index, codes |-> runs, rttm |-> rttm[P100!Now.label][0],
                       seconds |-> P100!Now.seconds, timed |-> P100!Times(runs) # {},
                       status |-> P100!StatusOf(runs)]
  <2>1. entries' = Append(entries, entry) /\ runs' = << >>
    BY <1>3 DEF P100!Entry
  <2>2. /\ entry.of = P100!Index /\ entry.codes = runs
        /\ entry.rttm = rttm[P100!Now.label][0]
    OBVIOUS
  <2>3. entry \in Measures
    <3>1. P100!Index \in Nat /\ P100!Index \in 1 .. Len(pFixtures)
      BY <1>1 DEF P100!Index, SpeedTypes
    <3>2. P100!Now \in Recorded
      BY <3>1 DEF P100!Now, SpeedTypes
    <3>3. rttm[P100!Now.label][0] \in Traces
      <4>1. 0 \in P100!Iters
        BY SessionInputs DEF P100!Iters
      <4> QED
        BY <3>2, <4>1 DEF Recorded, SpeedTypes
    <3>4. P100!StatusOf(runs) \in {"pass", "fail"}
      BY DEF P100!StatusOf
    <3> QED
      BY <3>1, <3>2, <3>3, <3>4 DEF Measures, Recorded, SpeedTypes
  <2> HIDE DEF entry
  <2>4. SpeedTypes'
    <3>1. << >> \in Seq({0, 1})
      OBVIOUS
    <3> QED
      BY <1>1, <2>1, <2>3, <3>1 DEF SpeedTypes, P100!Labels, P100!Iters, P100!Tone, Recorded
  <2>5. FirstRunIsOwn'
    BY <2>1 DEF FirstRunIsOwn
  <2>6. P100!DigestIsOwn'
    <3>1. Len(runs) > 0
      BY <1>1, SessionInputs
    <3>2. entry.rttm \in {<< >>, << entry.of >>} /\ (entry.codes[1] = 0 => entry.rttm # << >>)
      <4>1. << P100!Index >> # << >>
        OBVIOUS
      <4>2. /\ rttm[P100!Now.label][0] \in {<< >>, << P100!Index >>}
            /\ runs[1] = 0 => rttm[P100!Now.label][0] = << P100!Index >>
        BY <3>1 DEF FirstRunIsOwn
      <4> QED
        BY <2>2, <4>1, <4>2
    <3>3. ASSUME NEW n \in DOMAIN entries'
          PROVE  \/ entries'[n] = entry
                 \/ n \in DOMAIN entries /\ entries'[n] = entries[n]
      BY <2>1 DEF SpeedTypes
    <3> QED
      BY <3>2, <3>3 DEF P100!DigestIsOwn
  <2> QED
    BY <2>4, <2>5, <2>6
<1> QED
  BY <1>2, <1>3 DEF P100!Entry

\* Every step of the P100 session keeps this.
LEMMA SpeedKeeps ==
    ASSUME SpeedInv, P100!Next \/ UNCHANGED p100Vars
    PROVE  SpeedInv'
<1> USE DEF SpeedInv
<1>1. CASE P100!collect_fixtures
  <2>1. /\ runs = << >> /\ pPc' = "measure"
        /\ UNCHANGED << mount, rttm, runs, entries >>
    BY <1>1 DEF P100!collect_fixtures, P100!Kept, SpeedTypes
  <2>2. pFixtures' \in Seq(Recorded)
    <3>1. P100!Tone \in Recorded
      BY DEF P100!Tone, Recorded, P100!Labels
    <3>2. /\ P100!Chosen(mount, P100!OfKind("wav")) \in Seq(Recorded)
          /\ P100!Chosen(mount, {k \in P100!OfKind("mp3") : mount[k].whole}) \in Seq(Recorded)
      BY RecordedOfTheMount DEF SpeedTypes, P100!OfKind
    <3>3. << P100!Tone >> \in Seq(Recorded)
      BY <3>1
    <3> QED
      BY <1>1, <3>2, <3>3, ConcatProperties DEF P100!collect_fixtures
  <2>3. SpeedTypes'
    BY <2>1, <2>2 DEF SpeedTypes, P100!Labels, P100!Iters, P100!Tone, Recorded
  <2> QED
    BY <2>1, <2>3 DEF FirstRunIsOwn, P100!DigestIsOwn
<1>2. CASE \/ UNCHANGED p100Vars \/ P100!build_repo \/ P100!Measured \/ P100!_emit
  <2>1. /\ UNCHANGED << mount, pFixtures, rttm, runs, entries >>
        /\ pPc' = "prepare" => pPc = "prepare"
    BY <1>2 DEF p100Vars, P100!build_repo, P100!Measured, P100!_emit, P100!Kept, P100!Catch
  <2> QED
    BY <2>1 DEF SpeedTypes, FirstRunIsOwn, P100!DigestIsOwn, P100!Index, P100!Now,
                P100!Labels, P100!Iters, P100!Tone, Recorded
<1> QED
  BY <1>1, <1>2, DiarizeKeeps, EntryIsOwn DEF P100!Next

-----------------------------------------------------------------------------
\* The results, once the session has measured all, are those of every recording.
Results == [status : P100!Statuses, fixtures : Seq(Measures),
            fit : {"none", "few", "degenerate", "fit"}]
EntriesPass ==
    \A n \in DOMAIN entries :
        entries[n].status = "pass" => \A r \in 1 .. RUNS_PER_FIXTURE : entries[n].codes[r] = 0
EmittedLast ==
    /\ RESULT \in Results
    /\ pPc = "prepare" => pFixtures = << >> /\ entries = << >>
    /\ pPc \in {"prepare", "measure"} => pExit = << >>
    /\ pExit = << 0 >> =>
           /\ RESULT.fixtures = entries /\ Len(entries) = Len(pFixtures)
           /\ RESULT.status = "pass" => \A n \in DOMAIN entries : entries[n].status = "pass"
    /\ pEmitted # << >> => pPc = "over"
    /\ pEmitted = << "pass" >> => pExit = << 0 >> /\ RESULT.status = "pass"

PassInv == P100!TypeOK /\ EntriesPass /\ EmittedLast

\* As many zeroes as runs: every run returned zero.
LEMMA AllRunsPass ==
    ASSUME NEW codes \in Seq({0, 1}), Len(codes) = RUNS_PER_FIXTURE,
           P100!StatusOf(codes) = "pass"
    PROVE  \A r \in 1 .. RUNS_PER_FIXTURE : codes[r] = 0
<1>1. RUNS_PER_FIXTURE \in Nat /\ DOMAIN codes = 1 .. RUNS_PER_FIXTURE
  BY SessionInputs
<1>2. P100!Times(codes) \subseteq 1 .. RUNS_PER_FIXTURE
  BY <1>1 DEF P100!Times
<1>3. Cardinality(P100!Times(codes)) = RUNS_PER_FIXTURE
  BY DEF P100!StatusOf, P100!Cardinality, Cardinality
<1>4. /\ IsFiniteSet(1 .. RUNS_PER_FIXTURE)
      /\ Cardinality(1 .. RUNS_PER_FIXTURE) = RUNS_PER_FIXTURE
  BY <1>1, FS_Interval
<1>5. P100!Times(codes) = 1 .. RUNS_PER_FIXTURE
  BY <1>2, <1>3, <1>4, FS_Subset
<1> QED
  BY <1>5 DEF P100!Times

\* The P100 session starts with nothing to pass.
LEMMA PassStarts ==
    ASSUME P100!Init
    PROVE  PassInv
<1> USE DEF P100!Init
<1>1. << >> \in Seq(Measures) /\ Len(<< >>) = 0 /\ DOMAIN << >> = {}
  OBVIOUS
<1>2. P100!TypeOK
  BY <1>1, SessionInputs DEF P100!TypeOK, P100!Statuses
<1>3. \A s : << s >> # << >>
  OBVIOUS
<1> QED
  BY <1>1, <1>2, <1>3 DEF PassInv, EntriesPass, EmittedLast, Results, P100!Statuses

\* Every step of the P100 session keeps this.
LEMMA PassKeeps ==
    ASSUME SpeedTypes, PassInv, P100!Next \/ UNCHANGED p100Vars
    PROVE  PassInv'
<1> USE DEF PassInv
<1>0. /\ RUNS_PER_FIXTURE \in Nat \ {0}
      /\ pFixtures \in Seq(Recorded) /\ entries \in Seq(Measures) /\ runs \in Seq({0, 1})
      /\ \A s : << s >> # << >>
      /\ P100!Labels' = P100!Labels \/ mount' # mount
      /\ P100!Iters' = P100!Iters /\ P100!Statuses' = P100!Statuses
  <2>1. \A s : << s >> # << >>
    OBVIOUS
  <2> QED
    BY <2>1, SessionInputs DEF SpeedTypes, P100!Labels, P100!Iters, P100!Statuses
<1> DEFINE Types == P100!TypeOK
<1>1. CASE UNCHANGED p100Vars
  BY <1>1 DEF p100Vars, P100!TypeOK, EntriesPass, EmittedLast, P100!Labels, P100!Iters,
              P100!Statuses, Results
<1>2. CASE P100!build_repo
  <2>1. /\ UNCHANGED << mount, pFixtures, rttm, runs, entries, RESULT, pEmitted >>
        /\ pPc = "prepare" /\ \/ pPc' = pPc /\ pExit' = pExit
                              \/ pPc' = "emit" /\ pExit' = << 1 >>
    BY <1>2 DEF P100!build_repo, P100!Kept, P100!Catch
  <2>2. Types'
    BY <1>0, <2>1 DEF P100!TypeOK
  <2>3. << 1 >> # << 0 >>
    OBVIOUS
  <2> QED
    BY <1>0, <2>1, <2>2, <2>3 DEF EntriesPass, EmittedLast, Results
<1>3. CASE P100!collect_fixtures
  <2>1. /\ UNCHANGED << mount, rttm, runs, entries, RESULT, pEmitted, pExit >>
        /\ pPc = "prepare" /\ pPc' = "measure"
    BY <1>3 DEF P100!collect_fixtures, P100!Kept
  <2>2. entries = << >> /\ pFixtures = << >> /\ pExit = << >>
    BY <2>1 DEF EmittedLast
  <2>3. rttm \in [P100!Labels -> [P100!Iters -> {<< >>}]]
    <3>1. {<< n >> : n \in 1 .. Len(pFixtures)} = {}
      BY <2>2
    <3> QED
      BY <3>1 DEF P100!TypeOK
  <2>4. Len(pFixtures') \in Nat
    <3>1. /\ P100!Chosen(mount, P100!OfKind("wav")) \in Seq(Recorded)
          /\ P100!Chosen(mount, {k \in P100!OfKind("mp3") : mount[k].whole}) \in Seq(Recorded)
      BY RecordedOfTheMount DEF SpeedTypes, P100!OfKind
    <3>2. << P100!Tone >> \in Seq(Recorded)
      BY DEF P100!Tone, Recorded, P100!Labels
    <3> QED
      BY <1>3, <3>1, <3>2, ConcatProperties DEF P100!collect_fixtures
  <2>5. Types'
    <3>1. rttm' \in [P100!Labels' -> [P100!Iters' -> {<< >>} \cup {<< n >> : n \in 1 .. Len(pFixtures')}]]
      BY <1>0, <2>1, <2>3
    <3>2. Len(entries') <= Len(pFixtures')
      BY <2>1, <2>2, <2>4
    <3> QED
      BY <1>0, <2>1, <3>1, <3>2 DEF P100!TypeOK
  <2>6. << >> # << 0 >>
    OBVIOUS
  <2> QED
    BY <1>0, <2>1, <2>2, <2>5, <2>6 DEF EntriesPass, EmittedLast, Results
<1>4. CASE P100!diarize
  <2>1. /\ UNCHANGED << mount, pPc, pFixtures, entries, RESULT, pEmitted, pExit >>
        /\ pPc = "measure" /\ P100!Index <= Len(pFixtures) /\ Len(runs) < RUNS_PER_FIXTURE
    BY <1>4 DEF P100!diarize, P100!Kept
  <2>2. PICK code \in {0, 1}, left \in {<< >>, << P100!Index >>} :
           /\ runs' = Append(runs, code)
           /\ rttm' = [rttm EXCEPT ![P100!Now.label][Len(runs)] = left]
    BY <1>4 DEF P100!diarize, P100!Unlink
  <2>3. Len(runs') <= RUNS_PER_FIXTURE
    BY <1>0, <2>1, <2>2
  <2>4. P100!Index \in 1 .. Len(pFixtures)
    BY <1>0, <2>1 DEF P100!Index
  <2> DEFINE Left == {<< >>} \cup {<< n >> : n \in 1 .. Len(pFixtures)}
  <2>5. left \in Left
    BY <2>4
  <2>6. rttm \in [P100!Labels -> [P100!Iters -> Left]]
    BY DEF P100!TypeOK
  <2> HIDE DEF Left
  <2>7. rttm' \in [P100!Labels -> [P100!Iters -> Left]]
    BY <2>2, <2>5, <2>6
  <2>8. Types'
    BY <1>0, <2>1, <2>3, <2>7 DEF P100!TypeOK, Left
  <2> QED
    BY <2>1, <2>8 DEF EntriesPass, EmittedLast, Results, P100!Statuses
<1>5. CASE P100!Entry
  <2>1. /\ UNCHANGED << mount, pFixtures, rttm, RESULT, pEmitted >>
        /\ pPc = "measure" /\ P100!Index <= Len(pFixtures) /\ Len(runs) = RUNS_PER_FIXTURE
    BY <1>5 DEF P100!Entry, P100!Kept
  <2>2. CASE ~P100!Now.whole
    <3>1. UNCHANGED << entries, runs >> /\ pPc' = "emit" /\ pExit' = << 1 >>
      BY <1>5, <2>2 DEF P100!Entry, P100!Catch
    <3>2. Types'
      BY <1>0, <2>1, <3>1 DEF P100!TypeOK
    <3>3. << 1 >> # << 0 >>
      OBVIOUS
    <3> QED
      BY <1>0, <2>1, <3>1, <3>2, <3>3 DEF EntriesPass, EmittedLast, Results
  <2>3. CASE P100!Now.whole
    <3> DEFINE entry == [of |-> P100!Index, codes |-> runs, rttm |-> rttm[P100!Now.label][0],
                         seconds |-> P100!Now.seconds, timed |-> P100!Times(runs) # {},
                         status |-> P100!StatusOf(runs)]
    <3>1. entries' = Append(entries, entry) /\ runs' = << >> /\ UNCHANGED << pPc, pExit >>
      BY <2>3, <1>5 DEF P100!Entry
    <3>2. entry.codes = runs /\ entry.status = P100!StatusOf(runs)
      OBVIOUS
    <3> HIDE DEF entry
    <3>3. /\ Len(entries') = Len(entries) + 1 /\ entries'[Len(entries) + 1] = entry
          /\ \A n \in DOMAIN entries' : n # Len(entries) + 1 =>
                n \in DOMAIN entries /\ entries'[n] = entries[n]
      BY <1>0, <3>1
    <3>4. Types'
      <4>1. Len(entries') <= Len(pFixtures') /\ Len(runs') <= RUNS_PER_FIXTURE
        BY <1>0, <2>1, <3>1, <3>3 DEF P100!Index
      <4> QED
        BY <1>0, <2>1, <3>1, <4>1 DEF P100!TypeOK
    <3>5. entry.status = "pass" => \A r \in 1 .. RUNS_PER_FIXTURE : entry.codes[r] = 0
      BY <1>0, <2>1, <3>2, AllRunsPass
    <3>6. EntriesPass'
      BY <3>3, <3>5 DEF EntriesPass
    <3>7. pExit' = << >> /\ pPc' = "measure" /\ << >> # << 0 >>
      BY <2>1, <3>1 DEF EmittedLast
    <3> QED
      BY <1>0, <2>1, <3>1, <3>4, <3>6, <3>7 DEF EmittedLast, Results
  <2> QED
    BY <2>2, <2>3
<1>6. CASE P100!Measured
  <2>1. /\ UNCHANGED << mount, pFixtures, rttm, runs, entries, pEmitted >>
        /\ pPc = "measure" /\ pPc' = "emit" /\ pExit' = << 0 >>
        /\ P100!Index > Len(pFixtures)
    BY <1>6 DEF P100!Measured, P100!Kept
  <2>2. /\ RESULT'.fixtures = entries /\ RESULT' \in Results
        /\ RESULT'.status = "pass" => \A n \in DOMAIN entries : entries[n].status = "pass"
    <3>1. P100!fit_runtime \in {"few", "degenerate", "fit"}
      BY DEF P100!fit_runtime
    <3>2. RESULT' = [fixtures |-> entries, fit |-> P100!fit_runtime,
                     status |-> IF entries # << >> /\ \A k \in DOMAIN entries :
                                   entries[k].status = "pass" THEN "pass" ELSE "partial"]
      BY <1>6 DEF P100!Measured
    <3> HIDE DEF P100!fit_runtime
    <3> QED
      BY <1>0, <3>1, <3>2 DEF Results, P100!Statuses
  <2>3. Len(entries) = Len(pFixtures)
    BY <1>0, <2>1 DEF P100!TypeOK, P100!Index
  <2>4. Types'
    BY <1>0, <2>1, <2>2 DEF P100!TypeOK, Results
  <2>5. pEmitted = << >>
    BY <2>1 DEF EmittedLast
  <2> QED
    BY <1>0, <2>1, <2>2, <2>3, <2>4, <2>5 DEF EntriesPass, EmittedLast, Results
<1>7. CASE P100!_emit
  <2> DEFINE status == IF pExit = << 0 >> THEN RESULT.status ELSE "error"
  <2>1. /\ UNCHANGED << mount, pFixtures, rttm, runs, entries, pExit >>
        /\ pPc = "emit" /\ pPc' = "over"
        /\ RESULT' = [RESULT EXCEPT !.status = status] /\ pEmitted' = << status >>
    BY <1>7 DEF P100!_emit
  <2>2. status \in P100!Statuses
    BY DEF EmittedLast, Results, P100!Statuses
  <2> HIDE DEF status
  <2>3. /\ RESULT' \in Results /\ RESULT'.status = status /\ RESULT'.fixtures = RESULT.fixtures
    BY <2>1, <2>2 DEF EmittedLast, Results
  <2>4. Types'
    BY <1>0, <2>1, <2>2, <2>3 DEF P100!TypeOK
  <2>5. /\ pExit = << 0 >> => status = RESULT.status
        /\ status = "pass" => pExit = << 0 >>
        /\ pEmitted' = << "pass" >> => status = "pass"
    <3>1. << status >> = << "pass" >> => status = "pass"
      OBVIOUS
    <3> QED
      BY <2>1, <3>1 DEF status
  <2>6. EntriesPass'
    BY <2>1 DEF EntriesPass
  <2>7. EmittedLast'
    BY <1>0, <2>1, <2>3, <2>5 DEF EmittedLast, Results
  <2> QED
    BY <2>4, <2>6, <2>7
<1> QED
  BY <1>1, <1>2, <1>3, <1>4, <1>5, <1>6, <1>7 DEF P100!Next

\* So a pass rests on every run of every recording.
LEMMA PassHolds ==
    ASSUME PassInv
    PROVE  P100!PassIsBacked
<1> SUFFICES ASSUME pEmitted = << "pass" >>
             PROVE  /\ pExit = << 0 >> /\ Len(RESULT.fixtures) = Len(pFixtures)
                    /\ \A k \in DOMAIN pFixtures : \A r \in 1 .. RUNS_PER_FIXTURE :
                          RESULT.fixtures[k].codes[r] = 0
  BY DEF P100!PassIsBacked
<1>1. /\ pExit = << 0 >> /\ RESULT.fixtures = entries /\ Len(entries) = Len(pFixtures)
      /\ \A n \in DOMAIN entries : entries[n].status = "pass"
  BY DEF PassInv, EmittedLast
<1>2. DOMAIN entries = DOMAIN pFixtures
  BY <1>1 DEF PassInv, EmittedLast, Results
<1> QED
  BY <1>1, <1>2 DEF PassInv, EntriesPass

-----------------------------------------------------------------------------
(* The stage-2 kernel: a gate that runs appends to its own metrics.        *)

Stage2Inv == /\ Stage2Run!TypeOK
             /\ s2Pc = "chunks" => DOMAIN measured = Stage2Run!Metrics(Stage2Run!Now)

\* The stage-2 kernel starts before its gates.
LEMMA Stage2Starts ==
    ASSUME Stage2Run!Init
    PROVE  Stage2Inv
<1>1. DOMAIN Stage2Run!Nothing = {}
  BY DEF Stage2Run!Nothing
<1> QED
  BY <1>1, SessionInputs DEF Stage2Run!Init, Stage2Inv, Stage2Run!TypeOK

\* Every step of the stage-2 kernel keeps this.
LEMMA Stage2Keeps ==
    ASSUME Stage2Inv, Stage2Run!Next \/ UNCHANGED stage2Vars
    PROVE  Stage2Inv'
<1> USE DEF Stage2Inv
<1>0. /\ s2Odd \in Nat /\ MaxOdd \in Nat /\ s2Odd <= MaxOdd
      /\ s2Gate \in 1 .. 4 /\ Stage2Run!Now \in Stage2Run!Names
      /\ results \in [Stage2Run!Names -> {"none", "missing", "exit-0", "error"}]
      /\ reports \in [Stage2Run!Names -> {"none", "infra", "green", "red", "measured"}]
      /\ Stage2Run!Names' = Stage2Run!Names
  BY SessionInputs DEF Stage2Run!TypeOK, Stage2Run!Now, Stage2Run!Names, Stage2Run!Gates
\* A gate that ends leaves the next in its place, or none.
<1>1. ASSUME NEW r \in {"none", "missing", "exit-0", "error"}, Stage2Run!GateEnds(r)
      PROVE  /\ s2Pc' \in {"gate", "over"} /\ s2Gate' \in 1 .. 4
             /\ results' \in [Stage2Run!Names -> {"none", "missing", "exit-0", "error"}]
  BY <1>0, <1>1 DEF Stage2Run!GateEnds
<1>2. ASSUME NEW v \in {"none", "infra", "green", "red", "measured"}, Stage2Run!Emits(v)
      PROVE  reports' \in [Stage2Run!Names -> {"none", "infra", "green", "red", "measured"}]
  BY <1>0, <1>2 DEF Stage2Run!Emits
<1>3. CASE \/ UNCHANGED stage2Vars \/ Stage2Run!_ensure_ckpt
  <2>1. /\ UNCHANGED << s2Gate, measured, results, reports >>
        /\ s2Pc' \in {"ckpt", "gate", "chunks", "over"} /\ s2Odd' \in 0 .. MaxOdd
        /\ s2Pc' = "chunks" => s2Pc = "chunks"
    BY <1>0, <1>3 DEF stage2Vars, Stage2Run!_ensure_ckpt, Stage2Run!TypeOK
  <2> QED
    BY <1>0, <2>1 DEF Stage2Run!TypeOK, Stage2Run!Now, Stage2Run!Gates, Stage2Run!Metrics
<1>4. CASE Stage2Run!_materialize \/ Stage2Run!InfraVerdict \/ Stage2Run!Judge
  <2>1. UNCHANGED << measured, s2Odd >>
    BY <1>4 DEF Stage2Run!_materialize, Stage2Run!InfraVerdict, Stage2Run!Judge
  <2>2. \E r \in {"missing", "exit-0"} : Stage2Run!GateEnds(r)
    BY <1>4 DEF Stage2Run!_materialize, Stage2Run!InfraVerdict, Stage2Run!Judge
  <2>3. reports' = reports \/ \E v \in {"infra", "green", "red"} : Stage2Run!Emits(v)
    BY <1>4 DEF Stage2Run!_materialize, Stage2Run!InfraVerdict, Stage2Run!Judge
  <2> QED
    BY <1>0, <1>1, <1>2, <2>1, <2>2, <2>3 DEF Stage2Run!TypeOK
<1>5. CASE Stage2Run!LoadWeights
  <2>1. CASE s2Pc' = "chunks"
    <3>1. /\ measured' = [k \in Stage2Run!Metrics(Stage2Run!Now) |-> << >>]
          /\ UNCHANGED << s2Gate, results, s2Odd, reports >>
      BY <1>1, <1>5, <2>1 DEF Stage2Run!LoadWeights
    <3>2. << >> \in Seq(Stage2Run!Values)
      OBVIOUS
    <3>3. Stage2Run!Metrics(Stage2Run!Now)' = Stage2Run!Metrics(Stage2Run!Now)
      BY <3>1 DEF Stage2Run!Now, Stage2Run!Gates, Stage2Run!Metrics
    <3> HIDE DEF Stage2Run!Metrics
    <3> QED
      BY <1>0, <2>1, <3>1, <3>2, <3>3 DEF Stage2Run!TypeOK, Stage2Run!Values
  <2>2. CASE s2Pc' # "chunks"
    <3>1. /\ UNCHANGED << measured, reports >> /\ s2Odd' \in 0 .. MaxOdd
          /\ Stage2Run!GateEnds("error")
      BY <1>0, <1>5, <2>2 DEF Stage2Run!LoadWeights
    <3> QED
      BY <1>0, <1>1, <2>2, <3>1 DEF Stage2Run!TypeOK
  <2> QED
    BY <2>1, <2>2
<1>6. CASE Stage2Run!MeasureChunk
  <2>1. s2Pc = "chunks" /\ reports' = reports
    BY <1>6 DEF Stage2Run!MeasureChunk
  <2>2. CASE Stage2Run!Asserts(Stage2Run!Now, Head(s2Queue))
    <3>1. UNCHANGED << measured, s2Odd >> /\ Stage2Run!GateEnds("error")
      BY <1>6, <2>2 DEF Stage2Run!MeasureChunk
    <3> QED
      BY <1>0, <1>1, <2>1, <3>1 DEF Stage2Run!TypeOK
  <2>3. CASE ~Stage2Run!Asserts(Stage2Run!Now, Head(s2Queue))
    <3> DEFINE own == Stage2Run!Metrics(Stage2Run!Now)
    <3>1. PICK got \in [own -> Stage2Run!Values] :
             /\ {k \in own : got[k] # "in"} = {} \/ s2Odd < MaxOdd
             /\ s2Odd' = s2Odd + (IF {k \in own : got[k] # "in"} = {} THEN 0 ELSE 1)
             /\ measured' = [k \in own |-> Append(measured[k], got[k])]
      BY <1>6, <2>3 DEF Stage2Run!MeasureChunk
    <3>2. UNCHANGED << s2Pc, s2Gate, results >>
      BY <1>6, <2>3 DEF Stage2Run!MeasureChunk
    <3>3. Stage2Run!Metrics(Stage2Run!Now)' = own
      BY <3>2 DEF Stage2Run!Now, Stage2Run!Gates, Stage2Run!Metrics
    <3>4. DOMAIN measured = own
      BY <2>1
    <3> HIDE DEF own
    <3>5. s2Odd' \in 0 .. MaxOdd
      BY <1>0, <3>1
    <3>6. \A k \in own : measured'[k] \in Seq(Stage2Run!Values)
      BY <3>1, <3>4 DEF Stage2Run!TypeOK
    <3>7. DOMAIN measured' = own
      BY <3>1
    <3> QED
      BY <1>0, <2>1, <3>2, <3>3, <3>5, <3>6, <3>7 DEF Stage2Run!TypeOK, Stage2Run!Values
  <2> QED
    BY <2>2, <2>3
<1>7. CASE Stage2Run!Probe
  <2>1. /\ measured' = Stage2Run!Nothing /\ s2Odd' \in 0 .. MaxOdd
        /\ \E r \in {"exit-0", "error"} : Stage2Run!GateEnds(r)
        /\ reports' = reports \/ Stage2Run!Emits("measured")
    BY <1>0, <1>7 DEF Stage2Run!Probe
  <2>2. DOMAIN Stage2Run!Nothing = {}
    BY DEF Stage2Run!Nothing
  <2> QED
    BY <1>0, <1>1, <1>2, <2>1, <2>2 DEF Stage2Run!TypeOK
<1> QED
  BY <1>3, <1>4, <1>5, <1>6, <1>7 DEF Stage2Run!Next

-----------------------------------------------------------------------------
(* The official bench: an entry counts the chunks of its own last pass.    *)

Benches == [error : BOOLEAN, walls : Nat, n : Nat, timed : Nat, offline : BOOLEAN]
Whole3(e) == ~e.error /\ e.walls = 3 /\ e.timed = e.n
Entered(e, n) == IF oAudios[n] = << >> THEN e.error ELSE Whole3(e) /\ e.n = oAudios[n][1]

OfficialTypes ==
    /\ Official!TypeOK
    /\ oState \in Nat /\ chunk_ms \in Nat /\ oEntry \in Benches
    /\ REPORT \in [verdict : {"not-run", "pip-failed", "ckpt-download-failed", "ok"},
                   audios : Seq(Benches)]
    /\ oPc \in {"pass", "offline"} => oK <= 2 /\ oAudios[oK] \in Nat \X BOOLEAN

\* A pass has its clock and, if it is the last, a time for each chunk so far.
PassCounts ==
    /\ oPc = "pass" => /\ ~oEntry.error /\ oState <= oAudios[oK][1]
                       /\ walls = IF oRun = 0 THEN 0 ELSE oRun - 1
                       /\ chunk_ms = IF oRun = 3 THEN oState ELSE 0
    /\ oPc = "offline" => Whole3(oEntry) /\ oEntry.n = oAudios[oK][1]
EntriesCount ==
    /\ Len(REPORT.audios) = oK - 1
    /\ \A n \in DOMAIN REPORT.audios : Entered(REPORT.audios[n], n)
    /\ file # << >> => oPc = "over" /\ (REPORT.verdict = "ok" => oK = 3)

OfficialInv == OfficialTypes /\ PassCounts /\ EntriesCount

\* The official bench starts with no entry.
LEMMA OfficialStarts ==
    ASSUME Official!Init
    PROVE  OfficialInv
<1> USE DEF Official!Init, Official!NoEntry, Official!Names, Official!TimedPasses
<1>1. /\ << >> \in Seq(Benches) /\ Len(<< >>) = 0 /\ Len(<< "short", "mid" >>) = 2
  OBVIOUS
<1>2. OfficialTypes
  BY <1>1, SessionInputs DEF OfficialTypes, Official!TypeOK, Benches
<1> QED
  BY <1>1, <1>2 DEF OfficialInv, PassCounts, EntriesCount

\* One more entry, the right one.
LEMMA OfficialGrows ==
    ASSUME OfficialInv, NEW e \in Benches, Entered(e, oK), oK <= 2, oPc # "over",
           REPORT' = [REPORT EXCEPT !.audios = Append(@, e)], oK' = oK + 1,
           oPc' = "audio", UNCHANGED << oAudios, file >>,
           oRun' \in 0 .. 3, walls' \in 0 .. 3, oState' \in Nat, chunk_ms' \in Nat,
           oEntry' \in Benches, oOdd' \in 0 .. MaxOdd
    PROVE  OfficialInv'
<1> USE DEF OfficialInv, Official!Names, Official!TimedPasses
<1>1. Len(<< "short", "mid" >>) = 2
  OBVIOUS
<1>2. /\ REPORT'.audios = Append(REPORT.audios, e) /\ REPORT'.verdict = REPORT.verdict
      /\ REPORT' \in [verdict : {"not-run", "pip-failed", "ckpt-download-failed", "ok"},
                      audios : Seq(Benches)]
  <2>1. REPORT.audios \in Seq(Benches) /\ Append(REPORT.audios, e) \in Seq(Benches)
    BY DEF OfficialTypes
  <2> QED
    BY <2>1 DEF OfficialTypes
<1>3. oK \in 1 .. 2 /\ Len(REPORT.audios) = oK - 1 /\ REPORT.audios \in Seq(Benches)
      /\ file = << >> /\ oAudios \in [1 .. 2 -> Recordings]
  BY <1>1 DEF OfficialTypes, EntriesCount, Official!TypeOK
<1>4. OfficialTypes'
  BY <1>1, <1>2, <1>3 DEF OfficialTypes, Official!TypeOK
<1>5. EntriesCount'
  <2>1. \A n \in DOMAIN REPORT'.audios : Entered(REPORT'.audios[n], n)
    <3> SUFFICES ASSUME NEW n \in DOMAIN REPORT'.audios
                 PROVE  Entered(REPORT'.audios[n], n)
      OBVIOUS
    <3>1. CASE n = oK
      BY <1>2, <1>3, <3>1
    <3>2. CASE n # oK
      BY <1>2, <1>3, <3>2 DEF EntriesCount
    <3> QED
      BY <3>1, <3>2
  <2>2. Len(REPORT'.audios) = oK' - 1 /\ file' = << >>
    BY <1>2, <1>3
  <2> QED
    BY <2>1, <2>2 DEF EntriesCount, Entered
<1> QED
  BY <1>4, <1>5 DEF PassCounts

\* Every step of the official bench keeps this.
LEMMA OfficialKeeps ==
    ASSUME OfficialInv, Official!Next \/ UNCHANGED officialVars
    PROVE  OfficialInv'
<1> USE DEF OfficialInv, Official!Names, Official!TimedPasses
<1>0. /\ oOdd \in Nat /\ MaxOdd \in Nat /\ oOdd <= MaxOdd /\ Len(<< "short", "mid" >>) = 2
      /\ oAudios \in [1 .. 2 -> Recordings] /\ oK \in 1 .. 3
      /\ Recordings \subseteq {<< >>} \cup (Nat \X BOOLEAN)
  <2>1. Len(<< "short", "mid" >>) = 2
    OBVIOUS
  <2> QED
    BY <2>1, SessionInputs DEF OfficialTypes, Official!TypeOK
<1>1. CASE \/ UNCHANGED officialVars \/ Official!pip \/ Official!curl \/ Official!tree
           \/ Official!listed \/ Official!restore_from \/ Official!Done
  <2> USE DEF officialVars, Official!pip, Official!curl, Official!tree, Official!listed,
              Official!restore_from, Official!Done, Official!Expected, Official!Strange,
              Official!Streams, Official!GoTo, Official!Raises, Official!Writes, Official!EndsWith
  <2>1. /\ UNCHANGED << oAudios, oK, oRun, oState, chunk_ms, walls, oEntry >>
        /\ oOdd' \in 0 .. MaxOdd
        /\ REPORT'.audios = REPORT.audios
        /\ oPc' \in {"pass", "offline"} => UNCHANGED officialVars
    BY <1>0, <1>1 DEF OfficialTypes
  <2>2. OfficialTypes'
    <3>1. REPORT' \in [verdict : {"not-run", "pip-failed", "ckpt-download-failed", "ok"},
                       audios : Seq(Benches)]
      BY <1>1 DEF OfficialTypes
    <3>2. /\ oPc' \in {"pip", "curl", "tree", "listed", "load", "audio", "pass", "offline", "over"}
          /\ file' \in {<< >>, << REPORT' >>}
      BY <1>1 DEF OfficialTypes, Official!TypeOK, EntriesCount
    <3> QED
      BY <2>1, <3>1, <3>2 DEF OfficialTypes, Official!TypeOK
  <2>3. PassCounts'
    BY <2>1 DEF PassCounts, Whole3
  <2>4. EntriesCount'
    <3>1. file' # << >> => oPc' = "over" /\ (REPORT'.verdict = "ok" => oK' = 3)
      BY <1>0, <1>1 DEF EntriesCount, OfficialTypes
    <3> QED
      BY <2>1, <3>1 DEF EntriesCount, Entered
  <2> QED
    BY <2>2, <2>3, <2>4
<1>2. CASE Official!find_audio
  <2> USE DEF Official!find_audio, Official!Expected, Official!GoTo, Official!Raises
  <2>1. Official!NoEntry \in Benches /\ Official!NoEntry.error
    BY DEF Official!NoEntry, Benches
  <2>2. CASE oAudios[oK] = << >>
    <3>1. /\ REPORT' = [REPORT EXCEPT !.audios = Append(@, Official!NoEntry)] /\ oK' = oK + 1
          /\ UNCHANGED << oAudios, file, oPc, oRun, oEntry, oOdd >> /\ oPc = "audio" /\ oK <= 2
          /\ oState' = 0 /\ chunk_ms' = 0 /\ walls' = 0
      BY <1>0, <1>2, <2>2
    <3>2. Entered(Official!NoEntry, oK)
      BY <2>1, <2>2 DEF Entered
    <3>3. /\ oRun' \in 0 .. 3 /\ walls' \in 0 .. 3 /\ oState' \in Nat /\ chunk_ms' \in Nat
          /\ oEntry' \in Benches /\ oOdd' \in 0 .. MaxOdd
      BY <3>1 DEF OfficialTypes, Official!TypeOK
    <3> HIDE DEF OfficialInv, Official!NoEntry
    <3> QED
      BY <2>1, <3>1, <3>2, <3>3, OfficialGrows
  <2>3. CASE oAudios[oK] # << >> /\ oAudios[oK][2]
    <3>1. /\ oPc = "audio" /\ oPc' = "pass" /\ oRun' = 0 /\ UNCHANGED << oAudios, REPORT, file, oK, oOdd >>
          /\ oEntry' = [Official!NoEntry EXCEPT !.error = FALSE]
          /\ oState' = 0 /\ chunk_ms' = 0 /\ walls' = 0 /\ oK <= 2
      BY <1>0, <1>2, <2>3
    <3>2. oEntry' \in Benches /\ ~oEntry'.error
      BY <2>1, <3>1 DEF Benches
    <3>3. oAudios[oK] \in Nat \X BOOLEAN
      BY <1>0, <2>3, <3>1
    <3>4. OfficialTypes'
      BY <3>1, <3>2, <3>3 DEF OfficialTypes, Official!TypeOK
    <3>5. PassCounts'
      BY <3>1, <3>2, <3>3 DEF PassCounts
    <3>6. EntriesCount'
      BY <3>1 DEF EntriesCount, Entered
    <3> QED
      BY <3>4, <3>5, <3>6
  <2>4. CASE oAudios[oK] # << >> /\ ~oAudios[oK][2]
    <3>1. /\ oPc = "audio" /\ oPc' = "over" /\ oState' = 0 /\ chunk_ms' = 0 /\ walls' = 0
          /\ UNCHANGED << oAudios, oK, oRun, oEntry, REPORT, file, oOdd >>
      BY <1>2, <2>4
    <3>2. OfficialTypes'
      BY <3>1 DEF OfficialTypes, Official!TypeOK
    <3>3. EntriesCount'
      BY <3>1 DEF EntriesCount, Entered
    <3> QED
      BY <3>1, <3>2, <3>3 DEF PassCounts
  <2> QED
    BY <1>2, <2>2, <2>3, <2>4
<1>3. CASE Official!streaming_pass
  <2> USE DEF Official!streaming_pass, Official!Expected, Official!Strange, Official!Collects
  <2>1. /\ oPc = "pass" /\ oState < oAudios[oK][1] /\ oAudios[oK][1] \in Nat /\ oState \in Nat
        /\ UNCHANGED << oAudios, oK, oRun, walls, oEntry, REPORT, file >>
        /\ oOdd' \in 0 .. MaxOdd /\ oRun \in 0 .. 3
    BY <1>0, <1>3 DEF OfficialTypes, Official!TypeOK
  <2>2. EntriesCount'
    BY <2>1 DEF EntriesCount, Entered
  <2>3. CASE oPc' = "over"
    <3>1. oState' \in Nat /\ chunk_ms' \in Nat
      BY <1>3, <2>1, <2>3 DEF OfficialTypes
    <3>2. OfficialTypes'
      BY <2>1, <2>3, <3>1 DEF OfficialTypes, Official!TypeOK
    <3> QED
      BY <2>2, <2>3, <3>2 DEF PassCounts
  <2>4. CASE oPc' # "over"
    <3>1. /\ oPc' = "pass" /\ oState' = oState + 1
          /\ chunk_ms' = IF oRun = 3 THEN chunk_ms + 1 ELSE chunk_ms
          /\ chunk_ms \in Nat
      BY <1>3, <2>4 DEF OfficialTypes
    <3>2. OfficialTypes'
      BY <2>1, <3>1 DEF OfficialTypes, Official!TypeOK
    <3>3. PassCounts'
      BY <2>1, <3>1 DEF PassCounts
    <3> QED
      BY <2>2, <3>2, <3>3
  <2> QED
    BY <2>3, <2>4
<1>4. CASE Official!EndPass
  <2> USE DEF Official!EndPass, Official!Expected
  <2>1. /\ oPc = "pass" /\ oState = oAudios[oK][1] /\ oAudios[oK] \in Nat \X BOOLEAN /\ oState \in Nat
        /\ UNCHANGED << oAudios, oK, REPORT, file, oOdd >>
        /\ oRun \in 0 .. 3 /\ walls \in 0 .. 3 /\ chunk_ms \in Nat /\ oEntry \in Benches
        /\ walls = IF oRun = 0 THEN 0 ELSE oRun - 1
        /\ walls' = IF oRun = 0 THEN walls ELSE walls + 1
        /\ chunk_ms = IF oRun = 3 THEN oState ELSE 0
        /\ ~oEntry.error /\ oK <= 2
    BY <1>4 DEF OfficialTypes, Official!TypeOK, PassCounts
  <2>2. EntriesCount'
    <3>1. file = << >>
      BY <2>1 DEF EntriesCount
    <3> QED
      BY <2>1, <3>1 DEF EntriesCount, Entered
  <2>3. CASE oRun < 3
    <3>1. oRun' = oRun + 1 /\ oState' = 0 /\ chunk_ms' = 0 /\ UNCHANGED << oPc, oEntry >>
      BY <1>4, <2>3
    <3>2. OfficialTypes'
      BY <2>1, <2>3, <3>1 DEF OfficialTypes, Official!TypeOK
    <3>3. PassCounts'
      BY <2>1, <2>3, <3>1 DEF PassCounts
    <3> QED
      BY <2>2, <3>2, <3>3
  <2>4. CASE ~(oRun < 3)
    <3>1. /\ oEntry' = [oEntry EXCEPT !.walls = walls', !.n = oState, !.timed = chunk_ms]
          /\ oPc' = "offline" /\ UNCHANGED << oRun, oState, chunk_ms >>
      BY <1>4, <2>4
    <3>2. oRun = 3 /\ walls' = 3
      BY <2>1, <2>4
    <3>3. oEntry' \in Benches /\ Whole3(oEntry') /\ oEntry'.n = oState
      <4>1. oEntry' = [error |-> oEntry.error, walls |-> 3, n |-> oState, timed |-> chunk_ms,
                       offline |-> oEntry.offline]
        BY <2>1, <3>1, <3>2 DEF Benches
      <4>2. chunk_ms = oState /\ oEntry.offline \in BOOLEAN
        BY <2>1, <3>2 DEF Benches
      <4> QED
        BY <2>1, <4>1, <4>2 DEF Benches, Whole3
    <3>4. OfficialTypes'
      BY <2>1, <3>1, <3>2, <3>3 DEF OfficialTypes, Official!TypeOK
    <3>5. PassCounts'
      BY <2>1, <3>1, <3>3 DEF PassCounts, Whole3
    <3> QED
      BY <2>2, <3>4, <3>5
  <2> QED
    BY <2>3, <2>4
<1>5. CASE Official!transcribe
  <2> USE DEF Official!transcribe, Official!Expected, Official!Strange, Official!Saved
  <2>1. /\ oPc = "offline" /\ oPc' = "audio" /\ oK' = oK + 1 /\ oK <= 2
        /\ oEntry \in Benches /\ oAudios[oK] \in Nat \X BOOLEAN
        /\ oEntry' \in {oEntry, [oEntry EXCEPT !.offline = TRUE]}
        /\ REPORT' = [REPORT EXCEPT !.audios = Append(@, oEntry')]
        /\ UNCHANGED << oAudios, file, oRun, oState, chunk_ms, walls >>
        /\ oOdd' \in 0 .. MaxOdd /\ oRun \in 0 .. 3 /\ walls \in 0 .. 3
        /\ oState \in Nat /\ chunk_ms \in Nat
    BY <1>0, <1>5 DEF OfficialTypes, Official!TypeOK
  <2>2. oEntry' \in Benches /\ Entered(oEntry', oK)
    <3>1. Whole3(oEntry) /\ oEntry.n = oAudios[oK][1]
      BY <2>1 DEF PassCounts
    <3>2. oEntry' \in Benches /\ Whole3(oEntry') /\ oEntry'.n = oEntry.n
      BY <2>1, <3>1 DEF Benches, Whole3
    <3>3. oAudios[oK] # << >>
      <4>1. PICK a \in Nat, b \in BOOLEAN : oAudios[oK] = << a, b >>
        BY <2>1
      <4>2. << a, b >> # << >>
        OBVIOUS
      <4> QED
        BY <4>1, <4>2
    <3> QED
      BY <3>1, <3>2, <3>3 DEF Entered
  <2> QED
    BY <2>1, <2>2, OfficialGrows
<1> QED
  BY <1>1, <1>2, <1>3, <1>4, <1>5 DEF Official!Next

\* So an ok report is of the whole bench.
LEMMA OfficialCounts ==
    ASSUME OfficialInv
    PROVE  Official!OkIsTheWholeBench
<1> USE DEF OfficialInv
<1> SUFFICES ASSUME file # << >>, file[1].verdict = "ok"
             PROVE  /\ Len(file[1].audios) = 2
                    /\ \A n \in DOMAIN file[1].audios :
                          LET e == file[1].audios[n]
                          IN  /\ e.error <=> oAudios[n] = << >>
                              /\ ~e.error => /\ e.walls = 3 /\ e.timed = e.n
                                             /\ e.n = oAudios[n][1]
  <2>1. Len(<< "short", "mid" >>) = 2
    OBVIOUS
  <2> QED
    BY <2>1 DEF Official!OkIsTheWholeBench, Official!Names, Official!TimedPasses
<1>1. file = << REPORT >>
  BY DEF OfficialTypes, Official!TypeOK
<1>2. file[1] = REPORT
  BY <1>1
<1>3. Len(REPORT.audios) = 2
  BY <1>2 DEF EntriesCount
<1>4. ASSUME NEW n \in DOMAIN REPORT.audios
      PROVE  LET e == REPORT.audios[n]
             IN  /\ e.error <=> oAudios[n] = << >>
                 /\ ~e.error => /\ e.walls = 3 /\ e.timed = e.n
                                /\ e.n = oAudios[n][1]
  BY DEF EntriesCount, Entered, Whole3
<1> QED
  BY <1>2, <1>3, <1>4

-----------------------------------------------------------------------------
(* The reference dumps: what is accepted was checked.                      *)

IsWhole(l) == npz[l] \in {<< "exact" >>, << "tail" >>}

\* Stage 0 has checked what is no longer in its loop, the tail fixture has a
\* first run of production from the second on.
Stage0Inv ==
    job = "stage0" =>
        /\ refPc \in {"tree", "pip", "ckpt", "audio", "script", "dump", "check", "over"}
        /\ refPc \in {"script", "dump", "check"} => "short" \in refAudios
        /\ refPc \in {"dump", "check"} =>
               \/ refTodo = << << "short" >>, IF "mid" \in refAudios THEN << "mid" >> ELSE << >> >>
               \/ refTodo = << IF "mid" \in refAudios THEN << "mid" >> ELSE << >> >> /\ IsWhole("short")
               \/ refTodo = << >> /\ "mid" \in refAudios /\ IsWhole("short") /\ IsWhole("mid")
        /\ refPc = "check" => refTodo # << >> /\ refTodo[1] # << >> /\ npz[refTodo[1][1]] # << >>
TailInv ==
    job = "tail" =>
        /\ refPc \in {"production", "run1", "run2", "pip", "ckpt", "script", "dump", "check", "over"}
        /\ refPc \in {"run2", "pip", "ckpt", "script", "dump", "check"} => probs[1] # << >>
        /\ refPc \in {"dump", "check"} => refTodo = << << "slice" >> >>
        /\ refPc = "check" => npz["slice"] # << >>

RefsInv == /\ Refs!TypeOK
           /\ Stage0Inv /\ TailInv
           /\ refVerdict \in {"nemo-ok", "fixture-built"} => refPc = "over"
           /\ refPc \in {"production", "run1", "run2"} => notes = {}
           /\ Refs!AcceptedIsWhole

\* The reference jobs start with nothing dumped.
LEMMA RefsStart ==
    ASSUME Refs!Init
    PROVE  RefsInv
<1>1. Refs!TypeOK
  BY SessionInputs DEF Refs!Init, Refs!TypeOK
<1> QED
  BY <1>1 DEF Refs!Init, RefsInv, Stage0Inv, TailInv, Refs!AcceptedIsWhole

\* Every step of a reference job keeps this.
LEMMA RefsKeep ==
    ASSUME RefsInv, Refs!Next \/ UNCHANGED refsVars
    PROVE  RefsInv'
<1> USE DEF RefsInv, Refs!Expected, Refs!Strange, Refs!GoTo, Refs!EndsWith, Refs!Raises, Refs!Kept
<1>0. /\ refOdd \in Nat /\ MaxOdd \in Nat /\ refOdd <= MaxOdd
      /\ npz \in [Refs!Labels -> {<< >>} \cup {<< d >> : d \in Refs!Dumps}]
      /\ probs \in [{1, 2} -> {<< >>} \cup {<< b >> : b \in Refs!Bodies}]
  BY SessionInputs DEF Refs!TypeOK
\* The commands before a dump is made.
<1>1. CASE \/ UNCHANGED refsVars \/ Refs!s0_a \/ Refs!s0_b \/ Refs!s0_c \/ Refs!find_audio
           \/ Refs!unpack \/ Refs!build_and_cut
  <2> USE DEF refsVars, Refs!Step, Refs!s0_a, Refs!s0_b, Refs!s0_c, Refs!find_audio, Refs!unpack,
              Refs!build_and_cut
  <2>1. Refs!TypeOK'
    BY <1>0, <1>1 DEF Refs!TypeOK
  <2>2. Stage0Inv' /\ TailInv'
    BY <1>1 DEF Stage0Inv, TailInv, IsWhole, Refs!TypeOK
  <2> QED
    BY <1>1, <2>1, <2>2 DEF Refs!AcceptedIsWhole
<1>2. CASE Refs!script
  <2> USE DEF Refs!script, Refs!Loop
  <2>1. Refs!TypeOK'
    BY <1>0, <1>2 DEF Refs!TypeOK
  <2>2. Stage0Inv' /\ TailInv'
    BY <1>2 DEF Stage0Inv, TailInv, IsWhole, Refs!TypeOK
  <2> QED
    BY <1>2, <2>1, <2>2 DEF Refs!AcceptedIsWhole
<1>3. CASE Refs!dump
  <2> USE DEF Refs!dump, Refs!First
  <2>1. CASE refPc' = "over"
    <3>1. Refs!TypeOK'
      BY <1>0, <1>3, <2>1 DEF Refs!TypeOK
    <3> QED
      BY <1>3, <2>1, <3>1 DEF Stage0Inv, TailInv, Refs!TypeOK, Refs!AcceptedIsWhole
  <2>2. CASE refPc' = "check"
    <3>1. PICK d \in Refs!Dumps : npz' = [npz EXCEPT ![refTodo[1][1]] = << d >>]
      BY <1>3, <2>2
    <3>2. refTodo[1] \in {<< "short" >>, << "mid" >>, << "slice" >>}
      BY <1>3 DEF Stage0Inv, TailInv, Refs!TypeOK
    <3>3. refTodo[1][1] \in Refs!Labels
      BY <3>2 DEF Refs!Labels
    <3>4. Refs!TypeOK'
      <4>1. npz' \in [Refs!Labels -> {<< >>} \cup {<< e >> : e \in Refs!Dumps}]
        BY <1>0, <3>1, <3>3
      <4> QED
        BY <1>0, <1>3, <2>2, <4>1 DEF Refs!TypeOK
    <3>5. npz'[refTodo[1][1]] # << >>
      BY <1>0, <3>1, <3>3
    <3>6. \A l \in Refs!Labels : l # refTodo[1][1] => npz'[l] = npz[l]
      BY <1>0, <3>1, <3>3
    <3>7. Stage0Inv'
      BY <1>3, <2>2, <3>5, <3>6 DEF Stage0Inv, IsWhole, Refs!Labels
    <3>8. TailInv'
      BY <1>3, <2>2, <3>5 DEF TailInv
    <3> QED
      BY <1>3, <2>2, <3>4, <3>7, <3>8 DEF Refs!AcceptedIsWhole
  <2> QED
    BY <1>3, <2>1, <2>2
<1>4. CASE Refs!check
  <2> USE DEF Refs!check, Refs!First
  <2>1. Refs!TypeOK'
    BY <1>0, <1>4 DEF Refs!TypeOK
  <2>2. /\ job = "stage0" /\ refPc = "check" /\ npz' = npz
        /\ Refs!Admitted(npz[refTodo[1][1]][1]) /\ refPc' = "dump" => IsWhole(refTodo[1][1])
    <3>1. refTodo[1] \in {<< "short" >>, << "mid" >>}
      BY <1>4 DEF Stage0Inv
    <3>2. npz[refTodo[1][1]] \in {<< d >> : d \in Refs!Dumps}
      BY <1>0, <1>4, <3>1 DEF Stage0Inv, Refs!Labels
    <3> QED
      BY <1>4, <3>2 DEF IsWhole, Refs!Admitted
  <2>3. Stage0Inv'
    <3>1. /\ Tail(<< << "short" >>, << "mid" >> >>) = << << "mid" >> >>
          /\ Tail(<< << "short" >>, << >> >>) = << << >> >>
          /\ Tail(<< << "mid" >> >>) = << >>
      OBVIOUS
    <3>2. CASE refPc' = "over"
      BY <1>4, <2>2, <3>2 DEF Stage0Inv
    <3>3. CASE refPc' = "dump"
      <4>1. CASE refTodo = << << "short" >>, IF "mid" \in refAudios THEN << "mid" >> ELSE << >> >>
        BY <1>4, <2>2, <3>1, <3>3, <4>1 DEF Stage0Inv, IsWhole
      <4>2. CASE /\ refTodo = << IF "mid" \in refAudios THEN << "mid" >> ELSE << >> >>
                 /\ IsWhole("short")
        BY <1>4, <2>2, <3>1, <3>3, <4>2 DEF Stage0Inv, IsWhole
      <4> QED
        BY <1>4, <2>2, <4>1, <4>2 DEF Stage0Inv
    <3> QED
      BY <1>4, <3>2, <3>3
  <2>4. TailInv'
    BY <1>4 DEF TailInv
  <2> QED
    BY <1>4, <2>1, <2>3, <2>4 DEF Refs!AcceptedIsWhole
<1>5. CASE Refs!nemo_ok
  <2> USE DEF Refs!nemo_ok
  <2>1. Refs!TypeOK'
    BY <1>0, <1>5 DEF Refs!TypeOK
  <2>2. job = "stage0" /\ IsWhole("short") /\ IsWhole("mid")
    BY <1>5 DEF Stage0Inv, TailInv, Refs!TypeOK
  <2> QED
    BY <1>5, <2>1, <2>2 DEF Stage0Inv, TailInv, IsWhole, Refs!AcceptedIsWhole
<1>6. CASE Refs!production \/ Refs!run2
  <2> USE DEF Refs!production, Refs!run2, Refs!Runs, Refs!SameBytes
  <2>1. job = "tail" /\ refVerdict' \notin {"nemo-ok", "fixture-built"}
    BY <1>6 DEF Stage0Inv, Refs!TypeOK
  <2>2. probs' \in [{1, 2} -> {<< >>} \cup {<< b >> : b \in Refs!Bodies}]
    <3>1. \A b \in {"x", "y"} : << b >> \in {<< c >> : c \in Refs!Bodies}
      BY DEF Refs!Bodies
    <3> QED
      BY <1>0, <1>6, <3>1
  <2>3. Refs!TypeOK'
    BY <1>0, <1>6, <2>2 DEF Refs!TypeOK
  <2>4. TailInv'
    <3>1. refPc' # "over" => probs'[1] # << >>
      <4>1. << "x" >> # << >>
        OBVIOUS
      <4>2. CASE Refs!production
        BY <1>0, <4>1, <4>2
      <4>3. CASE Refs!run2
        <5>1. probs[1] # << >>
          BY <2>1, <4>3 DEF TailInv
        <5> QED
          BY <1>0, <4>3, <5>1
      <4> QED
        BY <1>6, <4>2, <4>3
    <3> QED
      BY <1>6, <2>1, <3>1 DEF TailInv
  <2>5. Refs!AcceptedIsWhole'
    BY <1>0, <1>6, <2>1 DEF Refs!AcceptedIsWhole
  <2> QED
    BY <1>6, <2>1, <2>3, <2>4, <2>5 DEF Stage0Inv
<1>7. CASE Refs!compare
  <2> USE DEF Refs!compare
  <2>1. Refs!TypeOK'
    BY <1>0, <1>7 DEF Refs!TypeOK
  <2> QED
    BY <1>7, <2>1 DEF Stage0Inv, TailInv, Refs!AcceptedIsWhole
<1> QED
  BY <1>1, <1>2, <1>3, <1>4, <1>5, <1>6, <1>7 DEF Refs!Next

-----------------------------------------------------------------------------
(* The gate kernels: a gate that holds says what the rows are.             *)

Fat    == [sass : {Gpu!All3, {"sm_75"}, {}}, ptx : BOOLEAN]
Says(name, p) == name \in DOMAIN gpuGates /\ (gpuGates[name] => p)

BuildGates ==
    gpuPc \in {"bench", "build_ptx", "bench_ptx", "judge", "end"} =>
        /\ Says(<< "fatbin", "sass_all3" >>, Gpu!All3 \subseteq fat.sass)
        /\ Says(<< "fatbin", "ptx_compute60" >>, fat.ptx)
BenchGates ==
    gpuPc \in {"build_ptx", "bench_ptx", "judge", "end"} =>
        /\ \A k \in Gpu!Gated(gpuStep, "sass") : Says(<< "sass", k >>, Gpu!Passes(sass, k))
        /\ gpuStep = 5 => Says(<< "sass", "fp16_not_slower" >>, Gpu!fp16_not_slower(sass))
JitGates ==
    gpuPc \in {"judge", "end"} =>
        /\ \A k \in Gpu!Gated(gpuStep, "jit") : Says(<< "jit", k >>, Gpu!Passes(jit, k))
        /\ gpuStep > 3 => Says(<< "jit", "bitidentical" >>, Gpu!jit_identical(sass, jit))
GreenGates ==
    gpuVerdict = "green" => gpuPc = "end" /\ \A g \in DOMAIN gpuGates : gpuGates[g]

GpuInv == /\ gpuStep \in 3 .. 5 /\ Gpu!TypeOK /\ fat \in Fat
          /\ BuildGates /\ BenchGates /\ JitGates /\ GreenGates

\* Rows are of the keys asked for, some of them perhaps not there.
LEMMA RowsOfTheKeys ==
    ASSUME NEW keys, NEW rows \in {Gpu!Rows(keys)} \cup Gpu!OddRows(DOMAIN Gpu!Rows(keys))
    PROVE  DOMAIN rows \subseteq keys
<1>1. /\ DOMAIN Gpu!Rows(keys) = keys /\ DOMAIN Gpu!Rows({}) = {}
      /\ \A k \in keys : DOMAIN Gpu!Rows(keys \ {k}) \subseteq keys
  BY DEF Gpu!Rows
<1>2. \A k \in keys : \A f \in Gpu!Spoilt(keys, k) : DOMAIN f \subseteq keys
  BY <1>1 DEF Gpu!Spoilt
<1>3. rows = Gpu!Rows(keys) \/ rows = Gpu!Rows({}) \/ \E k \in keys : rows \in Gpu!Spoilt(keys, k)
  <2>1. CASE rows \in UNION {Gpu!Spoilt(keys, k) : k \in keys}
    <3>1. PICK S \in {Gpu!Spoilt(keys, k) : k \in keys} : rows \in S
      BY <2>1
    <3> QED
      BY <3>1
  <2>2. rows = Gpu!Rows(keys) \/ rows = Gpu!Rows({}) \/ rows \in UNION {Gpu!Spoilt(keys, k) : k \in keys}
    <3>1. Gpu!OddRows(DOMAIN Gpu!Rows(keys)) = Gpu!OddRows(keys)
      BY <1>1
    <3> DEFINE some == UNION {Gpu!Spoilt(keys, k) : k \in keys}
    <3>2. Gpu!OddRows(keys) = {Gpu!Rows({})} \cup some
      BY DEF Gpu!OddRows
    <3> HIDE DEF some
    <3>3. rows = Gpu!Rows(keys) \/ rows = Gpu!Rows({}) \/ rows \in some
      BY <3>1, <3>2
    <3> QED
      BY <3>3 DEF some
  <2> QED
    BY <2>1, <2>2
<1> QED
  BY <1>1, <1>2, <1>3

\* The state of a gate kernel has its type.
LEMMA GpuTyped ==
    ASSUME Gpu!TypeOK, UNCHANGED << gpuStep, sass, jit >>,
           gpuPc' \in {"selftest", "build", "bench", "build_ptx", "bench_ptx",
                       "judge", "exit", "end"},
           gpuOdd' \in 0 .. MaxOdd
    PROVE  Gpu!TypeOK'
<1>1. Gpu!Parity(gpuStep)' = Gpu!Parity(gpuStep) /\ Gpu!Timed(gpuStep)' = Gpu!Timed(gpuStep)
  BY DEF Gpu!Parity, Gpu!Timed
<1> QED
  BY <1>1 DEF Gpu!TypeOK

\* A gate kernel starts without gates.
LEMMA GpuStarts ==
    ASSUME Gpu!Init
    PROVE  GpuInv
<1>1. gpuStep \in 3 .. 5
  BY SessionInputs DEF Gpu!Init
<1>2. DOMAIN << >> = {}
  OBVIOUS
<1>3. Gpu!TypeOK /\ fat \in Fat
  BY <1>2, SessionInputs DEF Gpu!Init, Gpu!TypeOK, Fat
<1> QED
  BY <1>1, <1>3 DEF Gpu!Init, GpuInv, BuildGates, BenchGates, JitGates, GreenGates

\* Every step of a gate kernel keeps what its gates say.
LEMMA GpuKeeps ==
    ASSUME GpuInv, Gpu!Next \/ UNCHANGED gpuVars
    PROVE  GpuInv'
<1> USE DEF GpuInv, Gpu!Goes, Gpu!Odd, Gpu!NextOf
<1>0. /\ gpuOdd \in Nat /\ MaxOdd \in Nat /\ gpuOdd <= MaxOdd
      /\ gpuVerdict # "green" \/ gpuPc = "end"
  BY SessionInputs DEF Gpu!TypeOK, GreenGates
<1>1. CASE UNCHANGED gpuVars
  <2>1. Gpu!TypeOK'
    BY <1>1 DEF gpuVars, Gpu!TypeOK, Gpu!Parity, Gpu!Timed
  <2>2. BuildGates' /\ GreenGates'
    BY <1>1 DEF gpuVars, BuildGates, GreenGates, Says
  <2>3. BenchGates'
    BY <1>1 DEF gpuVars, BenchGates, Says, Gpu!Gated, Gpu!Passes, Gpu!Select,
                Gpu!fp16_not_slower
  <2>4. JitGates'
    BY <1>1 DEF gpuVars, JitGates, Says, Gpu!Gated, Gpu!Passes, Gpu!Select,
                Gpu!jit_identical, Gpu!Compared
  <2> QED
    BY <1>1, <2>1, <2>2, <2>3, <2>4 DEF gpuVars, Fat
<1>2. CASE Gpu!selftest
  <2> USE DEF Gpu!selftest
  <2>1. gpuPc = "selftest" /\ gpuPc' \in {"build", "exit"} /\ UNCHANGED << gpuStep, fat, sass, jit, gpuVerdict >>
    BY <1>2
  <2>2. Gpu!TypeOK'
    <3>1. gpuOdd' \in 0 .. MaxOdd
      BY <1>0, <1>2
    <3> QED
      BY <2>1, <3>1, GpuTyped
  <2> QED
    BY <1>0, <2>1, <2>2 DEF BuildGates, BenchGates, JitGates, GreenGates, Fat
<1>3. CASE Gpu!build
  <2> USE DEF Gpu!build
  <2>1. gpuPc = "build" /\ gpuPc' \in {"bench", "exit"} /\ UNCHANGED << gpuStep, sass, jit, gpuVerdict >>
    BY <1>3
  <2>2. Gpu!TypeOK'
    <3>1. gpuOdd' \in 0 .. MaxOdd
      BY <1>0, <1>3
    <3> QED
      BY <2>1, <3>1, GpuTyped
  <2>3. fat' \in Fat /\ BuildGates'
    <3>1. CASE gpuPc' = "exit"
      BY <1>3, <3>1 DEF BuildGates
    <3>2. CASE gpuPc' = "bench"
      <4>1. PICK a \in {Gpu!All3, {"sm_75"}, {}}, p \in BOOLEAN :
              /\ fat' = [sass |-> a, ptx |-> p]
              /\ gpuGates' = Gpu!Merge(
                    Gpu!Merge(gpuGates, Gpu!Named(<< "fatbin", "sass_all3" >>, Gpu!All3 \subseteq a)),
                    Gpu!Named(<< "fatbin", "ptx_compute60" >>, p))
        BY <1>3, <3>2
      <4>2. /\ << "fatbin", "sass_all3" >> \in DOMAIN gpuGates'
            /\ << "fatbin", "ptx_compute60" >> \in DOMAIN gpuGates'
            /\ gpuGates'[<< "fatbin", "sass_all3" >>] = (Gpu!All3 \subseteq a)
            /\ gpuGates'[<< "fatbin", "ptx_compute60" >>] = p
        BY <4>1 DEF Gpu!Merge, Gpu!Named
      <4> QED
        BY <4>1, <4>2 DEF Fat, BuildGates, Says
    <3> QED
      BY <2>1, <3>1, <3>2
  <2> QED
    BY <1>0, <2>1, <2>2, <2>3 DEF BenchGates, JitGates, GreenGates
<1>4. CASE Gpu!bench
  <2> USE DEF Gpu!bench
  <2> DEFINE keys == Gpu!Parity(gpuStep) \cup Gpu!Timed(gpuStep)
  <2>1. gpuPc = "bench" /\ gpuPc' \in {"build_ptx", "exit"} /\ UNCHANGED << gpuStep, fat, jit, gpuVerdict >>
    BY <1>4
  <2>2. CASE gpuPc' = "exit"
    <3>1. Gpu!TypeOK'
      <4>1. gpuOdd' \in 0 .. MaxOdd /\ UNCHANGED << sass, jit >>
        BY <1>0, <1>4, <2>2
      <4> QED
        BY <2>1, <4>1, GpuTyped
    <3> QED
      BY <1>0, <2>1, <2>2, <3>1 DEF BuildGates, BenchGates, JitGates, GreenGates, Fat
  <2>3. CASE gpuPc' = "build_ptx"
    <3> DEFINE names == {<< "sass", k >> : k \in Gpu!Gated(gpuStep, "sass")}
    <3>1. PICK rows \in {Gpu!Rows(keys)} \cup Gpu!OddRows(DOMAIN Gpu!Rows(keys)) :
            /\ sass' = rows
            /\ IF rows = Gpu!Rows(keys) THEN gpuOdd' = gpuOdd
               ELSE gpuOdd < MaxOdd /\ gpuOdd' = gpuOdd + 1
            /\ gpuGates' = Gpu!Merge(gpuGates,
                  IF gpuStep = 5
                    THEN Gpu!Merge(Gpu!GatesFrom("sass", rows),
                            Gpu!Named(<< "sass", "fp16_not_slower" >>, Gpu!fp16_not_slower(rows)))
                    ELSE Gpu!GatesFrom("sass", rows))
      BY <1>4, <2>3
    <3>10. gpuOdd' \in 0 .. MaxOdd
      BY <1>0, <3>1
    <3>2. DOMAIN sass' \subseteq keys
      BY <3>1, RowsOfTheKeys
    <3>3. Gpu!TypeOK'
      BY <2>1, <2>3, <3>2, <3>10 DEF Gpu!TypeOK, Gpu!Parity, Gpu!Timed
    <3>4. /\ DOMAIN Gpu!GatesFrom("sass", rows) = names
          /\ \A k \in Gpu!Gated(gpuStep, "sass") :
                Gpu!GatesFrom("sass", rows)[<< "sass", k >>] = Gpu!Passes(rows, k)
      BY DEF Gpu!GatesFrom
    <3>5. \A k \in Gpu!Gated(gpuStep, "sass") : k # "fp16_not_slower"
      BY DEF Gpu!Gated
    <3> HIDE DEF keys
    <3>6. BuildGates'
      <4>1. /\ << "fatbin", "sass_all3" >> \in DOMAIN gpuGates'
            /\ << "fatbin", "ptx_compute60" >> \in DOMAIN gpuGates'
            /\ gpuGates'[<< "fatbin", "sass_all3" >>] = gpuGates[<< "fatbin", "sass_all3" >>]
            /\ gpuGates'[<< "fatbin", "ptx_compute60" >>] = gpuGates[<< "fatbin", "ptx_compute60" >>]
        BY <2>1, <3>1, <3>4 DEF BuildGates, Says, Gpu!Merge, Gpu!Named
      <4> QED
        BY <2>1, <4>1 DEF BuildGates, Says
    <3>7. BenchGates'
      <4>1. \A k \in Gpu!Gated(gpuStep, "sass") :
               << "sass", k >> \in DOMAIN gpuGates' /\ gpuGates'[<< "sass", k >>] = Gpu!Passes(rows, k)
        BY <3>1, <3>4, <3>5 DEF Gpu!Merge, Gpu!Named
      <4>2. gpuStep = 5 =>
               /\ << "sass", "fp16_not_slower" >> \in DOMAIN gpuGates'
               /\ gpuGates'[<< "sass", "fp16_not_slower" >>] = Gpu!fp16_not_slower(rows)
        BY <3>1 DEF Gpu!Merge, Gpu!Named
      <4>3. /\ gpuStep' = gpuStep /\ sass' = rows
            /\ Gpu!Gated(gpuStep, "sass")' = Gpu!Gated(gpuStep, "sass")
            /\ \A k : Gpu!Passes(sass, k)' = Gpu!Passes(rows, k)
            /\ Gpu!fp16_not_slower(sass)' = Gpu!fp16_not_slower(rows)
        BY <2>1, <3>1 DEF Gpu!Gated, Gpu!Passes, Gpu!Select, Gpu!fp16_not_slower
      <4> QED
        BY <4>1, <4>2, <4>3 DEF BenchGates, Says
    <3> QED
      BY <1>0, <2>1, <2>3, <3>3, <3>6, <3>7 DEF JitGates, GreenGates, Fat
  <2> QED
    BY <2>1, <2>2, <2>3
<1>5. CASE Gpu!build_ptx
  <2> USE DEF Gpu!build_ptx
  <2>1. /\ gpuPc = "build_ptx" /\ gpuPc' \in {"bench_ptx", "exit"}
        /\ UNCHANGED << gpuStep, fat, sass, jit, gpuGates, gpuVerdict >>
    BY <1>5
  <2>2. Gpu!TypeOK'
    <3>1. gpuOdd' \in 0 .. MaxOdd
      BY <1>0, <1>5
    <3> QED
      BY <2>1, <3>1, GpuTyped
  <2>3. BuildGates'
    BY <2>1 DEF BuildGates, Says
  <2>4. BenchGates'
    BY <2>1 DEF BenchGates, Says, Gpu!Gated, Gpu!Passes, Gpu!Select, Gpu!fp16_not_slower
  <2> QED
    BY <1>0, <2>1, <2>2, <2>3, <2>4 DEF JitGates, GreenGates, Fat
<1>6. CASE Gpu!bench_ptx
  <2> USE DEF Gpu!bench_ptx
  <2> DEFINE keys == Gpu!Parity(gpuStep)
  <2>1. gpuPc = "bench_ptx" /\ gpuPc' \in {"judge", "exit"} /\ UNCHANGED << gpuStep, fat, sass, gpuVerdict >>
    BY <1>6
  <2>2. CASE gpuPc' = "exit"
    <3>1. Gpu!TypeOK'
      <4>1. gpuOdd' \in 0 .. MaxOdd /\ UNCHANGED << sass, jit >>
        BY <1>0, <1>6, <2>2
      <4> QED
        BY <2>1, <4>1, GpuTyped
    <3> QED
      BY <1>0, <2>1, <2>2, <3>1 DEF BuildGates, BenchGates, JitGates, GreenGates, Fat
  <2>3. CASE gpuPc' = "judge"
    <3> DEFINE names == {<< "jit", k >> : k \in Gpu!Gated(gpuStep, "jit")}
    <3>1. PICK rows \in {Gpu!Rows(keys)} \cup Gpu!OddRows(DOMAIN Gpu!Rows(keys)) :
            /\ jit' = rows
            /\ gpuOdd' \in 0 .. MaxOdd
            /\ gpuGates' = Gpu!Merge(gpuGates,
                  IF gpuStep = 3
                    THEN Gpu!GatesFrom("jit", rows)
                    ELSE Gpu!Merge(Gpu!GatesFrom("jit", rows),
                            Gpu!Named(<< "jit", "bitidentical" >>, Gpu!jit_identical(sass, rows))))
      <4> HIDE DEF keys
      <4> QED
        BY <1>0, <1>6, <2>3 DEF keys
    <3>2. DOMAIN jit' \subseteq keys
      BY <3>1, RowsOfTheKeys
    <3>3. Gpu!TypeOK'
      BY <2>1, <2>3, <3>1, <3>2 DEF Gpu!TypeOK, Gpu!Parity, Gpu!Timed
    <3>4. /\ DOMAIN Gpu!GatesFrom("jit", rows) = names
          /\ \A k \in Gpu!Gated(gpuStep, "jit") :
                Gpu!GatesFrom("jit", rows)[<< "jit", k >>] = Gpu!Passes(rows, k)
      BY DEF Gpu!GatesFrom
    <3>5. \A k \in Gpu!Gated(gpuStep, "jit") : k # "bitidentical"
      BY DEF Gpu!Gated
    <3> HIDE DEF keys
    <3>6. \A name \in DOMAIN gpuGates : name[1] # "jit" =>
              name \in DOMAIN gpuGates' /\ gpuGates'[name] = gpuGates[name]
      BY <3>1, <3>4 DEF Gpu!Merge, Gpu!Named
    <3>7. BuildGates'
      BY <2>1, <3>6 DEF BuildGates, Says
    <3>8. BenchGates'
      <4>1. /\ Gpu!Gated(gpuStep, "sass")' = Gpu!Gated(gpuStep, "sass")
            /\ \A k : Gpu!Passes(sass, k)' = Gpu!Passes(sass, k)
            /\ Gpu!fp16_not_slower(sass)' = Gpu!fp16_not_slower(sass)
        BY <2>1 DEF Gpu!Gated, Gpu!Passes, Gpu!Select, Gpu!fp16_not_slower
      <4> QED
        BY <2>1, <3>6, <4>1 DEF BenchGates, Says
    <3>9. JitGates'
      <4>1. \A k \in Gpu!Gated(gpuStep, "jit") :
               << "jit", k >> \in DOMAIN gpuGates' /\ gpuGates'[<< "jit", k >>] = Gpu!Passes(rows, k)
        BY <3>1, <3>4, <3>5 DEF Gpu!Merge, Gpu!Named
      <4>2. gpuStep # 3 =>
               /\ << "jit", "bitidentical" >> \in DOMAIN gpuGates'
               /\ gpuGates'[<< "jit", "bitidentical" >>] = Gpu!jit_identical(sass, rows)
        BY <3>1 DEF Gpu!Merge, Gpu!Named
      <4>3. /\ gpuStep' = gpuStep /\ jit' = rows
            /\ Gpu!Gated(gpuStep, "jit")' = Gpu!Gated(gpuStep, "jit")
            /\ \A k : Gpu!Passes(jit, k)' = Gpu!Passes(rows, k)
            /\ Gpu!jit_identical(sass, jit)' = Gpu!jit_identical(sass, rows)
        BY <2>1, <3>1 DEF Gpu!Gated, Gpu!Passes, Gpu!Select, Gpu!jit_identical, Gpu!Compared
      <4> QED
        BY <4>1, <4>2, <4>3 DEF JitGates, Says
    <3> QED
      BY <1>0, <2>1, <2>3, <3>3, <3>7, <3>8, <3>9 DEF GreenGates, Fat
  <2> QED
    BY <2>1, <2>2, <2>3
<1>7. CASE Gpu!judge
  <2> USE DEF Gpu!judge
  <2>1. gpuPc = "judge" /\ gpuPc' = "end" /\ UNCHANGED << gpuStep, fat, sass, jit, gpuGates, gpuOdd >>
    BY <1>7
  <2>2. Gpu!TypeOK'
    BY <2>1 DEF Gpu!TypeOK, Gpu!Parity, Gpu!Timed
  <2>3. BuildGates' /\ GreenGates'
    BY <1>7 DEF BuildGates, GreenGates, Says
  <2>4. BenchGates'
    BY <2>1 DEF BenchGates, Says, Gpu!Gated, Gpu!Passes, Gpu!Select, Gpu!fp16_not_slower
  <2>5. JitGates'
    BY <2>1 DEF JitGates, Says, Gpu!Gated, Gpu!Passes, Gpu!Select, Gpu!jit_identical, Gpu!Compared
  <2> QED
    BY <2>1, <2>2, <2>3, <2>4, <2>5 DEF Fat
<1> QED
  BY <1>1, <1>2, <1>3, <1>4, <1>5, <1>6, <1>7 DEF Gpu!Next

\* So a green verdict is proved by them.
LEMMA GpuProves ==
    ASSUME GpuInv
    PROVE  Gpu!GreenIsProved
<1> SUFFICES ASSUME gpuVerdict = "green"
             PROVE  Gpu!GreenIsProved
  BY DEF Gpu!GreenIsProved
<1>1. gpuPc = "end" /\ \A g \in DOMAIN gpuGates : gpuGates[g]
  BY DEF GpuInv, GreenGates
<1>2. fat = [sass |-> Gpu!All3, ptx |-> TRUE]
  <2>1. Gpu!All3 \subseteq fat.sass /\ fat.ptx
    BY <1>1 DEF GpuInv, BuildGates, Says
  <2> QED
    BY <2>1 DEF GpuInv, Fat, Gpu!All3
<1>3. /\ \A k \in Gpu!Gated(gpuStep, "sass") : Gpu!Passes(sass, k)
      /\ \A k \in Gpu!Gated(gpuStep, "jit") : Gpu!Passes(jit, k)
  BY <1>1 DEF GpuInv, BenchGates, JitGates, Says
<1>4. \A rows, k : Gpu!Passes(rows, k) =>
          /\ \E r \in DOMAIN rows : r[1] = k
          /\ \A r \in DOMAIN rows : r[1] = k => rows[r].pass
  BY DEF Gpu!Passes, Gpu!Select
<1>5. gpuStep > 3 => \A r \in DOMAIN sass \cap Gpu!Parity(gpuStep) :
                        r \in DOMAIN jit /\ jit[r].val = sass[r].val
  <2> SUFFICES ASSUME gpuStep > 3, NEW r \in DOMAIN sass \cap Gpu!Parity(gpuStep)
               PROVE  r \in DOMAIN jit /\ jit[r].val = sass[r].val
    OBVIOUS
  <2>1. Gpu!jit_identical(sass, jit)
    BY <1>1 DEF GpuInv, JitGates, Says
  <2>2. gpuStep \in {4, 5}
    BY DEF GpuInv
  <2>3. r[1] \in Gpu!Compared(gpuStep)
    BY <2>2 DEF Gpu!Parity, Gpu!Compared
  <2> QED
    BY <2>1, <2>3 DEF Gpu!jit_identical
<1>6. gpuStep = 5 => \A t \in {"20", "26"} : << "full", t >> \in DOMAIN sass =>
                        sass[<< "h_full", t >>].val <= sass[<< "full", t >>].val
  <2> SUFFICES ASSUME gpuStep = 5, NEW t \in {"20", "26"}, << "full", t >> \in DOMAIN sass
               PROVE  sass[<< "h_full", t >>].val <= sass[<< "full", t >>].val
    OBVIOUS
  <2>1. Gpu!fp16_not_slower(sass)
    BY <1>1 DEF GpuInv, BenchGates, Says
  <2> QED
    BY <2>1 DEF Gpu!fp16_not_slower, Gpu!Select
<1> QED
  BY <1>2, <1>3, <1>4, <1>5, <1>6 DEF Gpu!GreenIsProved

-----------------------------------------------------------------------------
(* The Step-6 sessions and their merge: what a session leaves is a table   *)
(* of its own share, and what is merged was left or downloaded before.     *)

RouteNames == {"cpu", "fp32", "fp16", "fp32jit"}
Reports6   == [det : BOOLEAN, level : Nat, ref : BOOLEAN, refused : BOOLEAN, stem : BOOLEAN,
               slow : BOOLEAN]
Entries6   == [bench : Reports6, vs_cpu : Seq(Nat), jit : Seq(Nat)]
Tables     == UNION {[D -> Entries6] : D \in SUBSET RouteNames}
Jobs6      == [at : {"queued", "running", "done", "error", "exit"},
               left : Seq(RouteNames \X Nat), routes : Tables]
NamesOf(q) == {q[k][1] : k \in DOMAIN q}

\* The routes of a fixture are behind it or ahead.
JobRight(l, j) ==
    /\ DOMAIN j.routes \cup NamesOf(j.left) = NamesOf(Step6!Routes(now, l))
    /\ j.at = "done" => j.left = << >>

SessionInv ==
    /\ dataset \subseteq Step6!Fixtures /\ mergeTodo \in Seq(Step6!Sessions)
    /\ now \in Step6!Sessions \cup {"none"} /\ phase \in {"idle", "build", "cases"}
    /\ phase # "idle" => now \in Step6!Sessions
    /\ DOMAIN jobs = IF phase = "cases" THEN dataset \cap Step6!S6_ROLE(now).cases ELSE {}
    /\ \A l \in DOMAIN jobs : jobs[l] \in Jobs6 /\ JobRight(l, jobs[l])
    /\ \A d \in DOMAIN dumps : dumps[d] \in Nat
    /\ mergeFaults \in 0 .. MaxFaults

\* What a session left: a row for each fixture of its share, with every route
\* unless it failed, and the verdict on these rows.
Left(s) ==
    LET o == mergeOut[s] IN
    /\ \A l \in DOMAIN o.cases : o.cases[l].routes \in Tables
    /\ o.verdict # "none" =>
          /\ o.verdict = Step6!judge(o.cases)
          /\ DOMAIN o.cases = dataset \cap Step6!S6_ROLE(s).cases
          /\ \A l \in DOMAIN o.cases :
                ~o.cases[l].error => DOMAIN o.cases[l].routes = NamesOf(Step6!Routes(s, l))
OutInv == DOMAIN mergeOut = Step6!Sessions /\ \A s \in Step6!Sessions : Left(s)

MergeInv ==
    /\ DOMAIN mergeBase = Step6!Range(Step6!Split)
    /\ \A s \in Step6!Range(Step6!Split) : \A l \in DOMAIN mergeBase[s].cases :
          mergeBase[s].cases[l].routes \in Tables
    /\ mergeLeft \in Seq(Step6!Range(Step6!Split))
    /\ stage \in {"sessions", "download", "merge", "ended"}
    /\ archive \in {"none", "s6b-green", "s6b-red"}
    /\ archive # "none" => stage = "ended"
    /\ archive = "s6b-green" => Step6!Loaded(mergeBase) /\ ~Step6!Reasons(mergeBase)

Step6Inv == SessionInv /\ OutInv /\ MergeInv

\* The sessions there are, and their order in the merge.
LEMMA TheSplit ==
    /\ Step6!Range(Step6!Split) = {"a", "b", "c", "d", "gpu"}
    /\ Step6!Sessions = {"a", "b", "c", "d", "gpu", "all"}
    /\ Step6!Split \in Seq(Step6!Range(Step6!Split))
    /\ DOMAIN Step6!Split = 1 .. 5
<1>1. DOMAIN Step6!Split = 1 .. 5
  BY DEF Step6!Split
<1>2. Step6!Range(Step6!Split) = {"a", "b", "c", "d", "gpu"}
  BY <1>1 DEF Step6!Split, Step6!Range
<1>3. Step6!Split \in Seq({"a", "b", "c", "d", "gpu"})
  BY DEF Step6!Split
<1> QED
  BY <1>1, <1>2, <1>3 DEF Step6!Sessions

\* There are four fixtures, so never more than four jobs at work.
LEMMA FourFixtures == IsFiniteSet(Step6!Fixtures) /\ Cardinality(Step6!Fixtures) <= 4
<1>1. Step6!Fixtures = (({"full"} \cup {"short"}) \cup {"preset"}) \cup {"mid"}
  <2>1. DOMAIN Step6!Order = 1 .. 4
    BY DEF Step6!Order
  <2> QED
    BY <2>1 DEF Step6!Order, Step6!Fixtures, Step6!Range
<1>2. IsFiniteSet({"full"}) /\ Cardinality({"full"}) = 1
  BY FS_Singleton
<1>3. IsFiniteSet({"full"} \cup {"short"}) /\ Cardinality({"full"} \cup {"short"}) \in {1, 2}
  BY <1>2, FS_AddElement
<1>4. /\ IsFiniteSet(({"full"} \cup {"short"}) \cup {"preset"})
      /\ Cardinality(({"full"} \cup {"short"}) \cup {"preset"}) \in {1, 2, 3}
  BY <1>3, FS_AddElement
<1>5. /\ IsFiniteSet(Step6!Fixtures)
      /\ Cardinality(Step6!Fixtures) \in {1, 2, 3, 4}
  BY <1>1, <1>4, FS_AddElement
<1> QED
  BY <1>5

\* A table has the entries of some routes.
LEMMA TableFacts ==
    ASSUME NEW t \in Tables
    PROVE  DOMAIN t \subseteq RouteNames /\ \A r \in DOMAIN t : t[r] \in Entries6
  BY DEF Tables

\* A fixture begins with an empty table.
LEMMA EmptyTable == [r \in {} |-> r] \in Tables /\ << >> \in Tables /\ DOMAIN << >> = {}
<1>1. << >> \in [{} -> Entries6] /\ [r \in {} |-> r] \in [{} -> Entries6]
  OBVIOUS
<1>2. DOMAIN << >> = {} /\ {} \in SUBSET RouteNames
  OBVIOUS
<1> QED
  BY <1>1, <1>2 DEF Tables

\* A route that ran adds its entry to the table.
LEMMA TableGrows ==
    ASSUME NEW t \in Tables, NEW r \in RouteNames, NEW e \in Entries6
    PROVE  Step6!With(t, r, e) \in Tables /\ DOMAIN Step6!With(t, r, e) = DOMAIN t \cup {r}
<1>1. DOMAIN t \subseteq RouteNames /\ \A x \in DOMAIN t : t[x] \in Entries6
  BY TableFacts
<1>2. DOMAIN t \cup {r} \in SUBSET RouteNames
  BY <1>1
<1>3. Step6!With(t, r, e) \in [DOMAIN t \cup {r} -> Entries6]
  BY <1>1 DEF Step6!With
<1> QED
  BY <1>2, <1>3 DEF Tables

\* The routes a session plans for a fixture are routes.
LEMMA RoutesAreRoutes ==
    ASSUME NEW s \in Step6!Sessions, NEW l
    PROVE  Step6!Routes(s, l) \in Seq(RouteNames \X Nat)
<1> DEFINE S   == RouteNames \X Nat
           cpu == << << "cpu", Step6!S6_ROLE(s).cpu_reps >> >>
           more == IF Step6!classify(l) = "streaming" THEN << << "fp32jit", 2 >> >> ELSE << >>
           gpu == << << "fp32", 3 >>, << "fp16", 3 >> >> \o more
<1>1. Step6!S6_ROLE(s).cpu_reps \in Nat
  BY TheSplit DEF Step6!S6_ROLE
<1>2. cpu \in Seq(S) /\ << >> \in Seq(S)
  BY <1>1 DEF RouteNames
<1>3. gpu \in Seq(S)
  <2>1. << << "fp32", 3 >>, << "fp16", 3 >> >> \in Seq(S)
    BY DEF RouteNames
  <2>2. more \in Seq(S)
    BY DEF RouteNames
  <2> HIDE DEF more, S
  <2> QED
    BY <2>1, <2>2, ConcatProperties
<1>4. cpu \o gpu \in Seq(S)
  <2> HIDE DEF cpu, gpu, S
  <2> QED
    BY <1>2, <1>3, ConcatProperties
<1>5. Step6!Routes(s, l) \in {<< >>, cpu, gpu, cpu \o gpu}
  BY Zenon DEF Step6!Routes
<1> QED
  BY <1>2, <1>3, <1>4, <1>5

-----------------------------------------------------------------------------
\* The sessions start with nothing left and nothing merged.
LEMMA Step6Starts ==
    ASSUME Step6!Init
    PROVE  Step6Inv
<1> USE DEF Step6!Init
<1>1. dataset \subseteq Step6!Fixtures /\ mergeTodo \in Seq(Step6!Sessions)
  BY SessionInputs
<1>2. SessionInv
  BY <1>1, EmptyTable, SessionInputs DEF SessionInv
<1>3. OutInv
  BY EmptyTable DEF OutInv, Left, Step6!NoOut
<1>4. MergeInv
  <2>1. \A s : DOMAIN Step6!NoOut.cases = {} /\ DOMAIN Step6!Earlier(s).cases = {}
    BY EmptyTable DEF Step6!NoOut, Step6!Earlier
  <2>2. << >> \in Seq(Step6!Range(Step6!Split))
    OBVIOUS
  <2> QED
    BY <2>1, <2>2 DEF MergeInv
<1> QED
  BY <1>2, <1>3, <1>4 DEF Step6Inv

\* One job goes on.
LEMMA JobGoesOn ==
    ASSUME SessionInv, phase = "cases", NEW l \in DOMAIN jobs, NEW j \in Jobs6, JobRight(l, j),
           jobs' = [jobs EXCEPT ![l] = j],
           UNCHANGED << dataset, mergeTodo, now, phase >>,
           \A d \in DOMAIN dumps' : dumps'[d] \in Nat,
           mergeFaults' \in 0 .. MaxFaults
    PROVE  SessionInv'
<1>1. /\ DOMAIN jobs' = DOMAIN jobs /\ jobs'[l] = j
      /\ \A i \in DOMAIN jobs : i # l => jobs'[i] = jobs[i]
  OBVIOUS
<1>3. \A i : Step6!Routes(now, i)' = Step6!Routes(now, i)
  BY DEF Step6!Routes, Step6!S6_ROLE, Step6!classify
<1>4. \A i \in DOMAIN jobs' : jobs'[i] \in Jobs6
  BY <1>1 DEF SessionInv
<1>5. \A i \in DOMAIN jobs' : JobRight(i, jobs'[i])
  BY <1>1 DEF SessionInv
<1>6. \A i \in DOMAIN jobs' :
         /\ DOMAIN jobs'[i].routes \cup NamesOf(jobs'[i].left) = NamesOf(Step6!Routes(now, i)')
         /\ jobs'[i].at = "done" => jobs'[i].left = << >>
  BY <1>3, <1>5 DEF JobRight
<1>7. (\A i \in DOMAIN jobs : jobs[i] \in Jobs6 /\ JobRight(i, jobs[i]))'
  BY <1>4, <1>6 DEF JobRight
<1>8. DOMAIN jobs' = dataset' \cap Step6!S6_ROLE(now)'.cases
  BY <1>1 DEF SessionInv, Step6!S6_ROLE
<1> QED
  BY <1>7, <1>8 DEF SessionInv

\* A session ends, and its container with it.
LEMMA SessionEnds ==
    ASSUME SessionInv, Step6!Ends, UNCHANGED << dataset, mergeTodo >>,
           mergeFaults' \in 0 .. MaxFaults
    PROVE  SessionInv'
  BY EmptyTable DEF SessionInv, Step6!Ends

\* The builds are judged and the fixtures queued.
LEMMA CasesBuilt ==
    ASSUME SessionInv, Step6!Build
    PROVE  SessionInv'
<1> USE DEF Step6!Build
<1>1. /\ phase = "build" /\ phase' = "cases" /\ now \in Step6!Sessions
      /\ UNCHANGED << dataset, mergeTodo, now, dumps >>
  BY DEF SessionInv
<1>2. mergeFaults' \in 0 .. MaxFaults
  <2>1. \A x : Step6!Cardinality({x}) = 1 /\ Step6!Cardinality({}) = 0
    BY FS_Singleton, FS_EmptySet DEF Step6!Cardinality, Cardinality
  <2>2. PICK bad \in {{}} \cup
            (IF mergeFaults = MaxFaults THEN {}
             ELSE {{"cpu_selftest"}, {"fatbin_3sass"}, {"fatbin_ptx60"}, {"jit_bin_ptx_only"}}) :
          mergeFaults' = mergeFaults + Step6!Cardinality(bad)
    OBVIOUS
  <2>3. Step6!Cardinality(bad) \in {0, 1} /\ (mergeFaults = MaxFaults => Step6!Cardinality(bad) = 0)
    BY <2>1, <2>2
  <2> QED
    BY <2>2, <2>3, SessionInputs DEF SessionInv
<1>3. /\ DOMAIN jobs' = dataset \cap Step6!S6_ROLE(now).cases
      /\ \A l \in DOMAIN jobs' :
            jobs'[l] = [at |-> "queued", left |-> Step6!Routes(now, l), routes |-> << >>]
  OBVIOUS
<1>4. ASSUME NEW l \in DOMAIN jobs'
      PROVE  jobs'[l] \in Jobs6 /\ JobRight(l, jobs'[l])
  <2>1. Step6!Routes(now, l) \in Seq(RouteNames \X Nat)
    BY <1>1, RoutesAreRoutes
  <2>2. jobs'[l] \in Jobs6
    BY <1>3, <2>1, EmptyTable DEF Jobs6
  <2>3. /\ jobs'[l].at = "queued" /\ jobs'[l].left = Step6!Routes(now, l)
        /\ jobs'[l].routes = << >>
    BY <1>3
  <2> QED
    BY <2>2, <2>3, EmptyTable DEF JobRight
<1>5. /\ \A i : Step6!Routes(now, i)' = Step6!Routes(now, i)
      /\ Step6!S6_ROLE(now)' = Step6!S6_ROLE(now)
  BY <1>1 DEF Step6!Routes, Step6!S6_ROLE, Step6!classify
<1>6. \A l \in DOMAIN jobs' :
         /\ DOMAIN jobs'[l].routes \cup NamesOf(jobs'[l].left) = NamesOf(Step6!Routes(now, l)')
         /\ jobs'[l].at = "done" => jobs'[l].left = << >>
  BY <1>4, <1>5 DEF JobRight
<1>7. (\A l \in DOMAIN jobs : jobs[l] \in Jobs6 /\ JobRight(l, jobs[l]))'
  BY <1>4, <1>6 DEF JobRight
<1>8. (DOMAIN jobs = IF phase = "cases" THEN dataset \cap Step6!S6_ROLE(now).cases ELSE {})'
  BY <1>1, <1>3, <1>5
<1> HIDE DEF Step6!Build
<1> QED
  BY <1>1, <1>2, <1>7, <1>8 DEF SessionInv

\* The job of a fixture goes from one state to the next.
LEMMA JobMoves ==
    ASSUME SessionInv, NEW l \in DOMAIN jobs,
           Step6!StartJob(l) \/ Step6!EndJob(l) \/ Step6!FailJob(l)
    PROVE  SessionInv'
<1> USE DEF Step6!StartJob, Step6!EndJob, Step6!FailJob, Step6!FailedAs
<1>1. PICK a \in {"running", "done", "error", "exit"} :
         /\ jobs' = [jobs EXCEPT ![l].at = a]
         /\ a = "done" => jobs[l].left = << >>
  OBVIOUS
<1>2. /\ phase = "cases" /\ UNCHANGED << dataset, mergeTodo, now, phase, dumps >>
      /\ jobs[l] \in Jobs6 /\ JobRight(l, jobs[l])
  BY DEF SessionInv
<1>3. mergeFaults' \in 0 .. MaxFaults
  BY SessionInputs DEF SessionInv
<1> HIDE DEF Step6!StartJob, Step6!EndJob, Step6!FailJob
<1> DEFINE j == [at |-> a, left |-> jobs[l].left, routes |-> jobs[l].routes]
<1>4. jobs' = [jobs EXCEPT ![l] = j]
  <2>1. [jobs[l] EXCEPT !.at = a] = j
    BY <1>2 DEF Jobs6
  <2> QED
    BY <1>1, <2>1
<1>5. j \in Jobs6 /\ JobRight(l, j)
  BY <1>1, <1>2 DEF Jobs6, JobRight
<1> HIDE DEF j
<1> QED
  BY <1>2, <1>3, <1>4, <1>5, JobGoesOn DEF SessionInv

\* A report with one field changed.
LEMMA ReportFields ==
    ASSUME NEW g \in Reports6, NEW v \in Nat
    PROVE  /\ [g EXCEPT !.level = v] \in Reports6 /\ [g EXCEPT !.det = FALSE] \in Reports6
           /\ [g EXCEPT !.ref = FALSE] \in Reports6 /\ [g EXCEPT !.refused = TRUE] \in Reports6
           /\ [g EXCEPT !.stem = TRUE] \in Reports6 /\ [g EXCEPT !.slow = TRUE] \in Reports6
  BY DEF Reports6

\* A job with its routes moved on.
LEMMA JobFields ==
    ASSUME NEW A, NEW B, NEW C, NEW x \in [at : A, left : B, routes : C], NEW q \in B, NEW t \in C
    PROVE  LET y == [x EXCEPT !.left = q, !.routes = t]
           IN  /\ y \in [at : A, left : B, routes : C]
               /\ y.at = x.at /\ y.left = q /\ y.routes = t
  OBVIOUS

\* A route runs: it moves from those ahead to the table.
LEMMA RouteRuns ==
    ASSUME SessionInv, NEW l \in DOMAIN jobs, Step6!RunRoute(l)
    PROVE  SessionInv'
<1> DEFINE r == Head(jobs[l].left)[1]
           reps == Head(jobs[l].left)[2]
<1>1. /\ phase = "cases" /\ jobs[l].at = "running" /\ jobs[l].left # << >>
      /\ UNCHANGED << dataset, mergeTodo, now, phase >>
      /\ jobs[l] \in Jobs6 /\ JobRight(l, jobs[l])
  BY DEF Step6!RunRoute, SessionInv
<1>2. PICK b \in {Step6!Good} \cup (IF mergeFaults < MaxFaults THEN Step6!Odd(reps) ELSE {}) :
         /\ mergeFaults' = mergeFaults + IF b = Step6!Good THEN 0 ELSE 1
         /\ jobs' = [jobs EXCEPT ![l].left = Tail(@),
                                 ![l].routes = Step6!With(@, r, Step6!Entry(l, r, b))]
         /\ dumps' = Step6!With(dumps, << l, r >>, b.level)
  BY DEF Step6!RunRoute
<1>3. /\ jobs[l].left \in Seq(RouteNames \X Nat) /\ jobs[l].routes \in Tables
      /\ Head(jobs[l].left) \in RouteNames \X Nat /\ Tail(jobs[l].left) \in Seq(RouteNames \X Nat)
      /\ NamesOf(jobs[l].left) = {Head(jobs[l].left)[1]} \cup NamesOf(Tail(jobs[l].left))
  <2>1. jobs[l].left \in Seq(RouteNames \X Nat) /\ jobs[l].routes \in Tables
    BY <1>1 DEF Jobs6
  <2> DEFINE q == jobs[l].left
  <2>2. /\ Head(q) \in RouteNames \X Nat /\ Tail(q) \in Seq(RouteNames \X Nat)
        /\ Head(q) = q[1] /\ 1 \in DOMAIN q
        /\ \A k \in DOMAIN Tail(q) : k + 1 \in DOMAIN q /\ Tail(q)[k] = q[k + 1]
        /\ \A k \in DOMAIN q : k = 1 \/ (k - 1 \in DOMAIN Tail(q) /\ Tail(q)[k - 1] = q[k])
    BY <1>1, <2>1
  <2> HIDE DEF q
  <2>3. NamesOf(q) = {Head(q)[1]} \cup NamesOf(Tail(q))
    <3>1. ASSUME NEW x \in NamesOf(q) PROVE x \in {Head(q)[1]} \cup NamesOf(Tail(q))
      <4>1. PICK k \in DOMAIN q : x = q[k][1]
        BY <3>1 DEF NamesOf
      <4>2. k = 1 \/ (k - 1 \in DOMAIN Tail(q) /\ Tail(q)[k - 1] = q[k])
        BY <2>2
      <4> QED
        BY <2>2, <4>1, <4>2 DEF NamesOf
    <3>2. ASSUME NEW x \in {Head(q)[1]} \cup NamesOf(Tail(q)) PROVE x \in NamesOf(q)
      BY <2>2 DEF NamesOf
    <3> QED
      BY <3>1, <3>2
  <2> QED
    BY <2>1, <2>2, <2>3 DEF q
<1>4. r \in RouteNames
  BY <1>3
<1>5. b \in Reports6 /\ mergeFaults' \in 0 .. MaxFaults
  <2>1. Step6!Good \in Reports6
    BY DEF Step6!Good, Reports6
  <2>2. ASSUME NEW o \in Step6!Odd(reps) PROVE o \in Reports6
    <3>1. \/ \E v \in 1 .. 4 : o = [Step6!Good EXCEPT !.level = v]
          \/ o = [Step6!Good EXCEPT !.det = FALSE]
          \/ o = [Step6!Good EXCEPT !.ref = FALSE] \/ o = [Step6!Good EXCEPT !.refused = TRUE]
          \/ o = [Step6!Good EXCEPT !.stem = TRUE] \/ o = [Step6!Good EXCEPT !.slow = TRUE]
      <4> HIDE DEF reps
      <4> QED
        BY Zenon DEF Step6!Odd
    <3>2. \A v \in 1 .. 4 : v \in Nat
      OBVIOUS
    <3> QED
      BY <2>1, <3>1, <3>2, ReportFields
  <2> QED
    BY <1>2, <2>1, <2>2, SessionInputs DEF SessionInv
<1> HIDE DEF r, reps
<1>6. Step6!Entry(l, r, b) \in Entries6
  <2>1. b.level \in Nat
    BY <1>5 DEF Reports6
  <2>2. \A d \in DOMAIN dumps : dumps[d] \in Nat /\ Step6!wire_diff(b.level, dumps[d]) \in Nat
    BY <2>1 DEF SessionInv, Step6!wire_diff
  <2>3. << >> \in Seq(Nat) /\ \A n \in Nat : << n >> \in Seq(Nat)
    OBVIOUS
  <2> HIDE DEF Step6!wire_diff
  <2> QED
    BY <1>5, <2>2, <2>3 DEF Step6!Entry, Entries6
<1> DEFINE e == Step6!Entry(l, r, b)
           t == Step6!With(jobs[l].routes, r, e)
           q == Tail(jobs[l].left)
           j == [jobs[l] EXCEPT !.left = q, !.routes = t]
<1> HIDE DEF e
<1>7. jobs' = [jobs EXCEPT ![l] = j]
  BY <1>2 DEF e
<1>8. t \in Tables /\ DOMAIN t = DOMAIN jobs[l].routes \cup {r}
  BY <1>3, <1>4, <1>6, TableGrows DEF e
<1>9. j \in Jobs6 /\ JobRight(l, j)
  <2>1. q \in Seq(RouteNames \X Nat)
    BY <1>3
  <2> HIDE DEF q, t
  <2>2. j \in Jobs6 /\ j.at = jobs[l].at /\ j.left = q /\ j.routes = t
    BY <1>1, <1>8, <2>1, JobFields DEF Jobs6
  <2>3. DOMAIN j.routes \cup NamesOf(j.left) = DOMAIN jobs[l].routes \cup NamesOf(jobs[l].left)
    BY <1>3, <1>8, <2>2 DEF r, q
  <2> HIDE DEF j
  <2> QED
    BY <1>1, <2>2, <2>3 DEF JobRight
<1>10. \A d \in DOMAIN dumps' : dumps'[d] \in Nat
  <2>1. b.level \in Nat
    BY <1>5 DEF Reports6
  <2> QED
    BY <1>2, <2>1 DEF SessionInv, Step6!With
<1> HIDE DEF j
<1> QED
  BY <1>1, <1>5, <1>7, <1>9, <1>10, JobGoesOn

\* No job moves.
LEMMA SessionStays ==
    ASSUME SessionInv, UNCHANGED << dataset, mergeTodo, now, phase, jobs, dumps >>,
           mergeFaults' \in 0 .. MaxFaults
    PROVE  SessionInv'
<1>1. /\ \A l : Step6!Routes(now, l)' = Step6!Routes(now, l)
      /\ Step6!S6_ROLE(now)' = Step6!S6_ROLE(now)
  BY DEF Step6!Routes, Step6!S6_ROLE, Step6!classify
<1>2. \A l \in DOMAIN jobs' :
         /\ jobs'[l] \in Jobs6
         /\ DOMAIN jobs'[l].routes \cup NamesOf(jobs'[l].left) = NamesOf(Step6!Routes(now, l)')
         /\ jobs'[l].at = "done" => jobs'[l].left = << >>
  BY <1>1 DEF SessionInv, JobRight
<1>3. (\A l \in DOMAIN jobs : jobs[l] \in Jobs6 /\ JobRight(l, jobs[l]))'
  BY <1>2 DEF JobRight
<1>4. (DOMAIN jobs = IF phase = "cases" THEN dataset \cap Step6!S6_ROLE(now).cases ELSE {})'
  BY <1>1 DEF SessionInv
<1> QED
  BY <1>3, <1>4 DEF SessionInv

\* The next session starts.
LEMMA SessionStarts ==
    ASSUME SessionInv, Step6!StartSession
    PROVE  SessionInv'
<1>1. /\ phase = "idle" /\ mergeTodo # << >> /\ now' = Head(mergeTodo)
      /\ mergeTodo' = Tail(mergeTodo) /\ phase' = "build"
      /\ UNCHANGED << dataset, jobs, dumps, mergeFaults >>
  BY DEF Step6!StartSession
<1>2. now' \in Step6!Sessions /\ mergeTodo' \in Seq(Step6!Sessions)
  BY <1>1 DEF SessionInv
<1>3. DOMAIN jobs = {}
  BY <1>1 DEF SessionInv
<1> QED
  BY <1>1, <1>2, <1>3 DEF SessionInv

\* Every step of the sessions and the harvest keeps this.
LEMMA SessionKeeps ==
    ASSUME Step6Inv, Step6!Next
    PROVE  SessionInv'
<1>1. SessionInv
  BY DEF Step6Inv
<1>2. CASE Step6!StartSession
  BY <1>1, <1>2, SessionStarts
<1>3. CASE Step6!Dies
  BY <1>1, <1>3, SessionEnds, SessionInputs DEF Step6!Dies, SessionInv
<1>4. CASE Step6!Build
  BY <1>1, <1>4, CasesBuilt
<1>5. CASE Step6!Collect
  BY <1>1, <1>5, SessionEnds DEF Step6!Collect, SessionInv
<1>6. CASE \E l \in DOMAIN jobs : \/ Step6!StartJob(l) \/ Step6!RunRoute(l)
                                  \/ Step6!EndJob(l) \/ Step6!FailJob(l)
  BY <1>1, <1>6, JobMoves, RouteRuns
<1>7. CASE Step6!StartHarvest \/ Step6!DownloadDone \/ Step6!merge
  BY <1>1, <1>7, SessionStays
     DEF SessionInv, Step6!StartHarvest, Step6!DownloadDone, Step6!merge, Step6!svars
<1>8. CASE Step6!download
  <2>1. mergeFaults' \in 0 .. MaxFaults
    BY <1>1, <1>8, SessionInputs DEF SessionInv, Step6!download
  <2> QED
    BY <1>1, <1>8, <2>1, SessionStays DEF Step6!download
<1> QED
  BY <1>2, <1>3, <1>4, <1>5, <1>6, <1>7, <1>8 DEF Step6!Next, Step6!SessionStep

-----------------------------------------------------------------------------
\* What a session left stays.
LEMMA LeftStays ==
    ASSUME NEW s \in Step6!Sessions, Left(s), dataset' = dataset, mergeOut'[s] = mergeOut[s]
    PROVE  Left(s)'
<1>1. /\ Step6!judge(mergeOut[s].cases)' = Step6!judge(mergeOut[s].cases)
      /\ Step6!S6_ROLE(s)' = Step6!S6_ROLE(s)
      /\ \A l : Step6!Routes(s, l)' = Step6!Routes(s, l)
  BY DEF Step6!judge, Step6!CaseRed, Step6!RouteRed, Step6!Limit, Step6!ADVISORY,
         Step6!Routes, Step6!S6_ROLE, Step6!classify
<1>2. /\ \A l \in DOMAIN mergeOut'[s].cases : mergeOut'[s].cases[l].routes \in Tables
      /\ mergeOut'[s].verdict # "none" =>
            /\ mergeOut'[s].verdict = Step6!judge(mergeOut[s].cases)'
            /\ DOMAIN mergeOut'[s].cases = dataset' \cap Step6!S6_ROLE(s).cases
            /\ \A l \in DOMAIN mergeOut'[s].cases :
                  ~mergeOut'[s].cases[l].error =>
                      DOMAIN mergeOut'[s].cases[l].routes = NamesOf(Step6!Routes(s, l)')
  BY <1>1 DEF Left
<1> QED
  BY <1>1, <1>2 DEF Left

\* A session that ends whole leaves a row for each fixture of its share.
LEMMA SessionLeaves ==
    ASSUME SessionInv, OutInv, Step6!Collect
    PROVE  OutInv'
<1> DEFINE new == [verdict |-> Step6!judge(Step6!Cases), gates |-> mergeGates,
                   cases |-> Step6!Cases,
                   ge_t4 |-> {l \in DOMAIN jobs : /\ jobs[l].at = "done"
                                                  /\ << l, "fp32" >> \in DOMAIN dumps}]
<1>1. /\ phase = "cases" /\ dataset' = dataset
      /\ \A l \in DOMAIN jobs : jobs[l].at \in {"done", "error", "exit"}
      /\ \/ mergeOut' = mergeOut
         \/ /\ \A l \in DOMAIN jobs : jobs[l].at # "exit"
            /\ mergeOut' = [mergeOut EXCEPT ![now] = new]
  BY DEF Step6!Collect
<1>2. now \in Step6!Sessions /\ DOMAIN mergeOut = Step6!Sessions
      /\ DOMAIN jobs = dataset \cap Step6!S6_ROLE(now).cases
  BY <1>1 DEF SessionInv, OutInv
<1>3. CASE mergeOut' = mergeOut
  BY <1>1, <1>3, LeftStays DEF OutInv
<1>4. CASE /\ \A l \in DOMAIN jobs : jobs[l].at # "exit"
           /\ mergeOut' = [mergeOut EXCEPT ![now] = new]
  <2>1. /\ mergeOut'[now] = new /\ DOMAIN mergeOut' = Step6!Sessions
        /\ \A s \in Step6!Sessions : s # now => mergeOut'[s] = mergeOut[s]
    <3> HIDE DEF new
    <3> QED
      BY <1>2, <1>4
  <2>2. /\ new.cases = Step6!Cases /\ new.verdict = Step6!judge(Step6!Cases)
        /\ DOMAIN Step6!Cases = DOMAIN jobs
        /\ \A l \in DOMAIN jobs : /\ Step6!Cases[l].routes = jobs[l].routes
                                  /\ Step6!Cases[l].error <=> jobs[l].at = "error"
    BY DEF Step6!Cases
  <2>3. \A l \in DOMAIN jobs :
           /\ jobs[l].routes \in Tables
           /\ jobs[l].at = "done" => DOMAIN jobs[l].routes = NamesOf(Step6!Routes(now, l))
    BY EmptyTable DEF SessionInv, Jobs6, JobRight, NamesOf
  <2> HIDE DEF new
  <2>4. ASSUME NEW s \in Step6!Sessions PROVE Left(s)'
    <3>1. CASE s # now
      BY <1>1, <2>1, <3>1, LeftStays DEF OutInv
    <3>2. CASE s = now
      <4>1. /\ mergeOut'[s].cases = Step6!Cases
            /\ mergeOut'[s].verdict = Step6!judge(Step6!Cases)
        BY <2>1, <2>2, <3>2
      <4>2. Step6!judge(mergeOut[s].cases)' = Step6!judge(Step6!Cases)
        BY <4>1 DEF Step6!judge, Step6!CaseRed, Step6!RouteRed, Step6!Limit, Step6!ADVISORY
      <4>3. /\ Step6!S6_ROLE(s)' = Step6!S6_ROLE(s)
            /\ \A l : Step6!Routes(s, l)' = Step6!Routes(s, l)
        BY DEF Step6!Routes, Step6!S6_ROLE, Step6!classify
      <4>4. DOMAIN mergeOut'[s].cases = dataset' \cap Step6!S6_ROLE(s).cases
        BY <1>1, <1>2, <2>2, <3>2, <4>1
      <4>5. \A l \in DOMAIN mergeOut'[s].cases :
               /\ mergeOut'[s].cases[l].routes \in Tables
               /\ ~mergeOut'[s].cases[l].error =>
                     DOMAIN mergeOut'[s].cases[l].routes = NamesOf(Step6!Routes(s, l))
        BY <1>1, <1>4, <2>2, <2>3, <3>2, <4>1
      <4> QED
        BY <4>1, <4>2, <4>3, <4>4, <4>5 DEF Left
    <3> QED
      BY <3>1, <3>2
  <2> QED
    BY <2>1, <2>4 DEF OutInv
<1> QED
  BY <1>1, <1>3, <1>4

\* Every other step leaves it.
LEMMA OutKeeps ==
    ASSUME Step6Inv, Step6!Next
    PROVE  OutInv'
<1>1. SessionInv /\ OutInv
  BY DEF Step6Inv
<1>2. CASE Step6!Collect
  BY <1>1, <1>2, SessionLeaves
<1>3. CASE UNCHANGED << dataset, mergeOut >>
  BY <1>1, <1>3, LeftStays DEF OutInv
<1> QED
  BY <1>2, <1>3 DEF Step6!Next, Step6!SessionStep, Step6!StartSession, Step6!Dies, Step6!Build,
       Step6!StartJob, Step6!RunRoute, Step6!EndJob, Step6!FailJob, Step6!StartHarvest,
       Step6!download, Step6!DownloadDone, Step6!merge, Step6!svars

-----------------------------------------------------------------------------
\* Whether the merge has reasons is told by the outputs alone.
LEMMA ReasonsStay ==
    ASSUME mergeBase' = mergeBase
    PROVE  /\ Step6!Loaded(mergeBase)' = Step6!Loaded(mergeBase)
           /\ Step6!Reasons(mergeBase)' = Step6!Reasons(mergeBase)
<1> DEFINE entry(l, r) == mergeBase[Step6!LastSession(mergeBase, l, r)].cases[l].routes[r]
<1>1. /\ \A s, l : Step6!Has(mergeBase, s, l)' = Step6!Has(mergeBase, s, l)
      /\ Step6!Loaded(mergeBase)' = Step6!Loaded(mergeBase)
  BY DEF Step6!Has, Step6!Loaded
<1>2. Step6!Merged(mergeBase)' = Step6!Merged(mergeBase)
  BY DEF Step6!Merged, Step6!Has
<1>3. \A l : Step6!Rows(mergeBase, l)' = Step6!Rows(mergeBase, l)
  BY DEF Step6!Rows, Step6!Has
<1>4. \A l, r : Step6!LastSession(mergeBase, l, r)' = Step6!LastSession(mergeBase, l, r)
  BY DEF Step6!LastSession, Step6!Has
<1>5. /\ Step6!GateRed(mergeBase)' = Step6!GateRed(mergeBase)
      /\ Step6!CaseError(mergeBase)' = Step6!CaseError(mergeBase)
      /\ Step6!CrossThere(mergeBase)' = Step6!CrossThere(mergeBase)
  BY DEF Step6!GateRed, Step6!CaseError, Step6!CrossThere, Step6!find
<1>6. Step6!CrossRed(mergeBase)' = Step6!CrossRed(mergeBase)
  BY <1>2, <1>5 DEF Step6!CrossRed
<1>7. \A l, r : Step6!RowRed(l, r, entry(l, r))' = Step6!RowRed(l, r, entry(l, r))
  BY <1>4 DEF Step6!RowRed, Step6!MergeLimit
<1> QED
  BY <1>1, <1>2, <1>3, <1>5, <1>6, <1>7 DEF Step6!Reasons

\* What is merged stays.
LEMMA MergeStays ==
    ASSUME MergeInv, UNCHANGED << mergeBase, archive >>,
           mergeLeft' \in Seq(Step6!Range(Step6!Split)),
           stage' \in {"sessions", "download", "merge", "ended"},
           archive' # "none" => stage' = "ended"
    PROVE  MergeInv'
<1>1. /\ Step6!Loaded(mergeBase)' = Step6!Loaded(mergeBase)
      /\ Step6!Reasons(mergeBase)' = Step6!Reasons(mergeBase)
  BY ReasonsStay
<1> QED
  BY <1>1 DEF MergeInv

\* A download replaces an output by one a session left; the merge archives its verdict.
LEMMA MergeKeeps ==
    ASSUME Step6Inv, Step6!Next
    PROVE  MergeInv'
<1>1. OutInv /\ MergeInv
  BY DEF Step6Inv
<1>2. CASE UNCHANGED Step6!mvars
  BY <1>1, <1>2, MergeStays DEF MergeInv, Step6!mvars
<1>3. CASE Step6!StartHarvest
  <2>1. stage' = "download" /\ mergeLeft' = Step6!Split /\ archive = "none"
        /\ UNCHANGED << mergeBase, archive >>
    BY <1>1, <1>3 DEF Step6!StartHarvest, MergeInv
  <2> QED
    BY <1>1, <2>1, MergeStays, TheSplit
<1>4. CASE Step6!download
  <2>1. /\ stage' = stage /\ archive' = archive /\ stage = "download" /\ archive = "none"
        /\ mergeLeft # << >> /\ mergeLeft' = Tail(mergeLeft)
        /\ \/ mergeBase' = mergeBase
           \/ mergeBase' = [mergeBase EXCEPT ![Head(mergeLeft)] = mergeOut[Head(mergeLeft)]]
    BY <1>1, <1>4 DEF Step6!download, MergeInv
  <2>2. /\ Head(mergeLeft) \in Step6!Range(Step6!Split)
        /\ Tail(mergeLeft) \in Seq(Step6!Range(Step6!Split))
    BY <1>1, <2>1 DEF MergeInv
  <2>3. CASE mergeBase' = mergeBase
    BY <1>1, <2>1, <2>2, <2>3, MergeStays DEF MergeInv
  <2>4. CASE mergeBase' = [mergeBase EXCEPT ![Head(mergeLeft)] = mergeOut[Head(mergeLeft)]]
    <3>1. \A s \in Step6!Sessions : \A l \in DOMAIN mergeOut[s].cases :
             mergeOut[s].cases[l].routes \in Tables
      BY <1>1 DEF OutInv, Left
    <3>2. /\ DOMAIN mergeBase' = Step6!Range(Step6!Split)
          /\ \A s \in Step6!Range(Step6!Split) :
                mergeBase'[s] \in {mergeBase[s], mergeOut[s]}
      BY <1>1, <2>2, <2>4 DEF MergeInv
    <3>3. Step6!Range(Step6!Split) \subseteq Step6!Sessions
      BY TheSplit
    <3>4. \A s \in Step6!Range(Step6!Split) : \A l \in DOMAIN mergeBase'[s].cases :
             mergeBase'[s].cases[l].routes \in Tables
      BY <1>1, <3>1, <3>2, <3>3 DEF MergeInv
    <3>5. Step6!Range(Step6!Split)' = Step6!Range(Step6!Split)
      BY DEF Step6!Range, Step6!Split
    <3> QED
      BY <2>1, <2>2, <3>2, <3>4, <3>5 DEF MergeInv
  <2> QED
    BY <2>1, <2>3, <2>4
<1>5. CASE Step6!DownloadDone
  BY <1>1, <1>5, MergeStays DEF Step6!DownloadDone, MergeInv
<1>6. CASE Step6!merge
  <2>1. /\ archive = "none" /\ stage' = "ended" /\ UNCHANGED << mergeLeft, mergeBase >>
        /\ archive' \in {"none", "s6b-green", "s6b-red"}
        /\ archive' = "s6b-green" => Step6!Loaded(mergeBase) /\ ~Step6!Reasons(mergeBase)
    BY <1>1, <1>6 DEF Step6!merge, MergeInv
  <2>2. /\ Step6!Loaded(mergeBase)' = Step6!Loaded(mergeBase)
        /\ Step6!Reasons(mergeBase)' = Step6!Reasons(mergeBase)
    BY <2>1, ReasonsStay
  <2> QED
    BY <1>1, <2>1, <2>2 DEF MergeInv
<1> QED
  BY <1>2, <1>3, <1>4, <1>5, <1>6 DEF Step6!Next

\* So every step keeps the whole invariant.
LEMMA Step6Keeps ==
    ASSUME Step6Inv, Step6!Next \/ UNCHANGED step6Vars
    PROVE  Step6Inv'
<1>1. CASE Step6!Next
  BY <1>1, SessionKeeps, OutKeeps, MergeKeeps DEF Step6Inv
<1>2. CASE UNCHANGED step6Vars
  <2>1. SessionInv /\ OutInv /\ MergeInv
    BY DEF Step6Inv
  <2>2. SessionInv'
    BY <1>2, <2>1, SessionStays DEF SessionInv, step6Vars
  <2>3. OutInv'
    BY <1>2, <2>1, LeftStays DEF OutInv, step6Vars
  <2>4. MergeInv'
    BY <1>2, <2>1, MergeStays DEF MergeInv, step6Vars
  <2> QED
    BY <2>2, <2>3, <2>4 DEF Step6Inv
<1> QED
  BY <1>1, <1>2

-----------------------------------------------------------------------------
\* What a green verdict says of the rows it was given.
LEMMA JudgedGreen ==
    ASSUME NEW cases, Step6!judge(cases) = "s6-green", NEW l \in DOMAIN cases
    PROVE  /\ ~cases[l].error
           /\ \A r \in DOMAIN cases[l].routes :
                 LET b == cases[l].routes[r].bench
                 IN  /\ b.det /\ b.ref /\ ~(b.level > Step6!Limit(l, r))
                     /\ r \in {"fp32", "fp16"} => ~b.refused /\ ~b.slow
<1>1. ~Step6!CaseRed(l, cases[l])
  BY Zenon DEF Step6!judge
<1>2. ~cases[l].error /\ \A r \in DOMAIN cases[l].routes : ~Step6!RouteRed(l, r, cases[l].routes[r])
  BY <1>1 DEF Step6!CaseRed
<1> QED
  BY <1>2 DEF Step6!RouteRed

\* A green session ran every route of its share, in its tier.
LEMMA GreenIsClean ==
    ASSUME Step6Inv
    PROVE  Step6!OneFailureIsOneCase /\ Step6!GreenSessionIsClean
<1>1. \A s \in Step6!Sessions : Left(s)
  BY DEF Step6Inv, OutInv
<1>2. ASSUME NEW s \in Step6!Sessions, mergeOut[s].verdict # "none",
             NEW l \in dataset \cap Step6!S6_ROLE(s).cases
      PROVE  /\ l \in DOMAIN mergeOut[s].cases
             /\ ~mergeOut[s].cases[l].error =>
                   DOMAIN mergeOut[s].cases[l].routes
                       = {Step6!Routes(s, l)[k][1] : k \in DOMAIN Step6!Routes(s, l)}
  BY <1>1, <1>2 DEF Left, NamesOf
<1>3. Step6!OneFailureIsOneCase
  <2>1. {"gpu", "all"} \subseteq Step6!Sessions
    BY TheSplit
  <2> QED
    BY <1>2, <2>1 DEF Step6!OneFailureIsOneCase
<1>4. ASSUME NEW s \in Step6!Sessions, mergeOut[s].verdict = "s6-green",
             NEW l \in dataset \cap Step6!S6_ROLE(s).cases
      PROVE  LET c == mergeOut[s].cases[l] IN
             /\ ~c.error
             /\ \A k \in DOMAIN Step6!Routes(s, l) :
                  LET r == Step6!Routes(s, l)[k][1]
                      b == c.routes[r].bench
                  IN  /\ b.det /\ b.ref
                      /\ b.level <= IF l \in {"mid", "preset"} THEN 3
                                    ELSE IF r = "fp16" THEN 2 ELSE 1
                      /\ r \in {"fp32", "fp16"} => ~b.refused /\ ~b.slow
  <2> DEFINE c == mergeOut[s].cases[l]
  <2>1. /\ mergeOut[s].verdict = Step6!judge(mergeOut[s].cases) /\ l \in DOMAIN mergeOut[s].cases
        /\ c.routes \in Tables
    BY <1>1, <1>2, <1>4 DEF Left
  <2>2. /\ ~c.error
        /\ \A r \in DOMAIN c.routes :
              LET b == c.routes[r].bench
              IN  /\ b.det /\ b.ref /\ ~(b.level > Step6!Limit(l, r))
                  /\ r \in {"fp32", "fp16"} => ~b.refused /\ ~b.slow
    BY <1>4, <2>1, JudgedGreen
  <2>3. ASSUME NEW k \in DOMAIN Step6!Routes(s, l)
        PROVE  LET r == Step6!Routes(s, l)[k][1]
                   b == c.routes[r].bench
               IN  /\ b.det /\ b.ref
                   /\ b.level <= IF l \in {"mid", "preset"} THEN 3
                                 ELSE IF r = "fp16" THEN 2 ELSE 1
                   /\ r \in {"fp32", "fp16"} => ~b.refused /\ ~b.slow
    <3> DEFINE r == Step6!Routes(s, l)[k][1]
               b == c.routes[r].bench
    <3>1. r \in DOMAIN c.routes
      <4>1. mergeOut[s].verdict # "none"
        BY <1>4
      <4> QED
        BY <1>2, <2>2, <4>1
    <3>2. b.level \in Nat
      <4>1. c.routes[r] \in Entries6
        BY <2>1, <3>1, TableFacts
      <4> QED
        BY <4>1 DEF Entries6, Reports6
    <3>3. /\ b.det /\ b.ref /\ ~(b.level > Step6!Limit(l, r))
          /\ r \in {"fp32", "fp16"} => ~b.refused /\ ~b.slow
      BY <2>2, <3>1
    <3> HIDE DEF r, b
    <3>4. Step6!Limit(l, r) = IF l \in {"mid", "preset"} THEN 3 ELSE IF r = "fp16" THEN 2 ELSE 1
      BY DEF Step6!Limit, Step6!ADVISORY
    <3>5. b.level <= IF l \in {"mid", "preset"} THEN 3 ELSE IF r = "fp16" THEN 2 ELSE 1
      BY <3>2, <3>3, <3>4
    <3> QED
      BY <3>3, <3>5 DEF r, b
  <2> QED
    BY <2>2, <2>3
<1>5. Step6!GreenSessionIsClean
  BY <1>4 DEF Step6!GreenSessionIsClean
<1> QED
  BY <1>3, <1>5

\* The last session to have a row has it.
LEMMA LastHasIt ==
    ASSUME NEW l \in Step6!Merged(mergeBase), NEW r \in Step6!Rows(mergeBase, l)
    PROVE  LET s == Step6!LastSession(mergeBase, l, r)
           IN  /\ s \in Step6!Range(Step6!Split) /\ Step6!Has(mergeBase, s, l)
               /\ r \in DOMAIN mergeBase[s].cases[l].routes
<1> DEFINE ok(s) == Step6!Has(mergeBase, s, l) /\ r \in DOMAIN mergeBase[s].cases[l].routes
           have  == {k \in DOMAIN Step6!Split : ok(Step6!Split[k])}
<1>1. PICK s \in {t \in Step6!Range(Step6!Split) : Step6!Has(mergeBase, t, l)} :
         r \in DOMAIN mergeBase[s].cases[l].routes
  BY DEF Step6!Rows
<1>2. PICK k \in DOMAIN Step6!Split : Step6!Split[k] = s
  BY <1>1 DEF Step6!Range
<1>3. k \in have /\ have \subseteq 1 .. 5
  BY <1>1, <1>2, TheSplit
<1>4. Step6!LastSession(mergeBase, l, r) = Step6!Split[CHOOSE i \in have : \A j \in have : j <= i]
  BY DEF Step6!LastSession
<1> HIDE DEF have
<1>5. \E i \in have : \A j \in have : j <= i
  BY <1>3
<1>6. (CHOOSE i \in have : \A j \in have : j <= i) \in have
  BY <1>5
<1> QED
  BY <1>4, <1>6 DEF have, Step6!Range

\* A merged green stands on every session and every row.
LEMMA MergedIsBacked ==
    ASSUME Step6Inv
    PROVE  Step6!MergedGreenIsBacked
<1> SUFFICES ASSUME archive = "s6b-green" PROVE
        /\ \A s \in Step6!Range(Step6!Split) : mergeBase[s].verdict # "none"
        /\ \A g \in Step6!PassThrough : mergeBase["gpu"].gates[g]
        /\ \A s \in Step6!Range(Step6!Split) :
              \A l \in DOMAIN mergeBase[s].cases : ~mergeBase[s].cases[l].error
        /\ \A l \in Step6!Merged(mergeBase) : \A r \in Step6!Rows(mergeBase, l) :
             LET b == mergeBase[Step6!LastSession(mergeBase, l, r)].cases[l].routes[r].bench
             IN  b.det /\ (r \in {"cpu", "fp32", "fp32jit"} /\ b.ref => b.level <= Step6!MergeLimit(l))
  BY DEF Step6!MergedGreenIsBacked
<1>1. MergeInv /\ Step6!Loaded(mergeBase) /\ ~Step6!Reasons(mergeBase)
  BY DEF Step6Inv, MergeInv
<1>2. /\ ~Step6!GateRed(mergeBase) /\ ~Step6!CaseError(mergeBase)
      /\ \A l \in Step6!Merged(mergeBase) : \A r \in Step6!Rows(mergeBase, l) :
            ~Step6!RowRed(l, r, mergeBase[Step6!LastSession(mergeBase, l, r)].cases[l].routes[r])
  BY <1>1 DEF Step6!Reasons
<1>3. \A s \in Step6!Range(Step6!Split) : mergeBase[s].verdict # "none"
  BY <1>1 DEF Step6!Loaded
<1>4. \A g \in Step6!PassThrough : mergeBase["gpu"].gates[g]
  BY <1>2 DEF Step6!GateRed
<1>5. \A s \in Step6!Range(Step6!Split) :
         \A l \in DOMAIN mergeBase[s].cases : ~mergeBase[s].cases[l].error
  BY <1>2 DEF Step6!CaseError
<1>6. ASSUME NEW l \in Step6!Merged(mergeBase), NEW r \in Step6!Rows(mergeBase, l)
      PROVE  LET b == mergeBase[Step6!LastSession(mergeBase, l, r)].cases[l].routes[r].bench
             IN  b.det /\ (r \in {"cpu", "fp32", "fp32jit"} /\ b.ref => b.level <= Step6!MergeLimit(l))
  <2> DEFINE s == Step6!LastSession(mergeBase, l, r)
             e == mergeBase[s].cases[l].routes[r]
  <2>1. ~Step6!RowRed(l, r, e)
    BY <1>2
  <2>2. /\ s \in Step6!Range(Step6!Split) /\ Step6!Has(mergeBase, s, l)
        /\ r \in DOMAIN mergeBase[s].cases[l].routes
    BY LastHasIt
  <2>3. mergeBase[s].cases[l].routes \in Tables
    BY <1>1, <2>2 DEF MergeInv, Step6!Has
  <2>4. e \in Entries6
    BY <2>2, <2>3, TableFacts
  <2> HIDE DEF s, e
  <2>5. e.bench.level \in Nat
    BY <2>4 DEF Entries6, Reports6
  <2>6. Step6!MergeLimit(l) \in Nat
    BY DEF Step6!MergeLimit
  <2>7. /\ e.bench.det
        /\ r \in {"cpu", "fp32", "fp32jit"} /\ e.bench.ref => ~(e.bench.level > Step6!MergeLimit(l))
    BY <2>1 DEF Step6!RowRed
  <2>8. r \in {"cpu", "fp32", "fp32jit"} /\ e.bench.ref => e.bench.level <= Step6!MergeLimit(l)
    BY <2>5, <2>6, <2>7
  <2> QED
    BY <2>7, <2>8 DEF s, e
<1> QED
  BY <1>3, <1>4, <1>5, <1>6

\* The types follow.
LEMMA Step6Types ==
    ASSUME Step6Inv
    PROVE  Step6!TypeOK
<1>1. SessionInv /\ MergeInv
  BY DEF Step6Inv
<1>2. DOMAIN jobs \subseteq dataset /\ dataset \subseteq Step6!Fixtures
  BY <1>1 DEF SessionInv
<1>3. Step6!Cardinality(Step6!Running) <= 4
  <2>1. Step6!Running \subseteq Step6!Fixtures
    BY <1>2 DEF Step6!Running
  <2>2. Cardinality(Step6!Running) <= Cardinality(Step6!Fixtures)
        /\ IsFiniteSet(Step6!Running)
    BY <2>1, FourFixtures, FS_Subset
  <2>3. Cardinality(Step6!Running) \in Nat /\ Cardinality(Step6!Fixtures) \in Nat
    BY <2>2, FourFixtures, FS_CardinalityType
  <2>4. Cardinality(Step6!Running) <= 4
    BY <2>2, <2>3, FourFixtures
  <2> QED
    BY <2>4 DEF Step6!Cardinality, Cardinality
<1> QED
  BY <1>1, <1>2, <1>3 DEF Step6!TypeOK, SessionInv, MergeInv

\* So the sessions and their merge keep their promises.
LEMMA Step6Holds ==
    ASSUME Step6Inv
    PROVE  /\ Step6!TypeOK /\ Step6!OneFailureIsOneCase
           /\ Step6!GreenSessionIsClean /\ Step6!MergedGreenIsBacked
  BY Step6Types, GreenIsClean, MergedIsBacked

-----------------------------------------------------------------------------
(* Whatever runs before or beside it, a program of a session reads what it *)
(* was meant for: the stage-3 gate whole weights and the fixtures of one   *)
(* archive, a gate's record the files of its own process, an entry of the  *)
(* P100 session the RTTM of its own recording.                             *)
THEOREM SessionsReadTheirOwn == Spec => []InputIsItsOwn
<1> DEFINE Inv == Stage3Inv /\ PoolInv /\ SpeedInv
<1>1. Init => Inv
  BY Stage3Starts, PoolStarts, SpeedStarts DEF Init
<1>2. Inv /\ [Next]_vars => Inv'
  <2>1. SUFFICES ASSUME Inv, [Next]_vars PROVE Inv'
    OBVIOUS
  <2> QED
    BY <2>1, SessionsOrWait, Stage3Keeps, PoolKeeps, SpeedKeeps
<1>3. Inv => InputIsItsOwn
  BY DEF Stage3Inv, PoolInv, SpeedInv, InputIsItsOwn
<1> QED
  BY <1>1, <1>2, <1>3, PTL DEF Spec

(* Every green verdict, pass, accepted dump and "ok" report rests on what  *)
(* it speaks of: the Step 6 sessions and their merge on every route and    *)
(* row, a gate kernel on its builds and benches, a stage-3 gate on every   *)
(* job of its pool, a reference job on what it checked, the P100 session   *)
(* on every run and the official bench on every chunk.  The invariant says *)
(* of each program which part of its results it has already.               *)
THEOREM GreenVerdictsAreBacked == Spec => []GreenIsBacked
<1> DEFINE Inv == /\ Step6Inv /\ GpuInv /\ PoolInv /\ GateInv /\ Stage2Inv /\ RefsInv
                  /\ SpeedInv /\ PassInv /\ OfficialInv
<1>1. Init => Inv
  BY Step6Starts, GpuStarts, PoolStarts, GateStarts, Stage2Starts, RefsStart, SpeedStarts,
     PassStarts, OfficialStarts DEF Init
<1>2. Inv /\ [Next]_vars => Inv'
  <2>1. SUFFICES ASSUME Inv, [Next]_vars PROVE Inv'
    OBVIOUS
  <2>2. Step6Inv' /\ GpuInv'
    BY <2>1, SessionsOrWait, Step6Keeps, GpuKeeps
  <2>3. PoolInv' /\ GateInv'
    BY <2>1, SessionsOrWait, PoolKeeps, GateKeeps
  <2>4. Stage2Inv' /\ RefsInv' /\ OfficialInv'
    BY <2>1, SessionsOrWait, Stage2Keeps, RefsKeep, OfficialKeeps
  <2>5. SpeedInv' /\ PassInv'
    BY <2>1, SessionsOrWait, SpeedKeeps, PassKeeps DEF SpeedInv
  <2> QED
    BY <2>2, <2>3, <2>4, <2>5
<1>3. Inv => GreenIsBacked
  <2>1. SUFFICES ASSUME Inv PROVE GreenIsBacked
    OBVIOUS
  <2>2. /\ Step6!TypeOK /\ Step6!OneFailureIsOneCase
        /\ Step6!GreenSessionIsClean /\ Step6!MergedGreenIsBacked
    BY <2>1, Step6Holds
  <2>3. Gpu!TypeOK /\ Gpu!GreenIsProved
    BY <2>1, GpuProves DEF GpuInv
  <2>4. Gates3!TypeOK /\ Gates3!GreenIsBacked
    BY <2>1 DEF GateInv, GateTypes
  <2>5. Stage2Run!TypeOK /\ Refs!TypeOK /\ Refs!AcceptedIsWhole
    BY <2>1 DEF Stage2Inv, RefsInv
  <2>6. P100!TypeOK /\ P100!PassIsBacked
    BY <2>1, PassHolds DEF PassInv
  <2>7. Official!TypeOK /\ Official!OkIsTheWholeBench
    BY <2>1, OfficialCounts DEF OfficialInv, OfficialTypes
  <2> QED
    BY <2>2, <2>3, <2>4, <2>5, <2>6, <2>7 DEF GreenIsBacked
<1> QED
  BY <1>1, <1>2, <1>3, PTL DEF Spec
================================================================================
