------------------------- MODULE ParityPipelineProofs -------------------------
(***************************************************************************)
(* Proofs about the way of a dump from the sweep to the fixture: a verdict *)
(* of the sweep is earned by its runs (VerdictIsEarned), and what loads as *)
(* a fixture is the observation of a run that worked (FixtureIsTruth), for *)
(* any sets, any number of repetitions, whatever the runs leave on disk,   *)
(* whatever is cut by the download and whatever is edited in.              *)
(***************************************************************************)
EXTENDS ParityPipeline, SelectionProofs, FiniteSetTheorems, SequenceTheorems, TLAPS

ASequence(s) == s \in Seq(Range(s))

(* What a run may leave behind: no file, or one.                           *)
Optional(file) == file = None \/ file = Some(The(file))

(* The sweep's control: the loops count as many runs, entries and          *)
(* candidates as the step they are in says.                                *)
SweepCounts ==
    /\ PROBDUMP_ENABLED \in BOOLEAN /\ ok \in BOOLEAN
    /\ pc \in {"rep", "judge", "export", "done"}
    /\ set \in 1 .. Len(Sets)
    /\ ASequence(disk) /\ ASequence(reps)
    /\ ASequence(rep_dumps) /\ ASequence(rep_hashes)
    /\ ASequence(sweep) /\ ASequence(candidates)
    /\ Len(disk) = Len(reps) /\ Len(rep_hashes) = Len(rep_dumps)
    /\ Len(rep_dumps) <= Len(reps) /\ Len(reps) <= Sets[set].reps
    /\ IsFiniteSet(Range(rep_hashes))
    /\ pc = "rep" => ok /\ Len(reps) < Sets[set].reps
    /\ ok => Len(rep_dumps) = Len(reps)
    /\ ok /\ pc \in {"judge", "export"} => Len(reps) = Sets[set].reps
    /\ Len(sweep) = IF pc \in {"export", "done"} THEN set ELSE set - 1
    /\ Len(candidates) <= IF pc = "done" THEN set ELSE set - 1

(* What the loop keeps of a run is what the run left on disk.              *)
RunsAreRecorded ==
    /\ \A i \in 1 .. Len(reps) :
          /\ reps[i].sha = disk[i].dump
          /\ Optional(disk[i].dump)
          /\ reps[i].probs_available =>
                disk[i].rc = 0 /\ Whole(disk[i].dump)
    /\ \A i \in 1 .. Len(rep_dumps) :
          /\ disk[i].rc = 0
          /\ rep_hashes[i] = disk[i].rttm
          /\ ~PROBDUMP_ENABLED => ~Present(rep_dumps[i])
          /\ PROBDUMP_ENABLED /\ ok => Present(rep_dumps[i])
          /\ Present(rep_dumps[i]) =>
                /\ Whole(disk[i].dump)
                /\ rep_dumps[i] = ReadProbdump(The(disk[i].dump))

VerdictsEarned == IdenticalIsEarned /\ BodyVerdictIsEarned /\ DriftNamesTheLayer

(* The entry just reported is of the runs still on disk.                   *)
LastEntry ==
    pc = "export" => sweep[set].label = Label /\ sweep[set].runs = disk

(* A candidate, exported or downloaded, says of its run 0 what a whole     *)
(* run 0 of the sweep left behind.                                         *)
Observed(entries, c) ==
    /\ Optional(c.reps[1].sha)
    /\ \E e \in Range(entries) :
          /\ e.label = c.label
          /\ e.runs[1].rc = 0
          /\ e.runs[1].dump = c.reps[1].sha
          /\ Whole(e.runs[1].dump)

ACandidate(c) ==
    c = [label |-> c.label, probs |-> c.probs, rttm |-> c.rttm, reps |-> c.reps,
         cross_session_stable |-> c.cross_session_stable]

CandidatesObserved ==
    /\ CandidatesAreRunZero
    /\ \A i \in DOMAIN candidates :
          ACandidate(candidates[i]) /\ Observed(sweep, candidates[i])
    /\ \A i \in DOMAIN downloaded : Observed(sweep, downloaded[i])

SweepInv ==
    /\ SweepCounts
    /\ RunsAreRecorded
    /\ VerdictsEarned
    /\ LastEntry

(* The fill in progress is of an observed candidate whose payload is the   *)
(* one its run 0 was digested with.                                        *)
FillInProgress ==
    fill.step # "idle" =>
        /\ fill = [step |-> fill.step, candidate |-> fill.candidate,
                   options |-> fill.options]
        /\ Observed(sweep, fill.candidate)
        /\ fill.candidate.reps[1].sha = Some(fill.candidate.probs)

(* The manifest on disk is torn, or pins the run 0 of the candidate it     *)
(* names; the payload beside it may be any.                                *)
ManifestPins ==
    \/ manifest = None
    \/ manifest = Some(F!Torn)
    \/ /\ manifest = Some(The(manifest))
       /\ Observed(sweep, The(manifest).source)
       /\ The(manifest).source.reps[1].sha = Some(The(manifest).sha256)

FixtureInv ==
    /\ F!TypeOK
    /\ Optional(probs)
    /\ CandidatesObserved
    /\ FillInProgress
    /\ ManifestPins

PipelineInv == SweepInv /\ FixtureInv

-----------------------------------------------------------------------------
(* Sequences, optional values and candidates.                              *)
LEMMA Appending ==
    ASSUME NEW s, ASequence(s), NEW x
    PROVE  LET t == Append(s, x) IN
           /\ ASequence(t)
           /\ Len(s) \in Nat /\ Len(t) = Len(s) + 1
           /\ DOMAIN s = 1 .. Len(s) /\ DOMAIN t = 1 .. Len(t)
           /\ \A i \in 1 .. Len(s) : t[i] = s[i]
           /\ t[Len(s) + 1] = x
           /\ Range(t) = Range(s) \cup {x}
<1> DEFINE t == Append(s, x)
           S == Range(s) \cup {x}
<1>1. s \in Seq(S)
  <2>1. s \in Seq(Range(s)) /\ Range(s) \subseteq S
    BY DEF ASequence
  <2> HIDE DEF S
  <2> QED
    BY <2>1
<1>2. /\ t \in Seq(S)
      /\ Len(s) \in Nat /\ Len(t) = Len(s) + 1
      /\ DOMAIN s = 1 .. Len(s) /\ DOMAIN t = 1 .. Len(t)
      /\ \A i \in 1 .. Len(s) : t[i] = s[i]
      /\ t[Len(s) + 1] = x
  BY <1>1
<1> HIDE DEF t
<1>3. Range(t) = S
  BY <1>2 DEF Range
<1>4. ASequence(t)
  BY <1>2, <1>3 DEF ASequence
<1> QED
  BY <1>2, <1>3, <1>4 DEF t

LEMMA Empty == /\ ASequence(<< >>) /\ Len(<< >>) = 0 /\ DOMAIN << >> = {}
               /\ Range(<< >>) = {}
<1>1. Len(<< >>) = 0 /\ DOMAIN << >> = {} /\ << >> \in Seq({})
  OBVIOUS
<1>2. Range(<< >>) = {}
  BY <1>1 DEF Range
<1> QED
  BY <1>1, <1>2 DEF ASequence

LEMMA Files ==
    /\ \A x : Some(x) # None /\ The(Some(x)) = x /\ Len(Some(x)) = 1
    /\ Len(None) = 0
    /\ \A x, y : Some(x) = Some(y) => x = y
  BY DEF Some, None, The

\* One body: all runs agree on it; more: two runs disagree.
LEMMA Bodies ==
    ASSUME NEW s, ASequence(s), IsFiniteSet(Range(s))
    PROVE  LET n == Cardinality(Range(s)) IN
           /\ n \in Nat /\ (n = 0 <=> Len(s) = 0)
           /\ n = 1 => \A i, j \in 1 .. Len(s) : s[i] = s[j]
           /\ n > 1 => \E i, j \in 1 .. Len(s) : s[i] # s[j]
<1> DEFINE n == Cardinality(Range(s))
<1>1. DOMAIN s = 1 .. Len(s) /\ Len(s) \in Nat
  BY DEF ASequence
<1>2. n \in Nat /\ (n = 0 <=> Range(s) = {})
  BY FS_CardinalityType, FS_EmptySet
<1>3. n = 1 => \E x : Range(s) = {x}
  BY FS_Singleton
<1>4. ASSUME \A i, j \in 1 .. Len(s) : s[i] = s[j]
      PROVE  ~(n > 1)
  <2>1. CASE Len(s) = 0
    BY <1>1, <1>2, <2>1 DEF Range
  <2>2. CASE Len(s) # 0
    <3>1. 1 \in 1 .. Len(s)
      BY <1>1, <2>2
    <3>2. \A y \in Range(s) : y = s[1]
      BY <1>1, <1>4, <3>1 DEF Range
    <3>3. s[1] \in Range(s)
      BY <1>1, <3>1 DEF Range
    <3>4. Range(s) = {s[1]}
      BY <3>2, <3>3
    <3>5. Cardinality({s[1]}) = 1
      BY FS_Singleton
    <3> QED
      BY <3>4, <3>5
  <2> QED
    BY <2>1, <2>2
<1>5. n = 1 => \A i, j \in 1 .. Len(s) : s[i] = s[j]
  <2>1. \A i \in 1 .. Len(s) : s[i] \in Range(s)
    BY <1>1 DEF Range
  <2> QED
    BY <1>3, <2>1
<1>6. Range(s) = {} <=> Len(s) = 0
  <2>1. ASSUME Len(s) = 0
        PROVE  Range(s) = {}
    BY <1>1, <2>1 DEF Range
  <2>2. ASSUME Len(s) # 0
        PROVE  Range(s) # {}
    <3>1. 1 \in 1 .. Len(s)
      BY <1>1, <2>2
    <3>2. s[1] \in Range(s)
      BY <1>1, <3>1 DEF Range
    <3> QED
      BY <3>2
  <2> QED
    BY <2>1, <2>2
<1> QED
  BY <1>2, <1>4, <1>5, <1>6

-----------------------------------------------------------------------------
(* The sweep: a run.                                                       *)
LEMMA SetsFacts ==
    /\ Len(Sets) \in Nat \ {0} /\ DOMAIN Sets = 1 .. Len(Sets)
    /\ \A i \in 1 .. Len(Sets) : Sets[i].reps \in Nat \ {0}
<1>1. Sets \in Seq(Range(Sets)) /\ Sets # << >>
  BY SweepAssumption
<1>2. Len(Sets) \in Nat \ {0} /\ DOMAIN Sets = 1 .. Len(Sets)
  BY <1>1
<1> QED
  BY <1>2, SweepAssumption

LEMMA SweepInit == PipelineInit => SweepInv
<1> SUFFICES ASSUME PipelineInit PROVE SweepInv
  OBVIOUS
<1> USE DEF PipelineInit, Init
<1>1. SweepCounts
  <2>1. PROBDUMP_ENABLED \in BOOLEAN
    BY SweepAssumption
  <2>2. set \in 1 .. Len(Sets) /\ Sets[set].reps \in Nat \ {0}
    BY SetsFacts
  <2>3. IsFiniteSet(Range(rep_hashes))
    BY Empty, FS_EmptySet
  <2> QED
    BY <2>1, <2>2, <2>3, Empty DEF SweepCounts
<1>2. RunsAreRecorded
  BY Empty DEF RunsAreRecorded
<1>3. VerdictsEarned
  BY Empty DEF VerdictsEarned, IdenticalIsEarned, BodyVerdictIsEarned,
               DriftNamesTheLayer
<1>4. LastEntry
  BY DEF LastEntry
<1> QED
  BY <1>1, <1>2, <1>3, <1>4 DEF SweepInv

\* What a child leaves, and what is recorded of it.
LEMMA RunFacts ==
    ASSUME NEW child \in Children
    PROVE  /\ Optional(DumpOf(child))
           /\ Record(child).sha = DumpOf(child)
           /\ Record(child).probs_available =>
                 child.rc = 0 /\ Whole(DumpOf(child))
<1>1. Optional(child.dump)
  BY SweepAssumption DEF Optional
<1>2. Optional(DumpOf(child))
  BY <1>1 DEF Optional, DumpOf
<1> QED
  BY <1>2 DEF Record, Whole

\* The run joins the others on disk and in the report.
LEMMA RepKeeps ==
    ASSUME SweepInv, Rep
    PROVE  /\ SweepCounts' /\ RunsAreRecorded'
<1> USE DEF SweepInv
<1>1. PICK child \in Children :
        /\ reps' = Append(reps, Record(child))
        /\ disk' = Append(disk, [dump |-> DumpOf(child), rttm |-> child.body,
                                 rc |-> child.rc])
        /\ RepFailed(child) \/ RepWithoutDump(child) \/ RepDumped(child)
  BY DEF Rep
<1> DEFINE n == Len(reps)
           run == [dump |-> DumpOf(child), rttm |-> child.body, rc |-> child.rc]
<1>2. /\ pc = "rep" /\ ok = TRUE /\ n < Sets[set].reps
      /\ UNCHANGED << PROBDUMP_ENABLED, set, sweep, candidates >>
  BY DEF Rep, SweepCounts
<1>3. /\ n \in Nat /\ Len(disk) = n /\ Len(rep_dumps) = n /\ Len(rep_hashes) = n
      /\ Sets[set].reps \in Nat
  <2>1. ASequence(reps)
    BY DEF SweepCounts
  <2>2. n \in Nat
    BY <2>1, Appending
  <2> QED
    BY <1>2, <2>2, SetsFacts DEF SweepCounts
<1>4. /\ ASequence(reps') /\ Len(reps') = n + 1
      /\ \A i \in 1 .. n : reps'[i] = reps[i]
      /\ reps'[n + 1] = Record(child)
  BY <1>1, Appending DEF SweepCounts
<1>5. /\ ASequence(disk') /\ Len(disk') = n + 1
      /\ \A i \in 1 .. n : disk'[i] = disk[i]
      /\ disk'[n + 1] = run
  BY <1>1, <1>3, Appending DEF SweepCounts
<1>6. \A i \in 1 .. n + 1 :
        /\ reps'[i].sha = disk'[i].dump
        /\ Optional(disk'[i].dump)
        /\ reps'[i].probs_available => disk'[i].rc = 0 /\ Whole(disk'[i].dump)
  <2> TAKE i \in 1 .. n + 1
  <2>1. CASE i \in 1 .. n
    BY <1>4, <1>5, <2>1 DEF RunsAreRecorded
  <2>2. CASE i = n + 1
    BY <1>4, <1>5, <2>2, RunFacts
  <2> QED
    BY <1>3, <2>1, <2>2
<1>7. CASE RepFailed(child)
  <2>1. ok' = FALSE /\ pc' = "judge" /\ UNCHANGED << rep_dumps, rep_hashes >>
    BY <1>7 DEF RepFailed
  <2>2. /\ ASequence(rep_dumps') /\ ASequence(rep_hashes')
        /\ IsFiniteSet(Range(rep_hashes')) /\ Len(rep_dumps') = n
        /\ Len(rep_hashes') = n
    BY <1>3, <2>1 DEF SweepCounts
  <2>3. SweepCounts'
    <3>1. /\ PROBDUMP_ENABLED' \in BOOLEAN /\ ok' = FALSE /\ pc' = "judge"
          /\ set' \in 1 .. Len(Sets) /\ ASequence(sweep') /\ ASequence(candidates')
          /\ Len(sweep') = set' - 1 /\ Len(candidates') <= set' - 1
      BY <1>2, <2>1 DEF SweepCounts
    <3>2. /\ Len(disk') = Len(reps') /\ Len(rep_hashes') = Len(rep_dumps')
          /\ Len(rep_dumps') <= Len(reps') /\ Len(reps') <= Sets[set'].reps
      BY <1>2, <1>3, <1>4, <1>5, <2>2
    <3> QED
      BY <1>4, <1>5, <2>2, <3>1, <3>2 DEF SweepCounts
  <2>4. RunsAreRecorded'
    BY <1>2, <1>3, <1>4, <1>5, <1>6, <2>1 DEF RunsAreRecorded
  <2> QED
    BY <2>3, <2>4
<1>8. ASSUME NEW parsed,
             child.rc = 0,
             rep_hashes' = Append(rep_hashes, child.body),
             rep_dumps' = Append(rep_dumps, parsed),
             ok' = (ok /\ (PROBDUMP_ENABLED => Present(parsed))),
             pc' = IF ~ok' \/ LastRep(Len(reps')) THEN "judge" ELSE "rep",
             ~PROBDUMP_ENABLED => ~Present(parsed),
             Present(parsed) => /\ Whole(run.dump)
                                /\ parsed = ReadProbdump(The(run.dump))
      PROVE  SweepCounts' /\ RunsAreRecorded'
  <2>1. /\ ASequence(rep_hashes') /\ Len(rep_hashes') = n + 1
        /\ \A i \in 1 .. n : rep_hashes'[i] = rep_hashes[i]
        /\ rep_hashes'[n + 1] = child.body
        /\ IsFiniteSet(Range(rep_hashes'))
    <3>1. ASequence(rep_hashes) /\ IsFiniteSet(Range(rep_hashes))
      BY DEF SweepCounts
    <3>2. Range(rep_hashes') = Range(rep_hashes) \cup {child.body}
      BY <1>8, <3>1, Appending
    <3>3. IsFiniteSet(Range(rep_hashes'))
      BY <3>1, <3>2, FS_AddElement
    <3> QED
      BY <1>3, <1>8, <3>1, <3>3, Appending
  <2>2. /\ ASequence(rep_dumps') /\ Len(rep_dumps') = n + 1
        /\ \A i \in 1 .. n : rep_dumps'[i] = rep_dumps[i]
        /\ rep_dumps'[n + 1] = parsed
    BY <1>3, <1>8, Appending DEF SweepCounts
  <2>3. /\ ok' \in BOOLEAN /\ pc' \in {"rep", "judge"}
        /\ pc' = "rep" => ok' /\ n + 1 < Sets[set].reps
        /\ ok' /\ pc' = "judge" => n + 1 = Sets[set].reps
    BY <1>2, <1>3, <1>4, <1>8 DEF LastRep
  <2>4. SweepCounts'
    BY <1>2, <1>3, <1>4, <1>5, <2>1, <2>2, <2>3 DEF SweepCounts
  <2>5. ASSUME NEW i \in 1 .. n + 1
        PROVE  /\ disk'[i].rc = 0
               /\ rep_hashes'[i] = disk'[i].rttm
               /\ ~PROBDUMP_ENABLED' => ~Present(rep_dumps'[i])
               /\ PROBDUMP_ENABLED' /\ ok' => Present(rep_dumps'[i])
               /\ Present(rep_dumps'[i]) =>
                     /\ Whole(disk'[i].dump)
                     /\ rep_dumps'[i] = ReadProbdump(The(disk'[i].dump))
    <3>1. CASE i \in 1 .. n
      BY <1>2, <1>3, <1>5, <2>1, <2>2, <3>1 DEF RunsAreRecorded
    <3>2. CASE i = n + 1
      <4>1. disk'[i].rc = child.rc /\ disk'[i].rttm = child.body
            /\ disk'[i].dump = run.dump
        BY <1>5, <3>2
      <4>2. rep_hashes'[i] = child.body /\ rep_dumps'[i] = parsed
        BY <2>1, <2>2, <3>2
      <4>3. PROBDUMP_ENABLED' /\ ok' => Present(parsed)
        BY <1>2, <1>8
      <4> QED
        BY <1>2, <1>8, <4>1, <4>2, <4>3
    <3> QED
      BY <1>3, <3>1, <3>2
  <2>6. RunsAreRecorded'
    BY <1>4, <1>6, <2>2, <2>5 DEF RunsAreRecorded
  <2> QED
    BY <2>4, <2>6
<1>9. CASE RepWithoutDump(child)
  <2>1. /\ child.rc = 0 /\ ~PROBDUMP_ENABLED /\ UNCHANGED ok
        /\ rep_hashes' = Append(rep_hashes, child.body)
        /\ rep_dumps' = Append(rep_dumps, None)
        /\ pc' = IF LastRep(Len(reps')) THEN "judge" ELSE "rep"
    BY <1>9 DEF RepWithoutDump
  <2>2. ~Present(None)
    BY DEF Present
  <2> QED
    BY <1>2, <1>8, <2>1, <2>2
<1>10. CASE RepDumped(child)
  <2> DEFINE parsed == IF Record(child).probs_available
                         THEN ReadProbdump(The(child.dump)) ELSE None
  <2>1. /\ child.rc = 0 /\ PROBDUMP_ENABLED
        /\ rep_hashes' = Append(rep_hashes, child.body)
        /\ rep_dumps' = Append(rep_dumps, parsed)
        /\ ok' = (ok /\ Present(parsed))
        /\ pc' = IF ~Present(parsed) \/ LastRep(Len(reps'))
                   THEN "judge" ELSE "rep"
    BY <1>10 DEF RepDumped
  <2>2. DumpOf(child) = child.dump
    BY <2>1 DEF DumpOf
  <2>3. Present(parsed) => /\ Whole(run.dump)
                           /\ parsed = ReadProbdump(The(run.dump))
    BY <2>2, RunFacts DEF Present
  <2> HIDE DEF parsed
  <2> QED
    BY <1>2, <1>8, <2>1, <2>3
<1> QED
  BY <1>1, <1>7, <1>9, <1>10

-----------------------------------------------------------------------------
(* The sweep: a verdict.                                                   *)
LEMMA DiffIsSame ==
    ASSUME NEW x, NEW y
    PROVE  ProbDiff(x, y).bit_identical <=>
             /\ x.frames = y.frames /\ x.spk = y.spk
             /\ SameValues(x.values, y.values)
  BY DEF ProbDiff

\* A case whose runs all came back: what they left, and what is compared.
LEMMA AllCameBack ==
    ASSUME SweepInv, pc = "judge", ok
    PROVE  /\ Len(disk) = Sets[set].reps /\ Len(disk) \in Nat \ {0}
           /\ Len(rep_dumps) = Len(disk)
           /\ DOMAIN disk = 1 .. Len(disk) /\ DOMAIN rep_dumps = 1 .. Len(disk)
           /\ \A i \in 1 .. Len(disk) :
                 /\ disk[i].rc = 0
                 /\ ~PROBDUMP_ENABLED => ~Present(rep_dumps[i])
                 /\ PROBDUMP_ENABLED =>
                       /\ Present(rep_dumps[i]) /\ Whole(disk[i].dump)
                       /\ rep_dumps[i] = ReadProbdump(The(disk[i].dump))
<1> USE DEF SweepInv
<1>1. ASequence(disk) /\ ASequence(rep_dumps) /\ ok = TRUE
  BY DEF SweepCounts
<1>2. /\ Len(disk) = Sets[set].reps /\ Len(disk) \in Nat \ {0}
      /\ Len(rep_dumps) = Len(disk)
  BY <1>1, SetsFacts DEF SweepCounts
<1>3. DOMAIN disk = 1 .. Len(disk) /\ DOMAIN rep_dumps = 1 .. Len(disk)
  BY <1>1, <1>2, Appending
<1> QED
  BY <1>1, <1>2, <1>3 DEF RunsAreRecorded

\* The bodies are counted as they lie on disk.
LEMMA BodiesCompared ==
    ASSUME SweepInv, pc = "judge", ok
    PROVE  /\ UniqueBodies \in Nat \ {0}
           /\ UniqueBodies = 1 =>
                 \A i, j \in DOMAIN disk : disk[i].rttm = disk[j].rttm
           /\ UniqueBodies > 1 =>
                 \E i, j \in DOMAIN disk : disk[i].rttm # disk[j].rttm
<1>1. /\ Len(rep_hashes) = Len(disk) /\ Len(disk) # 0 /\ DOMAIN disk = 1 .. Len(disk)
      /\ ASequence(rep_hashes) /\ IsFiniteSet(Range(rep_hashes))
  BY AllCameBack DEF SweepInv, SweepCounts
<1>2. \A i \in 1 .. Len(disk) : rep_hashes[i] = disk[i].rttm
  BY AllCameBack DEF SweepInv, RunsAreRecorded
<1>3. /\ UniqueBodies \in Nat /\ (UniqueBodies = 0 <=> Len(rep_hashes) = 0)
      /\ UniqueBodies = 1 =>
            \A i, j \in 1 .. Len(rep_hashes) : rep_hashes[i] = rep_hashes[j]
      /\ UniqueBodies > 1 =>
            \E i, j \in 1 .. Len(rep_hashes) : rep_hashes[i] # rep_hashes[j]
  BY <1>1, Bodies DEF UniqueBodies
<1> QED
  BY <1>1, <1>2, <1>3

\* The dumps are compared as they lie on disk: the first with every other.
LEMMA DumpsCompared ==
    ASSUME SweepInv, pc = "judge", ok, PROBDUMP_ENABLED
    PROVE  /\ ProbsOk
           /\ ProbsBit <=> \A i \in 2 .. Len(disk) :
                             SameDump(disk[1].dump, disk[i].dump)
<1> DEFINE n == Len(disk)
           Pair(i) == ProbDiff(The(rep_dumps[1]), The(rep_dumps[i + 1]))
           Drifts(i) == ~SameDump(disk[1].dump, disk[i].dump)
<1>1. /\ n \in Nat \ {0} /\ Len(rep_dumps) = n /\ DOMAIN rep_dumps = 1 .. n
      /\ \A i \in 1 .. n : /\ Present(rep_dumps[i])
                           /\ rep_dumps[i] = ReadProbdump(The(disk[i].dump))
  BY AllCameBack
<1>2. ProbsOk
  <2>1. rep_dumps # << >>
    BY <1>1
  <2> QED
    BY <1>1, <2>1 DEF ProbsOk
<1>3. \A i \in 1 .. n - 1 : Pair(i).bit_identical <=> ~Drifts(i + 1)
  <2> TAKE i \in 1 .. n - 1
  <2>1. 1 \in 1 .. n /\ i + 1 \in 1 .. n
    BY <1>1
  <2>2. /\ rep_dumps[1] = ReadProbdump(The(disk[1].dump))
        /\ rep_dumps[i + 1] = ReadProbdump(The(disk[i + 1].dump))
    BY <1>1, <2>1
  <2> QED
    BY <2>2, DiffIsSame DEF SameDump
<1>4. CASE n = 1
  <2>1. ProbPairs = << >>
    BY <1>1, <1>4 DEF ProbPairs
  <2>2. ProbsBit
    BY <1>1, <1>2, <1>4, <2>1 DEF ProbsBit
  <2> QED
    BY <1>2, <1>4, <2>2
<1>5. CASE n >= 2
  <2>1. ProbPairs = [i \in 1 .. n - 1 |-> Pair(i)]
    BY <1>1, <1>2, <1>5 DEF ProbPairs
  <2> HIDE DEF Pair, Drifts
  <2>2. DOMAIN ProbPairs = 1 .. n - 1 /\ ProbPairs # << >>
    <3>1. DOMAIN ProbPairs = 1 .. n - 1
      BY <2>1
    <3>2. 1 \in 1 .. n - 1
      BY <1>1, <1>5
    <3> QED
      BY <3>1, <3>2, Empty
  <2>3. ProbsBit <=> \A i \in 1 .. n - 1 : Pair(i).bit_identical
    BY <2>1, <2>2 DEF ProbsBit
  <2>4. ProbsBit <=> \A i \in 1 .. n - 1 : ~Drifts(i + 1)
    BY <1>3, <2>3
  <2>5. (\A i \in 1 .. n - 1 : ~Drifts(i + 1)) <=> \A i \in 2 .. n : ~Drifts(i)
    <3>1. \A i \in 2 .. n : i - 1 \in 1 .. n - 1 /\ (i - 1) + 1 = i
      BY <1>1
    <3>2. \A i \in 1 .. n - 1 : i + 1 \in 2 .. n
      BY <1>1
    <3> QED
      BY <3>1, <3>2
  <2> QED
    BY <1>2, <2>4, <2>5 DEF Drifts
<1> QED
  BY <1>1, <1>4, <1>5

\* Judge appends one entry, of the runs on disk.
LEMMA JudgedEntry ==
    ASSUME SweepInv, Judge
    PROVE  \E e : /\ sweep' = Append(sweep, e)
                  /\ e.label = Label
                  /\ e.verdict = IF ok THEN Verdict ELSE "run_failed"
                  /\ e.runs = disk
<1> DEFINE e == [label |-> Label, reps |-> reps, returncode_ok |-> ok,
                 probs_bit_identical |-> ProbsOk /\ ProbsBit,
                 max_abs |-> MaxAbs,
                 body_identical |-> ok /\ UniqueBodies = 1,
                 verdict |-> IF ok THEN Verdict ELSE "run_failed",
                 runs |-> disk]
<1>1. sweep' = Append(sweep, e)
  BY DEF Judge
<1>2. /\ e.label = Label
      /\ e.verdict = IF ok THEN Verdict ELSE "run_failed"
      /\ e.runs = disk
  OBVIOUS
<1> QED
  BY <1>1, <1>2

\* The verdict of the entry says what its runs left.
LEMMA VerdictSaysWhatWasLeft ==
    ASSUME SweepInv, pc = "judge",
           NEW e, e.runs = disk,
           e.verdict = IF ok THEN Verdict ELSE "run_failed"
    PROVE  /\ e.verdict = "identical" =>
                 /\ Len(e.runs) = Sets[set].reps
                 /\ \A r \in DOMAIN e.runs :
                       e.runs[r].rc = 0 /\ Whole(e.runs[r].dump)
                 /\ ~BodiesDiffer(e) /\ ~DumpsDrift(e)
           /\ e.verdict = "identical_body_only" =>
                 /\ ~PROBDUMP_ENABLED
                 /\ Len(e.runs) = Sets[set].reps
                 /\ \A r \in DOMAIN e.runs : e.runs[r].rc = 0
                 /\ ~BodiesDiffer(e)
           /\ e.verdict # "unreachable"
           /\ e.verdict = "host_race"    => BodiesDiffer(e) /\ ~DumpsDrift(e)
           /\ e.verdict = "neural_drift" => BodiesDiffer(e) /\ DumpsDrift(e)
           /\ e.verdict = "sub_hysteresis_drift" =>
                 ~BodiesDiffer(e) /\ DumpsDrift(e)
<1>1. CASE ~ok
  <2>1. e.verdict = "run_failed"
    BY <1>1
  <2> QED
    BY <2>1
<1>2. CASE ok
  <2>1. e.verdict = Verdict
    BY <1>2
  <2>2. /\ Len(e.runs) = Sets[set].reps
        /\ \A r \in DOMAIN e.runs : e.runs[r].rc = 0
    BY <1>2, AllCameBack
  <2>3. /\ UniqueBodies \in Nat \ {0}
        /\ UniqueBodies = 1 => ~BodiesDiffer(e)
        /\ UniqueBodies > 1 => BodiesDiffer(e)
    BY <1>2, BodiesCompared DEF BodiesDiffer
  <2>4. CASE ~PROBDUMP_ENABLED
    <3>1. ~ProbsOk
      BY <1>2, <2>4, AllCameBack DEF ProbsOk
    <3>2. /\ Verdict \in {"identical_body_only", "no_dump"}
          /\ Verdict = "identical_body_only" => UniqueBodies = 1
      BY <1>2, <2>4, <3>1 DEF Verdict
    <3> QED
      BY <2>1, <2>2, <2>3, <2>4, <3>2
  <2>5. CASE PROBDUMP_ENABLED
    <3>1. ProbsOk /\ (ProbsBit <=> ~DumpsDrift(e))
      BY <1>2, <2>5, DumpsCompared DEF DumpsDrift
    <3>2. \A r \in DOMAIN e.runs : Whole(e.runs[r].dump)
      BY <1>2, <2>5, AllCameBack
    <3>3. \/ ProbsBit  /\ UniqueBodies = 1 /\ Verdict = "identical"
          \/ ~ProbsBit /\ UniqueBodies > 1 /\ Verdict = "neural_drift"
          \/ ProbsBit  /\ UniqueBodies > 1 /\ Verdict = "host_race"
          \/ ~ProbsBit /\ UniqueBodies = 1 /\ Verdict = "sub_hysteresis_drift"
      <4>1. UniqueBodies = 1 \/ UniqueBodies > 1
        BY <2>3
      <4> QED
        BY <2>3, <2>5, <3>1, <4>1 DEF Verdict
    <3> QED
      BY <2>1, <2>2, <2>3, <3>1, <3>2, <3>3
  <2> QED
    BY <2>4, <2>5
<1> QED
  BY <1>1, <1>2

LEMMA JudgeKeeps ==
    ASSUME SweepInv, Judge
    PROVE  SweepInv'
<1> USE DEF SweepInv
<1>1. PICK e : /\ sweep' = Append(sweep, e)
               /\ e.label = Label
               /\ e.verdict = IF ok THEN Verdict ELSE "run_failed"
               /\ e.runs = disk
  BY JudgedEntry
<1>2. /\ pc = "judge" /\ pc' = "export"
      /\ UNCHANGED << PROBDUMP_ENABLED, set, disk, reps, rep_dumps, rep_hashes, ok,
                      candidates >>
  BY DEF Judge
<1>3. /\ ASequence(sweep) /\ Len(sweep) = set - 1 /\ set \in 1 .. Len(Sets)
      /\ Len(Sets) \in Nat
  BY <1>2, SetsFacts DEF SweepCounts
<1>4. /\ ASequence(sweep') /\ Len(sweep') = set
      /\ DOMAIN sweep = 1 .. set - 1 /\ DOMAIN sweep' = 1 .. set
      /\ \A i \in 1 .. set - 1 : sweep'[i] = sweep[i]
      /\ sweep'[set] = e
  BY <1>1, <1>3, Appending
<1>5. SweepCounts'
  <2>1. /\ ASequence(disk') /\ ASequence(reps') /\ ASequence(candidates')
        /\ ASequence(rep_dumps') /\ ASequence(rep_hashes')
        /\ IsFiniteSet(Range(rep_hashes'))
    BY <1>2 DEF SweepCounts
  <2> QED
    BY <1>2, <1>4, <2>1 DEF SweepCounts
<1>6. RunsAreRecorded'
  BY <1>2 DEF RunsAreRecorded
<1>7. LastEntry'
  BY <1>1, <1>2, <1>4 DEF LastEntry, Label
<1>8. VerdictsEarned'
  <2> USE DEF VerdictsEarned
  <2>1. \A i \in 1 .. set : i \in 1 .. set - 1 \/ i = set
    BY <1>3
  <2>2. IdenticalIsEarned'
    <3> SUFFICES ASSUME NEW i \in 1 .. set, sweep'[i].verdict = "identical"
                 PROVE  LET f == sweep'[i] IN
                        /\ Len(f.runs) = Sets[i].reps
                        /\ \A r \in DOMAIN f.runs :
                              f.runs[r].rc = 0 /\ Whole(f.runs[r].dump)
                        /\ ~BodiesDiffer(f)
                        /\ ~DumpsDrift(f)
      BY <1>4 DEF IdenticalIsEarned
    <3>1. CASE i \in 1 .. set - 1
      BY <1>4, <3>1 DEF IdenticalIsEarned
    <3>2. CASE i = set
      BY <1>1, <1>2, <1>4, <3>2, VerdictSaysWhatWasLeft
    <3> QED
      BY <2>1, <3>1, <3>2
  <2>3. BodyVerdictIsEarned'
    <3> SUFFICES ASSUME NEW i \in 1 .. set, sweep'[i].verdict = "identical_body_only"
                 PROVE  LET f == sweep'[i] IN
                        /\ ~PROBDUMP_ENABLED
                        /\ Len(f.runs) = Sets[i].reps
                        /\ \A r \in DOMAIN f.runs : f.runs[r].rc = 0
                        /\ ~BodiesDiffer(f)
      BY <1>2, <1>4 DEF BodyVerdictIsEarned
    <3>1. CASE i \in 1 .. set - 1
      BY <1>4, <3>1 DEF BodyVerdictIsEarned
    <3>2. CASE i = set
      BY <1>1, <1>2, <1>4, <3>2, VerdictSaysWhatWasLeft
    <3> QED
      BY <2>1, <3>1, <3>2
  <2>4. DriftNamesTheLayer'
    <3> SUFFICES ASSUME NEW i \in 1 .. set
                 PROVE  LET f == sweep'[i] IN
                        /\ f.verdict # "unreachable"
                        /\ f.verdict = "host_race" =>
                              BodiesDiffer(f) /\ ~DumpsDrift(f)
                        /\ f.verdict = "neural_drift" =>
                              BodiesDiffer(f) /\ DumpsDrift(f)
                        /\ f.verdict = "sub_hysteresis_drift" =>
                              ~BodiesDiffer(f) /\ DumpsDrift(f)
      BY <1>4 DEF DriftNamesTheLayer
    <3>1. CASE i \in 1 .. set - 1
      BY <1>4, <3>1 DEF DriftNamesTheLayer
    <3>2. CASE i = set
      BY <1>1, <1>2, <1>4, <3>2, VerdictSaysWhatWasLeft
    <3> QED
      BY <2>1, <3>1, <3>2
  <2> QED
    BY <2>2, <2>3, <2>4
<1> QED
  BY <1>5, <1>6, <1>7, <1>8

-----------------------------------------------------------------------------
(* The sweep: an export.                                                   *)
LEMMA ExportKeeps ==
    ASSUME SweepInv, Export
    PROVE  SweepInv'
<1> USE DEF SweepInv
<1>1. /\ pc = "export"
      /\ IF set < Len(Sets) THEN set' = set + 1 /\ pc' = "rep"
                            ELSE set' = set /\ pc' = "done"
      /\ disk' = << >> /\ reps' = << >> /\ rep_dumps' = << >> /\ rep_hashes' = << >>
      /\ ok' = TRUE
      /\ UNCHANGED << PROBDUMP_ENABLED, sweep >>
  BY DEF Export
<1>2. /\ set \in 1 .. Len(Sets) /\ set' \in 1 .. Len(Sets)
      /\ Len(Sets) \in Nat /\ Sets[set'].reps \in Nat \ {0}
  <2>1. set \in 1 .. Len(Sets) /\ Len(Sets) \in Nat
    BY SetsFacts DEF SweepCounts
  <2>2. set' \in 1 .. Len(Sets)
    BY <1>1, <2>1
  <2> QED
    BY <2>1, <2>2, SetsFacts
<1>3. /\ ASequence(candidates') /\ Len(candidates') \in Nat /\ Len(candidates') <= set
  <2>1. ASequence(candidates) /\ Len(candidates) <= set - 1
    BY <1>1 DEF SweepCounts
  <2>2. Len(candidates) \in Nat
    BY <2>1, Appending
  <2>3. CASE candidates' = candidates
    BY <1>2, <2>1, <2>2, <2>3
  <2>4. CASE \E c : candidates' = Append(candidates, c)
    BY <1>2, <2>1, <2>2, <2>4, Appending
  <2> QED
    BY <2>3, <2>4 DEF Export
<1>4. SweepCounts'
  <2>1. /\ ASequence(disk') /\ ASequence(reps') /\ ASequence(rep_dumps')
        /\ ASequence(rep_hashes') /\ Len(disk') = 0 /\ Len(reps') = 0
        /\ Len(rep_dumps') = 0 /\ Len(rep_hashes') = 0
    BY <1>1, Empty
  <2>2. IsFiniteSet(Range(rep_hashes'))
    BY <1>1, Empty, FS_EmptySet
  <2>3. /\ PROBDUMP_ENABLED' \in BOOLEAN /\ ASequence(sweep') /\ Len(sweep') = set
    BY <1>1 DEF SweepCounts
  <2>4. CASE set < Len(Sets)
    BY <1>1, <1>2, <1>3, <2>1, <2>2, <2>3, <2>4 DEF SweepCounts
  <2>5. CASE ~(set < Len(Sets))
    BY <1>1, <1>2, <1>3, <2>1, <2>2, <2>3, <2>5 DEF SweepCounts
  <2> QED
    BY <2>4, <2>5
<1>5. RunsAreRecorded'
  BY <1>1, Empty DEF RunsAreRecorded
<1>6. VerdictsEarned'
  BY <1>1 DEF VerdictsEarned, IdenticalIsEarned, BodyVerdictIsEarned,
              DriftNamesTheLayer
<1>7. LastEntry'
  BY <1>1 DEF LastEntry
<1> QED
  BY <1>4, <1>5, <1>6, <1>7

LEMMA RepKeepsSweepInv ==
    ASSUME SweepInv, Rep
    PROVE  SweepInv'
<1>1. pc' # "export" /\ UNCHANGED << PROBDUMP_ENABLED, sweep >>
  BY DEF Rep, RepFailed, RepWithoutDump, RepDumped
<1>2. LastEntry'
  BY <1>1 DEF LastEntry
<1>3. VerdictsEarned'
  BY <1>1 DEF SweepInv, VerdictsEarned, IdenticalIsEarned, BodyVerdictIsEarned,
              DriftNamesTheLayer
<1> QED
  BY <1>2, <1>3, RepKeeps DEF SweepInv

LEMMA SweepUntouched ==
    ASSUME SweepInv, UNCHANGED vars
    PROVE  SweepInv'
<1> USE DEF SweepInv, vars
<1>1. SweepCounts'
  BY DEF SweepCounts
<1>2. RunsAreRecorded'
  BY DEF RunsAreRecorded
<1>3. VerdictsEarned'
  BY DEF VerdictsEarned, IdenticalIsEarned, BodyVerdictIsEarned, DriftNamesTheLayer
<1>4. LastEntry'
  BY DEF LastEntry, Label
<1> QED
  BY <1>1, <1>2, <1>3, <1>4

LEMMA SweepStep ==
    ASSUME SweepInv, [PipelineNext]_<<vars, fixtureVars>>
    PROVE  SweepInv'
<1>1. CASE Session
  BY <1>1, RepKeepsSweepInv, JudgeKeeps, ExportKeeps DEF Session
<1>2. CASE UNCHANGED vars
  BY <1>2, SweepUntouched
<1> QED
  BY <1>1, <1>2 DEF PipelineNext

\* The type invariant and the verdicts are part of the inductive invariant.
LEMMA SweepInvImplies == SweepInv => VerdictIsEarned
<1> SUFFICES ASSUME SweepInv PROVE VerdictIsEarned
  OBVIOUS
<1>1. TypeOK
  <2>1. SweepCounts /\ DOMAIN Sets = 1 .. Len(Sets) /\ Len(Sets) \in Nat
    BY SetsFacts DEF SweepInv
  <2>2. ASequence(candidates) /\ Len(candidates) \in Nat
    BY <2>1, Appending DEF SweepCounts
  <2>3. set \in 1 .. Len(Sets) /\ set \in DOMAIN Sets
    BY <2>1 DEF SweepCounts
  <2>4. Len(sweep) <= Len(Sets) /\ Len(candidates) <= Len(sweep)
    <3>1. CASE pc = "done"
      BY <2>1, <2>2, <2>3, <3>1 DEF SweepCounts
    <3>2. CASE pc # "done"
      BY <2>1, <2>2, <2>3, <3>2 DEF SweepCounts
    <3> QED
      BY <3>1, <3>2
  <2> QED
    BY <2>1, <2>3, <2>4 DEF SweepCounts, TypeOK
<1> QED
  BY <1>1 DEF SweepInv, VerdictsEarned, VerdictIsEarned

(* A verdict of the sweep is earned by all its runs (run_prob_sweep): for  *)
(* any sets and repetitions, and whatever the runs return and leave.       *)
THEOREM VerdictsAreEarned == PipelineSpec => []VerdictIsEarned
<1>1. PipelineInit => SweepInv
  BY SweepInit
<1>2. SweepInv /\ [PipelineNext]_<<vars, fixtureVars>> => SweepInv'
  BY SweepStep
<1>3. SweepInv => VerdictIsEarned
  BY SweepInvImplies
<1> QED
  BY <1>1, <1>2, <1>3, PTL DEF PipelineSpec

-----------------------------------------------------------------------------
(* The candidates: exported and downloaded.                                *)

\* What CandidatesAreRunZero says of one candidate.
RunZero(entries, c) ==
    \E e \in Range(entries) :
        /\ e.label = c.label
        /\ e.runs[1].rc = 0
        /\ e.runs[1].dump = Some(c.probs)
        /\ e.runs[1].rttm = c.rttm
        /\ Whole(e.runs[1].dump)

\* The report only grows.
LEMMA ReportGrows ==
    ASSUME SweepInv, [PipelineNext]_<<vars, fixtureVars>>
    PROVE  Range(sweep) \subseteq Range(sweep')
<1>1. CASE Judge
  <2>1. ASequence(sweep)
    BY DEF SweepInv, SweepCounts
  <2>2. PICK e : sweep' = Append(sweep, e)
    BY <1>1, JudgedEntry
  <2>3. Range(sweep') = Range(sweep) \cup {e}
    BY <2>1, <2>2, Appending
  <2> QED
    BY <2>3
<1>2. CASE UNCHANGED sweep
  BY <1>2
<1> QED
  BY <1>1, <1>2 DEF PipelineNext, Session, Rep, Export, Download, vars

LEMMA StillObserved ==
    ASSUME Range(sweep) \subseteq Range(sweep'), NEW c
    PROVE  /\ Observed(sweep, c) => Observed(sweep', c)
           /\ RunZero(sweep, c) => RunZero(sweep', c)
  BY DEF Observed, RunZero

\* What Export copies out of the work directory is a whole run 0.
LEMMA ExportedIsObserved ==
    ASSUME SweepInv, Export, Exportable
    PROVE  LET c == [label |-> Label, probs |-> The(disk[1].dump),
                     rttm |-> disk[1].rttm, reps |-> reps,
                     cross_session_stable |-> Label \in StableCases]
           IN  /\ candidates' = Append(candidates, c)
               /\ ACandidate(c) /\ Observed(sweep, c) /\ RunZero(sweep, c)
<1> DEFINE c == [label |-> Label, probs |-> The(disk[1].dump),
                 rttm |-> disk[1].rttm, reps |-> reps,
                 cross_session_stable |-> Label \in StableCases]
<1>1. candidates' = Append(candidates, c)
  BY DEF Export
<1>2. /\ c.label = Label /\ c.probs = The(disk[1].dump)
      /\ c.rttm = disk[1].rttm /\ c.reps = reps
  OBVIOUS
<1>3. ACandidate(c)
  BY DEF ACandidate
<1> HIDE DEF c
<1>4. /\ reps[1].sha = disk[1].dump /\ Optional(disk[1].dump)
      /\ disk[1].rc = 0 /\ Whole(disk[1].dump)
  <2>1. reps # << >> /\ reps[1].probs_available
    BY DEF Exportable
  <2>2. ASequence(reps)
    BY DEF SweepInv, SweepCounts
  <2>3. 1 \in 1 .. Len(reps)
    <3>1. Len(reps) \in Nat /\ (Len(reps) = 0 => reps = << >>)
      BY <2>2 DEF ASequence
    <3> QED
      BY <2>1, <3>1
  <2> QED
    BY <2>1, <2>3 DEF SweepInv, RunsAreRecorded
<1>5. disk[1].dump = Some(c.probs)
  BY <1>2, <1>4 DEF Whole, Present, Optional
<1>6. sweep[set] \in Range(sweep) /\ sweep[set].label = Label /\ sweep[set].runs = disk
  <2>1. /\ ASequence(sweep) /\ Len(sweep) = set /\ set \in 1 .. Len(Sets)
        /\ pc = "export"
    BY DEF SweepInv, SweepCounts, Export
  <2>2. set \in DOMAIN sweep
    BY <2>1, SetsFacts, Appending
  <2> QED
    BY <2>1, <2>2 DEF Range, SweepInv, LastEntry
<1>7. Observed(sweep, c)
  BY <1>2, <1>4, <1>6 DEF Observed
<1>8. RunZero(sweep, c)
  BY <1>2, <1>4, <1>5, <1>6 DEF RunZero
<1> QED
  BY <1>1, <1>3, <1>7, <1>8 DEF c

\* A download changes no provenance.
LEMMA ReceivedIsObserved ==
    ASSUME NEW entries, NEW c, ACandidate(c), Observed(entries, c),
           NEW d \in Received(c)
    PROVE  Observed(entries, d)
<1>1. CASE d = c
  BY <1>1
<1>2. ASSUME NEW p, d = [c EXCEPT !.probs = p]
      PROVE  Observed(entries, d)
  <2>1. d.label = c.label /\ d.reps = c.reps
    BY <1>2 DEF ACandidate
  <2> QED
    BY <2>1 DEF Observed
<1> QED
  BY <1>1, <1>2 DEF Received

LEMMA CandidatesStep ==
    ASSUME SweepInv, CandidatesObserved, [PipelineNext]_<<vars, fixtureVars>>
    PROVE  CandidatesObserved'
<1>1. Range(sweep) \subseteq Range(sweep')
  BY ReportGrows
<1>2. /\ \A i \in DOMAIN candidates :
            /\ ACandidate(candidates[i])
            /\ Observed(sweep, candidates[i]) /\ Observed(sweep', candidates[i])
            /\ RunZero(sweep', candidates[i])
      /\ \A i \in DOMAIN downloaded : Observed(sweep', downloaded[i])
  <2>1. /\ \A i \in DOMAIN candidates :
              /\ ACandidate(candidates[i]) /\ Observed(sweep, candidates[i])
              /\ RunZero(sweep, candidates[i])
        /\ \A i \in DOMAIN downloaded : Observed(sweep, downloaded[i])
    BY DEF CandidatesObserved, CandidatesAreRunZero, RunZero
  <2> QED
    BY <1>1, <2>1, StillObserved
<1>3. \A i \in DOMAIN candidates' :
        /\ ACandidate(candidates'[i]) /\ Observed(sweep', candidates'[i])
        /\ RunZero(sweep', candidates'[i])
  <2>1. CASE candidates' = candidates
    BY <1>2, <2>1
  <2>2. CASE Export /\ Exportable
    <3>1. PICK c : /\ candidates' = Append(candidates, c) /\ ACandidate(c)
                   /\ Observed(sweep', c) /\ RunZero(sweep', c)
      BY <1>1, <2>2, ExportedIsObserved, StillObserved
    <3>2. /\ Len(candidates) \in Nat /\ DOMAIN candidates = 1 .. Len(candidates)
          /\ DOMAIN candidates' = 1 .. Len(candidates) + 1
          /\ \A i \in 1 .. Len(candidates) : candidates'[i] = candidates[i]
          /\ candidates'[Len(candidates) + 1] = c
      <4>1. ASequence(candidates)
        BY DEF SweepInv, SweepCounts
      <4> QED
        BY <3>1, <4>1, Appending
    <3> TAKE i \in DOMAIN candidates'
    <3>3. i \in DOMAIN candidates \/ i = Len(candidates) + 1
      BY <3>2
    <3> QED
      BY <1>2, <3>1, <3>2, <3>3
  <2> QED
    BY <2>1, <2>2 DEF PipelineNext, Session, Rep, Judge, Export, Download, vars
<1>4. \A i \in DOMAIN downloaded' : Observed(sweep', downloaded'[i])
  <2>1. CASE downloaded' = downloaded
    BY <1>2, <2>1
  <2>2. CASE Download /\ UNCHANGED vars
    <3>1. /\ DOMAIN downloaded' = DOMAIN candidates
          /\ \A i \in DOMAIN downloaded' : downloaded'[i] \in Received(candidates[i])
      BY <2>2 DEF Download
    <3> QED
      BY <1>2, <3>1, ReceivedIsObserved
  <2>3. CASE F!Next
    BY <2>1, <2>3 DEF F!Next, F!Start, F!WriteProbs, F!WriteManifest, F!SelfCheck,
                      F!Finish, F!Crash, F!Edit, F!RunGate
  <2> QED
    BY <2>1, <2>2, <2>3 DEF PipelineNext, fixtureVars
<1>5. CandidatesAreRunZero'
  BY <1>3 DEF CandidatesAreRunZero, RunZero
<1> QED
  BY <1>3, <1>4, <1>5 DEF CandidatesObserved

-----------------------------------------------------------------------------
(* The fixture.  Its module has its own copy of the dump's format.         *)
LEMMA SameFormat ==
    /\ F!None = None
    /\ \A x : F!Some(x) = Some(x) /\ F!The(x) = The(x)
    /\ \A x : F!Present(x) <=> Present(x)
    /\ \A x : F!ReadProbdump(x) = ReadProbdump(x)
  BY DEF F!None, None, F!Some, Some, F!The, The, F!Present, Present,
         F!ReadProbdump, ReadProbdump, F!WellFormed, WellFormed,
         F!HeaderWords, HeaderWords

FixtureHolds == F!TypeOK /\ Optional(probs) /\ FillInProgress /\ ManifestPins

\* A file just written is there, and is one file.
LEMMA Written ==
    ASSUME NEW file, \E x : file = Some(x)
    PROVE  Optional(file) /\ Len(file) = 1 /\ Len(file) <= 1 /\ F!Present(file)
<1>1. PICK x : file = Some(x)
  OBVIOUS
<1>2. file # None /\ The(file) = x /\ Len(file) = 1
  BY <1>1, Files
<1>3. 1 <= 1
  OBVIOUS
<1>4. Len(file) <= 1
  BY <1>2, <1>3
<1>5. F!Present(file)
  BY <1>2, SameFormat DEF Present
<1> QED
  BY <1>1, <1>2, <1>4, <1>5 DEF Optional

\* Only candidates with an intact payload are filled from.
LEMMA LegitimateIsPinned ==
    ASSUME NEW entries, NEW c, Observed(entries, c), NEW o, F!Legitimate(c, o)
    PROVE  c.reps[1].sha = Some(c.probs)
<1>1. Present(c.reps[1].sha) /\ Optional(c.reps[1].sha)
  BY DEF Observed, Whole
<1>2. c.reps[1].sha = Some(The(c.reps[1].sha))
  BY <1>1 DEF Optional, Present
<1>3. The(c.reps[1].sha) = c.probs
  BY <1>1, SameFormat DEF F!Legitimate
<1> QED
  BY <1>2, <1>3

LEMMA FixtureInit == PipelineInit => FixtureInv
<1> SUFFICES ASSUME PipelineInit PROVE FixtureInv
  OBVIOUS
<1>1. /\ probs = None /\ manifest = None /\ gate = None /\ fill = F!Idle
      /\ downloaded = << >> /\ candidates = << >>
  BY SameFormat DEF PipelineInit, Init, F!Init
<1>2. fill.step = "idle"
  BY <1>1 DEF F!Idle
<1>3. F!TypeOK
  BY <1>1, <1>2, Files DEF F!TypeOK
<1>4. CandidatesObserved
  BY <1>1, Empty DEF CandidatesObserved, CandidatesAreRunZero
<1> QED
  BY <1>1, <1>2, <1>3, <1>4
     DEF FixtureInv, FillInProgress, ManifestPins, Optional

\* Whatever the sweep and the download do, the fixture is left alone.
LEMMA FixtureUntouched ==
    ASSUME FixtureHolds, UNCHANGED << probs, manifest, fill, gate >>,
           Range(sweep) \subseteq Range(sweep')
    PROVE  FixtureHolds'
<1> USE DEF FixtureHolds
<1>1. F!TypeOK' /\ Optional(probs)'
  BY DEF F!TypeOK
<1>2. FillInProgress'
  BY StillObserved DEF FillInProgress
<1>3. ManifestPins'
  BY StillObserved DEF ManifestPins
<1> QED
  BY <1>1, <1>2, <1>3

LEMMA FixtureStep ==
    ASSUME CandidatesObserved, FixtureHolds, F!Next, UNCHANGED vars
    PROVE  FixtureHolds'
<1> USE DEF FixtureHolds
<1>0. sweep' = sweep
  BY DEF vars
<1>1. CASE F!Start
  <2>1. PICK i \in DOMAIN downloaded, o \in Options :
          /\ F!Legitimate(downloaded[i], o)
          /\ fill' = [step |-> "probs", candidate |-> downloaded[i], options |-> o]
    BY <1>1 DEF F!Start
  <2>2. UNCHANGED << probs, manifest, gate >>
    BY <1>1 DEF F!Start
  <2>3. /\ fill'.step = "probs" /\ fill'.candidate = downloaded[i]
        /\ fill'.options = o
    BY <2>1
  <2>4. Observed(sweep, downloaded[i])
    BY DEF CandidatesObserved
  <2>5. downloaded[i].reps[1].sha = Some(downloaded[i].probs)
    BY <2>1, <2>4, LegitimateIsPinned
  <2>6. FillInProgress'
    BY <1>0, <2>1, <2>3, <2>4, <2>5 DEF FillInProgress
  <2>7. F!TypeOK'
    BY <2>2, <2>3 DEF F!TypeOK
  <2> QED
    BY <1>0, <2>2, <2>6, <2>7 DEF ManifestPins
<1>2. CASE F!WriteProbs
  <2>1. /\ fill.step = "probs" /\ probs' = Some(fill.candidate.probs)
        /\ fill' = [fill EXCEPT !.step = "manifest"]
        /\ UNCHANGED << manifest, gate >>
    BY <1>2, SameFormat DEF F!WriteProbs
  <2>2. /\ fill'.step = "manifest" /\ fill'.candidate = fill.candidate
        /\ fill' = [step |-> fill'.step, candidate |-> fill'.candidate,
                    options |-> fill'.options]
    BY <2>1 DEF FillInProgress
  <2>3. FillInProgress'
    BY <1>0, <2>1, <2>2 DEF FillInProgress
  <2>4. Optional(probs)' /\ Len(probs') <= 1 /\ F!Present(probs')
    BY <2>1, Written
  <2>5. F!TypeOK'
    BY <2>1, <2>2, <2>4 DEF F!TypeOK
  <2> QED
    BY <1>0, <2>1, <2>3, <2>4, <2>5 DEF ManifestPins
<1>3. CASE F!WriteManifest
  <2> DEFINE m == F!ManifestOf(fill.candidate, fill.options)
  <2>1. /\ fill.step = "manifest" /\ manifest' = Some(m)
        /\ fill' = [fill EXCEPT !.step = "check"]
        /\ UNCHANGED << probs, gate >>
    BY <1>3, SameFormat DEF F!WriteManifest
  <2>2. m.source = fill.candidate /\ m.sha256 = fill.candidate.probs
    BY DEF F!ManifestOf
  <2> HIDE DEF m
  <2>3. /\ fill'.step = "check" /\ fill'.candidate = fill.candidate
        /\ fill' = [step |-> fill'.step, candidate |-> fill'.candidate,
                    options |-> fill'.options]
    BY <2>1 DEF FillInProgress
  <2>4. FillInProgress'
    BY <1>0, <2>1, <2>3 DEF FillInProgress
  <2>5. ManifestPins'
    BY <1>0, <2>1, <2>2, Files DEF ManifestPins, FillInProgress
  <2>6. Len(manifest') <= 1 /\ F!Present(manifest')
    BY <2>1, Written
  <2>7. F!TypeOK'
    BY <2>1, <2>3, <2>6 DEF F!TypeOK
  <2> QED
    BY <2>1, <2>4, <2>5, <2>7
<1>4. CASE F!SelfCheck
  <2>1. /\ fill.step = "check" /\ UNCHANGED << probs, manifest, gate >>
        /\ \/ fill' = [fill EXCEPT !.step = "filled"]
           \/ fill' = F!Idle
    BY <1>4 DEF F!SelfCheck
  <2>2. CASE fill' = [fill EXCEPT !.step = "filled"]
    <3>1. /\ fill'.step = "filled" /\ fill'.candidate = fill.candidate
          /\ fill' = [step |-> fill'.step, candidate |-> fill'.candidate,
                      options |-> fill'.options]
      BY <2>1, <2>2 DEF FillInProgress
    <3>2. FillInProgress' /\ F!TypeOK'
      BY <1>0, <2>1, <3>1 DEF FillInProgress, F!TypeOK
    <3> QED
      BY <1>0, <2>1, <3>2 DEF ManifestPins
  <2>3. CASE fill' = F!Idle
    <3>1. fill'.step = "idle"
      BY <2>3 DEF F!Idle
    <3> QED
      BY <1>0, <2>1, <3>1 DEF FillInProgress, F!TypeOK, ManifestPins
  <2> QED
    BY <2>1, <2>2, <2>3
<1>5. CASE F!Finish
  <2>1. fill' = F!Idle /\ UNCHANGED << probs, manifest, gate >>
    BY <1>5 DEF F!Finish
  <2>2. fill'.step = "idle"
    BY <2>1 DEF F!Idle
  <2> QED
    BY <1>0, <2>1, <2>2 DEF FillInProgress, F!TypeOK, ManifestPins
<1>6. CASE F!Crash
  <2>1. fill' = F!Idle /\ UNCHANGED gate
    BY <1>6 DEF F!Crash
  <2>2. fill'.step = "idle"
    BY <2>1 DEF F!Idle
  <2>3. \/ UNCHANGED << probs, manifest >>
        \/ (\E p : probs' = Some(p)) /\ UNCHANGED manifest
        \/ manifest' = Some(F!Torn) /\ UNCHANGED probs
    BY <1>6, SameFormat DEF F!Crash
  <2>4. Optional(probs') /\ Len(probs') <= 1
    BY <2>3, Written DEF F!TypeOK
  <2>5. Len(manifest') <= 1 /\ ManifestPins'
    BY <1>0, <2>3, Written DEF F!TypeOK, ManifestPins
  <2> QED
    BY <2>1, <2>2, <2>4, <2>5 DEF FillInProgress, F!TypeOK
<1>7. CASE F!Edit
  <2>1. /\ fill.step = "idle" /\ UNCHANGED << manifest, fill, gate >>
        /\ \E p : probs' = Some(p)
    BY <1>7, SameFormat DEF F!Edit
  <2>2. Optional(probs') /\ Len(probs') <= 1
    BY <2>1, Written
  <2> QED
    BY <1>0, <2>1, <2>2 DEF FillInProgress, F!TypeOK, ManifestPins
<1>8. CASE F!RunGate
  <2>1. /\ UNCHANGED << probs, manifest, fill >>
        /\ \E g : gate' = Some(g)
    BY <1>8, SameFormat DEF F!RunGate
  <2>2. Len(gate') <= 1
    BY <2>1, Written
  <2> QED
    BY <1>0, <2>1, <2>2 DEF FillInProgress, F!TypeOK, ManifestPins
<1> QED
  BY <1>1, <1>2, <1>3, <1>4, <1>5, <1>6, <1>7, <1>8 DEF F!Next

LEMMA PipelineStep ==
    ASSUME PipelineInv, [PipelineNext]_<<vars, fixtureVars>>
    PROVE  PipelineInv'
<1>1. SweepInv'
  BY SweepStep DEF PipelineInv
<1>2. CandidatesObserved'
  BY CandidatesStep DEF PipelineInv, FixtureInv
<1>3. FixtureHolds'
  <2>1. FixtureHolds /\ CandidatesObserved
    BY DEF PipelineInv, FixtureInv, FixtureHolds
  <2>2. CASE UNCHANGED << probs, manifest, fill, gate >>
    BY <2>1, <2>2, ReportGrows, FixtureUntouched DEF PipelineInv
  <2>3. CASE F!Next /\ UNCHANGED vars
    BY <2>1, <2>3, FixtureStep
  <2> QED
    BY <2>2, <2>3 DEF PipelineNext, fixtureVars, Download
<1> QED
  BY <1>1, <1>2, <1>3 DEF PipelineInv, FixtureInv, FixtureHolds

\* What loads is pinned, so it is the observation the manifest names.
LEMMA InvImpliesTruth == PipelineInv => FixtureIsTruth
<1> SUFFICES ASSUME PipelineInv PROVE FixtureIsTruth
  OBVIOUS
<1>1. /\ F!TypeOK /\ Optional(probs) /\ CandidatesAreRunZero /\ ManifestPins
  BY DEF PipelineInv, FixtureInv, CandidatesObserved
<1>2. ASSUME Present(F!Loaded)
      PROVE  /\ probs = The(manifest).source.reps[1].sha
             /\ F!Loaded = ReadProbdump(The(probs))
             /\ Observed(sweep, The(manifest).source)
  <2>1. F!Loaded # None
    BY <1>2 DEF Present
  <2>2. /\ Present(manifest) /\ ~The(manifest).torn /\ Present(probs)
        /\ The(probs) = The(manifest).sha256
        /\ F!Loaded = ReadProbdump(The(probs))
    BY <2>1, SameFormat DEF F!Loaded, F!LoadCase, F!WellFormedManifest
  <2>3. probs = Some(The(probs))
    BY <1>1, <2>2 DEF Optional, Present
  <2>4. manifest # Some(F!Torn)
    BY <2>2, Files DEF F!Torn
  <2>5. /\ Observed(sweep, The(manifest).source)
        /\ The(manifest).source.reps[1].sha = Some(The(manifest).sha256)
    BY <1>1, <2>2, <2>4 DEF ManifestPins, Present
  <2> QED
    BY <2>2, <2>3, <2>5
<1>3. F!LoadedIsTheObservation
  BY <1>2, SameFormat DEF F!LoadedIsTheObservation
<1>4. TruthFromWholeRuns
  BY <1>2 DEF TruthFromWholeRuns, Observed
<1> QED
  BY <1>1, <1>3, <1>4 DEF FixtureIsTruth

(* What gates the engine is one observation of a run that worked, whatever *)
(* the runs left, the download cut, an interruption tore, a second fill    *)
(* mixed or somebody edited (fill_parity_fixture, load_case).              *)
THEOREM FixturesAreTruth == PipelineSpec => []FixtureIsTruth
<1>1. PipelineInit => PipelineInv
  BY SweepInit, FixtureInit DEF PipelineInv
<1>2. PipelineInv /\ [PipelineNext]_<<vars, fixtureVars>> => PipelineInv'
  BY PipelineStep
<1>3. PipelineInv => FixtureIsTruth
  BY InvImpliesTruth
<1> QED
  BY <1>1, <1>2, <1>3, PTL DEF PipelineSpec

-----------------------------------------------------------------------------
(* The judges of dumps.  A dump that was read is rows of equal width.      *)
ADump(d) ==
    /\ d.frames \in Nat \ {0} /\ d.spk \in Nat \ {0}
    /\ d.values \in Seq(Int) /\ Len(d.values) = d.frames * d.spk
    /\ d = [frames |-> d.frames, spk |-> d.spk, values |-> d.values]

\* Without a gap, the running maximum and the running sum are 0.
LEMMA NoGapNoMetric ==
    ASSUME NEW gaps, IsFiniteSet(DOMAIN gaps), \A i \in DOMAIN gaps : gaps[i] = 0
    PROVE  F!Peak(gaps) = 0 /\ F!Total(gaps) = 0
<1> DEFINE D       == DOMAIN gaps
           pick    == [s \in SUBSET D |-> CHOOSE x \in s : TRUE]
           PeakOf(it) == [s \in SUBSET D |->
               IF s = {} THEN 0
               ELSE IF F!Above(gaps[CHOOSE x \in s : TRUE], it[s \ {CHOOSE x \in s : TRUE}])
                    THEN gaps[CHOOSE x \in s : TRUE] ELSE it[s \ {CHOOSE x \in s : TRUE}]]
           TotalOf(it) == [s \in SUBSET D |->
               IF s = {} THEN 0
               ELSE IF F!IsNaN(gaps[CHOOSE x \in s : TRUE]) \/ F!IsNaN(it[s \ {CHOOSE x \in s : TRUE}])
                    THEN F!NaN ELSE gaps[CHOOSE x \in s : TRUE] + it[s \ {CHOOSE x \in s : TRUE}]]
           P == CHOOSE it : it = PeakOf(it)
           S == CHOOSE it : it = TotalOf(it)
           zero == [s \in SUBSET D |-> 0]
<1>1. F!Peak(gaps) = P[D]
  BY DEF F!Peak, F!FoldSeq, F!FoldFunction, F!FoldFunctionOnSet, F!MapThenFoldSet
<1>2. F!Total(gaps) = S[D]
  BY DEF F!Total, F!FoldSeq, F!FoldFunction, F!FoldFunctionOnSet, F!MapThenFoldSet
<1>3. \A s \in SUBSET D : s # {} =>
         (CHOOSE x \in s : TRUE) \in s /\ gaps[CHOOSE x \in s : TRUE] = 0
  OBVIOUS
<1>4. ASSUME NEW s \in SUBSET D, s # {}
      PROVE  s \ {CHOOSE x \in s : TRUE} \in SUBSET D
  OBVIOUS
<1>5. zero = PeakOf(zero)
  <2>1. \A s \in SUBSET D : zero[s] = PeakOf(zero)[s]
    BY <1>3, <1>4
  <2> QED
    BY <2>1
<1>6. zero = TotalOf(zero)
  <2>1. \A s \in SUBSET D : zero[s] = TotalOf(zero)[s]
    BY <1>3, <1>4 DEF F!IsNaN, F!NaN
  <2> QED
    BY <2>1
<1> HIDE DEF zero
<1>7. P = PeakOf(P)
  BY <1>5
<1>8. S = TotalOf(S)
  BY <1>6
<1> HIDE DEF P, S
<1>9. P[D] = 0
  <2> DEFINE G == {s \in SUBSET D : P[s] = 0}
  <2>1. {} \in G
    BY <1>7
  <2>2. ASSUME NEW s \in SUBSET D, s # {}
        PROVE  \E x \in s : s \ {x} \in G => s \in G
    <3>1. PICK x \in s : x = CHOOSE y \in s : TRUE
      BY <2>2
    <3>2. gaps[x] = 0
      BY <3>1
    <3>3. P[s] = PeakOf(P)[s]
      BY <1>7
    <3> QED
      BY <2>2, <3>1, <3>2, <3>3
  <2>3. \A s \in SUBSET D : s \in G
    <3> HIDE DEF G
    <3> QED
      BY <2>1, <2>2, FromEmpty
  <2> QED
    BY <2>3
<1>10. S[D] = 0
  <2> DEFINE G == {s \in SUBSET D : S[s] = 0}
  <2>1. {} \in G
    BY <1>8
  <2>2. ASSUME NEW s \in SUBSET D, s # {}
        PROVE  \E x \in s : s \ {x} \in G => s \in G
    <3>1. PICK x \in s : x = CHOOSE y \in s : TRUE
      BY <2>2
    <3>2. gaps[x] = 0
      BY <3>1
    <3>3. S[s] = TotalOf(S)[s]
      BY <1>8
    <3>4. S[s] = IF F!IsNaN(gaps[x]) \/ F!IsNaN(S[s \ {x}])
                 THEN F!NaN ELSE gaps[x] + S[s \ {x}]
      BY <2>2, <3>1, <3>3, Zenon
    <3>5. S[s \ {x}] = 0 => S[s] = 0
      BY <3>2, <3>4 DEF F!IsNaN, F!NaN
    <3> QED
      BY <2>2, <3>5
  <2>3. \A s \in SUBSET D : s \in G
    <3> HIDE DEF G
    <3> QED
      BY <2>1, <2>2, FromEmpty
  <2> QED
    BY <2>3
<1> QED
  BY <1>1, <1>2, <1>9, <1>10

\* A row of a dump: as wide as there are speakers, and out of its values.
LEMMA RowIsSlice ==
    ASSUME NEW d, ADump(d), NEW f \in 1 .. d.frames
    PROVE  /\ Len(F!Row(d, f)) = d.spk
           /\ DOMAIN F!Row(d, f) = 1 .. d.spk
           /\ \A j \in 1 .. d.spk : (f - 1) * d.spk + j \in DOMAIN d.values
           /\ \A j \in 1 .. d.spk : F!Row(d, f)[j] = d.values[(f - 1) * d.spk + j]
<1> DEFINE at == (f - 1) * d.spk
           n  == d.spk
           v  == d.values
<1>1. /\ at \in Nat /\ n \in Nat \ {0} /\ v \in Seq(Int) /\ f * d.spk = at + n
      /\ at + n <= Len(v) /\ Len(v) \in Nat
  <2>1. f \in Nat /\ f >= 1 /\ d.frames \in Nat /\ d.spk \in Nat \ {0}
    BY DEF ADump
  <2>2. at \in Nat /\ f * d.spk = at + n
    BY <2>1
  <2>3. (d.frames - f) * d.spk >= 0 /\ (d.frames - f) * d.spk = d.frames * d.spk - f * d.spk
    BY <2>1
  <2>4. f * d.spk \in Nat /\ d.frames * d.spk \in Nat
    BY <2>1
  <2>5. f * d.spk <= d.frames * d.spk
    BY <2>3, <2>4
  <2> QED
    BY <2>1, <2>2, <2>4, <2>5 DEF ADump
<1>2. F!Row(d, f) = SubSeq(v, at + 1, at + n)
  BY <1>1 DEF F!Row
<1>3. \A j \in 1 .. n : at + j \in DOMAIN v
  BY <1>1
<1> HIDE DEF at, n, v
<1>4. /\ Len(SubSeq(v, at + 1, at + n)) = n
      /\ DOMAIN SubSeq(v, at + 1, at + n) = 1 .. n
      /\ \A j \in 1 .. n : SubSeq(v, at + 1, at + n)[j] = v[at + j]
  <2>1. /\ at + 1 \in Int /\ at + n \in Int
        /\ at + 1 <= at + n /\ at + n - (at + 1) + 1 = n
        /\ \A j \in 1 .. n : at + 1 + j - 1 = at + j
    BY <1>1
  <2>2. \A i \in at + 1 .. at + n : v[i] \in Int
    BY <1>1
  <2> QED
    BY <1>1, <2>1, <2>2, SubSeqProperties
<1> QED
  BY <1>2, <1>3, <1>4 DEF at, n, v

\* Rows equal as floats have the same strongest speaker.
LEMMA SameArgmax ==
    ASSUME NEW n \in Nat, NEW a, NEW b, DOMAIN a = 1 .. n, DOMAIN b = 1 .. n,
           \A j \in 1 .. n : F!FEq(a[j], b[j])
    PROVE  F!GateArgmax(a) = F!GateArgmax(b)
<1> DEFINE Best(r, i) == /\ \A j \in 1 .. n : ~F!Above(r[j], r[i])
                         /\ \A j \in 1 .. i - 1 : ~F!FEq(r[j], r[i])
                         /\ ~F!IsNaN(r[i])
<1>1. \A j \in 1 .. n : /\ F!IsNaN(a[j]) <=> F!IsNaN(b[j])
                        /\ F!Value(a[j]) = F!Value(b[j])
  BY DEF F!FEq
<1>2. \A i, j \in 1 .. n : /\ F!Above(a[j], a[i]) <=> F!Above(b[j], b[i])
                           /\ F!FEq(a[j], a[i]) <=> F!FEq(b[j], b[i])
  BY <1>1 DEF F!Above, F!FEq
<1>3. \A i \in 1 .. n : Best(a, i) <=> Best(b, i)
  <2> TAKE i \in 1 .. n
  <2>1. \A j \in 1 .. i - 1 : j \in 1 .. n
    OBVIOUS
  <2> QED
    BY <1>1, <1>2, <2>1
<1>4. /\ F!FirstBest(a) = CHOOSE i \in 1 .. n : Best(a, i)
      /\ F!FirstBest(b) = CHOOSE i \in 1 .. n : Best(b, i)
  BY DEF F!FirstBest
<1> HIDE DEF Best
<1>5. F!FirstBest(a) = F!FirstBest(b)
  BY <1>3, <1>4
<1> QED
  BY <1>1, <1>5 DEF F!GateArgmax

\* Without NaN the two ways to start a maximum come to the same speaker.
LEMMA PyIsGate ==
    ASSUME NEW r, NEW n \in Nat \ {0}, DOMAIN r = 1 .. n, \A j \in 1 .. n : ~F!IsNaN(r[j])
    PROVE  F!PyArgmax(r) = F!GateArgmax(r)
<1>1. 1 \in DOMAIN r
  OBVIOUS
<1> QED
  BY <1>1 DEF F!PyArgmax, F!GateArgmax

\* The engine's output in the shape of the fixture is a dump.
LEMMA OutputIsADump ==
    ASSUME NEW d, ADump(d), NEW actual \in Seq(Int), Len(actual) = Len(d.values)
    PROVE  LET a == [d EXCEPT !.values = actual]
           IN  ADump(a) /\ a.frames = d.frames /\ a.spk = d.spk /\ a.values = actual
<1> DEFINE a == [d EXCEPT !.values = actual]
<1>1. /\ a.frames = d.frames /\ a.spk = d.spk /\ a.values = actual
      /\ a = [frames |-> a.frames, spk |-> a.spk, values |-> a.values]
  BY DEF ADump
<1> HIDE DEF a
<1>2. ADump(a)
  BY <1>1 DEF ADump
<1> QED
  BY <1>1, <1>2 DEF a

\* All frames agree when every row has the same strongest speaker.
LEMMA AllAgree ==
    ASSUME NEW n \in Nat, NEW S, S = 1 .. n
    PROVE  Cardinality(S) = n
<1>1. n = IF 1 > n THEN 0 ELSE n - 1 + 1
  OBVIOUS
<1> QED
  BY <1>1, FS_Interval

\* The fixture's module counts with a copy of Cardinality.
LEMMA AgreementCounts ==
    ASSUME NEW x, NEW y
    PROVE  /\ F!Agreement(x, y, F!GateArgmax) =
                 Cardinality({f \in 1 .. x.frames :
                                F!GateArgmax(F!Row(x, f)) = F!GateArgmax(F!Row(y, f))})
           /\ F!Agreement(x, y, F!PyArgmax) =
                 Cardinality({f \in 1 .. x.frames :
                                F!PyArgmax(F!Row(x, f)) = F!PyArgmax(F!Row(y, f))})
<1>1. \A S : F!Cardinality(S) = Cardinality(S)
  BY DEF F!Cardinality, Cardinality
<1> QED
  BY <1>1 DEF F!Agreement

LEMMA EqualDumpsHaveNoMetric ==
    ASSUME NEW d, ADump(d), NEW actual \in Seq(Int), F!SameValues(actual, d.values)
    PROVE  LET m == F!GateMetrics(actual, d)
           IN  m.max_abs = 0 /\ m.total = 0 /\ m.agree = d.frames
<1> DEFINE a    == [d EXCEPT !.values = actual]
           gaps == F!Gaps(actual, d.values)
           m    == F!GateMetrics(actual, d)
           same == {f \in 1 .. a.frames : F!GateArgmax(F!Row(a, f)) = F!GateArgmax(F!Row(d, f))}
<1>1. /\ Len(actual) = Len(d.values) /\ DOMAIN actual = DOMAIN d.values
      /\ DOMAIN actual = 1 .. Len(actual) /\ Len(actual) \in Nat
      /\ \A i \in DOMAIN actual : F!FEq(actual[i], d.values[i])
  BY DEF F!SameValues, ADump
<1>2. /\ ADump(a) /\ a.frames = d.frames /\ a.spk = d.spk /\ a.values = actual
      /\ d.frames \in Nat /\ d.spk \in Nat
  BY <1>1, OutputIsADump DEF ADump
<1>3. /\ m.max_abs = F!Peak(gaps) /\ m.total = F!Total(gaps) /\ m.agree = Cardinality(same)
  BY AgreementCounts DEF F!GateMetrics
<1> HIDE DEF a, m
<1>4. DOMAIN gaps = 1 .. Len(actual) /\ \A i \in DOMAIN gaps : gaps[i] = 0
  <2>1. ASSUME NEW i \in DOMAIN actual PROVE F!Gap(actual[i], d.values[i]) = 0
    <3>1. /\ F!FEq(actual[i], d.values[i]) /\ actual[i] \in Int /\ d.values[i] \in Int
      BY <1>1 DEF ADump
    <3> QED
      BY <3>1 DEF F!FEq, F!Gap, F!Value, F!NegZero
  <2> QED
    BY <1>1, <2>1 DEF F!Gaps
<1>5. IsFiniteSet(DOMAIN gaps)
  <2>1. IsFiniteSet(1 .. Len(actual))
    BY <1>1, FS_Interval
  <2> QED
    BY <1>4, <2>1
<1> HIDE DEF gaps
<1>6. F!Peak(gaps) = 0 /\ F!Total(gaps) = 0
  BY <1>4, <1>5, NoGapNoMetric
<1>7. ASSUME NEW f \in 1 .. d.frames
      PROVE  F!GateArgmax(F!Row(a, f)) = F!GateArgmax(F!Row(d, f))
  <2>1. /\ DOMAIN F!Row(a, f) = 1 .. d.spk /\ DOMAIN F!Row(d, f) = 1 .. d.spk
        /\ \A j \in 1 .. d.spk :
              /\ (f - 1) * d.spk + j \in DOMAIN d.values
              /\ F!Row(a, f)[j] = actual[(f - 1) * d.spk + j]
              /\ F!Row(d, f)[j] = d.values[(f - 1) * d.spk + j]
    BY <1>2, RowIsSlice
  <2>2. \A j \in 1 .. d.spk : F!FEq(F!Row(a, f)[j], F!Row(d, f)[j])
    BY <1>1, <2>1
  <2> QED
    BY <1>2, <2>1, <2>2, SameArgmax
<1>8. same = 1 .. d.frames
  BY <1>2, <1>7
<1> HIDE DEF same
<1>9. Cardinality(same) = d.frames
  BY <1>2, <1>8, AllAgree
<1> QED
  BY <1>3, <1>6, <1>9 DEF m

\* What the exact gate passes is within every tolerance.
LEMMA ExactIsTolerated ==
    ASSUME NEW d, ADump(d), NEW actual \in Seq(Int), F!SameValues(actual, d.values)
    PROVE  F!Gate(actual, d, "tolerance")
<1> DEFINE m == F!GateMetrics(actual, d)
<1>1. m.max_abs = 0 /\ m.total = 0 /\ m.agree = d.frames
  BY EqualDumpsHaveNoMetric
<1> HIDE DEF m
<1>2. Len(actual) = Len(d.values) /\ Len(d.values) \in Nat
  BY DEF F!SameValues, ADump
<1>3. d.frames \in Nat /\ Grid \in Nat
  BY GridAssumption DEF ADump
<1>4. /\ 1000 * m.agree >= F!AgreementMin * d.frames
      /\ 1000 * m.max_abs <= F!MaxAbsMax * Grid
  BY <1>1, <1>3 DEF F!AgreementMin, F!MaxAbsMax
<1>5. 1000 * m.total <= F!MeanAbsMax * Grid * Len(d.values)
  <2>1. 5 * Grid \in Nat /\ F!MeanAbsMax = 5
    BY <1>3 DEF F!MeanAbsMax
  <2>2. 5 * Grid * Len(d.values) >= 0
    BY <1>2, <2>1
  <2> QED
    BY <1>1, <2>1, <2>2
<1>6. F!Tolerated(m, d.frames, Len(d.values))
  BY <1>4, <1>5 DEF F!Tolerated
<1> QED
  BY <1>2, <1>6 DEF F!Gate, m

\* Gate and probdiff compute the same metrics of values without NaN.
LEMMA SameMetrics ==
    ASSUME NEW d, ADump(d), NEW actual \in Seq(Int), Len(actual) = Len(d.values),
           \A i \in DOMAIN actual : ~F!IsNaN(actual[i]),
           \A i \in DOMAIN d.values : ~F!IsNaN(d.values[i])
    PROVE  LET p == F!ProbDiff([d EXCEPT !.values = actual], d)
               m == F!GateMetrics(actual, d)
           IN  p.max_abs = m.max_abs /\ p.total = m.total /\ p.agree = m.agree
<1> DEFINE a == [d EXCEPT !.values = actual]
           p == F!ProbDiff(a, d)
           m == F!GateMetrics(actual, d)
<1>1. /\ ADump(a) /\ a.frames = d.frames /\ a.spk = d.spk /\ a.values = actual
      /\ d.frames \in Nat /\ d.spk \in Nat \ {0} /\ DOMAIN actual = DOMAIN d.values
  <2>1. d.frames \in Nat /\ d.spk \in Nat \ {0} /\ DOMAIN actual = DOMAIN d.values
    BY DEF ADump
  <2> QED
    BY <2>1, OutputIsADump
<1>2. CASE F!SameValues(actual, d.values)
  <2>1. p.max_abs = 0 /\ p.total = 0 /\ p.agree = d.frames
    <3> HIDE DEF a
    <3> QED
      BY <1>1, <1>2 DEF F!ProbDiff
  <2>2. m.max_abs = 0 /\ m.total = 0 /\ m.agree = d.frames
    BY <1>2, EqualDumpsHaveNoMetric
  <2> HIDE DEF p, m, a
  <2>3. p.max_abs = m.max_abs /\ p.total = m.total /\ p.agree = m.agree
    BY <2>1, <2>2
  <2> QED
    BY <2>3 DEF p, m, a
<1>3. CASE ~F!SameValues(actual, d.values)
  <2>1. ASSUME NEW x, ADump(x), x.spk = d.spk, x.frames = d.frames,
               \A i \in DOMAIN x.values : ~F!IsNaN(x.values[i]),
               NEW f \in 1 .. d.frames
        PROVE  F!PyArgmax(F!Row(x, f)) = F!GateArgmax(F!Row(x, f))
    <3>1. /\ DOMAIN F!Row(x, f) = 1 .. d.spk
          /\ \A j \in 1 .. d.spk :
                /\ (f - 1) * d.spk + j \in DOMAIN x.values
                /\ F!Row(x, f)[j] = x.values[(f - 1) * d.spk + j]
      BY <2>1, RowIsSlice
    <3>2. \A j \in 1 .. d.spk : ~F!IsNaN(F!Row(x, f)[j])
      BY <2>1, <3>1
    <3> QED
      BY <1>1, <3>1, <3>2, PyIsGate
  <2>2. \A f \in 1 .. d.frames :
          /\ F!PyArgmax(F!Row(a, f)) = F!GateArgmax(F!Row(a, f))
          /\ F!PyArgmax(F!Row(d, f)) = F!GateArgmax(F!Row(d, f))
    <3> HIDE DEF a
    <3> QED
      BY <1>1, <2>1
  <2>3. {f \in 1 .. a.frames : F!PyArgmax(F!Row(a, f)) = F!PyArgmax(F!Row(d, f))}
        = {f \in 1 .. a.frames : F!GateArgmax(F!Row(a, f)) = F!GateArgmax(F!Row(d, f))}
    <3> HIDE DEF a
    <3> QED
      BY <1>1, <2>2
  <2>4. /\ p.max_abs = F!Peak(F!Gaps(actual, d.values))
        /\ p.total = F!Total(F!Gaps(actual, d.values))
        /\ p.agree = Cardinality({f \in 1 .. a.frames :
                                    F!PyArgmax(F!Row(a, f)) = F!PyArgmax(F!Row(d, f))})
    <3> HIDE DEF a
    <3> QED
      BY <1>1, <1>3, AgreementCounts DEF F!ProbDiff
  <2>5. /\ m.max_abs = F!Peak(F!Gaps(actual, d.values))
        /\ m.total = F!Total(F!Gaps(actual, d.values))
        /\ m.agree = Cardinality({f \in 1 .. a.frames :
                                    F!GateArgmax(F!Row(a, f)) = F!GateArgmax(F!Row(d, f))})
    BY AgreementCounts DEF F!GateMetrics
  <2> HIDE DEF p, m, a
  <2>6. p.max_abs = m.max_abs /\ p.total = m.total /\ p.agree = m.agree
    BY <2>3, <2>4, <2>5
  <2> QED
    BY <2>6 DEF p, m, a
<1> QED
  BY <1>2, <1>3

-----------------------------------------------------------------------------
(* What the gate is asked about: a fixture that loaded is a dump, since a  *)
(* run wrote it, and the verdict kept is of it.                            *)
Words(file) == Present(file) => The(file) \in Seq(Int)

RunsLeaveWords ==
    /\ \A i \in 1 .. Len(disk) : Words(disk[i].dump)
    /\ pc = "judge" => 1 \in 1 .. Len(disk)
    /\ \A e \in Range(sweep) : Words(e.runs[1].dump)

GateIsOfADump ==
    F!Present(gate) =>
        LET g == F!The(gate)
        IN  /\ ADump(g.fixture) /\ g.actual \in Seq(Int)
            /\ g.pass <=> F!Gate(g.actual, g.fixture, g.mode)

GateInv == PipelineInv /\ RunsLeaveWords /\ GateIsOfADump

\* A reader of a whole file gets a dump.
LEMMA ReadIsADump ==
    ASSUME NEW file \in Seq(Int), ReadProbdump(file) # None
    PROVE  ADump(The(ReadProbdump(file)))
<1> DEFINE n == file[1] * file[3]
           d == [frames |-> file[1], spk |-> file[3], values |-> SubSeq(file, 3 + 1, 3 + n)]
<1>1. WellFormed(file) /\ ReadProbdump(file) = Some(d)
  BY Files DEF ReadProbdump, HeaderWords
<1>2. /\ Len(file) \in Nat /\ Len(file) >= 3 /\ file[1] > 0 /\ file[3] > 0
      /\ Len(file) >= 3 + n
  BY <1>1 DEF WellFormed, HeaderWords
<1>3. file[1] \in Nat \ {0} /\ file[3] \in Nat \ {0}
  BY <1>2
<1>4. n \in Nat \ {0}
  BY <1>3
<1> HIDE DEF n
<1>5. /\ SubSeq(file, 3 + 1, 3 + n) \in Seq(Int)
      /\ Len(SubSeq(file, 3 + 1, 3 + n)) = n
  <2> DEFINE low == 3 + 1
             top == 3 + n
  <2>1. /\ low \in Int /\ top \in Int /\ low <= top /\ top - low + 1 = n
        /\ \A i \in low .. top : file[i] \in Int
    BY <1>2, <1>4
  <2> HIDE DEF low, top
  <2>2. SubSeq(file, low, top) \in Seq(Int) /\ Len(SubSeq(file, low, top)) = n
    BY <2>1, SubSeqProperties
  <2> QED
    BY <2>2 DEF low, top
<1>6. ADump(d)
  BY <1>3, <1>5 DEF ADump, n
<1> HIDE DEF d
<1> QED
  BY <1>1, <1>6, Files

LEMMA RunsLeaveWordsStep ==
    ASSUME SweepInv, RunsLeaveWords, [PipelineNext]_<<vars, fixtureVars>>
    PROVE  RunsLeaveWords'
<1> USE DEF RunsLeaveWords
<1>0. /\ ASequence(disk) /\ ASequence(sweep) /\ Len(disk) \in Nat
  <2>1. ASequence(disk) /\ ASequence(sweep)
    BY DEF SweepInv, SweepCounts
  <2> QED
    BY <2>1, Appending
<1>1. CASE Rep
  <2>1. PICK child \in Children :
          disk' = Append(disk, [dump |-> DumpOf(child), rttm |-> child.body,
                                rc |-> child.rc])
    BY <1>1 DEF Rep
  <2>2. Words(DumpOf(child))
    BY SweepAssumption, Files DEF Words, DumpOf, Present
  <2>3. /\ Len(disk') = Len(disk) + 1
        /\ \A i \in 1 .. Len(disk) : disk'[i] = disk[i]
        /\ disk'[Len(disk) + 1].dump = DumpOf(child)
    BY <1>0, <2>1, Appending
  <2>4. \A i \in 1 .. Len(disk') : Words(disk'[i].dump)
    <3> TAKE i \in 1 .. Len(disk')
    <3>1. i \in 1 .. Len(disk) \/ i = Len(disk) + 1
      BY <1>0, <2>3
    <3> QED
      BY <2>2, <2>3, <3>1
  <2>5. 1 \in 1 .. Len(disk') /\ sweep' = sweep
    BY <1>0, <1>1, <2>3 DEF Rep
  <2> QED
    BY <2>4, <2>5
<1>2. CASE Judge
  <2>1. PICK e : sweep' = Append(sweep, e) /\ e.runs = disk
    BY <1>2, JudgedEntry
  <2>2. /\ disk' = disk /\ pc = "judge" /\ pc' = "export"
    BY <1>2 DEF Judge
  <2>3. Range(sweep') = Range(sweep) \cup {e}
    BY <1>0, <2>1, Appending
  <2>4. Words(e.runs[1].dump)
    BY <2>1, <2>2
  <2> QED
    BY <2>2, <2>3, <2>4
<1>3. CASE Export
  <2>1. disk' = << >> /\ sweep' = sweep /\ pc' # "judge"
    BY <1>3 DEF Export
  <2>2. \A i \in 1 .. Len(disk') : FALSE
    BY <2>1
  <2> QED
    BY <2>1, <2>2
<1>4. CASE UNCHANGED vars
  BY <1>4 DEF vars
<1> QED
  BY <1>1, <1>2, <1>3, <1>4 DEF PipelineNext, Session

\* What loads is a dump.
LEMMA LoadedIsADump ==
    ASSUME PipelineInv, RunsLeaveWords, F!Present(F!Loaded)
    PROVE  ADump(F!The(F!Loaded))
<1>1. FixtureIsTruth
  BY InvImpliesTruth
<1>2. Present(F!Loaded) /\ F!Loaded = ReadProbdump(The(probs))
  BY <1>1, SameFormat DEF FixtureIsTruth, F!LoadedIsTheObservation
<1>3. PICK e \in Range(sweep) : e.runs[1].dump = probs
  BY <1>1, <1>2 DEF FixtureIsTruth, TruthFromWholeRuns
<1>4. Present(probs)
  <2>1. F!Loaded # F!None
    BY <1>2, SameFormat DEF Present
  <2> QED
    BY <2>1, SameFormat DEF F!Loaded, F!LoadCase
<1>5. The(probs) \in Seq(Int)
  BY <1>3, <1>4 DEF RunsLeaveWords, Words
<1>6. ReadProbdump(The(probs)) # None
  BY <1>2 DEF Present
<1> QED
  BY <1>2, <1>5, <1>6, ReadIsADump, SameFormat

LEMMA GateIsOfADumpStep ==
    ASSUME PipelineInv, RunsLeaveWords, GateIsOfADump, [PipelineNext]_<<vars, fixtureVars>>
    PROVE  GateIsOfADump'
<1>1. CASE UNCHANGED gate
  BY <1>1 DEF GateIsOfADump
<1>2. CASE F!RunGate
  <2>1. F!Present(F!Loaded)
    BY <1>2 DEF F!RunGate, F!Loaded
  <2>2. PICK actual \in Outputs, mode \in {"exact", "tolerance"} :
          gate' = F!Some([actual |-> actual, mode |-> mode, fixture |-> F!The(F!Loaded),
                          source |-> F!The(manifest).source,
                          pass |-> F!Gate(actual, F!The(F!Loaded), mode)])
    BY <1>2 DEF F!RunGate, F!Loaded
  <2> DEFINE g == [actual |-> actual, mode |-> mode, fixture |-> F!The(F!Loaded),
                   source |-> F!The(manifest).source,
                   pass |-> F!Gate(actual, F!The(F!Loaded), mode)]
  <2>3. /\ g.actual = actual /\ g.mode = mode /\ g.fixture = F!The(F!Loaded)
        /\ g.pass <=> F!Gate(actual, F!The(F!Loaded), mode)
    BY Zenon
  <2>4. gate' = F!Some(g)
    BY <2>2
  <2> HIDE DEF g
  <2>5. F!The(gate') = g
    BY <2>4, Files, SameFormat
  <2>6. ADump(g.fixture) /\ g.actual \in Seq(Int)
    BY <2>1, <2>3, LoadedIsADump, OutputsAssumption
  <2>7. g.pass <=> F!Gate(g.actual, g.fixture, g.mode)
    BY <2>3
  <2> QED
    BY <2>5, <2>6, <2>7 DEF GateIsOfADump
<1> QED
  BY <1>1, <1>2 DEF PipelineNext, Download, fixtureVars, F!Next, F!Start, F!WriteProbs,
       F!WriteManifest, F!SelfCheck, F!Finish, F!Crash, F!Edit

LEMMA GateInvImplies == GateInv => GatesAgree
<1> SUFFICES ASSUME GateInv PROVE GatesAgree
  OBVIOUS
<1> DEFINE g == F!The(gate)
<1>1. F!Present(gate) =>
        /\ ADump(g.fixture) /\ g.actual \in Seq(Int)
        /\ g.pass <=> F!Gate(g.actual, g.fixture, g.mode)
  BY DEF GateInv, GateIsOfADump
<1> HIDE DEF g
<1>2. ASSUME F!Present(gate), g.mode = "exact", g.pass
      PROVE  F!Gate(g.actual, g.fixture, "tolerance")
  <2>1. F!SameValues(g.actual, g.fixture.values)
    BY <1>1, <1>2 DEF F!Gate
  <2> QED
    BY <1>1, <1>2, <2>1, ExactIsTolerated
<1>3. F!ExactIsTighter
  BY <1>2 DEF F!ExactIsTighter, g
<1>4. F!GateAgreesWithProbdiff
  BY <1>1, SameMetrics DEF F!GateAgreesWithProbdiff, g
<1> QED
  BY <1>3, <1>4 DEF GatesAgree

(* The two judges of a dump agree: what the exact gate passes the          *)
(* tolerance gate passes, and the gate in parity/ and probdiff in the      *)
(* harness compute the same metrics of outputs without NaN, for any grid,  *)
(* fixture and output (frame_probs_gate, probdiff).                        *)
THEOREM GatesAlwaysAgree == PipelineSpec => []GatesAgree
<1>1. PipelineInit => GateInv
  <2> SUFFICES ASSUME PipelineInit PROVE GateInv
    OBVIOUS
  <2>1. PipelineInv
    BY SweepInit, FixtureInit DEF PipelineInv
  <2>2. disk = << >> /\ sweep = << >> /\ pc = "rep" /\ gate = F!None
    BY DEF PipelineInit, Init, F!Init
  <2>3. RunsLeaveWords
    BY <2>2, Empty DEF RunsLeaveWords
  <2>4. GateIsOfADump
    BY <2>2 DEF GateIsOfADump, F!Present
  <2> QED
    BY <2>1, <2>3, <2>4 DEF GateInv
<1>2. GateInv /\ [PipelineNext]_<<vars, fixtureVars>> => GateInv'
  BY PipelineStep, RunsLeaveWordsStep, GateIsOfADumpStep DEF GateInv, PipelineInv
<1>3. GateInv => GatesAgree
  BY GateInvImplies
<1> QED
  BY <1>1, <1>2, <1>3, PTL DEF PipelineSpec

=============================================================================
