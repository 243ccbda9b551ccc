-------------------------- MODULE BenchSessionProofs --------------------------
(***************************************************************************)
(* Proofs about the benchmark session: for any upstream sources, any       *)
(* command that fails, any number of measurements, runs and samples, and   *)
(* any recordings.                                                         *)
(***************************************************************************)
EXTENDS BenchSession, SelectionProofs, TLAPS

-----------------------------------------------------------------------------
(* The build: what the patch leaves in a source.                           *)

\* The pieces a source is made of, wherever they are.
Pieces(text) == {text[k] : k \in DOMAIN text}

LEMMA Counting ==
    ASSUME NEW Piece, NEW text \in Seq(Piece), NEW p
    PROVE  /\ Build!Count(text, p) \in Nat
           /\ Build!Count(text, p) > 0 <=> p \in Pieces(text)
<1> DEFINE S == {k \in DOMAIN text : text[k] = p}
<1>1. DOMAIN text = 1 .. Len(text) /\ Len(text) \in Nat
  OBVIOUS
<1>2. IsFiniteSet(1 .. Len(text))
  BY <1>1, FS_Interval
<1>3. IsFiniteSet(S)
  BY <1>1, <1>2, FS_Subset
<1>4. Cardinality(S) \in Nat /\ (Cardinality(S) = 0 <=> S = {})
  BY <1>3, FS_CardinalityType, FS_EmptySet
<1>5. Build!Count(text, p) = Cardinality(S)
  BY DEF Build!Count, Build!Cardinality, Cardinality
<1> QED
  BY <1>4, <1>5 DEF Pieces

LEMMA Joining ==
    ASSUME NEW Piece, NEW a \in Seq(Piece), NEW b \in Seq(Piece)
    PROVE  /\ a \o b \in Seq(Piece) /\ Len(a \o b) = Len(a) + Len(b)
           /\ \A k \in 1 .. Len(a) : (a \o b)[k] = a[k]
           /\ \A k \in 1 .. Len(b) : (a \o b)[Len(a) + k] = b[k]
  OBVIOUS

\* The piece that is replaced goes, the others stay, the new ones come.
LEMMA Replacing ==
    ASSUME NEW Piece, NEW text \in Seq(Piece), NEW p, NEW new \in Seq(Piece)
    PROVE  LET result == Build!ReplaceFirst(text, p, new) IN
           /\ result \in Seq(Piece)
           /\ Pieces(text) \ {p} \subseteq Pieces(result)
           /\ p \in Pieces(text) => Pieces(new) \subseteq Pieces(result)
<1> DEFINE result == Build!ReplaceFirst(text, p, new)
<1>1. CASE p \notin Pieces(text)
  <2>1. Build!Count(text, p) = 0
    BY <1>1, Counting
  <2>2. result = text
    BY <2>1 DEF Build!ReplaceFirst
  <2> QED
    BY <1>1, <2>2
<1>2. CASE p \in Pieces(text)
  <2> DEFINE S == {k \in DOMAIN text : text[k] = p}
             f == Build!FirstAt(text, p)
  <2>1. PICK least \in S : \A k \in S : least <= k
    <3>1. S \subseteq Nat /\ S # {}
      BY <1>2 DEF Pieces
    <3> QED
      BY <3>1, LeastNat
  <2>2. \A k \in 1 .. least - 1 : text[k] # p
    BY <2>1
  <2>3. f \in DOMAIN text /\ text[f] = p
    BY <2>1, <2>2 DEF Build!FirstAt
  <2> HIDE DEF f
  <2> DEFINE before == SubSeq(text, 1, f - 1)
             after  == SubSeq(text, f + 1, Len(text))
  <2>4. result = before \o new \o after
    <3>1. Build!Count(text, p) # 0
      BY <1>2, Counting
    <3> QED
      BY <3>1 DEF Build!ReplaceFirst, f
  <2>5. f \in 1 .. Len(text) /\ Len(text) \in Nat
    BY <2>3
  <2>6. /\ before \in Seq(Piece) /\ Len(before) = f - 1
        /\ \A k \in 1 .. f - 1 : before[k] = text[k]
    BY <2>5
  <2>7. /\ after \in Seq(Piece) /\ Len(after) = Len(text) - f
        /\ \A k \in 1 .. Len(text) - f : after[k] = text[f + k]
    BY <2>5
  <2> HIDE DEF before, after
  <2>8. /\ result \in Seq(Piece)
        /\ Len(result) = (f - 1) + Len(new) + (Len(text) - f)
        /\ \A k \in 1 .. f - 1 : result[k] = before[k]
        /\ \A k \in 1 .. Len(new) : result[f - 1 + k] = new[k]
        /\ \A k \in 1 .. Len(text) - f : result[f - 1 + Len(new) + k] = after[k]
    <3> DEFINE start == before \o new
    <3>1. /\ start \in Seq(Piece) /\ Len(start) = (f - 1) + Len(new)
          /\ \A k \in 1 .. f - 1 : start[k] = before[k]
          /\ \A k \in 1 .. Len(new) : start[f - 1 + k] = new[k]
      BY <2>5, <2>6
    <3>2. result = start \o after
      BY <2>4
    <3> HIDE DEF start
    <3>3. Len(new) \in Nat
      OBVIOUS
    <3> HIDE DEF result
    <3>4. /\ result \in Seq(Piece) /\ Len(result) = Len(start) + Len(after)
          /\ \A k \in 1 .. Len(start) : result[k] = start[k]
          /\ \A k \in 1 .. Len(after) : result[Len(start) + k] = after[k]
      <4>1. start \in Seq(Piece) /\ after \in Seq(Piece)
        BY <2>7, <3>1
      <4>2. /\ start \o after \in Seq(Piece)
            /\ Len(start \o after) = Len(start) + Len(after)
            /\ \A k \in 1 .. Len(start) : (start \o after)[k] = start[k]
            /\ \A k \in 1 .. Len(after) : (start \o after)[Len(start) + k] = after[k]
        BY <4>1, Joining
      <4> QED
        BY <3>2, <4>2
    <3>5. /\ \A k \in 1 .. f - 1 : k \in 1 .. Len(start)
          /\ \A k \in 1 .. Len(new) : f - 1 + k \in 1 .. Len(start)
      BY <2>5, <3>1, <3>3
    <3> QED
      BY <2>7, <3>1, <3>4, <3>5
  <2>9. ASSUME NEW q, q # p, NEW k \in DOMAIN text, text[k] = q
        PROVE  \E j \in DOMAIN result : result[j] = q
    <3>1. k \in 1 .. Len(text) /\ k # f /\ Len(new) \in Nat
      BY <2>3, <2>9
    <3>2. CASE k < f
      <4>1. k \in 1 .. f - 1 /\ k \in 1 .. Len(result)
        BY <2>5, <2>8, <3>1, <3>2
      <4> QED
        BY <2>6, <2>8, <2>9, <4>1
    <3>3. CASE k > f
      <4> DEFINE d == k - f
      <4>1. d \in 1 .. Len(text) - f /\ f + d = k
        BY <2>5, <3>1, <3>3
      <4>2. after[d] = q
        BY <2>7, <2>9, <4>1
      <4>3. f - 1 + Len(new) + d \in 1 .. Len(result)
        BY <2>5, <2>8, <3>1, <4>1, SMTT(20)
      <4>4. result[f - 1 + Len(new) + d] = q
        BY <2>8, <4>1, <4>2
      <4> QED
        BY <2>8, <4>3, <4>4
    <3> QED
      BY <2>5, <3>1, <3>2, <3>3
  <2>10. ASSUME NEW n \in DOMAIN new
         PROVE  \E j \in DOMAIN result : result[j] = new[n]
    <3>1. n \in 1 .. Len(new) /\ Len(new) \in Nat
      OBVIOUS
    <3>2. f - 1 + n \in 1 .. Len(result)
      BY <2>5, <2>8, <3>1
    <3> QED
      BY <2>8, <3>1, <3>2
  <2> HIDE DEF result
  <2>11. Pieces(text) \ {p} \subseteq Pieces(result)
    BY <2>9 DEF Pieces
  <2>12. Pieces(new) \subseteq Pieces(result)
    BY <2>10 DEF Pieces
  <2>13. result \in Seq(Piece)
    BY <2>8
  <2> QED
    BY <2>11, <2>12, <2>13 DEF result
<1> QED
  BY <1>1, <1>2

LEMMA PatchedIsPatched ==
    ASSUME NEW text \in Seq(STRING), Build!HelperAnchorOK(text)
    PROVE  Build!AlreadyPatched(Build!Patched(text))
<1> DEFINE hdr     == << "hdr", "incl" >>
           helper  == << "ns", "helper" >>
           call    == << "loop", "call" >>
           headers == Build!ReplaceFirst(text, "incl", hdr)
           helped  == Build!ReplaceFirst(headers, "ns", helper)
           called  == Build!ReplaceFirst(helped, "loop", call)
<1>1. "ns" \in Pieces(text)
  BY Counting DEF Build!HelperAnchorOK
<1> DEFINE P == STRING \cup {"hdr", "incl", "ns", "helper", "loop", "call"}
<1>2. text \in Seq(P) /\ hdr \in Seq(P) /\ helper \in Seq(P) /\ call \in Seq(P)
  OBVIOUS
<1> HIDE DEF P, hdr, helper, call
<1>3. headers \in Seq(P) /\ "ns" \in Pieces(headers)
  BY <1>1, <1>2, Replacing
<1> HIDE DEF headers
<1>4. helped \in Seq(P) /\ "helper" \in Pieces(helped)
  <2>1. "helper" \in Pieces(helper)
    <3>1. 2 \in DOMAIN helper /\ helper[2] = "helper"
      BY DEF helper
    <3> QED
      BY <3>1 DEF Pieces
  <2> QED
    BY <1>2, <1>3, <2>1, Replacing
<1> HIDE DEF helped
<1>5. called \in Seq(P) /\ "helper" \in Pieces(called)
  BY <1>2, <1>4, Replacing
<1>6. Build!Count(called, "helper") > 0 /\ Build!Count(called, "helper") \in Nat
      /\ Build!Count(called, "call") \in Nat
  BY <1>5, Counting
<1>7. called = Build!Patched(text)
  BY DEF Build!Patched, helped, headers, hdr, helper, call
<1> QED
  BY <1>6, <1>7 DEF Build!AlreadyPatched

-----------------------------------------------------------------------------
(* The build: every step.                                                  *)

Programs == [of : Texts, whole : BOOLEAN]
Patches  == [patched : BOOLEAN, already : BOOLEAN]
Commands == {"apt-get", "git clone", "configure", "build", "curl"}

BuildTypes ==
    /\ at \in {"reset", "dependencies", "clone", "patch", "configure", "build",
               "model", "raised", "ready"}
    /\ apply_patch \in BOOLEAN
    /\ disk \in Trees
    /\ buildLog \in Seq(Commands \X Build!Codes)
    /\ record \in [patch : Optional(Patches), binary : Optional(Programs),
                   model : Optional({"part", "whole"})]

\* A command that does not return 0 ends the build.
LogIsClean == at # "raised" => \A k \in DOMAIN buildLog : buildLog[k][2] = 0

\* What is to be patched is what upstream served, with nothing beside it.
CloneIsFresh ==
    at = "patch" => /\ disk.source # << >> /\ disk.source[1] \in Upstreams
                    /\ disk.binary = << >>

\* From the patch on, the report says of the source what is true of it.
PatchIsReported ==
    at \in {"configure", "build", "model", "ready"} =>
        /\ disk.source # << >> /\ disk.shim /\ record.patch # << >>
        /\ IF record.patch[1].patched \/ record.patch[1].already
             THEN Build!AlreadyPatched(disk.source[1])
             ELSE disk.source[1] \in Upstreams

BinaryIsReported ==
    at \in {"model", "ready"} =>
        /\ disk.binary # << >> /\ record.binary = disk.binary
        /\ disk.binary[1].whole /\ disk.binary[1].of = disk.source[1]

ModelIsReported ==
    at = "ready" => disk.model = << "whole" >> /\ record.model = disk.model

BuildInv == /\ BuildTypes /\ LogIsClean /\ CloneIsFresh
            /\ PatchIsReported /\ BinaryIsReported /\ ModelIsReported

LEMMA BuildStarts == Build!Init => BuildInv
<1> SUFFICES ASSUME Build!Init PROVE BuildInv
  OBVIOUS
<1> USE DEF Build!Init, Build!Nothing, Build!None
<1>1. disk \in Trees /\ buildLog = << >>
  BY Sessions
<1>2. record \in [patch : Optional(Patches), binary : Optional(Programs),
                  model : Optional({"part", "whole"})]
  BY DEF Optional
<1>3. BuildTypes
  BY <1>1, <1>2 DEF BuildTypes
<1> QED
  BY <1>1, <1>3 DEF BuildInv, LogIsClean, CloneIsFresh, PatchIsReported,
                    BinaryIsReported, ModelIsReported

LEMMA BuildOrWait ==
    ASSUME [Next]_vars
    PROVE  Build!Next \/ UNCHANGED buildVars
  BY DEF Next, vars, buildVars

\* One more command in the log, and the build goes on only if it returned 0.
LEMMA Logging ==
    ASSUME BuildTypes, LogIsClean, at # "raised",
           NEW command \in Commands, NEW rc, Build!Run(command, rc)
    PROVE  /\ rc \in Build!Codes
           /\ buildLog' \in Seq(Commands \X Build!Codes)
           /\ rc = 0 => \A k \in DOMAIN buildLog' : buildLog'[k][2] = 0
<1>1. rc \in Build!Codes /\ buildLog' = Append(buildLog, << command, rc >>)
  BY DEF Build!Run
<1>2. << command, rc >> \in Commands \X Build!Codes
  BY <1>1
<1>3. buildLog \in Seq(Commands \X Build!Codes)
  BY DEF BuildTypes
<1>4. /\ buildLog' \in Seq(Commands \X Build!Codes)
      /\ Len(buildLog') = Len(buildLog) + 1
      /\ \A k \in 1 .. Len(buildLog) : buildLog'[k] = buildLog[k]
      /\ buildLog'[Len(buildLog) + 1] = << command, rc >>
  BY <1>1, <1>2, <1>3
<1>5. ASSUME rc = 0, NEW k \in DOMAIN buildLog'
      PROVE  buildLog'[k][2] = 0
  <2>1. k \in 1 .. Len(buildLog) \/ k = Len(buildLog) + 1
    BY <1>3, <1>4
  <2>2. CASE k \in 1 .. Len(buildLog)
    <3>1. buildLog[k][2] = 0
      BY <1>3, <2>2 DEF LogIsClean
    <3> QED
      BY <1>4, <2>2, <3>1
  <2>3. CASE k = Len(buildLog) + 1
    BY <1>4, <1>5, <2>3
  <2> QED
    BY <2>1, <2>2, <2>3
<1> QED
  BY <1>1, <1>4, <1>5

\* The patch of a source of upstream, and what the report says of it.
LEMMA Patching ==
    ASSUME NEW text \in Upstreams
    PROVE  LET r == Build!ApplyPatch(text) IN
           /\ r.raised \in BOOLEAN
           /\ [patched |-> r.patched, already |-> r.already] \in Patches
           /\ r.text \in Texts
           /\ ~ r.raised => IF r.patched \/ r.already
                              THEN Build!AlreadyPatched(r.text)
                              ELSE r.text \in Upstreams
<1> DEFINE r == Build!ApplyPatch(text)
<1>1. text \in Seq(STRING)
  BY Sessions
<1>2. r.text \in Texts
  BY DEF Texts
<1>3. CASE Build!AlreadyPatched(text)
  <2>1. r = [raised |-> FALSE, patched |-> FALSE, already |-> TRUE, text |-> text]
    BY <1>3 DEF Build!ApplyPatch
  <2> QED
    BY <1>2, <1>3, <2>1 DEF Patches
<1>4. CASE /\ ~ Build!AlreadyPatched(text)
           /\ ~ Build!HelperAnchorOK(text) \/ ~ Build!CallAnchorsOK(text)
  <2>1. r = [raised |-> TRUE, patched |-> FALSE, already |-> FALSE, text |-> text]
    BY <1>4 DEF Build!ApplyPatch
  <2> QED
    BY <1>2, <2>1 DEF Patches
<1>5. CASE /\ ~ Build!AlreadyPatched(text)
           /\ Build!HelperAnchorOK(text) /\ Build!CallAnchorsOK(text)
  <2>1. r = [raised |-> FALSE, patched |-> TRUE, already |-> FALSE,
             text |-> Build!Patched(text)]
    BY <1>5 DEF Build!ApplyPatch
  <2>2. Build!AlreadyPatched(Build!Patched(text))
    BY <1>1, <1>5, PatchedIsPatched
  <2> QED
    BY <1>2, <2>1, <2>2 DEF Patches
<1> QED
  BY <1>3, <1>4, <1>5

\* A tree is a record of four parts, whatever becomes of one of them.
LEMMA TreeParts ==
    ASSUME NEW tree \in Trees
    PROVE  /\ tree.source \in Optional(Texts) /\ tree.shim \in BOOLEAN
           /\ tree.binary \in Optional([of : Texts, whole : BOOLEAN])
           /\ tree.model \in Optional({"part", "whole"})
           /\ \A source \in Optional(Texts) :
                 [tree EXCEPT !.source = source] =
                     [source |-> source, shim |-> tree.shim,
                      binary |-> tree.binary, model |-> tree.model]
           /\ \A binary \in Optional([of : Texts, whole : BOOLEAN]) :
                 [tree EXCEPT !.binary = binary] =
                     [source |-> tree.source, shim |-> tree.shim,
                      binary |-> binary, model |-> tree.model]
           /\ \A model \in Optional({"part", "whole"}) :
                 [tree EXCEPT !.model = model] =
                     [source |-> tree.source, shim |-> tree.shim,
                      binary |-> tree.binary, model |-> model]
  BY DEF Trees

LEMMA SomeIn ==
    ASSUME NEW S, NEW v \in S
    PROVE  << v >> \in Optional(S) /\ << v >> # << >> /\ << v >>[1] = v
  BY DEF Optional

LEMMA NoneIn ==
    ASSUME NEW S
    PROVE  /\ << >> \in Optional(S)
           /\ \A x \in Optional(S) : x # << >> => x[1] \in S /\ x = << x[1] >>
  BY DEF Optional

LEMMA ResetKeeps == ASSUME BuildInv, Build!reset_workspace PROVE BuildInv'
<1> USE DEF BuildInv
<1>1. /\ at' = "dependencies" /\ buildLog' = << >>
      /\ apply_patch' = apply_patch /\ record' = record
  BY DEF Build!reset_workspace
<1>2. disk' \in Trees
  <2>1. disk \in Trees
    BY DEF BuildTypes
  <2>2. disk' = Build!Empty \/ disk' = [disk EXCEPT !.source = << >>] \/ disk' = disk
    BY DEF Build!reset_workspace, Build!None
  <2>3. Build!Empty \in Trees
    BY NoneIn DEF Build!Empty, Build!None, Trees
  <2>4. [disk EXCEPT !.source = << >>] \in Trees
    BY <2>1, TreeParts, NoneIn DEF Trees
  <2> QED
    BY <2>1, <2>2, <2>3, <2>4
<1>3. BuildTypes'
  BY <1>1, <1>2 DEF BuildTypes
<1> QED
  BY <1>1, <1>3 DEF LogIsClean, CloneIsFresh, PatchIsReported, BinaryIsReported,
                    ModelIsReported

LEMMA DependenciesKeep ==
    ASSUME BuildInv, Build!install_build_dependencies PROVE BuildInv'
<1> USE DEF BuildInv
<1>1. at = "dependencies" /\ at' \in {"clone", "raised"}
      /\ apply_patch' = apply_patch /\ disk' = disk /\ record' = record
  BY DEF Build!install_build_dependencies
<1>2. /\ buildLog' \in Seq(Commands \X Build!Codes)
      /\ at' = "clone" => \A k \in DOMAIN buildLog' : buildLog'[k][2] = 0
  <2>1. CASE buildLog' = buildLog
    BY <1>1, <2>1 DEF BuildTypes, LogIsClean
  <2>2. CASE \E rc \in Build!Codes : /\ Build!Run("apt-get", rc)
                                     /\ at' = IF rc = 0 THEN "clone" ELSE "raised"
    <3>1. PICK rc \in Build!Codes : /\ Build!Run("apt-get", rc)
                                   /\ at' = IF rc = 0 THEN "clone" ELSE "raised"
      BY <2>2
    <3>2. "apt-get" \in Commands
      BY DEF Commands
    <3> QED
      BY <1>1, <3>1, <3>2, Logging
  <2> QED
    BY <2>1, <2>2 DEF Build!install_build_dependencies
<1>3. BuildTypes'
  BY <1>1, <1>2 DEF BuildTypes
<1> QED
  BY <1>1, <1>2, <1>3 DEF LogIsClean, CloneIsFresh, PatchIsReported, BinaryIsReported,
                          ModelIsReported

LEMMA CloneKeeps == ASSUME BuildInv, Build!clone_runtime PROVE BuildInv'
<1> USE DEF BuildInv
<1>1. PICK rc \in Build!Codes, text \in Upstreams :
        /\ Build!Refused => rc # 0
        /\ Build!Run("git clone", rc)
        /\ at' = IF rc = 0 THEN "patch" ELSE "raised"
        /\ disk' = IF rc = 0 THEN [disk EXCEPT !.source = << text >>] ELSE disk
  BY DEF Build!clone_runtime, Build!Some
<1>2. at = "clone" /\ apply_patch' = apply_patch /\ record' = record
  BY DEF Build!clone_runtime
<1>3. /\ buildLog' \in Seq(Commands \X Build!Codes)
      /\ rc = 0 => \A k \in DOMAIN buildLog' : buildLog'[k][2] = 0
  <2>1. "git clone" \in Commands
    BY DEF Commands
  <2> QED
    BY <1>1, <1>2, <2>1, Logging
<1>4. disk \in Trees
  BY DEF BuildTypes
<1>5. << text >> \in Optional(Texts) /\ << text >>[1] = text /\ << text >> # << >>
  <2>1. text \in Texts
    BY DEF Texts
  <2> QED
    BY <2>1, SomeIn
<1>6. rc = 0 => disk' = [source |-> << text >>, shim |-> disk.shim,
                         binary |-> << >>, model |-> disk.model]
  BY <1>1, <1>4, <1>5, TreeParts DEF Build!Refused, Build!None
<1>7. disk' \in Trees
  BY <1>1, <1>4, <1>5, <1>6, TreeParts, NoneIn DEF Trees
<1>8. BuildTypes'
  BY <1>1, <1>2, <1>3, <1>7 DEF BuildTypes
<1> QED
  BY <1>1, <1>3, <1>5, <1>6, <1>8 DEF LogIsClean, CloneIsFresh, PatchIsReported,
     BinaryIsReported, ModelIsReported

\* The report of the build, one part of it set.
LEMMA RecordParts ==
    ASSUME BuildTypes
    PROVE  /\ record.patch \in Optional(Patches) /\ record.binary \in Optional(Programs)
           /\ record.model \in Optional({"part", "whole"})
           /\ \A p \in Optional(Patches) :
                 [record EXCEPT !.patch = p] =
                     [patch |-> p, binary |-> record.binary, model |-> record.model]
           /\ \A b \in Optional(Programs) :
                 [record EXCEPT !.binary = b] =
                     [patch |-> record.patch, binary |-> b, model |-> record.model]
           /\ \A f \in Optional({"part", "whole"}) :
                 [record EXCEPT !.model = f] =
                     [patch |-> record.patch, binary |-> record.binary, model |-> f]
  BY DEF BuildTypes

LEMMA PatchKeeps == ASSUME BuildInv, Build!patch_and_shim PROVE BuildInv'
<1> USE DEF BuildInv
<1> DEFINE r == IF apply_patch THEN Build!ApplyPatch(disk.source[1])
                ELSE [raised |-> FALSE, patched |-> FALSE, already |-> FALSE,
                      text |-> disk.source[1]]
           said == [patched |-> r.patched, already |-> r.already]
<1>1. /\ at = "patch" /\ apply_patch' = apply_patch /\ buildLog' = buildLog
      /\ at' = IF r.raised THEN "raised" ELSE "configure"
      /\ disk' = IF r.raised THEN disk
                 ELSE [disk EXCEPT !.source = << r.text >>, !.shim = TRUE, !.binary = << >>]
      /\ record' = [record EXCEPT !.patch = IF r.raised THEN << >> ELSE << said >>]
  BY DEF Build!patch_and_shim, Build!Some, Build!None
<1>2. disk \in Trees /\ disk.source # << >> /\ disk.source[1] \in Upstreams
  BY <1>1 DEF BuildTypes, CloneIsFresh
<1>3. /\ r.raised \in BOOLEAN /\ said \in Patches /\ r.text \in Texts
      /\ ~ r.raised => IF r.patched \/ r.already THEN Build!AlreadyPatched(r.text)
                                                ELSE r.text \in Upstreams
  <2>1. CASE apply_patch
    BY <1>2, <2>1, Patching
  <2>2. CASE ~ apply_patch
    BY <1>2, <2>2 DEF Patches, Texts
  <2> QED
    BY <2>1, <2>2
<1>4. said.patched = r.patched /\ said.already = r.already
  OBVIOUS
<1> HIDE DEF r, said
<1>5. /\ << r.text >> \in Optional(Texts) /\ << r.text >>[1] = r.text
      /\ << said >> \in Optional(Patches) /\ << said >>[1] = said
      /\ << r.text >> # << >> /\ << said >> # << >>
  BY <1>3, SomeIn
<1>6. ~ r.raised => disk' = [source |-> << r.text >>, shim |-> TRUE,
                             binary |-> << >>, model |-> disk.model]
  BY <1>1, <1>2 DEF Trees
<1>7. disk' \in Trees
  BY <1>1, <1>2, <1>5, <1>6, TreeParts, NoneIn DEF Trees
<1>8. record' = [patch |-> IF r.raised THEN << >> ELSE << said >>,
                 binary |-> record.binary, model |-> record.model]
  BY <1>1, <1>5, RecordParts, NoneIn
<1>9. BuildTypes'
  <2>1. record'.patch \in Optional(Patches)
    BY <1>5, <1>8, NoneIn
  <2> QED
    BY <1>1, <1>3, <1>7, <1>8, <2>1, RecordParts DEF BuildTypes
<1>10. PatchIsReported'
  BY <1>1, <1>3, <1>4, <1>5, <1>6, <1>8 DEF PatchIsReported
<1>11. LogIsClean'
  BY <1>1 DEF LogIsClean
<1> QED
  BY <1>1, <1>9, <1>10, <1>11 DEF CloneIsFresh, BinaryIsReported, ModelIsReported

LEMMA ConfigureKeeps == ASSUME BuildInv, Build!configure PROVE BuildInv'
<1> USE DEF BuildInv
<1>1. PICK rc \in Build!Codes : /\ Build!Run("configure", rc)
                               /\ at' = IF rc = 0 THEN "build" ELSE "raised"
  BY DEF Build!configure
<1>2. at = "configure" /\ apply_patch' = apply_patch /\ disk' = disk /\ record' = record
  BY DEF Build!configure
<1>3. /\ buildLog' \in Seq(Commands \X Build!Codes)
      /\ rc = 0 => \A k \in DOMAIN buildLog' : buildLog'[k][2] = 0
  <2>1. "configure" \in Commands
    BY DEF Commands
  <2> QED
    BY <1>1, <1>2, <2>1, Logging
<1>4. BuildTypes'
  BY <1>1, <1>2, <1>3 DEF BuildTypes
<1>5. PatchIsReported'
  BY <1>1, <1>2 DEF PatchIsReported
<1> QED
  BY <1>1, <1>2, <1>3, <1>4, <1>5 DEF LogIsClean, CloneIsFresh, BinaryIsReported,
                                      ModelIsReported

LEMMA CompileKeeps == ASSUME BuildInv, Build!build_runtime PROVE BuildInv'
<1> USE DEF BuildInv
<1>1. PICK rc \in Build!Codes, left \in BOOLEAN :
        LET found == [of |-> disk.source[1], whole |-> rc = 0] IN
        /\ Build!Run("build", rc)
        /\ disk' = [disk EXCEPT !.binary = IF left THEN << found >> ELSE << >>]
        /\ at' = IF rc = 0 /\ left THEN "model" ELSE "raised"
        /\ record' = [record EXCEPT !.binary =
                        IF rc = 0 /\ left THEN << found >> ELSE << >>]
  BY DEF Build!build_runtime, Build!Some, Build!None
<1> DEFINE found == [of |-> disk.source[1], whole |-> rc = 0]
<1>2. at = "build" /\ apply_patch' = apply_patch
  BY DEF Build!build_runtime
<1>3. /\ buildLog' \in Seq(Commands \X Build!Codes)
      /\ rc = 0 => \A k \in DOMAIN buildLog' : buildLog'[k][2] = 0
  <2>1. "build" \in Commands
    BY DEF Commands
  <2> QED
    BY <1>1, <1>2, <2>1, Logging
<1>4. disk \in Trees /\ disk.source # << >>
  BY <1>2 DEF BuildTypes, PatchIsReported
<1>5. found \in Programs /\ found.of = disk.source[1] /\ found.whole = (rc = 0)
  <2>1. disk.source[1] \in Texts
    BY <1>4, TreeParts, NoneIn
  <2> QED
    BY <2>1 DEF Programs
<1> HIDE DEF found
<1>6. /\ << found >> \in Optional(Programs) /\ << found >>[1] = found
      /\ << found >> # << >>
  BY <1>5, SomeIn
<1>7. disk' = [source |-> disk.source, shim |-> disk.shim,
               binary |-> IF left THEN << found >> ELSE << >>, model |-> disk.model]
  <2>1. disk' = [disk EXCEPT !.binary = IF left THEN << found >> ELSE << >>]
    BY <1>1 DEF found
  <2>2. (IF left THEN << found >> ELSE << >>) \in Optional(Programs)
    BY <1>6, NoneIn
  <2> QED
    BY <1>4, <2>1, <2>2, TreeParts DEF Programs
<1>8. record' = [patch |-> record.patch,
                 binary |-> IF rc = 0 /\ left THEN << found >> ELSE << >>,
                 model |-> record.model]
  <2>1. record' = [record EXCEPT !.binary = IF rc = 0 /\ left THEN << found >> ELSE << >>]
    BY <1>1 DEF found
  <2>2. (IF rc = 0 /\ left THEN << found >> ELSE << >>) \in Optional(Programs)
    BY <1>6, NoneIn
  <2> QED
    BY <2>1, <2>2, RecordParts
<1>9. BuildTypes'
  <2>1. disk'.binary \in Optional(Programs) /\ record'.binary \in Optional(Programs)
    BY <1>6, <1>7, <1>8, NoneIn
  <2>2. disk' \in Trees
    BY <1>4, <1>7, <2>1, TreeParts DEF Trees, Programs
  <2>3. record' \in [patch : Optional(Patches), binary : Optional(Programs),
                     model : Optional({"part", "whole"})]
    BY <1>8, <2>1, RecordParts
  <2> QED
    BY <1>1, <1>2, <1>3, <2>2, <2>3 DEF BuildTypes
<1>10. PatchIsReported'
  BY <1>1, <1>2, <1>7, <1>8 DEF PatchIsReported
<1>11. BinaryIsReported'
  BY <1>1, <1>5, <1>6, <1>7, <1>8 DEF BinaryIsReported
<1>12. LogIsClean'
  BY <1>1, <1>3 DEF LogIsClean
<1> QED
  BY <1>1, <1>9, <1>10, <1>11, <1>12 DEF CloneIsFresh, ModelIsReported

LEMMA DownloadKeeps == ASSUME BuildInv, Build!download_model PROVE BuildInv'
<1> USE DEF BuildInv
<1>1. PICK rc \in Build!Codes, left \in {<< >>, << "part" >>, << "whole" >>} :
        /\ rc = 0 => left # << "part" >>
        /\ Build!Run("curl", rc)
        /\ disk' = [disk EXCEPT !.model = left]
        /\ at' = IF rc # 0 \/ left = << >> THEN "raised" ELSE "ready"
        /\ record' = [record EXCEPT !.model = IF rc # 0 THEN << >> ELSE left]
  BY DEF Build!download_model, Build!Some, Build!None
<1>2. at = "model" /\ apply_patch' = apply_patch
  BY DEF Build!download_model
<1>3. /\ buildLog' \in Seq(Commands \X Build!Codes)
      /\ rc = 0 => \A k \in DOMAIN buildLog' : buildLog'[k][2] = 0
  <2>1. "curl" \in Commands
    BY DEF Commands
  <2> QED
    BY <1>1, <1>2, <2>1, Logging
<1>4. disk \in Trees
  BY DEF BuildTypes
<1>5. left \in Optional({"part", "whole"}) /\ << >> \in Optional({"part", "whole"})
  BY <1>1 DEF Optional
<1>6. disk' = [source |-> disk.source, shim |-> disk.shim,
               binary |-> disk.binary, model |-> left]
  BY <1>1, <1>4, <1>5, TreeParts
<1>7. record' = [patch |-> record.patch, binary |-> record.binary,
                 model |-> IF rc # 0 THEN << >> ELSE left]
  BY <1>1, <1>5, RecordParts
<1>8. BuildTypes'
  <2>1. disk' \in Trees
    BY <1>4, <1>5, <1>6, TreeParts DEF Trees
  <2>2. record' \in [patch : Optional(Patches), binary : Optional(Programs),
                     model : Optional({"part", "whole"})]
    BY <1>5, <1>7, RecordParts
  <2> QED
    BY <1>1, <1>2, <1>3, <2>1, <2>2 DEF BuildTypes
<1>9. PatchIsReported'
  BY <1>1, <1>2, <1>6, <1>7 DEF PatchIsReported
<1>10. BinaryIsReported'
  BY <1>1, <1>2, <1>6, <1>7 DEF BinaryIsReported
<1>11. ModelIsReported'
  BY <1>1, <1>6, <1>7 DEF ModelIsReported
<1>12. LogIsClean'
  BY <1>1, <1>3 DEF LogIsClean
<1> QED
  BY <1>1, <1>8, <1>9, <1>10, <1>11, <1>12 DEF CloneIsFresh

LEMMA BuildKeeps ==
    ASSUME BuildInv, Build!Next \/ UNCHANGED buildVars
    PROVE  BuildInv'
<1>1. CASE UNCHANGED buildVars
  BY <1>1 DEF buildVars, BuildInv, BuildTypes, LogIsClean, CloneIsFresh, PatchIsReported,
              BinaryIsReported, ModelIsReported
<1>2. CASE Build!Next
  BY <1>2, ResetKeeps, DependenciesKeep, CloneKeeps, PatchKeeps, ConfigureKeeps,
     CompileKeeps, DownloadKeeps DEF Build!Next
<1> QED
  BY <1>1, <1>2

LEMMA BuildPromises == BuildInv => BuiltIsReported
<1> SUFFICES ASSUME BuildInv PROVE BuiltIsReported
  OBVIOUS
<1> USE DEF BuildInv
<1>1. disk \in Trees
  BY DEF BuildTypes
<1>2. Build!TypeOK
  <2>1. \A k \in DOMAIN buildLog : buildLog[k][2] \in Build!Codes
    <3>1. buildLog \in Seq(Commands \X Build!Codes)
      BY DEF BuildTypes
    <3> QED
      BY <3>1
  <2> QED
    BY <1>1, <2>1, TreeParts DEF Build!TypeOK, BuildTypes
<1>3. Build!ReadyIsTheReport
  <2> SUFFICES ASSUME at = "ready" PROVE Build!ReadyIsTheReport
    BY DEF Build!ReadyIsTheReport
  <2>1. disk.binary # << >> /\ record.binary = disk.binary /\ disk.binary[1].whole
        /\ disk.binary[1].of = disk.source[1]
    BY DEF BinaryIsReported
  <2>2. disk.shim /\ disk.model = << "whole" >> /\ record.model = disk.model
    BY DEF PatchIsReported, ModelIsReported
  <2>3. IF record.patch[1].patched \/ record.patch[1].already
          THEN Build!AlreadyPatched(disk.binary[1].of)
          ELSE disk.binary[1].of \in Upstreams
    BY <2>1 DEF PatchIsReported
  <2>4. \A k \in DOMAIN buildLog : buildLog[k][2] = 0
    BY DEF LogIsClean
  <2> QED
    BY <2>1, <2>2, <2>3, <2>4 DEF Build!ReadyIsTheReport, Build!None, Build!Some
<1>4. Build!NeverHalfPatched
  BY <1>1, TreeParts, NoneIn DEF Build!NeverHalfPatched, Build!None, Texts
<1> QED
  BY <1>2, <1>3, <1>4 DEF BuiltIsReported

(* A session that measures has built what its report says, and no command  *)
(* of its log failed; a refused patch leaves no half-patched source:       *)
(* whatever upstream serves, whatever an earlier session left in the work  *)
(* directory, and whichever command fails (diar_harness.py, build_runtime).*)
THEOREM BuildIsReported == Spec => []BuiltIsReported
<1>1. Init => BuildInv
  BY BuildStarts DEF Init
<1>2. BuildInv /\ [Next]_vars => BuildInv'
  BY BuildOrWait, BuildKeeps
<1>3. BuildInv => BuiltIsReported
  BY BuildPromises
<1> QED
  BY <1>1, <1>2, <1>3, PTL DEF Spec

-----------------------------------------------------------------------------
(* The measurements.                                                       *)

Written == Optional([by : Nat \X Nat, body : Bodies])
Results == [returncode : {0, 124}, output : Written, id : Nat \X Nat]
Threads == [at : {"loop", "query", "wait", "gone"}, stop : BOOLEAN,
            asked : Nat, samples : Nat]
Reports == [of : Nat, iterations_ok : Nat, body_identical : BOOLEAN, joined : BOOLEAN,
            sample_count : Nat, columns : Optional(Nat), rttm : Written,
            status : {"pass", "fail"}]

\* The timed runs that are done, and the threads that were started, when run i
\* of the measurement is next or under way.
RunsDone == IF i > warmup THEN i - 1 - warmup ELSE 0

MeasureTypes ==
    /\ pc \in {"launch", "child", "read", "join", "count", "columns", "done"}
    /\ m \in 1 .. Len(Trials) /\ i \in 1 .. warmup + iterations
    /\ files \in [Measure!Paths -> Written]
    /\ runs \in Seq(Results) /\ samplers \in Seq(Threads) /\ measured \in Optional(Reports)
    /\ pc = "read" => child \in {<< 0 >>, << 124 >>}

\* One result per timed run that ended, one thread per measurement whose
\* timed runs began.
InStep ==
    /\ pc = "launch" => /\ i > 1 => Len(runs) = RunsDone
                        /\ Len(runs) <= iterations
                        /\ Len(samplers) = IF i > warmup + 1 THEN m ELSE m - 1
    /\ pc \in {"child", "read"} => /\ Len(runs) = RunsDone
                                   /\ Len(samplers) = IF i > warmup THEN m ELSE m - 1
    /\ pc \in {"join", "count", "columns", "done"} =>
          Len(runs) = iterations /\ Len(samplers) = m

\* Run 0 of this measurement has ended.
FirstIsWritten == \/ pc \in {"launch", "child", "read"} /\ i > warmup + 1
                  \/ pc = "read" /\ i = warmup + 1
                  \/ pc \in {"join", "count"}

\* The path of the run under way holds nothing before the child ends and what
\* this child wrote after; the path of run 0 keeps what run 0 wrote.
OwnOutput ==
    LET first == files[Measure!Output(warmup + 1)] IN
    /\ pc = "child" => files[Measure!Output(i)] = << >>
    /\ pc = "read" /\ files[Measure!Output(i)] # << >> =>
          files[Measure!Output(i)][1].by = << m, i >>
    /\ FirstIsWritten /\ first # << >> => first[1].by = << m, warmup + 1 >>

\* A thread whose join came back in time is gone, and its samples with it.
JoinedIsGone ==
    /\ pc = "count" /\ child = << "joined" >> => samplers[m].at = "gone"
    /\ pc = "columns" =>
          /\ measured # << >> /\ measured[1].columns = << >>
          /\ measured[1].joined =>
                /\ samplers[m].at = "gone"
                /\ samplers[m].samples = measured[1].sample_count

MeasureInv == /\ MeasureTypes /\ InStep /\ OwnOutput /\ JoinedIsGone
              /\ Measure!NoStaleOutput /\ Measure!IdenticalIsAll
              /\ Measure!JoinedSummaryIsWhole

LEMMA Numbers ==
    /\ warmup \in Nat /\ iterations \in Nat /\ iterations > 0
    /\ Len(Trials) \in Nat /\ Len(Trials) > 0 /\ DOMAIN Trials = 1 .. Len(Trials)
  BY Sessions

LEMMA MeasureStarts == Measure!Init => MeasureInv
<1> SUFFICES ASSUME Measure!Init PROVE MeasureInv
  OBVIOUS
<1> USE DEF Measure!Init, Measure!None
<1>1. MeasureTypes
  <2>1. files \in [Measure!Paths -> Written] /\ measured \in Optional(Reports)
    BY NoneIn DEF Written
  <2>2. m \in 1 .. Len(Trials) /\ i \in 1 .. warmup + iterations
    BY Numbers
  <2> QED
    BY <2>1, <2>2 DEF MeasureTypes
<1>2. InStep
  BY Numbers DEF InStep
<1>3. OwnOutput
  BY Numbers DEF OwnOutput, FirstIsWritten
<1> QED
  BY <1>1, <1>2, <1>3 DEF MeasureInv, JoinedIsGone, Measure!NoStaleOutput,
     Measure!IdenticalIsAll, Measure!JoinedSummaryIsWhole

LEMMA MeasureOrWait ==
    ASSUME [Next]_vars
    PROVE  Measure!Next \/ UNCHANGED measureVars
  BY DEF Next, vars, measureVars

\* Every run of a measurement has a path of its own.
LEMMA OwnPath ==
    ASSUME MeasureTypes, NEW k \in 1 .. warmup + iterations
    PROVE  /\ Measure!Output(k) \in Measure!Paths
           /\ \A j : Measure!Output(j) = Measure!Output(k) => j = k
           /\ files[Measure!Output(k)] \in Written
<1>1. m \in DOMAIN Trials
  BY Numbers DEF MeasureTypes
<1>2. Measure!Output(k) \in Measure!Paths
  BY <1>1 DEF Measure!Output, Measure!Paths
<1>3. \A j : Measure!Output(j) = Measure!Output(k) => j = k
  BY DEF Measure!Output
<1>4. files \in [Measure!Paths -> Written]
  BY DEF MeasureTypes
<1> QED
  BY <1>2, <1>3, <1>4

LEMMA LaunchKeeps == ASSUME MeasureInv, Measure!Launch PROVE MeasureInv'
<1> USE DEF MeasureInv
<1> DEFINE o == Measure!Output(i)
<1>1. /\ pc = "launch" /\ pc' = "child"
      /\ files' = [files EXCEPT ![o] = << >>]
      /\ runs' = IF i = 1 THEN << >> ELSE runs
      /\ measured' = IF i = 1 THEN << >> ELSE measured
      /\ samplers' = IF i = warmup + 1 THEN Append(samplers, Measure!NewSampler) ELSE samplers
      /\ m' = m /\ i' = i /\ child' = child
  BY DEF Measure!Launch, Measure!None
<1>2. /\ m \in 1 .. Len(Trials) /\ i \in 1 .. warmup + iterations
      /\ files \in [Measure!Paths -> Written]
      /\ runs \in Seq(Results) /\ samplers \in Seq(Threads)
      /\ measured \in Optional(Reports)
  BY DEF MeasureTypes
<1>3. o \in Measure!Paths /\ (\A j : Measure!Output(j) = o => j = i) /\ << >> \in Written
  BY <1>2, OwnPath, NoneIn DEF Written
<1>4. Measure!NewSampler \in Threads
  BY DEF Measure!NewSampler, Threads
<1>5. MeasureTypes'
  <2>1. files' \in [Measure!Paths -> Written]
    BY <1>1, <1>2, <1>3
  <2>2. runs' \in Seq(Results) /\ samplers' \in Seq(Threads)
    BY <1>1, <1>2, <1>4
  <2>3. measured' \in Optional(Reports)
    BY <1>1, <1>2, NoneIn
  <2> QED
    BY <1>1, <1>2, <2>1, <2>2, <2>3 DEF MeasureTypes, Measure!Paths
<1>6. InStep'
  <2>1. Len(runs') = RunsDone'
    BY <1>1, <1>2, Numbers DEF InStep, RunsDone
  <2>2. Len(samplers') = IF i > warmup THEN m ELSE m - 1
    <3>1. Len(samplers) = IF i > warmup + 1 THEN m ELSE m - 1
      BY <1>1 DEF InStep
    <3>2. Len(samplers') = IF i = warmup + 1 THEN Len(samplers) + 1 ELSE Len(samplers)
      BY <1>1, <1>2, <1>4
    <3> QED
      BY <1>2, <3>1, <3>2, Numbers
  <2> QED
    BY <1>1, <2>1, <2>2 DEF InStep
<1>7. OwnOutput'
  <2>1. files'[o] = << >>
    BY <1>1, <1>2, <1>3
  <2>2. ASSUME i > warmup + 1
        PROVE  LET first == files'[Measure!Output(warmup + 1)] IN
               first # << >> => first[1].by = << m, warmup + 1 >>
    <3>1. Measure!Output(warmup + 1) \in Measure!Paths /\ Measure!Output(warmup + 1) # o
      BY <1>2, <1>3, <2>2, Numbers, OwnPath
    <3>2. files'[Measure!Output(warmup + 1)] = files[Measure!Output(warmup + 1)]
      BY <1>1, <1>2, <3>1
    <3> QED
      BY <1>1, <2>2, <3>2 DEF OwnOutput, FirstIsWritten
  <2> QED
    BY <1>1, <2>1, <2>2 DEF OwnOutput, FirstIsWritten, Measure!Output
<1>8. Measure!NoStaleOutput'
  BY <1>1 DEF Measure!NoStaleOutput, Measure!None
<1>9. Measure!JoinedSummaryIsWhole'
  BY <1>1 DEF Measure!JoinedSummaryIsWhole, Measure!None
<1> QED
  BY <1>1, <1>5, <1>6, <1>7, <1>8, <1>9 DEF JoinedIsGone, Measure!IdenticalIsAll

LEMMA ChildKeeps == ASSUME MeasureInv, Measure!ChildEnds PROVE MeasureInv'
<1> USE DEF MeasureInv
<1> DEFINE o == Measure!Output(i)
<1>1. PICK rc \in {0, 124}, body \in {<< >>} \cup {<< b >> : b \in Bodies} :
        /\ child' = << rc >>
        /\ files' = [files EXCEPT ![o] =
              IF body = << >> THEN @ ELSE << [by |-> << m, i >>, body |-> body[1]] >>]
  BY DEF Measure!ChildEnds, Measure!None, Measure!Some, Measure!Id
<1>2. /\ pc = "child" /\ pc' = "read" /\ m' = m /\ i' = i /\ runs' = runs
      /\ samplers' = samplers /\ measured' = measured
  BY DEF Measure!ChildEnds
<1>3. /\ m \in 1 .. Len(Trials) /\ i \in 1 .. warmup + iterations
      /\ files \in [Measure!Paths -> Written]
  BY DEF MeasureTypes
<1>4. o \in Measure!Paths /\ (\A j : Measure!Output(j) = o => j = i)
      /\ files[o] = << >>
  BY <1>2, <1>3, OwnPath DEF OwnOutput
<1> DEFINE wrote == [by |-> << m, i >>, body |-> body[1]]
<1>5. body # << >> => wrote \in [by : Nat \X Nat, body : Bodies]
  BY <1>1, <1>3, Numbers
<1>6. wrote.by = << m, i >>
  OBVIOUS
<1>7. files' = [files EXCEPT ![o] = IF body = << >> THEN << >> ELSE << wrote >>]
  BY <1>1, <1>4
<1> HIDE DEF wrote, o
<1>8. (IF body = << >> THEN << >> ELSE << wrote >>) \in Written
  BY <1>5, SomeIn, NoneIn DEF Written
<1>9. MeasureTypes'
  <2>1. files' \in [Measure!Paths -> Written]
    BY <1>3, <1>4, <1>7, <1>8
  <2>2. child' \in {<< 0 >>, << 124 >>}
    BY <1>1
  <2> QED
    BY <1>2, <2>1, <2>2 DEF MeasureTypes, Measure!Paths
<1>10. InStep'
  BY <1>2 DEF InStep, RunsDone
<1>11. OwnOutput'
  <2>1. files'[o] # << >> => files'[o][1].by = << m, i >>
    BY <1>3, <1>4, <1>6, <1>7
  <2>2. ASSUME i > warmup + 1
        PROVE  LET first == files'[Measure!Output(warmup + 1)] IN
               first # << >> => first[1].by = << m, warmup + 1 >>
    <3>1. Measure!Output(warmup + 1) \in Measure!Paths /\ Measure!Output(warmup + 1) # o
      BY <1>3, <1>4, <2>2, Numbers, OwnPath
    <3>2. files'[Measure!Output(warmup + 1)] = files[Measure!Output(warmup + 1)]
      BY <1>3, <1>7, <3>1
    <3> QED
      BY <1>2, <2>2, <3>2 DEF OwnOutput, FirstIsWritten
  <2> QED
    BY <1>2, <2>1, <2>2 DEF OwnOutput, FirstIsWritten, Measure!Output, o
<1> QED
  BY <1>2, <1>9, <1>10, <1>11 DEF JoinedIsGone, Measure!NoStaleOutput,
     Measure!IdenticalIsAll, Measure!JoinedSummaryIsWhole

LEMMA ThreadParts ==
    ASSUME NEW t \in Threads
    PROVE  /\ [t EXCEPT !.stop = TRUE] \in Threads
           /\ \A where \in {"query", "loop", "gone"} : [t EXCEPT !.at = where] \in Threads
           /\ \A got \in {0, 1} :
                 [t EXCEPT !.at = "wait", !.asked = @ + 1, !.samples = @ + got] \in Threads
<1>1. t.at \in {"loop", "query", "wait", "gone"} /\ t.stop \in BOOLEAN
      /\ t.asked \in Nat /\ t.samples \in Nat
  BY DEF Threads
<1>2. [t EXCEPT !.stop = TRUE] \in Threads
  BY DEF Threads
<1>3. \A where \in {"query", "loop", "gone"} : [t EXCEPT !.at = where] \in Threads
  BY DEF Threads
<1>4. ASSUME NEW got \in {0, 1}
      PROVE  [t EXCEPT !.at = "wait", !.asked = @ + 1, !.samples = @ + got] \in Threads
  <2>1. t.asked + 1 \in Nat /\ t.samples + got \in Nat
    BY <1>1
  <2> DEFINE asked == t.asked + 1
             samples == t.samples + got
  <2>2. [t EXCEPT !.at = "wait", !.asked = @ + 1, !.samples = @ + got]
          = [t EXCEPT !.at = "wait", !.asked = asked, !.samples = samples]
    BY DEF Threads
  <2> HIDE DEF asked, samples
  <2>3. asked \in Nat /\ samples \in Nat
    BY <2>1 DEF asked, samples
  <2>4. [t EXCEPT !.at = "wait", !.asked = asked, !.samples = samples] \in Threads
    BY <2>3 DEF Threads
  <2> QED
    BY <2>2, <2>4
<1> QED
  BY <1>2, <1>3, <1>4

LEMMA RunKeeps == ASSUME MeasureInv, Measure!diarize_once PROVE MeasureInv'
<1> USE DEF MeasureInv
<1> DEFINE o == Measure!Output(i)
           result == [returncode |-> child[1], output |-> files[o], id |-> << m, i >>]
<1>1. /\ pc = "read" /\ runs' = IF i > warmup THEN Append(runs, result) ELSE runs
      /\ IF i = warmup + iterations
           THEN pc' = "join" /\ i' = i /\ samplers' = [samplers EXCEPT ![m].stop = TRUE]
           ELSE pc' = "launch" /\ i' = i + 1 /\ samplers' = samplers
      /\ m' = m /\ files' = files /\ measured' = measured
  BY DEF Measure!diarize_once, Measure!Result, Measure!LastRun, Measure!Id
<1>2. /\ m \in 1 .. Len(Trials) /\ i \in 1 .. warmup + iterations
      /\ files \in [Measure!Paths -> Written]
      /\ runs \in Seq(Results) /\ samplers \in Seq(Threads)
      /\ measured \in Optional(Reports) /\ child \in {<< 0 >>, << 124 >>}
  BY <1>1 DEF MeasureTypes
<1>3. files[o] \in Written /\ (files[o] # << >> => files[o][1].by = << m, i >>)
  BY <1>1, <1>2, OwnPath DEF OwnOutput
<1>4. /\ result \in Results
      /\ result.output # << >> => result.output[1].by = result.id
  <2> DEFINE code == child[1]
             id == << m, i >>
             output == files[o]
  <2>1. code \in {0, 124}
    BY <1>2
  <2>2. id \in Nat \X Nat
    BY <1>2, Numbers
  <2>3. output \in Written /\ (output # << >> => output[1].by = id)
    BY <1>3
  <2>4. result = [returncode |-> code, output |-> output, id |-> id]
    OBVIOUS
  <2> HIDE DEF code, id, output, result
  <2>5. result \in Results
    BY <2>1, <2>2, <2>3, <2>4 DEF Results
  <2>6. result.output = output /\ result.id = id
    BY <2>4
  <2> QED
    BY <2>3, <2>5, <2>6
<1> HIDE DEF result, o
<1>5. /\ Len(runs) = RunsDone /\ Len(samplers) = IF i > warmup THEN m ELSE m - 1
  BY <1>1 DEF InStep
<1>6. /\ samplers' \in Seq(Threads) /\ Len(samplers') = Len(samplers)
  <2>1. CASE i = warmup + iterations
    <3>1. m \in DOMAIN samplers
      BY <1>2, <1>5, <2>1, Numbers
    <3>2. [samplers[m] EXCEPT !.stop = TRUE] \in Threads
      <4>1. samplers[m] \in Threads
        BY <1>2, <3>1
      <4> QED
        BY <4>1, ThreadParts
    <3>3. samplers' = [samplers EXCEPT ![m] = [samplers[m] EXCEPT !.stop = TRUE]]
      BY <1>1, <2>1
    <3> QED
      BY <1>2, <3>1, <3>2, <3>3
  <2>2. CASE i # warmup + iterations
    BY <1>1, <1>2, <2>2
  <2> QED
    BY <2>1, <2>2
<1>7. runs' \in Seq(Results)
  BY <1>1, <1>2, <1>4
<1>8. Len(runs') = IF i > warmup THEN i - warmup ELSE 0
  BY <1>1, <1>2, <1>4, <1>5, Numbers DEF RunsDone
<1>9. MeasureTypes'
  <2>1. i \in 1 .. warmup + iterations /\ warmup + iterations \in Nat
    BY <1>2, Numbers
  <2>2. i' \in 1 .. warmup + iterations
    BY <1>1, <2>1
  <2>3. pc' \in {"join", "launch"}
    BY <1>1
  <2> QED
    BY <1>1, <1>2, <1>6, <1>7, <2>2, <2>3 DEF MeasureTypes, Measure!Paths
<1>10. InStep'
  BY <1>1, <1>2, <1>5, <1>6, <1>8, Numbers, SMTT(20) DEF InStep, RunsDone
<1>11. OwnOutput'
  <2>1. ASSUME FirstIsWritten'
        PROVE  i > warmup
    BY <1>1, <1>2, <2>1, Numbers DEF FirstIsWritten
  <2>2. ASSUME i > warmup
        PROVE  LET first == files[Measure!Output(warmup + 1)] IN
               first # << >> => first[1].by = << m, warmup + 1 >>
    BY <1>1, <1>2, <2>2, Numbers DEF OwnOutput, FirstIsWritten
  <2>3. Measure!Output(warmup + 1)' = Measure!Output(warmup + 1)
    BY <1>1, Numbers DEF Measure!Output
  <2> QED
    BY <1>1, <2>1, <2>2, <2>3 DEF OwnOutput
<1>12. Measure!NoStaleOutput'
  <2>1. ASSUME NEW k \in DOMAIN runs'
        PROVE  runs'[k].output # << >> => runs'[k].output[1].by = runs'[k].id
    <3>1. CASE k \in DOMAIN runs /\ runs'[k] = runs[k]
      BY <3>1 DEF Measure!NoStaleOutput, Measure!None
    <3>2. CASE runs'[k] = result
      BY <1>4, <3>2
    <3>3. (k \in DOMAIN runs /\ runs'[k] = runs[k]) \/ runs'[k] = result
      BY <1>1, <1>2, <1>4
    <3> QED
      BY <3>1, <3>2, <3>3
  <2> QED
    BY <1>1, <2>1 DEF Measure!NoStaleOutput, Measure!None
<1>13. Measure!JoinedSummaryIsWhole'
  BY <1>1 DEF Measure!JoinedSummaryIsWhole
<1> QED
  BY <1>1, <1>9, <1>10, <1>11, <1>12, <1>13 DEF JoinedIsGone, Measure!IdenticalIsAll

\* A thread that is gone does nothing any more, whatever the others do.
LEMMA Sampling ==
    ASSUME MeasureTypes, NEW s \in DOMAIN samplers, Measure!Sampling(s)
    PROVE  /\ samplers' \in Seq(Threads) /\ Len(samplers') = Len(samplers)
           /\ \A t \in DOMAIN samplers :
                 samplers[t].at = "gone" => samplers'[t] = samplers[t]
           /\ UNCHANGED << pc, m, i, files, child, runs, measured >>
<1>1. samplers \in Seq(Threads) /\ samplers[s] \in Threads
  BY DEF MeasureTypes
<1> DEFINE t == samplers[s]
<1>2. /\ t.at # "gone"
      /\ \/ \E where \in {"query", "loop", "gone"} :
             samplers' = [samplers EXCEPT ![s] = [t EXCEPT !.at = where]]
         \/ \E got \in {0, 1} :
             samplers' = [samplers EXCEPT ![s] =
                 [t EXCEPT !.at = "wait", !.asked = @ + 1, !.samples = @ + got]]
      /\ UNCHANGED << pc, m, i, files, child, runs, measured >>
  <2>1. CASE Measure!SamplerChecks(s)
    BY <1>1, <2>1 DEF Measure!SamplerChecks
  <2>2. CASE Measure!SamplerAnswered(s)
    BY <1>1, <2>2 DEF Measure!SamplerAnswered
  <2>3. CASE Measure!SamplerWakes(s)
    BY <1>1, <2>3 DEF Measure!SamplerWakes
  <2> QED
    BY <2>1, <2>2, <2>3 DEF Measure!Sampling
<1>3. PICK next \in Threads : samplers' = [samplers EXCEPT ![s] = next]
  <2>1. ASSUME NEW where \in {"query", "loop", "gone"}
        PROVE  [t EXCEPT !.at = where] \in Threads
    BY <1>1, ThreadParts
  <2>2. ASSUME NEW got \in {0, 1}
        PROVE  [t EXCEPT !.at = "wait", !.asked = @ + 1, !.samples = @ + got] \in Threads
    BY <1>1, ThreadParts
  <2> QED
    BY <1>2, <2>1, <2>2
<1> QED
  BY <1>1, <1>2, <1>3

LEMMA SamplingKeeps ==
    ASSUME MeasureInv, NEW s \in DOMAIN samplers, Measure!Sampling(s)
    PROVE  MeasureInv'
<1> USE DEF MeasureInv
<1>1. /\ samplers' \in Seq(Threads) /\ Len(samplers') = Len(samplers)
      /\ \A t \in DOMAIN samplers : samplers[t].at = "gone" => samplers'[t] = samplers[t]
      /\ UNCHANGED << pc, m, i, files, child, runs, measured >>
  BY Sampling
<1>2. MeasureTypes'
  BY <1>1 DEF MeasureTypes, Measure!Paths
<1>3. InStep'
  BY <1>1 DEF InStep, RunsDone
<1>4. OwnOutput'
  BY <1>1 DEF OwnOutput, FirstIsWritten, Measure!Output
<1>5. JoinedIsGone'
  <2>1. pc \in {"count", "columns"} => m \in DOMAIN samplers
    BY Numbers DEF MeasureTypes, InStep
  <2> QED
    BY <1>1, <2>1 DEF JoinedIsGone
<1> QED
  BY <1>1, <1>2, <1>3, <1>4, <1>5 DEF Measure!NoStaleOutput, Measure!IdenticalIsAll,
     Measure!JoinedSummaryIsWhole

LEMMA JoinKeeps == ASSUME MeasureInv, Measure!Join PROVE MeasureInv'
<1> USE DEF MeasureInv
<1>1. /\ pc = "join" /\ pc' = "count"
      /\ child' = << IF samplers[m].at = "gone" THEN "joined" ELSE "timed out" >>
      /\ UNCHANGED << m, i, files, runs, samplers, measured >>
  BY DEF Measure!Join, Measure!Some
<1>2. MeasureTypes'
  <2>1. pc' = "count" /\ UNCHANGED << m, i, files, runs, samplers, measured >>
    BY <1>1
  <2> QED
    BY <2>1 DEF MeasureTypes, Measure!Paths
<1>3. InStep'
  BY <1>1 DEF InStep, RunsDone
<1>4. OwnOutput'
  BY <1>1 DEF OwnOutput, FirstIsWritten, Measure!Output
<1>5. JoinedIsGone'
  BY <1>1 DEF JoinedIsGone
<1> QED
  BY <1>1, <1>2, <1>3, <1>4, <1>5 DEF Measure!NoStaleOutput, Measure!IdenticalIsAll,
     Measure!JoinedSummaryIsWhole

\* "body_identical" holds of every run that returned 0, not of those alone
\* whose body could be read.
LEMMA Identical ==
    ASSUME runs \in Seq(Results), Measure!BodyIdentical
    PROVE  LET done == {r \in DOMAIN runs : runs[r].returncode = 0} IN
           /\ done # {}
           /\ \A r \in done : runs[r].output # << >>
           /\ \A r, q \in done : runs[r].output[1].body = runs[q].output[1].body
<1> DEFINE done   == {r \in DOMAIN runs : runs[r].returncode = 0}
           hashed == {r \in done : runs[r].output # << >>}
           bodies == {runs[r].output[1].body : r \in hashed}
           body   == [r \in hashed |-> runs[r].output[1].body]
<1>1. Measure!Ok = done /\ Measure!Hashed = hashed
  BY DEF Measure!Ok, Measure!Hashed, Measure!None
<1>2. /\ done # {} /\ Cardinality(hashed) = Cardinality(done) /\ Cardinality(bodies) = 1
  BY <1>1 DEF Measure!BodyIdentical, Measure!Cardinality, Cardinality
<1>3. IsFiniteSet(done)
  <2>1. DOMAIN runs = 1 .. Len(runs) /\ Len(runs) \in Nat
    OBVIOUS
  <2>2. IsFiniteSet(1 .. Len(runs))
    BY <2>1, FS_Interval
  <2> QED
    BY <2>1, <2>2, FS_Subset
<1>4. hashed = done
  BY <1>2, <1>3, FS_Subset
<1>5. IsFiniteSet(bodies)
  <2>1. body \in Surjection(hashed, bodies)
    BY DEF Surjection
  <2>2. IsFiniteSet(hashed)
    BY <1>3, <1>4
  <2> QED
    BY <2>1, <2>2, FS_Surjection
<1>6. PICK b : bodies = {b}
  BY <1>2, <1>5, FS_Singleton
<1>7. \A r \in done : runs[r].output[1].body = b
  BY <1>4, <1>6
<1> QED
  BY <1>2, <1>4, <1>7

LEMMA CountKeeps == ASSUME MeasureInv, Measure!Count PROVE MeasureInv'
<1> USE DEF MeasureInv
<1> DEFINE ok     == Cardinality(Measure!Ok)
           same   == Measure!BodyIdentical
           joined == child = << "joined" >>
           count  == samplers[m].samples
           rttm   == files[Measure!Output(warmup + 1)]
           status_ == IF ok = iterations THEN "pass" ELSE "fail"
           said   == [of |-> m, iterations_ok |-> ok, body_identical |-> same,
                      joined |-> joined, sample_count |-> count, columns |-> << >>,
                      rttm |-> rttm, status |-> status_]
<1>1. /\ pc = "count" /\ pc' = "columns" /\ measured' = << said >>
      /\ UNCHANGED << m, i, files, child, runs, samplers >>
  BY DEF Measure!Count, Measure!Some, Measure!None, Measure!Cardinality, Cardinality
<1>2. /\ m \in 1 .. Len(Trials) /\ i \in 1 .. warmup + iterations
      /\ runs \in Seq(Results) /\ samplers \in Seq(Threads) /\ Len(samplers) = m
  BY <1>1 DEF MeasureTypes, InStep
<1>3. ok \in Nat
  <2>1. DOMAIN runs = 1 .. Len(runs) /\ Len(runs) \in Nat
    BY <1>2
  <2>2. IsFiniteSet(1 .. Len(runs))
    BY <2>1, FS_Interval
  <2>3. Measure!Ok \subseteq 1 .. Len(runs)
    BY <2>1 DEF Measure!Ok
  <2> QED
    BY <2>2, <2>3, FS_Subset, FS_CardinalityType
<1>4. same \in BOOLEAN /\ joined \in BOOLEAN
  BY DEF Measure!BodyIdentical
<1>5. count \in Nat
  <2>1. samplers[m] \in Threads
    BY <1>2, Numbers
  <2> QED
    BY <2>1 DEF Threads
<1>6. rttm \in Written /\ (rttm # << >> => rttm[1].by = << m, warmup + 1 >>)
  <2>1. warmup + 1 \in 1 .. warmup + iterations
    BY Numbers
  <2> QED
    BY <1>1, <2>1, OwnPath DEF OwnOutput, FirstIsWritten
<1>7. joined => samplers[m].at = "gone"
  BY <1>1 DEF JoinedIsGone
<1>8. same => LET done == {r \in DOMAIN runs : runs[r].returncode = 0} IN
              /\ done # {}
              /\ \A r \in done : runs[r].output # << >>
              /\ \A r, q \in done : runs[r].output[1].body = runs[q].output[1].body
  BY <1>2, Identical
<1>9. status_ \in {"pass", "fail"}
  OBVIOUS
<1> DEFINE empty == << >>
<1>10. empty \in Optional(Nat)
  BY NoneIn
<1>11. /\ said.of = m /\ said.body_identical = same /\ said.joined = joined
       /\ said.sample_count = count /\ said.columns = << >> /\ said.rttm = rttm
  OBVIOUS
<1>12. said = [of |-> m, iterations_ok |-> ok, body_identical |-> same,
               joined |-> joined, sample_count |-> count, columns |-> empty,
               rttm |-> rttm, status |-> status_]
  OBVIOUS
<1>13. m \in Nat
  BY <1>2, Numbers
<1> HIDE DEF ok, same, joined, rttm, status_, said, empty
<1>14. said \in Reports
  BY <1>3, <1>4, <1>5, <1>6, <1>9, <1>10, <1>12, <1>13 DEF Reports
<1>15. measured' # << >> /\ measured'[1] = said /\ measured' \in Optional(Reports)
  BY <1>1, <1>14, SomeIn
<1>16. MeasureTypes'
  BY <1>1, <1>15 DEF MeasureTypes, Measure!Paths
<1>17. InStep'
  BY <1>1 DEF InStep, RunsDone
<1>18. OwnOutput'
  BY <1>1 DEF OwnOutput, FirstIsWritten
<1>19. JoinedIsGone'
  BY <1>1, <1>7, <1>11, <1>15 DEF JoinedIsGone
<1>20. Measure!NoStaleOutput'
  BY <1>1, <1>6, <1>11, <1>15 DEF Measure!NoStaleOutput, Measure!None
<1>21. Measure!IdenticalIsAll'
  BY <1>1, <1>8, <1>11, <1>15 DEF Measure!IdenticalIsAll, Measure!None
<1>22. Measure!JoinedSummaryIsWhole'
  BY <1>1, <1>11, <1>15 DEF Measure!JoinedSummaryIsWhole, Measure!None
<1> QED
  BY <1>16, <1>17, <1>18, <1>19, <1>20, <1>21, <1>22

LEMMA ColumnsKeep == ASSUME MeasureInv, Measure!Columns PROVE MeasureInv'
<1> USE DEF MeasureInv
<1> DEFINE count == samplers[m].samples
           held  == [measured[1] EXCEPT !.columns = << count >>]
<1>1. /\ pc = "columns" /\ measured' = [measured EXCEPT ![1].columns = << count >>]
      /\ IF m < Len(Trials) THEN pc' = "launch" /\ m' = m + 1 /\ i' = 1
                            ELSE pc' = "done" /\ UNCHANGED << m, i >>
      /\ UNCHANGED << files, runs, samplers >>
  BY DEF Measure!Columns, Measure!Some
<1>2. /\ m \in 1 .. Len(Trials) /\ i \in 1 .. warmup + iterations
      /\ samplers \in Seq(Threads) /\ Len(samplers) = m /\ Len(runs) = iterations
      /\ measured \in Optional(Reports) /\ measured # << >>
  BY <1>1 DEF MeasureTypes, InStep, JoinedIsGone
<1>3. measured[1] \in Reports /\ measured = << measured[1] >>
  BY <1>2, NoneIn
<1>4. count \in Nat
  <2>1. samplers[m] \in Threads
    BY <1>2, Numbers
  <2> QED
    BY <2>1 DEF Threads
<1>5. measured' = << held >>
  BY <1>1, <1>3
<1> HIDE DEF count
<1>6. << count >> \in Optional(Nat) /\ << count >>[1] = count
  BY <1>4, SomeIn
<1>7. /\ held \in Reports /\ held.columns = << count >>
      /\ held.of = measured[1].of /\ held.rttm = measured[1].rttm
      /\ held.joined = measured[1].joined /\ held.sample_count = measured[1].sample_count
  BY <1>3, <1>6 DEF Reports
<1> HIDE DEF held
<1>8. measured' # << >> /\ measured'[1] = held /\ measured' \in Optional(Reports)
  BY <1>5, <1>7, SomeIn
<1>9. MeasureTypes'
  <2>1. m' \in 1 .. Len(Trials)
    BY <1>1, <1>2, Numbers
  <2>2. i' \in 1 .. warmup + iterations
    BY <1>1, <1>2, Numbers
  <2>3. pc' \in {"launch", "done"}
    BY <1>1
  <2> QED
    BY <1>1, <1>8, <2>1, <2>2, <2>3 DEF MeasureTypes, Measure!Paths
<1>10. InStep'
  BY <1>1, <1>2, Numbers DEF InStep, RunsDone
<1>11. OwnOutput'
  BY <1>1, Numbers DEF OwnOutput, FirstIsWritten
<1>12. Measure!NoStaleOutput'
  BY <1>1, <1>7, <1>8 DEF Measure!NoStaleOutput, Measure!None
<1>13. Measure!JoinedSummaryIsWhole'
  BY <1>1, <1>6, <1>7, <1>8 DEF Measure!JoinedSummaryIsWhole, Measure!None, JoinedIsGone, count
<1> QED
  BY <1>1, <1>9, <1>10, <1>11, <1>12, <1>13 DEF JoinedIsGone, Measure!IdenticalIsAll

LEMMA MeasureKeeps ==
    ASSUME MeasureInv, Measure!Next \/ UNCHANGED measureVars
    PROVE  MeasureInv'
<1>1. CASE UNCHANGED measureVars
  <2> USE <1>1 DEF measureVars, MeasureInv
  <2>1. MeasureTypes'
    BY DEF MeasureTypes, Measure!Paths
  <2>2. InStep'
    BY DEF InStep, RunsDone
  <2>3. OwnOutput'
    BY DEF OwnOutput, FirstIsWritten, Measure!Output
  <2>4. JoinedIsGone'
    BY DEF JoinedIsGone
  <2>5. Measure!NoStaleOutput' /\ Measure!IdenticalIsAll' /\ Measure!JoinedSummaryIsWhole'
    BY DEF Measure!NoStaleOutput, Measure!IdenticalIsAll, Measure!JoinedSummaryIsWhole
  <2> QED
    BY <2>1, <2>2, <2>3, <2>4, <2>5
<1>2. CASE Measure!Measure
  BY <1>2, LaunchKeeps, ChildKeeps, RunKeeps, JoinKeeps, CountKeeps, ColumnsKeep
     DEF Measure!Measure
<1>3. ASSUME NEW s \in DOMAIN samplers, Measure!Sampling(s)
      PROVE  MeasureInv'
  BY <1>3, SamplingKeeps
<1> QED
  BY <1>1, <1>2, <1>3 DEF Measure!Next

LEMMA MeasurePromises == MeasureInv => MeasuredIsItsOwn
<1> SUFFICES ASSUME MeasureInv PROVE MeasuredIsItsOwn
  OBVIOUS
<1> USE DEF MeasureInv
<1>1. /\ m \in 1 .. Len(Trials) /\ i \in 1 .. warmup + iterations
      /\ pc \in {"launch", "child", "read", "join", "count", "columns", "done"}
      /\ measured \in Optional(Reports)
  BY DEF MeasureTypes
<1>2. Len(runs) <= iterations
  BY <1>1, Numbers DEF InStep, RunsDone
<1>3. Len(samplers) <= m
  BY <1>1, Numbers DEF InStep
<1>4. Len(measured) <= 1
  <2>1. measured = << >> \/ measured = << measured[1] >>
    BY <1>1, NoneIn
  <2> DEFINE one == measured[1]
  <2>2. Len(<< >>) = 0 /\ Len(<< one >>) = 1
    OBVIOUS
  <2> QED
    BY <2>1, <2>2
<1> QED
  BY <1>1, <1>2, <1>3, <1>4, Numbers DEF MeasuredIsItsOwn, Measure!TypeOK

(* What a measurement reports is of its own runs: no result and no         *)
(* reported RTTM is the file of another run or of an earlier measurement   *)
(* under the same label, "body_identical" is said of all runs that         *)
(* returned 0, and the summary of a joined thread is whole; for any number *)
(* of measurements, runs and samples (diar_harness.py, measure).           *)
THEOREM MeasurementIsItsOwn == Spec => []MeasuredIsItsOwn
<1>1. Init => MeasureInv
  BY MeasureStarts DEF Init
<1>2. MeasureInv /\ [Next]_vars => MeasureInv'
  BY MeasureOrWait, MeasureKeeps
<1>3. MeasureInv => MeasuredIsItsOwn
  BY MeasurePromises
<1> QED
  BY <1>1, <1>2, <1>3, PTL DEF Spec

-----------------------------------------------------------------------------
(* The session: what is chosen of a sequence is of that sequence.          *)

LEMMA ChosenFrom ==
    ASSUME NEW S, NEW s \in Seq(S), NEW K, K \subseteq DOMAIN s
    PROVE  /\ Matrix!Chosen(s, K) \in Seq(S)
           /\ \A n \in DOMAIN Matrix!Chosen(s, K) : \E k \in K : Matrix!Chosen(s, K)[n] = s[k]
           /\ K # {} => 1 \in DOMAIN Matrix!Chosen(s, K)
<1>1. Matrix!Chosen(s, K) = Chosen(s, K)
  BY DEF Matrix!Chosen, Matrix!Cardinality, Cardinality, Chosen
<1> QED
  BY <1>1, Choosing

-----------------------------------------------------------------------------
(* The session: what its report claims.                                    *)

Keys == {"build", "fixtures", "gpu_streaming", "determinism", "gpu_offline_preset",
         "cpu_fallback", "directory_concurrency", "determinism_sweep", "prob_sweep",
         "records"}

LabelsOf(gpu) == {gpu[k].label : k \in DOMAIN gpu}

\* What the value of a key may claim of a matrix.
Comparable(gpu, labels) ==
    /\ Matrix!Range(labels) \subseteq LabelsOf(gpu)
    /\ LabelsOf(gpu) \cap Matrix!Real # {} => Matrix!Range(labels) \subseteq Matrix!Real
Spoken(gpu) == \E k \in DOMAIN gpu : /\ gpu[k].result.segments > 0 /\ gpu[k].result.ok > 1
                                     /\ gpu[k].result.identical
SetsAgree(sets) ==
    \A k \in DOMAIN sets :
        /\ sets[k].identical => /\ Len(sets[k].hashes) = N_DET_REPEAT
                                /\ Matrix!Unique(sets[k].hashes) = 1
        /\ sets[k].matches_baseline = << TRUE >> =>
             sets[1].hashes # << >> /\ sets[1].hashes[1] = sets[k].hashes[1]
SameFiles(c) == c.match => c.file = c.dir /\ DOMAIN c.file # {}

Claim(audio, gpu, key, v) ==
    /\ key \in {"gpu_offline_preset", "cpu_fallback"} => Comparable(gpu, v)
    /\ key = "determinism" => (v.all_body_identical => Spoken(gpu))
    /\ key = "determinism_sweep" => v.audio \in audio /\ SetsAgree(v.sets)
    /\ key = "directory_concurrency" => SameFiles(v)

Late == {"offline", "cpu", "concurrency", "det", "prob", "records", "end"}

MatrixTypes ==
    /\ phase \in {"prepare", "fixtures", "matrix"} \cup Late
    /\ mount \in Mounts
    /\ fixtures \in Seq(mount \cup Matrix!Range(Synth))
    /\ status \in {"running", "pass", "error"}
    /\ DOMAIN report \subseteq Keys

Entries == [label : mount \cup Matrix!Range(Synth), result : Measured]

\* The matrix is of the fixtures, from its step on; before it, no key claims
\* anything.
MatrixIsOfFixtures ==
    IF phase \in Late
      THEN /\ "gpu_streaming" \in DOMAIN report
           /\ Matrix!Gpu \in Seq(Entries) /\ Len(Matrix!Gpu) = Len(fixtures)
           /\ \A k \in DOMAIN fixtures : Matrix!Gpu[k].label = fixtures[k]
      ELSE DOMAIN report \subseteq {"build", "fixtures"}

ClaimsHold ==
    phase \in Late =>
        \A key \in DOMAIN report : Claim(mount, report["gpu_streaming"], key, report[key])

\* Records come last, one per fixture.
RecordsAreLast ==
    /\ "records" \in DOMAIN report <=> phase = "end"
    /\ phase = "end" => report["records"] = fixtures

\* What was emitted is the report, its status that of the session.
EmittedIsReport ==
    /\ status = "error" => phase # "end"
    /\ status = "pass"  => phase = "end" /\ emitted # << >>
    /\ emitted = << >> => jsonl = << >>
    /\ emitted # << >> =>
          /\ status # "running"
          /\ emitted = << Matrix!with(report, "status", status) >>
          /\ jsonl # << >> => phase = "end" /\ jsonl = fixtures

MatrixInv == /\ MatrixTypes /\ MatrixIsOfFixtures /\ ClaimsHold
             /\ RecordsAreLast /\ EmittedIsReport

LEMMA MatrixStarts == Matrix!Init => MatrixInv
<1> SUFFICES ASSUME Matrix!Init PROVE MatrixInv
  OBVIOUS
<1> USE DEF Matrix!Init, Matrix!None
<1>1. fixtures \in Seq(mount \cup Matrix!Range(Synth))
  OBVIOUS
<1>2. DOMAIN report = {}
  OBVIOUS
<1> QED
  BY <1>1, <1>2 DEF MatrixInv, MatrixTypes, MatrixIsOfFixtures, ClaimsHold, RecordsAreLast,
     EmittedIsReport, Late

LEMMA MatrixOrWait ==
    ASSUME [Next]_vars
    PROVE  Matrix!Next \/ UNCHANGED matrixVars
  BY DEF Next, vars, matrixVars

\* A step of the session, as far as its key does not matter.
LEMMA Stepping ==
    ASSUME MatrixInv, NEW from, NEW to, Matrix!Step(from, to), to \in {"fixtures", "matrix"} \cup Late
    PROVE  /\ phase = from /\ phase' = to /\ mount' = mount
           /\ status = "running" /\ status' = "running"
           /\ emitted = << >> /\ emitted' = << >> /\ jsonl' = << >>
           /\ EmittedIsReport'
<1>1. /\ phase = from /\ phase' = to /\ status = "running"
      /\ UNCHANGED << mount, status, emitted, jsonl >>
  BY DEF Matrix!Step
<1>2. emitted = << >> /\ jsonl = << >>
  BY <1>1 DEF MatrixInv, EmittedIsReport
<1> QED
  BY <1>1, <1>2 DEF EmittedIsReport

\* A step of the second half sets keys, and their values claim nothing that
\* the matrix does not back.
LEMMA Setting ==
    ASSUME MatrixTypes, MatrixIsOfFixtures, ClaimsHold, phase \in Late, phase' \in Late,
           mount' = mount, fixtures' = fixtures, status' \in {"running", "pass", "error"},
           NEW new, new \subseteq Keys \ {"gpu_streaming"},
           DOMAIN report' = DOMAIN report \cup new,
           \A k \in DOMAIN report \ new : report'[k] = report[k],
           \A k \in new : Claim(mount, Matrix!Gpu, k, report'[k])
    PROVE  MatrixTypes' /\ MatrixIsOfFixtures' /\ ClaimsHold'
<1>1. "gpu_streaming" \in DOMAIN report /\ report'["gpu_streaming"] = report["gpu_streaming"]
  BY DEF MatrixIsOfFixtures
<1>2. Matrix!Gpu' = Matrix!Gpu
  BY <1>1 DEF Matrix!Gpu
<1>3. MatrixTypes'
  BY DEF MatrixTypes
<1>4. MatrixIsOfFixtures'
  BY <1>1, <1>2 DEF MatrixIsOfFixtures, Entries
<1>5. ClaimsHold'
  <2>1. report'["gpu_streaming"] = Matrix!Gpu
    BY <1>1 DEF Matrix!Gpu
  <2>2. ASSUME NEW k \in DOMAIN report'
        PROVE  Claim(mount', report'["gpu_streaming"], k, report'[k])
    <3>1. CASE k \in new
      BY <2>1, <3>1
    <3>2. CASE k \notin new
      <4>1. k \in DOMAIN report /\ report'[k] = report[k]
        BY <3>2
      <4>2. Claim(mount, report["gpu_streaming"], k, report[k])
        BY <4>1 DEF ClaimsHold
      <4> QED
        BY <1>1, <4>1, <4>2
    <3> QED
      BY <3>1, <3>2
  <2> QED
    BY <2>2 DEF ClaimsHold
<1> QED
  BY <1>3, <1>4, <1>5

\* A step that sets no key keeps what the report claims.
LEMMA NotSetting ==
    ASSUME MatrixTypes, MatrixIsOfFixtures, ClaimsHold, phase \in Late, phase' \in Late,
           mount' = mount, fixtures' = fixtures, report' = report,
           status' \in {"running", "pass", "error"}
    PROVE  MatrixTypes' /\ MatrixIsOfFixtures' /\ ClaimsHold'
<1>1. MatrixTypes'
  BY DEF MatrixTypes
<1>2. MatrixIsOfFixtures'
  BY DEF MatrixIsOfFixtures, Matrix!Gpu, Entries
<1>3. ClaimsHold'
  BY DEF ClaimsHold, Claim
<1> QED
  BY <1>1, <1>2, <1>3

LEMMA SeqInto ==
    ASSUME NEW S, NEW T, NEW s \in Seq(S), \A n \in DOMAIN s : s[n] \in T
    PROVE  s \in Seq(T)
  OBVIOUS

LEMMA PrepareKeeps == ASSUME MatrixInv, Matrix!Prepare PROVE MatrixInv'
<1> USE DEF MatrixInv
<1>1. /\ Matrix!Step("prepare", "fixtures") /\ fixtures' = fixtures
      /\ report' = Matrix!with(report, "build", TRUE)
  BY DEF Matrix!Prepare
<1>2. /\ phase = "prepare" /\ phase' = "fixtures" /\ mount' = mount
      /\ status' = "running" /\ EmittedIsReport'
  BY <1>1, Stepping
<1>3. DOMAIN report \subseteq {"build", "fixtures"}
  BY <1>2 DEF MatrixIsOfFixtures, Late
<1>4. DOMAIN report' \subseteq {"build", "fixtures"}
  BY <1>1, <1>3 DEF Matrix!with
<1>5. MatrixTypes'
  BY <1>1, <1>2, <1>4 DEF MatrixTypes, Keys
<1>6. MatrixIsOfFixtures'
  BY <1>2, <1>4 DEF MatrixIsOfFixtures, Late
<1>7. RecordsAreLast'
  BY <1>2, <1>4 DEF RecordsAreLast
<1>8. ClaimsHold'
  BY <1>2 DEF ClaimsHold, Late
<1> QED
  BY <1>2, <1>5, <1>6, <1>7, <1>8

LEMMA FixturesKeep == ASSUME MatrixInv, Matrix!build_fixtures PROVE MatrixInv'
<1> USE DEF MatrixInv
<1> DEFINE all == Matrix!Recordings
           R   == Matrix!Range(Synth)
<1>1. PICK converted \in SUBSET mount :
        /\ fixtures' = Matrix!Chosen(all, {k \in 1 .. 3 : all[k] \in converted}) \o Synth
        /\ report' = Matrix!with(report, "fixtures", fixtures')
  BY DEF Matrix!build_fixtures
<1> DEFINE K    == {k \in 1 .. 3 : all[k] \in converted}
           kept == Matrix!Chosen(all, K)
<1>2. /\ phase = "fixtures" /\ phase' = "matrix" /\ mount' = mount
      /\ status' = "running" /\ EmittedIsReport'
  <2>1. Matrix!Step("fixtures", "matrix")
    BY DEF Matrix!build_fixtures
  <2> QED
    BY <2>1, Stepping
<1>3. kept \in Seq(mount)
  <2> DEFINE S == STRING \cup {"real_short", "real_mid", "real_long"}
  <2>1. all \in Seq(S) /\ DOMAIN all = 1 .. 3
    BY DEF Matrix!Recordings
  <2> HIDE DEF all, S
  <2>2. K \subseteq DOMAIN all
    BY <2>1
  <2> HIDE DEF K
  <2>3. /\ kept \in Seq(S)
        /\ \A n \in DOMAIN kept : \E k \in K : kept[n] = all[k]
    BY <2>1, <2>2, ChosenFrom
  <2>4. \A k \in K : all[k] \in mount
    BY DEF K
  <2> HIDE DEF kept
  <2>5. \A n \in DOMAIN kept : kept[n] \in mount
    BY <2>3, <2>4
  <2> QED
    BY <2>3, <2>5, SeqInto
<1>4. fixtures' \in Seq(mount \cup R)
  <2>1. Synth \in Seq(R)
    <3>1. Synth \in Seq(STRING)
      BY Sessions
    <3>2. \A n \in DOMAIN Synth : Synth[n] \in R
      BY DEF Matrix!Range
    <3> HIDE DEF R
    <3> QED
      BY <3>1, <3>2, SeqInto
  <2>2. fixtures' = kept \o Synth
    BY <1>1
  <2> HIDE DEF kept, R
  <2>3. kept \in Seq(mount \cup R) /\ Synth \in Seq(mount \cup R)
    BY <1>3, <2>1
  <2> QED
    BY <2>2, <2>3
<1>5. DOMAIN report' \subseteq {"build", "fixtures"}
  <2>1. DOMAIN report \subseteq {"build", "fixtures"}
    BY <1>2 DEF MatrixIsOfFixtures, Late
  <2> QED
    BY <1>1, <2>1 DEF Matrix!with
<1>6. MatrixTypes'
  BY <1>2, <1>4, <1>5 DEF MatrixTypes, Keys
<1>7. MatrixIsOfFixtures'
  BY <1>2, <1>5 DEF MatrixIsOfFixtures, Late
<1>8. RecordsAreLast'
  BY <1>2, <1>5 DEF RecordsAreLast
<1>9. ClaimsHold'
  BY <1>2 DEF ClaimsHold, Late
<1> QED
  BY <1>2, <1>6, <1>7, <1>8, <1>9

LEMMA MeasuringKeeps == ASSUME MatrixInv, Matrix!run_matrix PROVE MatrixInv'
<1> USE DEF MatrixInv
<1>1. PICK results \in [DOMAIN fixtures -> Measured] :
        report' = Matrix!with(report, "gpu_streaming",
            [k \in DOMAIN fixtures |-> [label |-> fixtures[k], result |-> results[k]]])
  BY DEF Matrix!run_matrix
<1>2. /\ phase = "matrix" /\ phase' = "offline" /\ mount' = mount /\ fixtures' = fixtures
      /\ status' = "running" /\ EmittedIsReport'
  <2>1. Matrix!Step("matrix", "offline") /\ fixtures' = fixtures
    BY DEF Matrix!run_matrix
  <2> QED
    BY <2>1, Stepping DEF Late
<1> DEFINE gpu == [k \in DOMAIN fixtures |-> [label |-> fixtures[k], result |-> results[k]]]
<1>3. fixtures \in Seq(mount \cup Matrix!Range(Synth))
  BY DEF MatrixTypes
<1>4. /\ gpu \in Seq(Entries) /\ Len(gpu) = Len(fixtures)
      /\ \A k \in DOMAIN fixtures : gpu[k].label = fixtures[k]
  <2>1. \A k \in DOMAIN fixtures : gpu[k] \in Entries /\ gpu[k].label = fixtures[k]
    BY <1>3 DEF Entries
  <2>2. DOMAIN fixtures = 1 .. Len(fixtures) /\ Len(fixtures) \in Nat
    BY <1>3
  <2>3. gpu = [k \in 1 .. Len(fixtures) |-> gpu[k]]
    BY <2>2
  <2> HIDE DEF gpu
  <2> QED
    BY <2>1, <2>2, <2>3
<1>5. report' = Matrix!with(report, "gpu_streaming", gpu)
  BY <1>1
<1> HIDE DEF gpu
<1>6. DOMAIN report' \subseteq {"build", "fixtures", "gpu_streaming"}
      /\ "gpu_streaming" \in DOMAIN report' /\ report'["gpu_streaming"] = gpu
  <2>1. DOMAIN report \subseteq {"build", "fixtures"}
    BY <1>2 DEF MatrixIsOfFixtures, Late
  <2> QED
    BY <1>5, <2>1 DEF Matrix!with
<1>7. MatrixTypes'
  BY <1>2, <1>6 DEF MatrixTypes, Keys, Late
<1>8. MatrixIsOfFixtures'
  BY <1>2, <1>4, <1>6 DEF MatrixIsOfFixtures, Late, Matrix!Gpu, Entries
<1>9. RecordsAreLast'
  BY <1>2, <1>6 DEF RecordsAreLast
<1>10. ClaimsHold'
  BY <1>6 DEF ClaimsHold, Claim
<1> QED
  BY <1>2, <1>7, <1>8, <1>9, <1>10

\* The entries of the matrix under some labels: of the matrix, and of these.
LEMMA Selected ==
    ASSUME MatrixTypes, MatrixIsOfFixtures, phase \in Late, NEW labels
    PROVE  LET es == Matrix!select_entries(Matrix!Gpu, labels) IN
           /\ es \in Seq(Entries)
           /\ \A n \in DOMAIN es : \E k \in DOMAIN Matrix!Gpu :
                 es[n] = Matrix!Gpu[k] /\ Matrix!Gpu[k].label \in labels
           /\ (\E k \in DOMAIN Matrix!Gpu : Matrix!Gpu[k].label \in labels) => es # << >>
           /\ es # << >> => 1 \in DOMAIN es
<1> DEFINE gpu == Matrix!Gpu
           K   == {k \in DOMAIN gpu : gpu[k].label \in labels}
           es  == Matrix!Chosen(gpu, K)
<1>1. gpu \in Seq(Entries)
  BY DEF MatrixIsOfFixtures
<1>2. Matrix!select_entries(gpu, labels) = es
  BY DEF Matrix!select_entries
<1>3. K \subseteq DOMAIN gpu
  OBVIOUS
<1> HIDE DEF gpu, K
<1>4. /\ es \in Seq(Entries)
      /\ \A n \in DOMAIN es : \E k \in K : es[n] = gpu[k]
      /\ K # {} => 1 \in DOMAIN es
  BY <1>1, <1>3, ChosenFrom
<1> HIDE DEF es
<1>5. K # {} => es # << >>
  BY <1>4
<1>6. es # << >> => 1 \in DOMAIN es
  BY <1>4
<1> QED
  BY <1>2, <1>4, <1>5, <1>6 DEF K, gpu

\* What the comparisons run on was measured, and is recorded speech if any was.
LEMMA Comparing ==
    ASSUME MatrixTypes, MatrixIsOfFixtures, phase \in Late, NEW n \in Nat
    PROVE  Comparable(Matrix!Gpu, Matrix!Upto(Matrix!Compared, n))
<1> DEFINE gpu  == Matrix!Gpu
           L    == LabelsOf(gpu)
           real == Matrix!RealEntries
           from == IF real # << >> THEN real ELSE gpu
           ls   == Matrix!Labels(from)
           upto == Matrix!Upto(ls, n)
<1>1. gpu \in Seq(Entries) /\ \A k \in DOMAIN gpu : gpu[k].label \in L
  BY DEF MatrixIsOfFixtures, LabelsOf
<1>2. /\ real \in Seq(Entries)
      /\ \A k \in DOMAIN real : real[k].label \in L /\ real[k].label \in Matrix!Real
      /\ L \cap Matrix!Real # {} => real # << >>
  <2>1. real = Matrix!select_entries(gpu, Matrix!Real)
    BY DEF Matrix!RealEntries
  <2>2. /\ real \in Seq(Entries)
        /\ \A k \in DOMAIN real : \E j \in DOMAIN gpu :
              real[k] = gpu[j] /\ gpu[j].label \in Matrix!Real
        /\ (\E k \in DOMAIN gpu : gpu[k].label \in Matrix!Real) => real # << >>
    BY <2>1, Selected
  <2>3. L \cap Matrix!Real # {} => \E k \in DOMAIN gpu : gpu[k].label \in Matrix!Real
    BY DEF LabelsOf
  <2> HIDE DEF real, gpu, L
  <2> QED
    BY <1>1, <2>2, <2>3
<1> HIDE DEF real, gpu, L
<1>3. /\ from \in Seq(Entries)
      /\ \A k \in DOMAIN from : from[k].label \in L
      /\ L \cap Matrix!Real # {} => \A k \in DOMAIN from : from[k].label \in Matrix!Real
  BY <1>1, <1>2
<1>4. Matrix!Compared = ls
  BY DEF Matrix!Compared, real, gpu
<1> HIDE DEF from
<1>5. /\ ls \in Seq(L) /\ DOMAIN ls = DOMAIN from
      /\ \A k \in DOMAIN from : ls[k] = from[k].label
  <2>1. ls = [k \in DOMAIN from |-> from[k].label]
    BY DEF Matrix!Labels
  <2>2. DOMAIN from = 1 .. Len(from) /\ Len(from) \in Nat
    BY <1>3
  <2> HIDE DEF ls
  <2> QED
    BY <1>3, <2>1, <2>2
<1> HIDE DEF ls
<1>6. \A k \in DOMAIN upto : k \in DOMAIN ls /\ upto[k] = ls[k]
  <2> DEFINE c == IF Len(ls) < n THEN Len(ls) ELSE n
  <2>1. c \in Nat /\ c <= Len(ls) /\ Len(ls) \in Nat
    BY <1>5
  <2>2. upto = SubSeq(ls, 1, c)
    BY DEF Matrix!Upto
  <2> HIDE DEF upto, c
  <2> QED
    BY <1>5, <2>1, <2>2
<1> HIDE DEF upto
<1>7. /\ \A k \in DOMAIN upto : upto[k] \in L
      /\ L \cap Matrix!Real # {} => \A k \in DOMAIN upto : upto[k] \in Matrix!Real
  BY <1>3, <1>5, <1>6
<1>8. Comparable(gpu, upto)
  BY <1>7 DEF Comparable, Matrix!Range, L
<1> QED
  BY <1>4, <1>8 DEF gpu, upto

LEMMA OfflineKeeps == ASSUME MatrixInv, Matrix!run_offline PROVE MatrixInv'
<1> USE DEF MatrixInv
<1> DEFINE gpu == Matrix!Gpu
           d   == Matrix!determinism(gpu)
           o   == Matrix!Upto(Matrix!Compared, 2)
           new == {"determinism", "gpu_offline_preset"}
<1>1. /\ fixtures' = fixtures
      /\ report' = Matrix!with(Matrix!with(report, "determinism", d), "gpu_offline_preset", o)
  BY DEF Matrix!run_offline
<1>2. /\ phase = "offline" /\ phase' = "cpu" /\ mount' = mount
      /\ status' = "running" /\ EmittedIsReport'
  <2>1. Matrix!Step("offline", "cpu")
    BY DEF Matrix!run_offline
  <2> QED
    BY <2>1, Stepping DEF Late
<1>3. Claim(mount, gpu, "determinism", d)
  <2>1. d.all_body_identical => Spoken(gpu)
    BY DEF Matrix!determinism, Spoken
  <2> HIDE DEF d, gpu
  <2> QED
    BY <2>1 DEF Claim
<1>4. Claim(mount, gpu, "gpu_offline_preset", o)
  <2>1. Comparable(gpu, o)
    BY <1>2, Comparing DEF Late
  <2> HIDE DEF o, gpu
  <2> QED
    BY <2>1 DEF Claim
<1> HIDE DEF d, o, gpu
<1>5. /\ DOMAIN report' = DOMAIN report \cup new
      /\ report'["determinism"] = d /\ report'["gpu_offline_preset"] = o
      /\ \A k \in DOMAIN report \ new : report'[k] = report[k]
  BY <1>1 DEF Matrix!with
<1>6. MatrixTypes' /\ MatrixIsOfFixtures' /\ ClaimsHold'
  <2>1. \A k \in new : Claim(mount, Matrix!Gpu, k, report'[k])
    BY <1>3, <1>4, <1>5 DEF gpu
  <2>2. new \subseteq Keys \ {"gpu_streaming"}
    BY DEF Keys
  <2>3. phase \in Late /\ phase' \in Late /\ status' \in {"running", "pass", "error"}
    BY <1>2 DEF Late
  <2> HIDE DEF new
  <2> QED
    BY <1>1, <1>2, <1>5, <2>1, <2>2, <2>3, Setting
<1>7. RecordsAreLast'
  BY <1>2, <1>5 DEF RecordsAreLast
<1> QED
  BY <1>2, <1>6, <1>7

\* One key more in the report of a session that is not through yet.
LEMMA SettingOne ==
    ASSUME MatrixInv, phase \in Late, phase' \in Late \ {"end"},
           mount' = mount, fixtures' = fixtures, status' = "running", EmittedIsReport',
           NEW key, key \in Keys \ {"gpu_streaming", "records"}, NEW v,
           report' = Matrix!with(report, key, v), Claim(mount, Matrix!Gpu, key, v),
           phase # "end"
    PROVE  MatrixInv'
<1> USE DEF MatrixInv
<1> DEFINE new == {key}
<1>1. /\ DOMAIN report' = DOMAIN report \cup new /\ report'[key] = v
      /\ \A k \in DOMAIN report \ new : report'[k] = report[k]
  BY DEF Matrix!with
<1>2. MatrixTypes' /\ MatrixIsOfFixtures' /\ ClaimsHold'
  <2>1. \A k \in new : Claim(mount, Matrix!Gpu, k, report'[k])
    BY <1>1
  <2>2. new \subseteq Keys \ {"gpu_streaming"}
    OBVIOUS
  <2>3. phase' \in Late /\ status' \in {"running", "pass", "error"}
    OBVIOUS
  <2> HIDE DEF new
  <2> QED
    BY <1>1, <2>1, <2>2, <2>3, Setting
<1>3. RecordsAreLast'
  BY <1>1 DEF RecordsAreLast
<1> QED
  BY <1>2, <1>3

\* No key, and the next phase.
LEMMA SettingNone ==
    ASSUME MatrixInv, phase \in Late \ {"end"}, phase' \in Late \ {"end"}, mount' = mount,
           fixtures' = fixtures, report' = report, status' = "running", EmittedIsReport'
    PROVE  MatrixInv'
<1> USE DEF MatrixInv
<1>1. MatrixTypes' /\ MatrixIsOfFixtures' /\ ClaimsHold'
  <2>1. status' \in {"running", "pass", "error"}
    OBVIOUS
  <2> QED
    BY <2>1, NotSetting
<1>2. RecordsAreLast'
  BY DEF RecordsAreLast
<1> QED
  BY <1>1, <1>2

LEMMA CpuKeeps == ASSUME MatrixInv, Matrix!run_cpu PROVE MatrixInv'
<1> USE DEF MatrixInv
<1> DEFINE v == Matrix!Upto(Matrix!Compared, 1)
<1>1. fixtures' = fixtures /\ report' = Matrix!with(report, "cpu_fallback", v)
  BY DEF Matrix!run_cpu
<1>2. /\ phase = "cpu" /\ phase' = "concurrency" /\ mount' = mount
      /\ status' = "running" /\ EmittedIsReport'
  <2>1. Matrix!Step("cpu", "concurrency")
    BY DEF Matrix!run_cpu
  <2> QED
    BY <2>1, Stepping DEF Late
<1>3. phase \in Late /\ phase' \in Late \ {"end"} /\ "cpu_fallback" \in Keys
  BY <1>2 DEF Late, Keys
<1>4. Claim(mount, Matrix!Gpu, "cpu_fallback", v)
  <2>1. Comparable(Matrix!Gpu, v)
    BY <1>3, Comparing
  <2> HIDE DEF v
  <2> QED
    BY <2>1 DEF Claim
<1> HIDE DEF v, MatrixInv
<1> QED
  BY <1>1, <1>2, <1>3, <1>4, SettingOne

\* Equal bodies under equal names are equal outputs.
LEMMA Matching ==
    ASSUME NEW file \in Outputs, NEW dir \in Outputs, Matrix!BodiesMatch(file, dir)
    PROVE  file = dir /\ DOMAIN file # {}
<1>1. /\ DOMAIN file # {} /\ DOMAIN dir = DOMAIN file
      /\ \A c \in DOMAIN file : dir[c] = file[c]
  BY DEF Matrix!BodiesMatch
<1>2. file \in [DOMAIN file -> Bodies] /\ dir \in [DOMAIN dir -> Bodies]
  BY Sessions
<1> QED
  BY <1>1, <1>2

LEMMA ConcurrencyKeeps == ASSUME MatrixInv, Matrix!run_concurrency PROVE MatrixInv'
<1> USE DEF MatrixInv
<1>1. /\ phase = "concurrency" /\ phase' = "det" /\ mount' = mount /\ fixtures' = fixtures
      /\ status' = "running" /\ EmittedIsReport'
  <2>1. Matrix!Step("concurrency", "det") /\ fixtures' = fixtures
    BY DEF Matrix!run_concurrency
  <2> QED
    BY <2>1, Stepping DEF Late
<1>2. phase \in Late \ {"end"} /\ phase' \in Late \ {"end"}
      /\ "directory_concurrency" \in Keys
  BY <1>1 DEF Late, Keys
<1>3. CASE report' = report
  BY <1>1, <1>2, <1>3, SettingNone
<1>4. CASE \E file, dir \in Outputs :
              report' = Matrix!with(report, "directory_concurrency",
                  [file |-> file, dir |-> dir, match |-> Matrix!BodiesMatch(file, dir)])
  <2>1. PICK file \in Outputs, dir \in Outputs :
              report' = Matrix!with(report, "directory_concurrency",
                  [file |-> file, dir |-> dir, match |-> Matrix!BodiesMatch(file, dir)])
    BY <1>4
  <2> DEFINE v == [file |-> file, dir |-> dir, match |-> Matrix!BodiesMatch(file, dir)]
  <2>2. v.match => v.file = v.dir /\ DOMAIN v.file # {}
    <3>1. v.match = Matrix!BodiesMatch(file, dir) /\ v.file = file /\ v.dir = dir
      OBVIOUS
    <3>2. Matrix!BodiesMatch(file, dir) => file = dir /\ DOMAIN file # {}
      BY Matching
    <3> HIDE DEF v
    <3> QED
      BY <3>1, <3>2
  <2>3. report' = Matrix!with(report, "directory_concurrency", v)
    BY <2>1
  <2> HIDE DEF v
  <2>4. Claim(mount, Matrix!Gpu, "directory_concurrency", v)
    BY <2>2 DEF Claim, SameFiles
  <2> HIDE DEF MatrixInv
  <2> QED
    BY <1>1, <1>2, <2>3, <2>4, SettingOne
<1> QED
  BY <1>3, <1>4 DEF Matrix!run_concurrency

\* The audio of the sweeps was mounted: a tone is no recording.
LEMMA DetCaseIsMounted ==
    ASSUME MatrixTypes, MatrixIsOfFixtures, phase \in Late, Matrix!DetCase # << >>
    PROVE  Matrix!DetCase[1] \in mount
<1> DEFINE labels == {"real_short", "real_mid"}
           gpu    == Matrix!Gpu
           es     == Matrix!select_entries(gpu, labels)
<1>1. /\ \A n \in DOMAIN es : \E k \in DOMAIN gpu : es[n] = gpu[k] /\ gpu[k].label \in labels
      /\ es # << >> => 1 \in DOMAIN es
  BY Selected
<1>2. es # << >> /\ Matrix!DetCase = << es[1].label >>
  BY DEF Matrix!DetCase, Matrix!Some, Matrix!None
<1> HIDE DEF es
<1>3. PICK k \in DOMAIN gpu : es[1] = gpu[k] /\ gpu[k].label \in labels
  BY <1>1, <1>2
<1>4. gpu[k].label \in mount \cup Matrix!Range(Synth)
  <2>1. gpu \in Seq(Entries)
    BY DEF MatrixIsOfFixtures
  <2> HIDE DEF gpu
  <2>2. gpu[k] \in Entries
    BY <2>1
  <2> QED
    BY <2>2 DEF Entries
<1>5. labels \subseteq Matrix!Real
  <2> DEFINE all == Matrix!Recordings
  <2>1. 1 \in DOMAIN all /\ all[1] = "real_short" /\ 2 \in DOMAIN all /\ all[2] = "real_mid"
    BY DEF Matrix!Recordings
  <2> HIDE DEF all
  <2> QED
    BY <2>1 DEF Matrix!Real, Matrix!Range, all
<1>6. gpu[k].label \notin Matrix!Range(Synth)
  BY <1>3, <1>5, Sessions
<1>7. Matrix!DetCase[1] = gpu[k].label
  BY <1>2, <1>3
<1> HIDE DEF gpu
<1> QED
  BY <1>4, <1>6, <1>7

\* A knob set agrees only of all its runs, and matches a baseline that is there.
Backed(entry, hashes, base) ==
    /\ entry.hashes = hashes
    /\ entry.rep0 = IF hashes # << >> THEN << hashes[1] >> ELSE << >>
    /\ entry.identical => Len(hashes) = N_DET_REPEAT /\ Matrix!Unique(hashes) = 1
    /\ entry.matches_baseline = << TRUE >> =>
          base # << >> /\ hashes # << >> /\ << hashes[1] >> = base[1].rep0

LEMMA SetIsBacked ==
    ASSUME NEW ok \in BOOLEAN, NEW hashes, ok => Len(hashes) = N_DET_REPEAT, NEW base,
           NEW entry, entry = Matrix!SetEntry(ok, hashes, base)
    PROVE  Backed(entry, hashes, base)
<1> DEFINE same  == << hashes[1] >> = base[1].rep0
           said  == IF base # << >> /\ hashes # << >> THEN << same >> ELSE << >>
           alike == ok /\ Matrix!Unique(hashes) = 1
           first == IF hashes # << >> THEN << hashes[1] >> ELSE << >>
<1>1. entry = [ok |-> ok, hashes |-> hashes, identical |-> alike, rep0 |-> first,
               matches_baseline |-> said]
  BY DEF Matrix!SetEntry, Matrix!Some, Matrix!None
<1>2. alike => Len(hashes) = N_DET_REPEAT /\ Matrix!Unique(hashes) = 1
  OBVIOUS
<1>3. said = << TRUE >> => base # << >> /\ hashes # << >> /\ same
  <2> SUFFICES ASSUME said = << TRUE >> PROVE base # << >> /\ hashes # << >> /\ same
    OBVIOUS
  <2> HIDE DEF same
  <2>1. base # << >> /\ hashes # << >>
    <3>1. << TRUE >> # << >>
      OBVIOUS
    <3> QED
      BY <3>1
  <2>2. << same >>[1] = TRUE
    BY <2>1
  <2> QED
    BY <2>1, <2>2
<1> HIDE DEF said, alike, first
<1>4. /\ entry.hashes = hashes /\ entry.rep0 = first /\ entry.identical = alike
      /\ entry.matches_baseline = said
  BY <1>1
<1> QED
  BY <1>2, <1>3, <1>4 DEF first, Backed

LEMMA DetKeeps == ASSUME MatrixInv, Matrix!run_det_sweep PROVE MatrixInv'
<1> USE DEF MatrixInv
<1>1. /\ phase = "det" /\ phase' = "prob" /\ mount' = mount /\ fixtures' = fixtures
      /\ status' = "running" /\ EmittedIsReport'
  <2>1. Matrix!Step("det", "prob") /\ fixtures' = fixtures
    BY DEF Matrix!run_det_sweep
  <2> QED
    BY <2>1, Stepping DEF Late
<1>2. phase \in Late \ {"end"} /\ phase' \in Late \ {"end"} /\ "determinism_sweep" \in Keys
  BY <1>1 DEF Late, Keys
<1>3. CASE report' = report
  BY <1>1, <1>2, <1>3, SettingNone
<1>4. ASSUME Matrix!DetCase # << >>, NEW reps \in [DOMAIN KnobSets -> Matrix!Reps],
             LET first == Matrix!SetEntry(reps[1].ok, reps[1].hashes, << >>)
             IN  report' = Matrix!with(report, "determinism_sweep",
                   [audio |-> Matrix!DetCase[1],
                    sets  |-> [k \in DOMAIN KnobSets |->
                       IF k = 1 THEN first
                       ELSE Matrix!SetEntry(reps[k].ok, reps[k].hashes, << first >>)]])
      PROVE  MatrixInv'
  <2> DEFINE first == Matrix!SetEntry(reps[1].ok, reps[1].hashes, << >>)
             audio == Matrix!DetCase[1]
             entry(k) == Matrix!SetEntry(reps[k].ok, reps[k].hashes, << first >>)
             sets  == [k \in DOMAIN KnobSets |-> IF k = 1 THEN first ELSE entry(k)]
             v     == [audio |-> audio, sets |-> sets]
  <2>1. report' = Matrix!with(report, "determinism_sweep", v)
    BY <1>4
  <2>2. audio \in mount
    BY <1>2, <1>4, DetCaseIsMounted
  <2>3. ASSUME NEW k \in DOMAIN KnobSets
        PROVE  /\ reps[k].ok \in BOOLEAN
               /\ reps[k].ok => Len(reps[k].hashes) = N_DET_REPEAT
    <3>1. reps[k] \in Matrix!Reps
      OBVIOUS
    <3>2. PICK hs \in UNION { [1 .. n -> Bodies] : n \in 0 .. N_DET_REPEAT } :
            reps[k] = [ok |-> Len(hs) = N_DET_REPEAT, hashes |-> hs]
      BY <3>1 DEF Matrix!Reps
    <3> DEFINE all == Len(hs) = N_DET_REPEAT
    <3>3. all \in BOOLEAN
      OBVIOUS
    <3>4. reps[k] = [ok |-> all, hashes |-> hs]
      BY <3>2
    <3> HIDE DEF all
    <3>5. reps[k].ok = all /\ reps[k].hashes = hs
      BY <3>4
    <3> QED
      BY <3>3, <3>5 DEF all
  <2>4. DOMAIN KnobSets # {} => 1 \in DOMAIN KnobSets
    BY Sessions
  <2>5. ASSUME NEW k \in DOMAIN KnobSets
        PROVE  /\ sets[k].identical => /\ Len(sets[k].hashes) = N_DET_REPEAT
                                       /\ Matrix!Unique(sets[k].hashes) = 1
               /\ sets[k].matches_baseline = << TRUE >> =>
                    sets[1].hashes # << >> /\ sets[1].hashes[1] = sets[k].hashes[1]
    <3> DEFINE hs1 == reps[1].hashes
               hs  == reps[k].hashes
    <3>1. 1 \in DOMAIN KnobSets
      BY <2>4
    <3>2. sets[1] = first /\ (k # 1 => sets[k] = entry(k))
      BY <3>1
    <3>3. /\ first.hashes = hs1
          /\ first.rep0 = IF hs1 # << >> THEN << hs1[1] >> ELSE << >>
          /\ first.identical => Len(hs1) = N_DET_REPEAT /\ Matrix!Unique(hs1) = 1
          /\ first.matches_baseline # << TRUE >>
      <4>1. /\ reps[1].ok \in BOOLEAN /\ (reps[1].ok => Len(hs1) = N_DET_REPEAT)
            /\ first = Matrix!SetEntry(reps[1].ok, hs1, << >>)
        BY <2>3, <3>1
      <4> DEFINE done == reps[1].ok
      <4> HIDE DEF first, hs1, done
      <4>2. Backed(first, hs1, << >>)
        BY <4>1, SetIsBacked, Zenon DEF done
      <4> QED
        BY <4>2 DEF Backed
    <3>4. /\ entry(k).hashes = hs
          /\ entry(k).identical => Len(hs) = N_DET_REPEAT /\ Matrix!Unique(hs) = 1
          /\ entry(k).matches_baseline = << TRUE >> =>
                hs # << >> /\ << hs[1] >> = << first >>[1].rep0
      <4> DEFINE this == entry(k)
                 base == << first >>
      <4>1. /\ reps[k].ok \in BOOLEAN /\ (reps[k].ok => Len(hs) = N_DET_REPEAT)
            /\ this = Matrix!SetEntry(reps[k].ok, hs, base)
        BY <2>3
      <4> HIDE DEF this, base, hs
      <4>2. Backed(this, hs, base)
        BY <4>1, SetIsBacked, Zenon
      <4> QED
        BY <4>2 DEF Backed, this, base
    <3> HIDE DEF first, entry, sets, hs, hs1
    <3>5. << first >>[1].rep0 = first.rep0
      OBVIOUS
    <3>6. CASE k = 1
      BY <3>2, <3>3, <3>6
    <3>7. CASE k # 1
      <4>1. sets[k].identical => /\ Len(sets[k].hashes) = N_DET_REPEAT
                                 /\ Matrix!Unique(sets[k].hashes) = 1
        BY <3>2, <3>4, <3>7
      <4>2. ASSUME sets[k].matches_baseline = << TRUE >>
            PROVE  hs1 # << >> /\ hs1[1] = hs[1]
        <5>1. << hs[1] >> = IF hs1 # << >> THEN << hs1[1] >> ELSE << >>
          BY <3>2, <3>3, <3>4, <3>5, <3>7, <4>2
        <5>2. << hs[1] >> # << >> /\ << hs[1] >>[1] = hs[1] /\ << hs1[1] >>[1] = hs1[1]
          OBVIOUS
        <5> QED
          BY <5>1, <5>2
      <4> QED
        BY <3>2, <3>3, <3>4, <3>7, <4>1, <4>2
    <3> QED
      BY <3>6, <3>7
  <2>6. DOMAIN sets = DOMAIN KnobSets
    OBVIOUS
  <2> HIDE DEF sets, audio
  <2>7. SetsAgree(sets)
    BY <2>5, <2>6 DEF SetsAgree
  <2>8. v.audio = audio /\ v.sets = sets
    OBVIOUS
  <2> HIDE DEF v
  <2>9. Claim(mount, Matrix!Gpu, "determinism_sweep", v)
    BY <2>2, <2>7, <2>8 DEF Claim
  <2> HIDE DEF MatrixInv
  <2> QED
    BY <1>1, <1>2, <2>1, <2>9, SettingOne
<1> QED
  BY <1>3, <1>4 DEF Matrix!run_det_sweep, Matrix!None, Matrix!Some

LEMMA ProbKeeps == ASSUME MatrixInv, Matrix!run_prob_sweep PROVE MatrixInv'
<1> USE DEF MatrixInv
<1>1. /\ phase = "prob" /\ phase' = "records" /\ mount' = mount /\ fixtures' = fixtures
      /\ status' = "running" /\ EmittedIsReport'
  <2>1. Matrix!Step("prob", "records") /\ fixtures' = fixtures
    BY DEF Matrix!run_prob_sweep
  <2> QED
    BY <2>1, Stepping DEF Late
<1>2. phase \in Late \ {"end"} /\ phase' \in Late \ {"end"} /\ "prob_sweep" \in Keys
  BY <1>1 DEF Late, Keys
<1>3. CASE report' = report
  BY <1>1, <1>2, <1>3, SettingNone
<1>4. CASE report' = Matrix!with(report, "prob_sweep", TRUE)
  <2>1. Claim(mount, Matrix!Gpu, "prob_sweep", TRUE)
    BY DEF Claim
  <2> HIDE DEF MatrixInv
  <2> QED
    BY <1>1, <1>2, <1>4, <2>1, SettingOne
<1> QED
  BY <1>3, <1>4 DEF Matrix!run_prob_sweep

LEMMA RecordsKeep == ASSUME MatrixInv, Matrix!to_records PROVE MatrixInv'
<1> USE DEF MatrixInv
<1> DEFINE ls  == Matrix!Labels(Matrix!Gpu)
           new == {"records"}
<1>1. /\ phase = "records" /\ phase' = "end" /\ mount' = mount /\ fixtures' = fixtures
      /\ status' = "running" /\ EmittedIsReport'
      /\ report' = Matrix!with(report, "records", ls)
  <2>1. /\ Matrix!Step("records", "end") /\ fixtures' = fixtures
        /\ report' = Matrix!with(report, "records", ls)
    BY DEF Matrix!to_records
  <2> QED
    BY <2>1, Stepping DEF Late
<1>2. phase \in Late /\ phase' \in Late
  BY <1>1 DEF Late
<1>3. ls = fixtures
  <2> DEFINE gpu == Matrix!Gpu
  <2>1. /\ gpu \in Seq(Entries) /\ Len(gpu) = Len(fixtures)
        /\ \A k \in DOMAIN fixtures : gpu[k].label = fixtures[k]
    BY <1>2 DEF MatrixIsOfFixtures
  <2>2. fixtures \in Seq(mount \cup Matrix!Range(Synth))
    BY DEF MatrixTypes
  <2>3. ls = [k \in DOMAIN gpu |-> gpu[k].label]
    BY DEF Matrix!Labels
  <2> HIDE DEF gpu, ls
  <2>4. DOMAIN gpu = DOMAIN fixtures
    BY <2>1, <2>2
  <2>5. fixtures = [k \in DOMAIN fixtures |-> fixtures[k]]
    BY <2>2
  <2> QED
    BY <2>1, <2>3, <2>4, <2>5
<1> HIDE DEF ls
<1>4. /\ DOMAIN report' = DOMAIN report \cup new /\ report'["records"] = ls
      /\ \A k \in DOMAIN report \ new : report'[k] = report[k]
  BY <1>1 DEF Matrix!with
<1>5. MatrixTypes' /\ MatrixIsOfFixtures' /\ ClaimsHold'
  <2>1. \A k \in new : Claim(mount, Matrix!Gpu, k, report'[k])
    BY DEF Claim
  <2>2. new \subseteq Keys \ {"gpu_streaming"}
    BY DEF Keys
  <2>3. status' \in {"running", "pass", "error"}
    BY <1>1
  <2> HIDE DEF new
  <2> QED
    BY <1>1, <1>2, <1>4, <2>1, <2>2, <2>3, Setting
<1>6. RecordsAreLast'
  BY <1>1, <1>3, <1>4 DEF RecordsAreLast
<1> QED
  BY <1>1, <1>5, <1>6

\* A step that leaves the report and the phase alone.
LEMMA Ending ==
    ASSUME MatrixInv, UNCHANGED << phase, mount, fixtures, report >>,
           status' \in {"running", "pass", "error"}
    PROVE  MatrixTypes' /\ MatrixIsOfFixtures' /\ ClaimsHold' /\ RecordsAreLast'
<1> USE DEF MatrixInv
<1>1. MatrixTypes'
  BY DEF MatrixTypes
<1>2. MatrixIsOfFixtures'
  BY DEF MatrixIsOfFixtures, Matrix!Gpu, Entries
<1>3. ClaimsHold'
  BY DEF ClaimsHold, Claim
<1>4. RecordsAreLast'
  BY DEF RecordsAreLast
<1> QED
  BY <1>1, <1>2, <1>3, <1>4

LEMMA RaiseKeeps == ASSUME MatrixInv, Matrix!Raise PROVE MatrixInv'
<1>1. /\ status = "running" /\ phase # "end" /\ status' = "error"
      /\ UNCHANGED << phase, mount, fixtures, report, emitted, jsonl >>
  BY DEF Matrix!Raise
<1>2. EmittedIsReport'
  BY <1>1 DEF MatrixInv, EmittedIsReport
<1> QED
  BY <1>1, <1>2, Ending DEF MatrixInv

LEMMA EmitKeeps == ASSUME MatrixInv, Matrix!main PROVE MatrixInv'
<1>1. /\ emitted = << >> /\ (status = "error" \/ phase = "end")
      /\ status' = IF status = "error" THEN "error" ELSE "pass"
      /\ emitted' = << Matrix!with(report, "status", status') >>
      /\ jsonl' = IF "records" \in DOMAIN report THEN report["records"] ELSE << >>
      /\ UNCHANGED << phase, mount, fixtures, report >>
  BY DEF Matrix!main, Matrix!None, Matrix!Some
<1>2. Matrix!with(report, "status", status') = Matrix!with(report', "status", status')
  BY <1>1
<1>3. EmittedIsReport'
  <2>1. status = "error" => phase # "end"
    BY DEF MatrixInv, EmittedIsReport
  <2>2. jsonl' # << >> => phase' = "end" /\ jsonl' = fixtures'
    BY <1>1 DEF MatrixInv, RecordsAreLast
  <2>3. emitted' # << >>
    <3> DEFINE r == Matrix!with(report, "status", status')
    <3>1. emitted' = << r >>
      BY <1>1
    <3> HIDE DEF r
    <3> QED
      BY <3>1
  <2> DEFINE r == Matrix!with(report', "status", status')
  <2>4. emitted' = << r >>
    BY <1>1, <1>2
  <2> HIDE DEF r
  <2>5. /\ status' = "error" => phase' # "end"
        /\ status' = "pass"  => phase' = "end" /\ emitted' # << >>
        /\ status' # "running"
    BY <1>1, <2>1, <2>3
  <2> QED
    BY <2>2, <2>3, <2>4, <2>5 DEF EmittedIsReport, r
<1> QED
  BY <1>1, <1>3, Ending DEF MatrixInv

LEMMA MatrixKeeps ==
    ASSUME MatrixInv, Matrix!Next \/ UNCHANGED matrixVars
    PROVE  MatrixInv'
<1>1. CASE UNCHANGED matrixVars
  <2>1. /\ UNCHANGED << phase, mount, fixtures, report, status, emitted, jsonl >>
        /\ status \in {"running", "pass", "error"}
    BY <1>1 DEF matrixVars, MatrixInv, MatrixTypes
  <2>2. EmittedIsReport'
    BY <2>1 DEF MatrixInv, EmittedIsReport, Matrix!with
  <2> QED
    BY <2>1, <2>2, Ending DEF MatrixInv
<1>2. CASE Matrix!_main
  BY <1>2, PrepareKeeps, FixturesKeep, MeasuringKeeps, OfflineKeeps, CpuKeeps,
     ConcurrencyKeeps, DetKeeps, ProbKeeps, RecordsKeep DEF Matrix!_main
<1>3. CASE Matrix!Raise
  BY <1>3, RaiseKeeps
<1>4. CASE Matrix!main
  BY <1>4, EmitKeeps
<1> QED
  BY <1>1, <1>2, <1>3, <1>4 DEF Matrix!Next

\* What the session claims follows: a key with a claim is only there once the
\* matrix is.
LEMMA MatrixPromises == MatrixInv => ClaimsAreBacked
<1> SUFFICES ASSUME MatrixInv PROVE ClaimsAreBacked
  OBVIOUS
<1> USE DEF MatrixInv
<1> DEFINE gpu == Matrix!Gpu
<1>1. ASSUME NEW key \in DOMAIN report \ {"build", "fixtures"}
      PROVE  /\ phase \in Late /\ Claim(mount, gpu, key, report[key])
  <2>1. phase \in Late
    BY DEF MatrixIsOfFixtures
  <2> QED
    BY <2>1 DEF ClaimsHold, Matrix!Gpu
<1>2. Matrix!TypeOK
  <2>1. Matrix!Range(fixtures) \subseteq mount \cup Matrix!Range(Synth)
    BY DEF MatrixTypes, Matrix!Range
  <2>2. mount \subseteq Matrix!Real
    BY Sessions DEF MatrixTypes
  <2>3. Len(emitted) <= 1
    <3> DEFINE r == Matrix!with(report, "status", status)
    <3>1. emitted = << >> \/ emitted = << r >>
      BY DEF EmittedIsReport
    <3> HIDE DEF r
    <3>2. Len(<< >>) = 0 /\ Len(<< r >>) = 1
      OBVIOUS
    <3> QED
      BY <3>1, <3>2
  <2> QED
    BY <2>1, <2>2, <2>3 DEF MatrixTypes, Matrix!TypeOK, Late
<1>3. Matrix!ComparedOnMeasuredAudio
  <2>1. Matrix!Range(Matrix!Labels(gpu)) = LabelsOf(gpu)
    BY DEF Matrix!Range, Matrix!Labels, LabelsOf
  <2>2. ASSUME NEW key \in {"gpu_offline_preset", "cpu_fallback"} \cap DOMAIN report
        PROVE  Comparable(gpu, report[key])
    <3>1. Claim(mount, gpu, key, report[key])
      BY <1>1
    <3> HIDE DEF gpu
    <3> QED
      BY <3>1 DEF Claim
  <2>3. "determinism_sweep" \in DOMAIN report => report["determinism_sweep"].audio \in mount
    <3> SUFFICES ASSUME "determinism_sweep" \in DOMAIN report
                 PROVE  report["determinism_sweep"].audio \in mount
      OBVIOUS
    <3>1. Claim(mount, gpu, "determinism_sweep", report["determinism_sweep"])
      BY <1>1
    <3> HIDE DEF gpu
    <3> QED
      BY <3>1 DEF Claim
  <2> QED
    BY <2>1, <2>2, <2>3 DEF Matrix!ComparedOnMeasuredAudio, Comparable
<1>4. Matrix!AgreementIsBacked
  <2>1. ASSUME "determinism" \in DOMAIN report, report["determinism"].all_body_identical
        PROVE  Spoken(gpu)
    <3>1. Claim(mount, gpu, "determinism", report["determinism"])
      BY <1>1, <2>1
    <3> HIDE DEF gpu
    <3> QED
      BY <2>1, <3>1 DEF Claim
  <2>2. ASSUME "determinism_sweep" \in DOMAIN report
        PROVE  SetsAgree(report["determinism_sweep"].sets)
    <3>1. Claim(mount, gpu, "determinism_sweep", report["determinism_sweep"])
      BY <1>1, <2>2
    <3> HIDE DEF gpu
    <3> QED
      BY <3>1 DEF Claim
  <2> QED
    BY <2>1, <2>2 DEF Matrix!AgreementIsBacked, Spoken, SetsAgree, Matrix!Some
<1>5. Matrix!MatchIsOfTheSameFiles
  <2> SUFFICES ASSUME "directory_concurrency" \in DOMAIN report
               PROVE  SameFiles(report["directory_concurrency"])
    BY DEF Matrix!MatchIsOfTheSameFiles, SameFiles
  <2>1. Claim(mount, gpu, "directory_concurrency", report["directory_concurrency"])
    BY <1>1
  <2> HIDE DEF gpu
  <2> QED
    BY <2>1 DEF Claim
<1>6. Matrix!ReportSurvives
  <2> SUFFICES ASSUME emitted # << >>
               PROVE  /\ \A key \in DOMAIN report : emitted[1][key] = report[key]
                      /\ emitted[1]["status"] = "pass" <=> phase = "end"
                      /\ jsonl # << >> => emitted[1]["status"] = "pass" /\ jsonl = fixtures
    BY DEF Matrix!ReportSurvives, Matrix!None
  <2> DEFINE r == Matrix!with(report, "status", status)
  <2>1. /\ r["status"] = status
        /\ \A key \in DOMAIN report : r[key] = report[key]
    <3>1. "status" \notin DOMAIN report
      BY DEF MatrixTypes, Keys
    <3> QED
      BY <3>1 DEF Matrix!with
  <2>2. emitted = << r >>
    BY DEF EmittedIsReport
  <2>3. status = "pass" <=> phase = "end"
    BY DEF EmittedIsReport, MatrixTypes
  <2>4. jsonl # << >> => phase = "end" /\ jsonl = fixtures
    BY DEF EmittedIsReport
  <2> HIDE DEF r
  <2>5. emitted[1] = r
    BY <2>2
  <2> QED
    BY <2>1, <2>3, <2>4, <2>5
<1> QED
  BY <1>2, <1>3, <1>4, <1>5, <1>6 DEF ClaimsAreBacked

(* What a session claims is backed, for any mounted audio, any number of   *)
(* fixtures, knob sets and repetitions, and wherever a step raises: its    *)
(* comparisons ran on audio the matrix measured, and on recordings if      *)
(* there were any; "identical" is of runs with speech that came back, all  *)
(* of them; the directory's match is of the same files; what is emitted    *)
(* holds every finished key (sortformer_matrix.py, _main and main).        *)
THEOREM SessionClaimsAreBacked == Spec => []ClaimsAreBacked
<1>1. Init => MatrixInv
  BY MatrixStarts DEF Init
<1>2. MatrixInv /\ [Next]_vars => MatrixInv'
  BY MatrixOrWait, MatrixKeeps
<1>3. MatrixInv => ClaimsAreBacked
  BY MatrixPromises
<1> QED
  BY <1>1, <1>2, <1>3, PTL DEF Spec
=============================================================================
