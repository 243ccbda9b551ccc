----------------------------- MODULE KernelBuild ------------------------------
(***************************************************************************)
(* The generators of the kernel payloads.  Kaggle runs one file, so every   *)
(* kernel carries the sources it is made of: the step kernels embed them    *)
(* and verify the copy, the stage 3 runner embeds and checks, the K6 and    *)
(* M3 entries are the runner with one line flipped, and the step 5 bench    *)
(* is derived from that of step 4 by replacements.  Somebody edits the      *)
(* sources while the generators run.                                        *)
(***************************************************************************)
EXTENDS Naturals, Sequences, FiniteSets, SequencesExt

CONSTANTS
    Blobs,       \* C++ sources, embedded by both kernels, in order
    Texts,       \* gate scripts, embedded by the runner, in order
    Reps,        \* number of replacements mk_step5 makes
    MaxEdits,    \* bound: edits
    MaxCommands  \* bound: generators run

VARIABLES
    src,      \* source file -> version
    pins,     \* DEFAULT_GATE = "k5a" lines in the runner
    anchors,  \* how often each text mk_step5 replaces is in the step 4 bench
    kernel,   \* step 6 slug -> [blobs, role], what is on disk
    meta,     \* step 6 slug -> enable_gpu in its metadata, if there is one
    runner,   \* what the stage 3 runner embeds: file -> version
    entry,    \* "k6", "m3" -> [embeds, pins] on disk, or << >>
    derived,  \* the step 5 bench: which replacements it carries
    cmd,      \* the generator running
    clean,    \* sources not edited since the build in progress verified them
    checked,  \* clean checks that began after the last edit or generation
    edits, commands,
    exit      \* code of the last generator, and what it was
vars == << src, pins, anchors, kernel, meta, runner, entry, derived, cmd,
           clean, checked, edits, commands, exit >>

\* The texts mk_step5 replaces, in order.
Replacements == 1 .. Reps

Slugs   == {"cpu", "gpu"}
Entries == {"k6", "m3"}
Sources == Range(Blobs) \cup Range(Texts)
Idle    == [name |-> "idle"]
NoExit  == [name |-> "none", code |-> 0]
None    == [f \in {} |-> 0]

Init ==
    /\ src = [f \in Sources |-> 1] /\ pins = 1
    /\ anchors = [k \in Replacements |-> 1]
    /\ kernel = [s \in Slugs |-> << >>] /\ meta = [s \in Slugs |-> << >>]
    /\ runner = [f \in Sources |-> 1]
    /\ entry = [e \in Entries |-> << >>]
    /\ derived = << >>
    /\ cmd = Idle /\ clean = {} /\ checked = {}
    /\ edits = 0 /\ commands = 0 /\ exit = NoExit

Start(c)        == /\ cmd = Idle /\ commands < MaxCommands
                   /\ cmd' = c /\ commands' = commands + 1 /\ exit' = NoExit
End(name, code) == cmd' = Idle /\ exit' = [name |-> name, code |-> code]
Goes(c)         == cmd' = c /\ exit' = exit

-----------------------------------------------------------------------------
(* The developer, at any moment.                                           *)
Edit ==
    /\ edits < MaxEdits /\ edits' = edits + 1
    /\ checked' = {}
    /\ \/ \E f \in Sources : /\ src' = [src EXCEPT ![f] = @ + 1]
                             /\ clean' = clean \ {f}
                             /\ UNCHANGED << pins, anchors >>
       \/ /\ pins' \in {0, 2} \ {pins}
          /\ UNCHANGED << src, anchors, clean >>
       \/ /\ \E k \in DOMAIN anchors : anchors' = [anchors EXCEPT ![k] = 2]
          /\ UNCHANGED << src, pins, clean >>
    /\ UNCHANGED << kernel, meta, runner, entry, derived, cmd, commands, exit >>

-----------------------------------------------------------------------------
(* build_step6_kernel: read every source, write the kernel, read them again *)
(* and compare; the metadata last.  The builders of steps 3 to 5 do the     *)
(* same without a role and without metadata.                                *)
StartBuild ==
    /\ \E s \in Slugs :
          Start([name |-> "build", slug |-> s, lines |-> None, verify |-> 0])
    /\ clean' = {}
    /\ UNCHANGED << src, pins, anchors, kernel, meta, runner, entry, derived,
                    checked, edits >>

\* A source read is kept beside those read before it.
Noted(got, f) == [g \in DOMAIN got \cup {f} |-> IF g = f THEN src[f] ELSE got[g]]

ReadBlob ==
    /\ cmd.name = "build" /\ cmd.verify = 0 /\ Cardinality(DOMAIN cmd.lines) < Len(Blobs)
    /\ LET f == Blobs[Cardinality(DOMAIN cmd.lines) + 1]
       IN  Goes([cmd EXCEPT !.lines = Noted(@, f)])
    /\ UNCHANGED << src, pins, anchors, kernel, meta, runner, entry, derived,
                    clean, checked, edits, commands >>

\* The framework has its two anchors, or nothing is written.
WriteKernel ==
    /\ cmd.name = "build" /\ cmd.verify = 0 /\ Cardinality(DOMAIN cmd.lines) = Len(Blobs)
    /\ kernel' = [kernel EXCEPT ![cmd.slug] = [blobs |-> cmd.lines, role |-> cmd.slug]]
    /\ Goes([cmd EXCEPT !.verify = 1])
    /\ checked' = {}
    /\ UNCHANGED << src, pins, anchors, meta, runner, entry, derived, clean, edits,
                    commands >>

\* The blob of a file, compared with the file.
Fresh(f, blob)       == blob = src[f]

VerifyBlob ==
    /\ cmd.name = "build" /\ cmd.verify \in 1 .. Len(Blobs)
    /\ LET f == Blobs[cmd.verify]
       IN  IF Fresh(f, cmd.lines[f])
             THEN Goes([cmd EXCEPT !.verify = @ + 1]) /\ clean' = clean \cup {f}
             ELSE End(cmd.slug, 1) /\ clean' = {}
    /\ UNCHANGED << src, pins, anchors, kernel, meta, runner, entry, derived,
                    checked, edits, commands >>

WriteMeta ==
    /\ cmd.name = "build" /\ cmd.verify > Len(Blobs)
    /\ meta' = [meta EXCEPT ![cmd.slug] = << cmd.slug # "cpu" >>]
    /\ End(cmd.slug, 0)
    /\ UNCHANGED << src, pins, anchors, kernel, runner, entry, derived, clean,
                    checked, edits, commands >>

-----------------------------------------------------------------------------
(* embed_stage3: read the runner, the scripts and the sources, write the    *)
(* runner, and check it as --check does.                                    *)
Order == Texts \o Blobs
StartEmbed ==
    /\ \E check \in BOOLEAN :
          Start([name |-> "embed", pins |-> pins, got |-> None, check |-> check,
                 had |-> runner, since |-> edits])
    /\ UNCHANGED << src, pins, anchors, kernel, meta, runner, entry, derived,
                    clean, checked, edits >>

ReadSource ==
    /\ cmd.name = "embed" /\ Cardinality(DOMAIN cmd.got) < Len(Order)
    /\ LET f == Order[Cardinality(DOMAIN cmd.got) + 1]
       IN  Goes([cmd EXCEPT !.got = Noted(@, f)])
    /\ UNCHANGED << src, pins, anchors, kernel, meta, runner, entry, derived,
                    clean, checked, edits, commands >>

\* The text read is written back with new literals: an edit of the runner
\* since it was read is lost.
Embed ==
    /\ cmd.name = "embed" /\ ~cmd.check /\ DOMAIN cmd.got = Sources
    /\ runner' = cmd.got /\ pins' = cmd.pins
    /\ Goes([cmd EXCEPT !.check = TRUE, !.got = None, !.had = cmd.got,
                             !.since = edits])
    /\ checked' = {}
    /\ UNCHANGED << src, anchors, kernel, meta, entry, derived, clean, edits, commands >>

\* The check of the runner read against the sources read.
EmbedCheck ==
    /\ cmd.name = "embed" /\ cmd.check /\ DOMAIN cmd.got = Sources
    /\ IF cmd.had = cmd.got
         THEN /\ End("embed", 0)
              /\ checked' = IF cmd.since = edits THEN checked \cup {"embed"} ELSE checked
         ELSE End("embed", 1) /\ checked' = checked
    /\ UNCHANGED << src, pins, anchors, kernel, meta, runner, entry, derived,
                    clean, edits, commands >>

-----------------------------------------------------------------------------
(* build_k6_entry, build_m3_entry: render flips the pin, if there is one.   *)
Rendered == [embeds |-> runner, pins |-> 1]

Renderable(n)    == n = 1

\* --check: the entry on disk is the runner, flipped.  Mutant: it is there.
SameThere(got) == got # << >>
Same(got)      == got = Rendered

BuildEntry ==
    /\ \E e \in Entries, check \in BOOLEAN :
         /\ cmd = Idle /\ commands < MaxCommands
         /\ commands' = commands + 1 /\ cmd' = Idle
         /\ IF ~Renderable(pins)
              THEN exit' = [name |-> e, code |-> 1] /\ UNCHANGED << entry, checked >>
            ELSE IF check
              THEN /\ entry' = entry
                   /\ exit' = [name |-> e, code |-> IF Same(entry[e]) THEN 0 ELSE 1]
                   /\ checked' = IF Same(entry[e]) THEN checked \cup {e} ELSE checked
            ELSE /\ entry' = [entry EXCEPT ![e] = [Rendered EXCEPT !.pins = pins]]
                 /\ exit' = [name |-> e, code |-> 0]
                 /\ checked' = checked \ {e}
    /\ UNCHANGED << src, pins, anchors, kernel, meta, runner, derived, clean, edits >>

-----------------------------------------------------------------------------
(* mk_step5: each replacement asserts how often its text is there; the       *)
(* result is written when all are done.                                      *)
StartDerive ==
    /\ Start([name |-> "derive", anchors |-> anchors, done |-> {}])
    /\ UNCHANGED << src, pins, anchors, kernel, meta, runner, entry, derived,
                    clean, checked, edits >>

Replaces(k)    == cmd.anchors[k] = 1

rep ==
    /\ cmd.name = "derive" /\ cmd.done # Replacements
    /\ LET k == Cardinality(cmd.done) + 1
       IN  IF Replaces(k) THEN Goes([cmd EXCEPT !.done = @ \cup {k}])
                          ELSE End("derive", 1)
    /\ UNCHANGED << src, pins, anchors, kernel, meta, runner, entry, derived,
                    clean, checked, edits, commands >>

WriteDerived ==
    /\ cmd.name = "derive" /\ cmd.done = Replacements
    /\ derived' = << [k \in Replacements |-> cmd.anchors[k]] >>
    /\ End("derive", 0)
    /\ UNCHANGED << src, pins, anchors, kernel, meta, runner, entry, clean,
                    checked, edits, commands >>

Next == \/ Edit
        \/ StartBuild \/ ReadBlob \/ WriteKernel \/ VerifyBlob \/ WriteMeta
        \/ StartEmbed \/ ReadSource \/ Embed \/ EmbedCheck
        \/ BuildEntry
        \/ StartDerive \/ rep \/ WriteDerived
Spec == Init /\ [][Next]_vars

-----------------------------------------------------------------------------
TypeOK == /\ cmd.name \in {"idle", "build", "embed", "derive"}
          /\ pins \in 0 .. 2 /\ DOMAIN runner = Sources
          /\ checked \subseteq {"embed", "k6", "m3"} /\ clean \subseteq Sources
          /\ edits \in 0 .. MaxEdits /\ commands \in 0 .. MaxCommands
          /\ exit.code \in {0, 1}

(* "No stale-embed drift": the kernel a build reports as verified holds each *)
(* source as it was when that source was verified, so as it is now unless    *)
(* somebody edited it since; and its role and its metadata agree.            *)
BuiltIsVerified ==
    \A s \in Slugs : exit = [name |-> s, code |-> 0] =>
        /\ kernel[s] # << >> /\ kernel[s].role = s
        /\ meta[s] = << s # "cpu" >>
        /\ \A f \in clean : kernel[s].blobs[f] = src[f]

(* After clean checks of the embeds and of an entry, with nothing edited or  *)
(* generated in between, the entry pushed carries today's sources.           *)
CheckedEntryIsFresh ==
    \A e \in Entries : {"embed", e} \subseteq checked =>
        entry[e] # << >> /\ entry[e].embeds = src

(* An entry "is NOT a fork": it is the runner with exactly one pin flipped.  *)
EntryHasItsPin == \A e \in Entries : entry[e] # << >> => entry[e].pins = 1

(* The derived bench carries every replacement exactly once, or was not      *)
(* written.                                                                  *)
DerivedIsWhole ==
    derived # << >> => \A k \in Replacements : derived[1][k] = 1
=============================================================================
