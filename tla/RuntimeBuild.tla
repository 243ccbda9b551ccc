----------------------------- MODULE RuntimeBuild -----------------------------
(***************************************************************************)
(* The build half of the benchmark harness: a wiped work directory, a      *)
(* clone of whatever upstream serves today, the dump patch, the driver     *)
(* shim, configure and build, and the model download.  Every command may   *)
(* fail, be missing or run out of its time, and the first failure raises.  *)
(* A build left by an earlier session may lie in the work directory.       *)
(***************************************************************************)
EXTENDS ProbdumpPatch

CONSTANTS
    Upstreams,     \* sources the clone may return
    Leftovers      \* what an earlier session may have left in WORK_ROOT

VARIABLES
    at,            \* the next step of the build, or "raised" / "ready"
    apply_patch,   \* the caller's argument
    disk,          \* WORK_ROOT: [source, shim, binary, model], each optional
    log,           \* commands appended to the runtime log
    record         \* what build_runtime and download_model are to return
vars == << at, apply_patch, disk, log, record >>

None    == << >>
Some(v) == << v >>
Empty   == [source |-> None, shim |-> FALSE, binary |-> None, model |-> None]
Nothing == [patch |-> None, binary |-> None, model |-> None]

\* run: the child's code, 127 when the executable is missing, 124 when the
\* time is up; the command is logged in every case.
Codes == {0, 1, 124, 127}
Run(command, rc) == rc \in Codes /\ log' = Append(log, << command, rc >>)

Init ==
    /\ at = "reset"
    /\ apply_patch \in BOOLEAN
    /\ disk \in Leftovers
    /\ log = << >>
    /\ record = Nothing

\* Files that cannot be removed are ignored: all, part or nothing may go.
reset_workspace ==
    /\ at = "reset" /\ at' = "dependencies"
    /\ disk' \in {Empty, [disk EXCEPT !.source = None], disk}
    /\ log' = << >>
    /\ UNCHANGED << apply_patch, record >>

\* cmake, ninja, sentencepiece: present, installed, or the build stops here.
install_build_dependencies ==
    /\ at = "dependencies"
    /\ \/ /\ at' = "clone" /\ UNCHANGED log       \* all there
       \/ /\ at' = "raised" /\ UNCHANGED log      \* no cmake or no ninja
       \/ \E rc \in Codes : /\ Run("apt-get", rc)
                            /\ at' = IF rc = 0 THEN "clone" ELSE "raised"
    /\ UNCHANGED << apply_patch, disk, record >>

\* git refuses a directory that is not empty.
Refused == disk.source # None \/ disk.binary # None

clone_runtime ==
    /\ at = "clone"
    /\ \E rc \in Codes, text \in Upstreams :
        /\ Refused => rc # 0
        /\ Run("git clone", rc)
        /\ at' = IF rc = 0 THEN "patch" ELSE "raised"
        /\ disk' = IF rc = 0 THEN [disk EXCEPT !.source = Some(text)] ELSE disk
    /\ UNCHANGED << apply_patch, record >>

\* Mutant: the helper is written before the other anchors are looked at.
PatchWrittenEarly ==
    /\ at = "patch"
    /\ LET t == disk.source[1]
           r == ApplyPatch(t)
       IN  /\ at' = IF apply_patch /\ r.raised THEN "raised" ELSE "configure"
           /\ disk' = [disk EXCEPT !.shim = ~r.raised, !.source =
                  Some(IF apply_patch /\ HelperAnchorOK(t) /\ r.raised
                         THEN ReplaceFirst(t, "ns", << "ns", "helper" >>) ELSE r.text)]
           /\ record' = [record EXCEPT !.patch =
                  Some([patched |-> r.patched, already |-> r.already])]
    /\ UNCHANGED << apply_patch, log >>

\* The patch, then the shim, then a fresh build directory.
patch_and_shim ==
    /\ at = "patch"
    /\ LET r == IF apply_patch THEN ApplyPatch(disk.source[1])
                ELSE [raised |-> FALSE, patched |-> FALSE, already |-> FALSE,
                      text |-> disk.source[1]]
       IN  /\ at' = IF r.raised THEN "raised" ELSE "configure"
           /\ disk' = IF r.raised THEN disk
                      ELSE [disk EXCEPT !.source = Some(r.text), !.shim = TRUE,
                                        !.binary = None]
           /\ record' = [record EXCEPT !.patch =
                  IF r.raised THEN None
                  ELSE Some([patched |-> r.patched, already |-> r.already])]
    /\ UNCHANGED << apply_patch, log >>

configure ==
    /\ at = "configure"
    /\ \E rc \in Codes : /\ Run("configure", rc)
                         /\ at' = IF rc = 0 THEN "build" ELSE "raised"
    /\ UNCHANGED << apply_patch, disk, record >>

\* A build that fails or is killed may leave a partly built binary; one that
\* succeeds may leave none under the name find_binary looks for.
build_runtime ==
    /\ at = "build"
    /\ \E rc \in Codes, left \in BOOLEAN :
        LET found == [of |-> disk.source[1], whole |-> rc = 0] IN
        /\ Run("build", rc)
        /\ disk' = [disk EXCEPT !.binary = IF left THEN Some(found) ELSE None]
        /\ at' = IF rc = 0 /\ left THEN "model" ELSE "raised"
        /\ record' = [record EXCEPT !.binary =
                        IF rc = 0 /\ left THEN Some(found) ELSE None]
    /\ UNCHANGED apply_patch

\* curl --fail: the code and the file both have to be there.
download_model ==
    /\ at = "model"
    /\ \E rc \in Codes, left \in {None, Some("part"), Some("whole")} :
        /\ rc = 0 => left # Some("part")
        /\ Run("curl", rc)
        /\ disk' = [disk EXCEPT !.model = left]
        /\ at' = IF rc # 0 \/ left = None THEN "raised" ELSE "ready"
        /\ record' = [record EXCEPT !.model = IF rc # 0 THEN None ELSE left]
    /\ UNCHANGED apply_patch

Next == \/ reset_workspace \/ install_build_dependencies \/ clone_runtime
        \/ patch_and_shim \/ configure \/ build_runtime \/ download_model
Spec == Init /\ [][Next]_vars

-----------------------------------------------------------------------------
TypeOK ==
    /\ at \in {"reset", "dependencies", "clone", "patch", "configure", "build",
               "model", "raised", "ready"}
    /\ apply_patch \in BOOLEAN
    /\ disk.shim \in BOOLEAN
    /\ \A i \in DOMAIN log : log[i][2] \in Codes

(* A session that measures, measures the program its report describes: the *)
(* binary and the model are whole and are this session's, the binary comes *)
(* from a patched source if the report says it was patched or already      *)
(* patched and from upstream's own text if not, and every command of this  *)
(* session's log returned 0.                                               *)
ReadyIsTheReport ==
    at = "ready" =>
        /\ disk.shim /\ disk.model = Some("whole") /\ record.model = disk.model
        /\ disk.binary # None /\ record.binary = disk.binary
        /\ disk.binary[1].whole /\ disk.binary[1].of = disk.source[1]
        /\ IF record.patch[1].patched \/ record.patch[1].already
             THEN AlreadyPatched(disk.binary[1].of)
             ELSE disk.binary[1].of \in Upstreams
        /\ \A i \in DOMAIN log : log[i][2] = 0

(* A clone that was cloned whole stays upstream's text or becomes the      *)
(* patched one: a refused patch leaves no half-patched tree behind.        *)
NeverHalfPatched ==
    disk.source # None /\ at \notin {"reset", "dependencies"} =>
        disk.source[1] \in Upstreams \cup {ApplyPatch(t).text : t \in Upstreams}
=============================================================================
