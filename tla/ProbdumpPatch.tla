---------------------------- MODULE ProbdumpPatch ----------------------------
(***************************************************************************)
(* apply_probdump_patch: the dump code is injected into the C++ source of  *)
(* a fresh clone.  A source is the sequence of the pieces the patch looks  *)
(* at; everything between two pieces is left out.                          *)
(*   "{" "}"   braces            "ns"    the namespace close, itself a "}" *)
(*   "incl"    #include <cstdio> "join"  the line that joins the workers   *)
(*   "loop"    the line of the result loop after which the dump is called  *)
(*   "hdr", "helper", "call"     what the patch injects                    *)
(***************************************************************************)
EXTENDS Naturals, Sequences, SequencesExt

Count(text, p)  == Cardinality({i \in DOMAIN text : text[i] = p})
FirstAt(text, p) == CHOOSE i \in DOMAIN text :
                        text[i] = p /\ \A k \in 1 .. i - 1 : text[k] # p

\* Brace depth just before position i; the namespace close counts as a brace.
Depth(text, i) ==
    LET opened == Cardinality({k \in 1 .. i - 1 : text[k] = "{"})
        closed == Cardinality({k \in 1 .. i - 1 : text[k] \in {"}", "ns"}})
    IN  opened - closed

\* Both injected blocks name the helper, so either marks a patched tree.
AlreadyPatched(text) == Count(text, "helper") + Count(text, "call") > 0

HelperAnchorOK(text) == /\ Count(text, "ns") = 1
                        /\ Depth(text, FirstAt(text, "ns")) = 1
CallAnchorsOK(text)  == Count(text, "join") = 1 /\ Count(text, "loop") = 1

\* str.replace(anchor, new, 1): the first occurrence, none if there is none.
ReplaceFirst(text, p, new) ==
    IF Count(text, p) = 0 THEN text
    ELSE LET i == FirstAt(text, p)
         IN  SubSeq(text, 1, i - 1) \o new \o SubSeq(text, i + 1, Len(text))

Patched(text) ==
    LET headers == ReplaceFirst(text, "incl", << "hdr", "incl" >>)
        helped  == ReplaceFirst(headers, "ns", << "ns", "helper" >>)
    IN  ReplaceFirst(helped, "loop", << "loop", "call" >>)

\* What the call returns or raises, and the file it leaves: it is written
\* once, at the end, so a refused source stays as it was.
ApplyPatch(text) ==
    IF AlreadyPatched(text)
      THEN [raised |-> FALSE, patched |-> FALSE, already |-> TRUE, text |-> text]
    ELSE IF ~HelperAnchorOK(text) \/ ~CallAnchorsOK(text)
      THEN [raised |-> TRUE, patched |-> FALSE, already |-> FALSE, text |-> text]
    ELSE [raised |-> FALSE, patched |-> TRUE, already |-> FALSE,
          text |-> Patched(text)]

-----------------------------------------------------------------------------
Injected == {"hdr", "helper", "call"}
Upstream(text) == SelectSeq(text, LAMBDA p : p \notin Injected)

(* A patch that does not raise leaves a source that dumps: one helper, at  *)
(* file scope ("a function-definition is not allowed here" was the v10     *)
(* failure), one call right after the result line, and otherwise the       *)
(* upstream text; patching that source again changes nothing.              *)
PatchedOnceAtFileScope(text) ==
    LET r == ApplyPatch(text) IN
    ~r.raised =>
        /\ Count(r.text, "helper") = 1 /\ Count(r.text, "call") = 1
        /\ Depth(r.text, FirstAt(r.text, "helper")) = 0
        /\ r.text[FirstAt(r.text, "call") - 1] = "loop"
        /\ Upstream(r.text) = text
        /\ ApplyPatch(r.text).text = r.text
=============================================================================
