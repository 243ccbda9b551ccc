--------------------------- MODULE FrameLabelling ---------------------------
(***************************************************************************)
(* What a streaming diarizer promises its caller, with no windows, caches  *)
(* or buffers: frames are labelled in order, each once, never before the   *)
(* audio that supports them was heard; once the stream is closed the       *)
(* remaining frames are labelled, unless the stream is abandoned on an     *)
(* error.                                                                  *)
(***************************************************************************)
EXTENDS StreamGeometry, Sequences

VARIABLES
    heard,       \* samples heard
    labelled,    \* frames labelled: 0 .. labelled-1
    phase        \* "open", "draining", "closed" or "abandoned"

labelVars == <<heard, labelled, phase>>

(* Frames of a stream of n samples: its mel frames, including those whose  *)
(* window reaches past its end, in groups of Sub, the last one partial.    *)
TotalFrames(n) == IF n = 0 THEN 0 ELSE SubsampledLen(n \div Hop + 1)

(* Before the end only whole frames of complete mel windows.               *)
Allowance ==
    IF phase = "open" THEN FramesReady(heard) \div Sub ELSE TotalFrames(heard)

LInit == heard = 0 /\ labelled = 0 /\ phase = "open"

Hear ==
    /\ phase = "open"
    /\ heard' \in Nat /\ heard' >= heard
    /\ UNCHANGED <<labelled, phase>>

Label ==
    /\ phase \in {"open", "draining"}
    /\ labelled' \in (labelled + 1) .. Allowance
    /\ UNCHANGED <<heard, phase>>

Close ==
    /\ phase = "open"
    /\ phase' = "draining"
    /\ UNCHANGED <<heard, labelled>>

Done ==
    /\ phase = "draining" /\ labelled = TotalFrames(heard)
    /\ phase' = "closed"
    /\ UNCHANGED <<heard, labelled>>

Abandon ==
    /\ phase = "draining"
    /\ phase' = "abandoned"
    /\ UNCHANGED <<heard, labelled>>

LNext == Hear \/ Label \/ Close \/ Done \/ Abandon

LSafe == LInit /\ [][LNext]_labelVars

(* A closing stream does not stay half labelled for ever.                  *)
LSpec == LSafe /\ WF_labelVars((Label /\ phase = "draining") \/ Done)

=============================================================================
