------------------------------- MODULE Segments -------------------------------
(***************************************************************************)
(* From the probabilities of one speaker to segments, twice: the port of   *)
(* the upstream that DiarEngine::segments uses, and the local to_segments. *)
(* Speakers do not meet but in the final sort, by start alone, whose order *)
(* of equal starts is left open; the result is therefore a set.            *)
(*                                                                         *)
(* p is the sequence of a speaker's probabilities, counted in frames; time *)
(* is counted in ticks, c.frame to a frame, and exact (the code multiplies *)
(* doubles).  A run is << begin, end >> in frames, end excluded; a segment *)
(* the same in ticks.                                                      *)
(***************************************************************************)
EXTENDS Integers, Sequences, SequencesExt

Larger(a, b)  == IF a < b THEN b ELSE a
Smaller(a, b) == IF a < b THEN a ELSE b

\* Whether the speaker is active at each frame; nobody is before the first.
Hysteresis(p, Opens(_), Closes(_)) ==
    LET active[f \in 0 .. Len(p)] ==
            f > 0 /\ IF active[f - 1] THEN ~Closes(p[f]) ELSE Opens(p[f])
    IN  active
RunsOf(active, n) ==
    {r \in (0 .. n) \X (0 .. n) :
        /\ r[1] < r[2]
        /\ \A f \in r[1] + 1 .. r[2] : active[f]
        /\ ~active[r[1]]
        /\ r[2] = n \/ ~active[r[2] + 1]}
InOrder(S) == SetToSortSeq(S, LAMBDA a, b : a[1] < b[1])

\* Every interval joins the last one or starts anew.
Merge(intervals, Near(_, _)) ==
    LET Add(merged, i) ==
            IF merged # << >> /\ Near(Last(merged), i)
            THEN Append(Front(merged), << Last(merged)[1], Larger(Last(merged)[2], i[2]) >>)
            ELSE Append(merged, i)
    IN  FoldLeft(Add, << >>, intervals)
Lasting(c, segments) == {s \in ToSet(segments) : s[2] - s[1] >= c.min_duration}

-----------------------------------------------------------------------------
Close(c, v) == v < c.offset
hysteresis_activity(c, p) ==
    Hysteresis(p, LAMBDA v : v >= c.onset, LAMBDA v : Close(c, v))

\* Runs are merged as they are, and padded when they have been merged.
to_segments(c, p) ==
    LET merged == Merge(InOrder(RunsOf(hysteresis_activity(c, p), Len(p))),
                        LAMBDA a, b : (b[1] - a[2]) * c.frame <= c.min_gap)
    IN  Lasting(c, [i \in DOMAIN merged |->
            << Larger(0, merged[i][1] * c.frame - c.pad_onset),
               merged[i][2] * c.frame + c.pad_offset >>])

\* Both edges strict.
PortActivity(c, p) == Hysteresis(p, LAMBDA v : v > c.onset, LAMBDA v : v < c.offset)
Padded(c, p) ==
    {<< Larger(0, r[1] * c.frame - c.pad_onset),
        Smaller(Len(p) * c.frame, r[2] * c.frame + c.pad_offset) >> :
        r \in RunsOf(PortActivity(c, p), Len(p))}

Near(c, a, b) == b[1] - a[2] < c.min_gap
upstream_segments_from_probs(c, p) ==
    Lasting(c, Merge(InOrder(Padded(c, p)), LAMBDA a, b : Near(c, a, b)))

-----------------------------------------------------------------------------
(* The reference: speech is the ticks of the padded runs; a segment is a   *)
(* largest stretch from speech to speech without min_gap silent ticks in a *)
(* row, and lasts.  Merging with the last segment only, in order of their  *)
(* starts, is enough, though padded runs overlap.                          *)
SegmentsAreStretches(c, p) ==
    LET ticks  == 0 .. Len(p) * c.frame - 1
        speech == {x \in ticks : \E i \in Padded(c, p) : x \in i[1] .. i[2] - 1}
        silent == {x \in ticks : x .. x + c.min_gap - 1 \cap speech = {}}
        Whole(x, y) == \A z \in silent : z < x \/ z + c.min_gap - 1 > y
    IN  c.min_gap > 0 =>
        upstream_segments_from_probs(c, p) =
            {<< t[1], t[2] + 1 >> : t \in
                {s \in speech \X speech :
                    /\ s[1] <= s[2] /\ Whole(s[1], s[2])
                    /\ \A z \in speech : z < s[1] => ~Whole(z, s[2])
                    /\ \A z \in speech : z > s[2] => ~Whole(s[1], z)
                    /\ s[2] + 1 - s[1] >= c.min_duration}}

(* segments() is asked while the stream goes on.  A segment that ended as  *)
(* long ago as a pad and a gap is final: more audio neither moves it nor   *)
(* joins it to a later one.                                                *)
SegmentsSettle(c, p) ==
    \A n \in 0 .. Len(p) - 1 :
        LET early == upstream_segments_from_probs(c, SubSeq(p, 1, n))
            now   == n * c.frame
        IN  \A s \in early :
                s[2] < now /\ s[2] + c.pad_onset + c.min_gap <= now =>
                    s \in upstream_segments_from_probs(c, p)

(* The comment over the port lists where it differs from to_segments:      *)
(* probabilities on a threshold, gaps of just the limit, the end of the    *)
(* stream, the sort.  Without padding there is no other difference.        *)
PortDiffersAsListed(c, p) ==
    LET runs == InOrder(RunsOf(PortActivity(c, p), Len(p)))
    IN  /\ c.pad_onset = 0 /\ c.pad_offset = 0
        /\ \A f \in DOMAIN p : p[f] \notin {c.onset, c.offset}
        /\ \A i \in 1 .. Len(runs) - 1 : (runs[i + 1][1] - runs[i][2]) * c.frame # c.min_gap
        => upstream_segments_from_probs(c, p) = to_segments(c, p)
===============================================================================
