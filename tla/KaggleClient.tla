----------------------------- MODULE KaggleClient -----------------------------
(***************************************************************************)
(* The command-line clients of the remote service: push a kernel, follow   *)
(* its log, list and download its output, create a dataset.  The service   *)
(* is external: it runs sessions by itself, may refuse, may answer late or *)
(* never, and may have done what it was asked when the answer is lost.     *)
(* One command runs at a time; the service goes on under it.               *)
(***************************************************************************)
EXTENDS Naturals, Sequences, FiniteSets, SequencesExt

CONSTANTS
    Events,         \* log events of a session
    OutputFiles,    \* output files of a session, in the order of the listing
    Wanted,         \* those the --file-pattern matches
    Folder,         \* files of the dataset folder, in the order of upload
    MaxReconnects,  \* --max-reconnects
    MaxVersions,    \* bound: sessions started
    MaxCommands     \* bound: commands issued

VARIABLES
    server,   \* [version, sources, logged, ended, blobs, dataset]
    cmd,      \* the command in progress, with its local variables
    disk,     \* out_dir: file name -> version it was downloaded from
    commands, \* commands issued so far
    exit      \* [cmd, code, note] of the command that ended last
vars == << server, cmd, disk, commands, exit >>

Idle   == [name |-> "idle"]
NoExit == [cmd |-> "none", code |-> 0, note |-> "none"]

Init ==
    /\ server = [version |-> 0, sources |-> TRUE, logged |-> 0, ended |-> TRUE,
                 blobs |-> {}, dataset |-> << >>]
    /\ cmd = Idle
    /\ disk = [f \in {} |-> 0]
    /\ commands = 0
    /\ exit = NoExit

Issue(c)     == /\ cmd = Idle /\ commands < MaxCommands
                /\ cmd' = c /\ commands' = commands + 1 /\ exit' = NoExit
End(code, note) == /\ cmd' = Idle
                   /\ exit' = [cmd |-> cmd.name, code |-> code, note |-> note]

(* The service: the session logs, and ends.                                *)
SessionLogs == /\ ~server.ended /\ server.logged < Events
               /\ server' = [server EXCEPT !.logged = @ + 1]
               /\ UNCHANGED << cmd, disk, commands, exit >>
SessionEnds == /\ ~server.ended
               /\ server' = [server EXCEPT !.ended = TRUE]
               /\ UNCHANGED << cmd, disk, commands, exit >>

-----------------------------------------------------------------------------
(* cmd_kernels_push: one request.  It is refused, or accepted; accepted    *)
(* with the data sources or without those the service does not know.  The  *)
(* answer names the sources it dropped, and may be lost.                   *)
Started(whole) == [server EXCEPT !.version = @ + 1, !.sources = whole,
                                 !.logged = 0, !.ended = FALSE]

\* `named`: the answer is JSON and names an error or dropped sources.
PushCode(http, named) == IF named THEN 3 ELSE IF http = 200 THEN 0 ELSE 1

StartPush == Issue([name |-> "push"]) /\ UNCHANGED << server, disk >>
Push ==
    /\ cmd.name = "push"
    /\ \/ \E http \in {200, 500}, named \in BOOLEAN :
            /\ http = 200 => named
            /\ server' = server /\ End(PushCode(http, named), "refused")
       \/ /\ server.version < MaxVersions
          /\ \E whole, lost \in BOOLEAN :
                /\ server' = Started(whole)
                /\ IF lost THEN End(1, "lost")               \* a traceback
                           ELSE End(PushCode(200, ~whole), "answered")
    /\ UNCHANGED << disk, commands >>

-----------------------------------------------------------------------------
(* cmd_kernels_live_log: the service replays the log from the start on     *)
(* every connection; events seen before are skipped by count.              *)
StartLive ==
    /\ Issue([name |-> "live", at |-> "connect", pos |-> 0, got |-> 0,
              seen |-> 0, reconnects |-> 0, printed |-> << >>,
              sse |-> TRUE, late |-> FALSE])
    /\ server.version > 0
    /\ UNCHANGED << server, disk >>

Live(at) == cmd.name = "live" /\ cmd.at = at

InTime == ~cmd.late

\* The deadline passes, at any moment; it is looked at between two lines and
\* between two connections.
DeadlinePasses == /\ cmd.name = "live" /\ ~cmd.late
                  /\ cmd' = [cmd EXCEPT !.late = TRUE]
                  /\ UNCHANGED << server, disk, commands, exit >>
DeadlineSeen   == /\ cmd.name = "live" /\ ~InTime
                  /\ End(0, "time limit")
                  /\ UNCHANGED << server, disk, commands >>

\* Once the session is done the service may serve the persisted log, as an
\* event stream or not.
Connect ==
    /\ Live("connect") /\ InTime
    /\ \/ \E sse \in {TRUE} \cup {~server.ended} :
            /\ cmd' = [cmd EXCEPT !.at = "read", !.pos = 0, !.got = 0, !.sse = sse]
            /\ exit' = exit
       \/ End(1, "http error")
    /\ UNCHANGED << server, disk, commands >>

\* The next event of the stream: printed unless as many were printed before.
\* Mutant: the replay is skipped one event too far.
SkippedLate(got, seen) == got <= seen + 1
Skipped(got, seen) == got <= seen

Read(whole) ==
    LET got == cmd.got + 1
        next == [cmd EXCEPT !.pos = @ + 1, !.got = got]
    IN  IF Skipped(got, cmd.seen) THEN next
        ELSE [next EXCEPT !.seen = got,
                          !.printed = Append(@, [event |-> cmd.pos + 1, whole |-> whole])]

ReadEvent ==
    /\ Live("read") /\ InTime
    /\ cmd.sse
    /\ cmd.pos < server.logged
    /\ cmd' = Read(TRUE)
    /\ UNCHANGED << server, disk, commands, exit >>

\* The connection is cut inside an event: what came of the line is taken for
\* an event, and counted as seen.
ReadCutEvent ==
    /\ Live("read") /\ InTime
    /\ cmd.sse
    /\ cmd.pos < server.logged
    /\ cmd' = [Read(FALSE) EXCEPT !.at = "connect"]
    /\ UNCHANGED << server, disk, commands, exit >>

ReadEndOfLog ==
    /\ Live("read") /\ InTime
    /\ server.ended /\ cmd.pos = server.logged /\ cmd.sse
    /\ End(0, "end of log")
    /\ UNCHANGED << server, disk, commands >>

\* The stream is closed between two events: connect again, at once.
Closed ==
    /\ Live("read") /\ InTime
    /\ IF cmd.got = 0 /\ cmd.seen = 0 /\ ~cmd.sse
         THEN End(0, "blob")
         ELSE cmd' = [cmd EXCEPT !.at = "connect"] /\ exit' = exit
    /\ UNCHANGED << server, disk, commands >>

\* 45 s without a byte, or the connection breaks or is refused.
TimedOut ==
    /\ Live("read") \/ (Live("connect") /\ InTime)
    /\ IF cmd.reconnects + 1 > MaxReconnects
         THEN End(0, "gave up")
         ELSE cmd' = [cmd EXCEPT !.at = "connect", !.reconnects = @ + 1]
              /\ exit' = exit
    /\ UNCHANGED << server, disk, commands >>

LiveLog == \/ DeadlineSeen \/ Connect \/ ReadEvent \/ ReadCutEvent
           \/ ReadEndOfLog \/ Closed \/ TimedOut

-----------------------------------------------------------------------------
(* cmd_kernels_log --download: page by page, each page's files at once.    *)
(* A listing has files only once the session is done.                      *)
Listing == IF server.ended THEN OutputFiles ELSE << >>

StartOutput ==
    /\ Issue([name |-> "output", page |-> 1, got |-> {}])
    /\ server.version > 0
    /\ UNCHANGED << server, disk >>

MorePages(page, listing) == page < Len(listing)

\* One page: an error ends the command; a file that cannot be fetched ends
\* it too, what was saved before stays.
OutputPage ==
    /\ cmd.name = "output"
    /\ LET names == IF cmd.page \in DOMAIN Listing
                      THEN {Listing[cmd.page]} \cap Wanted ELSE {}
       IN  \/ /\ End(1, "error") /\ disk' = disk
           \/ /\ disk' = [f \in DOMAIN disk \cup names |->
                            IF f \in names THEN server.version ELSE disk[f]]
              /\ IF MorePages(cmd.page, Listing)
                   THEN cmd' = [cmd EXCEPT !.page = @ + 1, !.got = @ \cup names]
                        /\ exit' = exit
                   ELSE End(0, IF server.ended THEN "listed" ELSE "running")
    /\ UNCHANGED << server, commands >>

-----------------------------------------------------------------------------
(* cmd_create: a blob per file (a token, then its bytes), then the dataset *)
(* of all the tokens.  Any failure before that raises.                     *)
StartCreate ==
    /\ Issue([name |-> "create", next |-> 1, tokens |-> << >>])
    /\ UNCHANGED << server, disk >>

Uploaded(put) == put \in {200, 201}

UploadOne ==
    /\ cmd.name = "create" /\ cmd.next <= Len(Folder)
    /\ \/ End(1, "no token") /\ server' = server
       \/ \E put \in {200, 403} :
            /\ server' = IF put = 200
                 THEN [server EXCEPT !.blobs = @ \cup {Folder[cmd.next]}] ELSE server
            /\ IF Uploaded(put)
                 THEN cmd' = [cmd EXCEPT !.next = @ + 1,
                                         !.tokens = Append(@, Folder[cmd.next])]
                      /\ exit' = exit
                 ELSE End(1, "put failed")
    /\ UNCHANGED << disk, commands >>

\* The service keeps an existing dataset; a lost answer reads as a failure.
CreateDataset ==
    /\ cmd.name = "create" /\ cmd.next > Len(Folder)
    /\ \/ End(1, "refused") /\ server' = server
       \/ /\ server.dataset = << >>
          /\ server' = [server EXCEPT !.dataset = cmd.tokens]
          /\ End(0, "created") \/ End(1, "lost")
    /\ UNCHANGED << disk, commands >>

Next == \/ SessionLogs \/ SessionEnds
        \/ StartPush \/ Push
        \/ StartLive \/ DeadlinePasses \/ LiveLog
        \/ StartOutput \/ OutputPage
        \/ StartCreate \/ UploadOne \/ CreateDataset

\* Time passes, and a command that can go on does: reads and requests have
\* time-outs of their own.
Fairness == /\ WF_vars(DeadlinePasses) /\ WF_vars(LiveLog)
            /\ WF_vars(Push) /\ WF_vars(OutputPage)
            /\ WF_vars(UploadOne \/ CreateDataset)
Spec == Init /\ [][Next]_vars /\ Fairness

-----------------------------------------------------------------------------
TypeOK ==
    /\ server.version \in 0 .. MaxVersions /\ server.logged \in 0 .. Events
    /\ cmd.name \in {"idle", "push", "live", "output", "create"}
    /\ DOMAIN disk \subseteq Range(OutputFiles)
    /\ commands \in 0 .. MaxCommands
    /\ exit.code \in {0, 1, 3}

(* Whatever is cut, timed out or replayed, the follower prints the events  *)
(* from the first on, in order, each once; an event is printed in part only *)
(* if the connection broke inside it.                                      *)
LogPrintedOnce ==
    cmd.name = "live" =>
        /\ \A k \in 1 .. Len(cmd.printed) : cmd.printed[k].event = k
        /\ cmd.seen = Len(cmd.printed)
        /\ cmd.got <= cmd.seen

(* The end of the log is reported when all of it was printed.              *)
EndsWhole == ReadEndOfLog => Len(cmd.printed) = server.logged

(* A push that exits 0 started a session, with every data source.          *)
PushedIsWhole ==
    exit.cmd = "push" /\ exit.code = 0 => server.version > 0 /\ server.sources

(* A download that exits 0 after a listing of a finished session has every *)
(* wanted file, of the session listed.                                     *)
DownloadIsWhole ==
    exit.cmd = "output" /\ exit.note = "listed" =>
        \A f \in Wanted : f \in DOMAIN disk /\ disk[f] = server.version

(* A dataset is created only of all the files of the folder, each of them  *)
(* wholly uploaded, and never changes under a command repeated after a     *)
(* lost answer.                                                            *)
DatasetIsTheFolder ==
    server.dataset # << >> => /\ server.dataset = Folder
                              /\ Range(Folder) \subseteq server.blobs
=============================================================================
