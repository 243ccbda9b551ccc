------------------------------ MODULE DeskProofs ------------------------------
(***************************************************************************)
(* Proofs about the programs on the desk, as KernelSessions composes them  *)
(* with the others: the Kaggle client, for every log, listing and folder,  *)
(* any number of sessions and commands, and whatever the service loses;    *)
(* and the kernel generators, for all files, all replacements and any      *)
(* number of edits and commands.  A program is followed alone, so what     *)
(* holds of its own steps holds of the composition: the steps of the       *)
(* others leave its variables alone.                                       *)
(***************************************************************************)
EXTENDS KernelSessions, FiniteSetTheorems, TLAPS

(* The client.                                                             *)

LEMMA ClientOrWait ==
    ASSUME [Next]_vars
    PROVE  Client!Next \/ UNCHANGED clientVars
  BY SMT DEF Next, Only, vars, clientVars

\* The commands of the client, with the local variables of each.
LiveCommands   == [name : {"live"}, at : {"connect", "read"}, pos : Nat, got : Nat, seen : Nat,
                   reconnects : Nat, printed : Seq([event : Nat, whole : BOOLEAN]),
                   sse : BOOLEAN, late : BOOLEAN]
OutputCommands == [name : {"output"}, page : Nat \ {0}, got : SUBSET Wanted]
CreateCommands == [name : {"create"}, next : 1 .. Len(Folder) + 1, tokens : Seq(STRING)]
Commands == {Client!Idle, [name |-> "push"]}
                \cup LiveCommands \cup OutputCommands \cup CreateCommands

ServerStates == [version : 0 .. MaxVersions, sources : BOOLEAN, logged : 0 .. Events,
                 ended : BOOLEAN, blobs : SUBSET STRING, dataset : Seq(STRING)]

ClientTypes ==
    /\ clientServer \in ServerStates
    /\ clientCmd \in Commands
    /\ DOMAIN clientDisk \subseteq Client!Range(OutputFiles)
    /\ clientCommands \in 0 .. MaxCommands
    /\ clientExit.code \in {0, 1, 3}

\* A command in progress has no exit code, nor is that of the last one kept.
NotExited == clientCmd # Client!Idle => clientExit = Client!NoExit

\* Every event of a connection is counted, from the first of the log on.
CountsTheReplay == clientCmd.name = "live" => clientCmd.pos = clientCmd.got

\* What the pages read so far listed is on disk, and came of a session that
\* had ended.
PagesAreSaved ==
    clientCmd.name = "output" =>
        /\ clientCmd.page > 1 => clientServer.ended
        /\ \A k \in DOMAIN OutputFiles :
              k < clientCmd.page /\ OutputFiles[k] \in Wanted =>
                  /\ OutputFiles[k] \in DOMAIN clientDisk
                  /\ clientDisk[OutputFiles[k]] = clientServer.version

\* The tokens are those of the files so far, each of them uploaded.
TokensAreUploads ==
    clientCmd.name = "create" =>
        /\ Len(clientCmd.tokens) = clientCmd.next - 1
        /\ \A k \in 1 .. clientCmd.next - 1 :
              clientCmd.tokens[k] = Folder[k] /\ Folder[k] \in clientServer.blobs

ClientInv ==
    /\ ClientTypes /\ NotExited
    /\ Client!LogPrintedOnce /\ CountsTheReplay
    /\ Client!PushedIsWhole
    /\ Client!DownloadIsWhole /\ PagesAreSaved
    /\ Client!DatasetIsTheFolder /\ TokensAreUploads

LEMMA KindOfClientCommand ==
    ASSUME ClientTypes
    PROVE  /\ clientCmd.name = "live" => clientCmd \in LiveCommands
           /\ clientCmd.name = "output" => clientCmd \in OutputCommands
           /\ clientCmd.name = "create" => clientCmd \in CreateCommands
           /\ clientCmd = Client!Idle => clientCmd.name = "idle"
           /\ clientCmd # Client!Idle => clientCmd.name \in {"push", "live", "output", "create"}
<1>1. /\ \A c \in LiveCommands : c.name = "live"
      /\ \A c \in OutputCommands : c.name = "output"
      /\ \A c \in CreateCommands : c.name = "create"
  BY DEF LiveCommands, OutputCommands, CreateCommands
<1>2. Client!Idle.name = "idle" /\ [name |-> "push"].name = "push"
  BY DEF Client!Idle
<1>3. \/ clientCmd = Client!Idle \/ clientCmd = [name |-> "push"]
      \/ clientCmd \in LiveCommands \/ clientCmd \in OutputCommands
      \/ clientCmd \in CreateCommands
  BY DEF ClientTypes, Commands
<1> QED
  BY <1>1, <1>2, <1>3

LEMMA SeqsAreEqual ==
    ASSUME NEW S, NEW s \in Seq(S), NEW t \in Seq(S), Len(s) = Len(t),
           \A k \in 1 .. Len(t) : s[k] = t[k]
    PROVE  s = t
  OBVIOUS

LEMMA ClientStarts ==
    ASSUME Client!Init
    PROVE  ClientInv
<1> USE DEF Client!Init, Client!Idle, Client!NoExit
<1>1. ClientTypes
  <2>1. << >> \in Seq(STRING)
    OBVIOUS
  <2> QED
    BY <2>1, FilesAndBounds DEF ClientTypes, ServerStates, Commands
<1>2. NotExited /\ CountsTheReplay /\ PagesAreSaved /\ TokensAreUploads
  BY DEF NotExited, CountsTheReplay, PagesAreSaved, TokensAreUploads
<1>3. /\ Client!LogPrintedOnce /\ Client!PushedIsWhole /\ Client!DownloadIsWhole
      /\ Client!DatasetIsTheFolder
  BY DEF Client!LogPrintedOnce, Client!PushedIsWhole, Client!DownloadIsWhole,
         Client!DatasetIsTheFolder
<1> QED
  BY <1>1, <1>2, <1>3 DEF ClientInv

(* The session logs and ends under a command, whatever the command does.   *)
LEMMA ServiceKeeps ==
    ASSUME ClientInv, Client!SessionLogs \/ Client!SessionEnds
    PROVE  ClientInv'
<1> USE DEF ClientInv
<1>1. UNCHANGED << clientCmd, clientDisk, clientCommands, clientExit >>
  BY DEF Client!SessionLogs, Client!SessionEnds
<1>2. /\ clientServer' \in ServerStates
      /\ clientServer'.version = clientServer.version
      /\ clientServer'.sources = clientServer.sources
      /\ clientServer'.blobs = clientServer.blobs
      /\ clientServer'.dataset = clientServer.dataset
      /\ clientServer.ended => clientServer'.ended
  <2>1. CASE Client!SessionLogs
    <3>1. clientServer.logged + 1 \in 0 .. Events
      <4>1. clientServer.logged \in 0 .. Events /\ clientServer.logged < Events
        BY <2>1 DEF Client!SessionLogs, ClientTypes, ServerStates
      <4> QED
        BY <4>1, FilesAndBounds
    <3> QED
      BY <2>1, <3>1 DEF Client!SessionLogs, ClientTypes, ServerStates
  <2>2. CASE Client!SessionEnds
    BY <2>2 DEF Client!SessionEnds, ClientTypes, ServerStates
  <2> QED
    BY <2>1, <2>2
<1>3. ClientTypes' /\ NotExited'
  BY <1>1, <1>2 DEF ClientTypes, NotExited
<1>4. Client!LogPrintedOnce' /\ CountsTheReplay' /\ Client!PushedIsWhole'
  BY <1>1, <1>2 DEF Client!LogPrintedOnce, CountsTheReplay, Client!PushedIsWhole
<1>5. Client!DownloadIsWhole' /\ PagesAreSaved'
  BY <1>1, <1>2 DEF Client!DownloadIsWhole, PagesAreSaved
<1>6. Client!DatasetIsTheFolder' /\ TokensAreUploads'
  BY <1>1, <1>2 DEF Client!DatasetIsTheFolder, TokensAreUploads
<1> QED
  BY <1>3, <1>4, <1>5, <1>6

LEMMA CommandStarts ==
    ASSUME ClientInv,
           Client!StartPush \/ Client!StartLive \/ Client!StartOutput \/ Client!StartCreate
    PROVE  ClientInv'
<1> USE DEF ClientInv, Client!Issue
<1>1. /\ clientCommands' \in 0 .. MaxCommands /\ UNCHANGED << clientServer, clientDisk >>
      /\ clientExit' = Client!NoExit
  <2>1. /\ clientCommands < MaxCommands /\ clientCommands' = clientCommands + 1
        /\ UNCHANGED << clientServer, clientDisk >> /\ clientExit' = Client!NoExit
    BY DEF Client!StartPush, Client!StartLive, Client!StartOutput, Client!StartCreate
  <2>2. clientCommands \in 0 .. MaxCommands
    BY DEF ClientTypes
  <2> QED
    BY <2>1, <2>2, FilesAndBounds
<1>2. /\ clientCmd' \in Commands
      /\ clientCmd'.name = "live" => /\ clientCmd'.printed = << >> /\ clientCmd'.seen = 0
                                     /\ clientCmd'.got = 0 /\ clientCmd'.pos = 0
      /\ clientCmd'.name = "output" => clientCmd'.page = 1
      /\ clientCmd'.name = "create" => clientCmd'.next = 1 /\ clientCmd'.tokens = << >>
  <2>1. CASE Client!StartPush
    BY <2>1 DEF Client!StartPush, Commands
  <2>2. CASE Client!StartLive
    <3>1. << >> \in Seq([event : Nat, whole : BOOLEAN])
      OBVIOUS
    <3> QED
      BY <2>2, <3>1 DEF Client!StartLive, Commands, LiveCommands
  <2>3. CASE Client!StartOutput
    BY <2>3 DEF Client!StartOutput, Commands, OutputCommands
  <2>4. CASE Client!StartCreate
    <3>1. << >> \in Seq(STRING) /\ 1 \in 1 .. Len(Folder) + 1
      BY FilesAndBounds
    <3> QED
      BY <2>4, <3>1 DEF Client!StartCreate, Commands, CreateCommands
  <2> QED
    BY <2>1, <2>2, <2>3, <2>4
<1>3. ClientTypes'
  BY <1>1, <1>2 DEF ClientTypes, Client!NoExit
<1>4. NotExited' /\ Client!PushedIsWhole' /\ Client!DownloadIsWhole'
  BY <1>1 DEF NotExited, Client!PushedIsWhole, Client!DownloadIsWhole, Client!NoExit
<1>5. Client!LogPrintedOnce' /\ CountsTheReplay'
  BY <1>2 DEF Client!LogPrintedOnce, CountsTheReplay
<1>6. PagesAreSaved'
  BY <1>2, FilesAndBounds DEF PagesAreSaved
<1>7. Client!DatasetIsTheFolder' /\ TokensAreUploads'
  BY <1>1, <1>2 DEF Client!DatasetIsTheFolder, TokensAreUploads
<1> QED
  BY <1>3, <1>4, <1>5, <1>6, <1>7

(* A command that ends has its own promise left to keep, if it exits 0.    *)
LEMMA CommandEnds ==
    ASSUME ClientInv, clientCmd' = Client!Idle, clientCommands' = clientCommands,
           clientServer' \in ServerStates,
           DOMAIN clientDisk' \subseteq Client!Range(OutputFiles),
           clientExit'.code \in {0, 1, 3},
           Client!PushedIsWhole', Client!DownloadIsWhole', Client!DatasetIsTheFolder'
    PROVE  ClientInv'
<1>1. ClientTypes'
  BY DEF ClientInv, ClientTypes, Commands
<1>2. NotExited' /\ Client!LogPrintedOnce' /\ CountsTheReplay' /\ PagesAreSaved'
      /\ TokensAreUploads'
  BY DEF NotExited, Client!LogPrintedOnce, CountsTheReplay, PagesAreSaved, TokensAreUploads,
         Client!Idle
<1> QED
  BY <1>1, <1>2 DEF ClientInv

LEMMA PushKeeps ==
    ASSUME ClientInv, Client!Push
    PROVE  ClientInv'
<1> USE DEF Client!End
<1> ClientTypes /\ Client!DatasetIsTheFolder
  BY DEF ClientInv
<1>1. /\ clientCmd.name = "push" /\ clientCmd' = Client!Idle
      /\ clientCommands' = clientCommands /\ clientDisk' = clientDisk
      /\ clientExit'.cmd = "push"
  BY DEF Client!Push
<1>2. /\ clientServer' \in ServerStates
      /\ clientServer'.blobs = clientServer.blobs
      /\ clientServer'.dataset = clientServer.dataset
      /\ clientExit'.cmd = "push" /\ clientExit'.code \in {0, 1, 3}
      /\ clientExit'.code = 0 => clientServer'.version > 0 /\ clientServer'.sources
  <2>1. CASE \E http \in {200, 500}, named \in BOOLEAN :
                /\ http = 200 => named
                /\ clientServer' = clientServer
                /\ Client!End(Client!PushCode(http, named), "refused")
    <3>1. PICK http \in {200, 500}, named \in BOOLEAN :
             /\ http = 200 => named
             /\ clientServer' = clientServer
             /\ clientExit' = [cmd |-> "push", code |-> Client!PushCode(http, named),
                               note |-> "refused"]
      BY <1>1, <2>1
    <3>2. Client!PushCode(http, named) \in {1, 3}
      BY <3>1 DEF Client!PushCode
    <3> QED
      BY <3>1, <3>2 DEF ClientTypes
  <2>2. ASSUME clientServer.version < MaxVersions,
               NEW whole \in BOOLEAN, NEW unheard \in BOOLEAN,
               clientServer' = Client!Started(whole),
               IF unheard THEN Client!End(1, "lost")
                       ELSE Client!End(Client!PushCode(200, ~whole), "answered")
        PROVE  /\ clientServer' \in ServerStates
               /\ clientServer'.blobs = clientServer.blobs
               /\ clientServer'.dataset = clientServer.dataset
               /\ clientExit'.cmd = "push" /\ clientExit'.code \in {0, 1, 3}
               /\ clientExit'.code = 0 => clientServer'.version > 0 /\ clientServer'.sources
    <3>1. /\ clientServer.version \in 0 .. MaxVersions /\ 0 \in 0 .. Events
          /\ clientServer.version + 1 \in 0 .. MaxVersions /\ clientServer.version + 1 > 0
      <4>1. clientServer.version \in 0 .. MaxVersions
        BY DEF ClientTypes, ServerStates
      <4> QED
        BY <2>2, <4>1, FilesAndBounds
    <3>2. /\ clientServer' \in ServerStates
          /\ clientServer'.version = clientServer.version + 1
          /\ clientServer'.sources = whole
          /\ clientServer'.blobs = clientServer.blobs
          /\ clientServer'.dataset = clientServer.dataset
      BY <2>2, <3>1 DEF Client!Started, ClientTypes, ServerStates
    <3>3. CASE unheard
      BY <1>1, <2>2, <3>1, <3>2, <3>3
    <3>4. CASE ~unheard
      <4>1. clientExit' = [cmd |-> "push", code |-> Client!PushCode(200, ~whole),
                           note |-> "answered"]
        BY <1>1, <2>2, <3>4
      <4>2. Client!PushCode(200, ~whole) = IF whole THEN 0 ELSE 3
        BY DEF Client!PushCode
      <4> QED
        BY <3>1, <3>2, <4>1, <4>2
    <3> QED
      BY <3>3, <3>4
  <2> QED
    BY <2>1, <2>2 DEF Client!Push
<1>3. DOMAIN clientDisk' \subseteq Client!Range(OutputFiles)
  BY <1>1 DEF ClientTypes
<1>4. Client!PushedIsWhole' /\ Client!DownloadIsWhole'
  BY <1>1, <1>2 DEF Client!PushedIsWhole, Client!DownloadIsWhole
<1>5. Client!DatasetIsTheFolder'
  BY <1>2 DEF Client!DatasetIsTheFolder
<1> QED
  BY <1>1, <1>2, <1>3, <1>4, <1>5, CommandEnds

LEMMA LogIsRead ==
    ASSUME ClientInv, NEW whole \in BOOLEAN, clientCmd.name = "live"
    PROVE  /\ Client!Read(whole) \in LiveCommands
           /\ Client!Read(whole).pos = Client!Read(whole).got
           /\ Client!Read(whole).got <= Client!Read(whole).seen
           /\ Client!Read(whole).seen = Len(Client!Read(whole).printed)
           /\ \A k \in 1 .. Len(Client!Read(whole).printed) :
                 Client!Read(whole).printed[k].event = k
<1> DEFINE next == [clientCmd EXCEPT !.pos = @ + 1, !.got = clientCmd.got + 1]
<1>1. /\ clientCmd \in LiveCommands /\ clientCmd.pos = clientCmd.got
      /\ clientCmd.got <= clientCmd.seen /\ clientCmd.seen = Len(clientCmd.printed)
      /\ \A k \in 1 .. Len(clientCmd.printed) : clientCmd.printed[k].event = k
  BY KindOfClientCommand DEF ClientInv, Client!LogPrintedOnce, CountsTheReplay
<1>2. /\ next \in LiveCommands /\ next.pos = clientCmd.got + 1 /\ next.got = clientCmd.got + 1
      /\ next.seen = clientCmd.seen /\ next.printed = clientCmd.printed
  <2>1. clientCmd.got + 1 \in Nat /\ clientCmd.pos + 1 = clientCmd.got + 1
    BY <1>1 DEF LiveCommands
  <2>2. next = [clientCmd EXCEPT !.pos = clientCmd.got + 1, !.got = clientCmd.got + 1]
    BY <1>1, <2>1 DEF LiveCommands
  <2> HIDE DEF next
  <2> QED
    BY <1>1, <2>1, <2>2 DEF LiveCommands
<1>3. CASE Client!Skipped(clientCmd.got + 1, clientCmd.seen)
  <2>1. Client!Read(whole) = next
    BY <1>3 DEF Client!Read
  <2>2. next.got <= next.seen
    BY <1>2, <1>3 DEF Client!Skipped
  <2> HIDE DEF next
  <2> QED
    BY <1>1, <1>2, <2>1, <2>2
<1>4. CASE ~Client!Skipped(clientCmd.got + 1, clientCmd.seen)
  <2> DEFINE event == [event |-> clientCmd.pos + 1, whole |-> whole]
  <2>1. Client!Read(whole) = [next EXCEPT !.seen = clientCmd.got + 1,
                                          !.printed = Append(@, event)]
    BY <1>4 DEF Client!Read
  <2> HIDE DEF next
  <2>2. clientCmd.got = clientCmd.seen /\ clientCmd.seen \in Nat
    BY <1>1, <1>4 DEF Client!Skipped, LiveCommands
  <2>3. event \in [event : Nat, whole : BOOLEAN] /\ event.event = clientCmd.seen + 1
    BY <1>1, <2>2
  <2> HIDE DEF event
  <2>4. clientCmd.printed \in Seq([event : Nat, whole : BOOLEAN])
    BY <1>1 DEF LiveCommands
  <2>5. /\ Append(clientCmd.printed, event) \in Seq([event : Nat, whole : BOOLEAN])
        /\ Len(Append(clientCmd.printed, event)) = clientCmd.seen + 1
        /\ \A k \in 1 .. clientCmd.seen + 1 : Append(clientCmd.printed, event)[k].event = k
    BY <1>1, <2>2, <2>3, <2>4
  <2>6. /\ Client!Read(whole) \in LiveCommands
        /\ Client!Read(whole).pos = next.pos /\ Client!Read(whole).got = next.got
        /\ Client!Read(whole).seen = clientCmd.got + 1
        /\ Client!Read(whole).printed = Append(clientCmd.printed, event)
    <3> DEFINE counted == [next EXCEPT !.seen = clientCmd.got + 1]
    <3>1. next \in LiveCommands /\ next.printed = clientCmd.printed /\ clientCmd.got + 1 \in Nat
      BY <1>2, <2>2
    <3>2. /\ counted \in LiveCommands /\ counted.pos = next.pos /\ counted.got = next.got
          /\ counted.seen = clientCmd.got + 1 /\ counted.printed = clientCmd.printed
      BY <3>1 DEF LiveCommands
    <3>3. Client!Read(whole) = [counted EXCEPT !.printed = Append(clientCmd.printed, event)]
      BY <2>1, <3>1
    <3> HIDE DEF counted
    <3> QED
      BY <2>5, <3>2, <3>3 DEF LiveCommands
  <2> QED
    BY <1>2, <2>2, <2>5, <2>6
<1> QED
  BY <1>3, <1>4

(* The follower goes on, or ends: nothing but its own variables changes.   *)
LEMMA LiveGoesOn ==
    ASSUME ClientInv, clientCmd.name = "live",
           UNCHANGED << clientServer, clientDisk, clientCommands, clientExit >>,
           clientCmd' \in LiveCommands,
           clientCmd'.pos = clientCmd'.got, clientCmd'.got <= clientCmd'.seen,
           clientCmd'.seen = Len(clientCmd'.printed),
           \A k \in 1 .. Len(clientCmd'.printed) : clientCmd'.printed[k].event = k
    PROVE  ClientInv'
<1>1. clientCmd'.name = "live" /\ clientCmd' \in Commands
  BY DEF LiveCommands, Commands
<1>2. clientExit = Client!NoExit
  BY DEF ClientInv, NotExited, Client!Idle
<1>3. ClientTypes'
  BY <1>1 DEF ClientInv, ClientTypes
<1>4. NotExited' /\ Client!PushedIsWhole' /\ Client!DownloadIsWhole'
  BY <1>2 DEF NotExited, Client!PushedIsWhole, Client!DownloadIsWhole, Client!NoExit
<1>5. Client!LogPrintedOnce' /\ CountsTheReplay'
  BY DEF Client!LogPrintedOnce, CountsTheReplay
<1>6. Client!DatasetIsTheFolder' /\ PagesAreSaved' /\ TokensAreUploads'
  BY <1>1 DEF ClientInv, Client!DatasetIsTheFolder, PagesAreSaved, TokensAreUploads
<1> QED
  BY <1>3, <1>4, <1>5, <1>6 DEF ClientInv

LEMMA LiveEnds ==
    ASSUME ClientInv, clientCmd.name = "live",
           UNCHANGED << clientServer, clientDisk, clientCommands >>,
           NEW code \in {0, 1}, NEW note, Client!End(code, note)
    PROVE  ClientInv'
<1>1. /\ clientCmd' = Client!Idle
      /\ clientExit' = [cmd |-> "live", code |-> code, note |-> note]
  BY DEF Client!End
<1>2. clientServer' \in ServerStates /\ DOMAIN clientDisk' \subseteq Client!Range(OutputFiles)
  BY DEF ClientInv, ClientTypes
<1>3. /\ clientExit'.code \in {0, 1, 3}
      /\ Client!PushedIsWhole' /\ Client!DownloadIsWhole'
  BY <1>1 DEF Client!PushedIsWhole, Client!DownloadIsWhole
<1>4. Client!DatasetIsTheFolder'
  BY DEF ClientInv, Client!DatasetIsTheFolder
<1> QED
  BY <1>1, <1>2, <1>3, <1>4, CommandEnds

(* A connection is replayed from the first event on, and cut anywhere.     *)
LEMMA LiveKeeps ==
    ASSUME ClientInv, Client!DeadlinePasses \/ Client!LiveLog
    PROVE  ClientInv'
<1>1. /\ clientCmd.name = "live" /\ clientCmd \in LiveCommands
      /\ clientExit = Client!NoExit
  BY KindOfClientCommand
     DEF Client!DeadlinePasses, Client!LiveLog, Client!DeadlineSeen, Client!Connect,
         Client!ReadEvent, Client!ReadCutEvent, Client!ReadEndOfLog, Client!Closed,
         Client!TimedOut, Client!Live, ClientInv, NotExited, Client!Idle
<1>2. UNCHANGED << clientServer, clientDisk, clientCommands >>
  BY DEF Client!DeadlinePasses, Client!LiveLog, Client!DeadlineSeen, Client!Connect,
         Client!ReadEvent, Client!ReadCutEvent, Client!ReadEndOfLog, Client!Closed,
         Client!TimedOut
<1>3. /\ clientCmd.pos = clientCmd.got /\ clientCmd.got <= clientCmd.seen
      /\ clientCmd.seen = Len(clientCmd.printed)
      /\ \A k \in 1 .. Len(clientCmd.printed) : clientCmd.printed[k].event = k
  BY <1>1 DEF ClientInv, Client!LogPrintedOnce, CountsTheReplay
<1>4. CASE Client!DeadlinePasses
  <2>1. clientCmd' = [clientCmd EXCEPT !.late = TRUE] /\ clientExit' = clientExit
    BY <1>4 DEF Client!DeadlinePasses
  <2> QED
    BY <1>1, <1>2, <1>3, <2>1, LiveGoesOn DEF LiveCommands
<1>5. CASE Client!DeadlineSeen
  BY <1>1, <1>2, <1>5, LiveEnds DEF Client!DeadlineSeen
<1>6. CASE Client!Connect
  <2>1. CASE Client!End(1, "http error")
    BY <1>1, <1>2, <2>1, LiveEnds
  <2>2. ASSUME NEW sse \in BOOLEAN,
               clientCmd' = [clientCmd EXCEPT !.at = "read", !.pos = 0, !.got = 0, !.sse = sse],
               clientExit' = clientExit
        PROVE  ClientInv'
    <3>1. /\ clientCmd' \in LiveCommands /\ clientCmd'.pos = 0 /\ clientCmd'.got = 0
          /\ clientCmd'.seen = clientCmd.seen /\ clientCmd'.printed = clientCmd.printed
      BY <1>1, <2>2 DEF LiveCommands
    <3>2. 0 <= clientCmd.seen
      BY <1>1 DEF LiveCommands
    <3> QED
      BY <1>1, <1>2, <1>3, <2>2, <3>1, <3>2, LiveGoesOn
  <2>3. clientServer.ended \in BOOLEAN
    BY DEF ClientInv, ClientTypes, ServerStates
  <2> QED
    BY <1>6, <2>1, <2>2, <2>3 DEF Client!Connect
<1>7. CASE Client!ReadEvent
  BY <1>1, <1>2, <1>7, LogIsRead, LiveGoesOn DEF Client!ReadEvent
<1>8. CASE Client!ReadCutEvent
  <2>1. clientCmd' = [Client!Read(FALSE) EXCEPT !.at = "connect"] /\ clientExit' = clientExit
    BY <1>8 DEF Client!ReadCutEvent
  <2>2. Client!Read(FALSE) \in LiveCommands
    BY <1>1, LogIsRead
  <2>3. /\ clientCmd' \in LiveCommands
        /\ clientCmd'.pos = Client!Read(FALSE).pos /\ clientCmd'.got = Client!Read(FALSE).got
        /\ clientCmd'.seen = Client!Read(FALSE).seen
        /\ clientCmd'.printed = Client!Read(FALSE).printed
    BY <2>1, <2>2 DEF LiveCommands
  <2> QED
    BY <1>1, <1>2, <2>1, <2>3, LogIsRead, LiveGoesOn
<1>9. CASE Client!ReadEndOfLog
  BY <1>1, <1>2, <1>9, LiveEnds DEF Client!ReadEndOfLog
<1>10. CASE Client!Closed
  <2>1. CASE Client!End(0, "blob")
    BY <1>1, <1>2, <2>1, LiveEnds
  <2>2. CASE clientCmd' = [clientCmd EXCEPT !.at = "connect"] /\ clientExit' = clientExit
    BY <1>1, <1>2, <1>3, <2>2, LiveGoesOn DEF LiveCommands
  <2> QED
    BY <1>10, <2>1, <2>2 DEF Client!Closed
<1>11. CASE Client!TimedOut
  <2>1. CASE Client!End(0, "gave up")
    BY <1>1, <1>2, <2>1, LiveEnds
  <2>2. CASE /\ clientCmd' = [clientCmd EXCEPT !.at = "connect", !.reconnects = @ + 1]
             /\ clientExit' = clientExit
    <3>1. clientCmd.reconnects + 1 \in Nat
      BY <1>1 DEF LiveCommands
    <3>2. /\ clientCmd' \in LiveCommands /\ clientCmd'.pos = clientCmd.pos
          /\ clientCmd'.got = clientCmd.got /\ clientCmd'.seen = clientCmd.seen
          /\ clientCmd'.printed = clientCmd.printed
      BY <1>1, <2>2, <3>1 DEF LiveCommands
    <3> QED
      BY <1>1, <1>2, <1>3, <2>2, <3>2, LiveGoesOn
  <2> QED
    BY <1>11, <2>1, <2>2 DEF Client!TimedOut
<1> QED
  BY <1>4, <1>5, <1>6, <1>7, <1>8, <1>9, <1>10, <1>11 DEF Client!LiveLog

(* A page is saved whole before the next one is asked for, and the listing *)
(* of a session that has not ended is empty.                               *)
LEMMA OutputKeeps ==
    ASSUME ClientInv, Client!OutputPage
    PROVE  ClientInv'
<1> USE DEF Client!End
<1> DEFINE page  == clientCmd.page
           names == IF page \in DOMAIN Client!Listing
                      THEN {Client!Listing[page]} \cap Wanted ELSE {}
<1>1. /\ clientCmd.name = "output" /\ clientCmd \in OutputCommands
      /\ clientExit = Client!NoExit /\ UNCHANGED << clientServer, clientCommands >>
  BY KindOfClientCommand DEF Client!OutputPage, ClientInv, NotExited, Client!Idle
<1>2. Client!DatasetIsTheFolder' /\ clientServer' \in ServerStates
  BY <1>1 DEF ClientInv, ClientTypes, Client!DatasetIsTheFolder
<1>3. page \in Nat \ {0} /\ clientCmd.got \subseteq Wanted
  BY <1>1 DEF OutputCommands
<1>4. CASE Client!End(1, "error") /\ clientDisk' = clientDisk
  <2>1. DOMAIN clientDisk' \subseteq Client!Range(OutputFiles)
    BY <1>4 DEF ClientInv, ClientTypes
  <2>2. /\ clientExit'.code \in {0, 1, 3}
        /\ Client!PushedIsWhole' /\ Client!DownloadIsWhole'
    BY <1>1, <1>4 DEF Client!PushedIsWhole, Client!DownloadIsWhole
  <2> QED
    BY <1>1, <1>2, <1>4, <2>1, <2>2, CommandEnds
<1>5. CASE /\ clientDisk' = [f \in DOMAIN clientDisk \cup names |->
                               IF f \in names THEN clientServer.version ELSE clientDisk[f]]
           /\ IF Client!MorePages(page, Client!Listing)
                THEN /\ clientCmd' = [clientCmd EXCEPT !.page = @ + 1, !.got = @ \cup names]
                     /\ clientExit' = clientExit
                ELSE Client!End(0, IF clientServer.ended THEN "listed" ELSE "running")
  <2>1. names \subseteq Client!Range(OutputFiles) /\ names \subseteq Wanted
    BY DEF Client!Listing, Client!Range
  <2>2. DOMAIN clientDisk' \subseteq Client!Range(OutputFiles)
    BY <1>5, <2>1 DEF ClientInv, ClientTypes
  <2>3. clientServer.ended =>
          \A k \in DOMAIN OutputFiles :
             k <= page /\ OutputFiles[k] \in Wanted =>
                 /\ OutputFiles[k] \in DOMAIN clientDisk'
                 /\ clientDisk'[OutputFiles[k]] = clientServer.version
    <3>1. SUFFICES ASSUME clientServer.ended, NEW k \in DOMAIN OutputFiles,
                          k <= page, OutputFiles[k] \in Wanted
                   PROVE  /\ OutputFiles[k] \in DOMAIN clientDisk'
                          /\ clientDisk'[OutputFiles[k]] = clientServer.version
      OBVIOUS
    <3>2. Client!Listing = OutputFiles
      BY <3>1 DEF Client!Listing
    <3>3. CASE k = page
      BY <1>5, <3>1, <3>2, <3>3
    <3>4. CASE k < page
      BY <1>1, <1>5, <3>1, <3>4 DEF ClientInv, PagesAreSaved
    <3>5. k \in Nat
      BY FilesAndBounds
    <3> QED
      BY <1>3, <3>1, <3>3, <3>4, <3>5
  <2> HIDE DEF names
  <2>4. CASE Client!MorePages(page, Client!Listing)
    <3>1. clientServer.ended
      BY <1>3, <2>4 DEF Client!MorePages, Client!Listing
    <3>2. /\ clientCmd' \in OutputCommands /\ clientCmd'.page = page + 1
          /\ clientCmd'.name = "output" /\ clientExit' = clientExit
      <4>1. /\ clientCmd' = [clientCmd EXCEPT !.page = @ + 1, !.got = @ \cup names]
            /\ clientExit' = clientExit
        BY <1>5, <2>4
      <4>2. page + 1 \in Nat \ {0} /\ clientCmd.got \cup names \subseteq Wanted
        BY <1>3, <2>1
      <4> QED
        BY <1>1, <4>1, <4>2 DEF OutputCommands
    <3>3. ClientTypes'
      BY <1>1, <2>2, <3>2 DEF ClientInv, ClientTypes, Commands
    <3>4. NotExited' /\ Client!PushedIsWhole' /\ Client!DownloadIsWhole'
      BY <1>1, <3>2 DEF NotExited, Client!PushedIsWhole, Client!DownloadIsWhole, Client!NoExit
    <3>5. PagesAreSaved'
      <4>1. \A k \in DOMAIN OutputFiles : k \in Nat
        BY FilesAndBounds
      <4> QED
        BY <1>1, <1>3, <2>3, <3>1, <3>2, <4>1 DEF PagesAreSaved
    <3>6. Client!LogPrintedOnce' /\ CountsTheReplay' /\ TokensAreUploads'
      BY <3>2 DEF Client!LogPrintedOnce, CountsTheReplay, TokensAreUploads
    <3> QED
      BY <1>2, <3>3, <3>4, <3>5, <3>6 DEF ClientInv
  <2>5. CASE ~Client!MorePages(page, Client!Listing)
    <3>1. /\ clientCmd' = Client!Idle
          /\ clientExit' = [cmd |-> "output", code |-> 0,
                            note |-> IF clientServer.ended THEN "listed" ELSE "running"]
      BY <1>1, <1>5, <2>5
    <3>2. clientExit'.code \in {0, 1, 3} /\ Client!PushedIsWhole'
      BY <3>1 DEF Client!PushedIsWhole
    <3>3. Client!DownloadIsWhole'
      <4>1. SUFFICES ASSUME clientServer.ended, NEW f \in Wanted
                     PROVE  f \in DOMAIN clientDisk' /\ clientDisk'[f] = clientServer.version
        BY <1>1, <3>1 DEF Client!DownloadIsWhole
      <4>2. PICK k \in DOMAIN OutputFiles : f = OutputFiles[k]
        BY <4>1, FilesAndBounds
      <4>3. Len(OutputFiles) <= page
        BY <1>3, <2>5, <4>1, FilesAndBounds DEF Client!MorePages, Client!Listing
      <4>4. k <= page
        BY <1>3, <4>3, FilesAndBounds
      <4> QED
        BY <2>3, <4>1, <4>2, <4>4
    <3> QED
      BY <1>1, <1>2, <2>2, <3>1, <3>2, <3>3, CommandEnds
  <2> QED
    BY <2>4, <2>5
<1> QED
  BY <1>4, <1>5 DEF Client!OutputPage

(* A token is taken of a file that was put, and a dataset is made of all   *)
(* of them, once.                                                          *)
LEMMA CreateKeeps ==
    ASSUME ClientInv, Client!UploadOne \/ Client!CreateDataset
    PROVE  ClientInv'
<1> USE DEF Client!End
<1> ClientTypes /\ TokensAreUploads /\ Client!DatasetIsTheFolder
  BY DEF ClientInv
<1>1. /\ clientCmd.name = "create" /\ clientCmd \in CreateCommands
      /\ clientExit = Client!NoExit /\ UNCHANGED << clientDisk, clientCommands >>
  BY KindOfClientCommand DEF Client!UploadOne, Client!CreateDataset, ClientInv, NotExited, Client!Idle
<1>2. /\ clientCmd.next \in 1 .. Len(Folder) + 1 /\ clientCmd.tokens \in Seq(STRING)
      /\ Len(clientCmd.tokens) = clientCmd.next - 1
      /\ \A k \in 1 .. clientCmd.next - 1 :
            clientCmd.tokens[k] = Folder[k] /\ Folder[k] \in clientServer.blobs
      /\ Folder \in Seq(STRING) /\ Len(Folder) \in Nat
  BY <1>1, FilesAndBounds DEF TokensAreUploads, CreateCommands
<1>3. ASSUME NEW code \in {0, 1}, NEW note, Client!End(code, note),
             clientServer' \in ServerStates, Client!DatasetIsTheFolder'
      PROVE  ClientInv'
  <2>1. /\ clientCmd' = Client!Idle
        /\ clientExit' = [cmd |-> "create", code |-> code, note |-> note]
    BY <1>1, <1>3
  <2>2. DOMAIN clientDisk' \subseteq Client!Range(OutputFiles)
    BY <1>1 DEF ClientTypes
  <2>3. /\ clientExit'.code \in {0, 1, 3}
        /\ Client!PushedIsWhole' /\ Client!DownloadIsWhole'
    BY <1>3, <2>1 DEF Client!PushedIsWhole, Client!DownloadIsWhole
  <2> QED
    BY <1>1, <1>3, <2>1, <2>2, <2>3, CommandEnds
<1>4. CASE Client!UploadOne
  <2>1. clientCmd.next \in 1 .. Len(Folder) /\ Folder[clientCmd.next] \in STRING
    <3>1. clientCmd.next <= Len(Folder)
      BY <1>4 DEF Client!UploadOne
    <3>2. clientCmd.next \in 1 .. Len(Folder)
      BY <1>2, <3>1
    <3> QED
      BY <1>2, <3>2
  <2>2. CASE Client!End(1, "no token") /\ clientServer' = clientServer
    <3>1. Client!DatasetIsTheFolder'
      BY <2>2 DEF Client!DatasetIsTheFolder
    <3> QED
      BY <1>3, <2>2, <3>1 DEF ClientTypes
  <2>3. CASE /\ clientServer' = [clientServer EXCEPT !.blobs = @ \cup {Folder[clientCmd.next]}]
             /\ clientCmd' = [clientCmd EXCEPT !.next = @ + 1,
                                               !.tokens = Append(@, Folder[clientCmd.next])]
             /\ clientExit' = clientExit
    <3>1. /\ clientServer' \in ServerStates
          /\ clientServer'.dataset = clientServer.dataset
          /\ clientServer.blobs \subseteq clientServer'.blobs
          /\ Folder[clientCmd.next] \in clientServer'.blobs
      <4>1. clientServer \in ServerStates
        BY DEF ClientTypes
      <4> QED
        BY <2>1, <2>3, <4>1 DEF ServerStates
    <3>2. Client!DatasetIsTheFolder'
      BY <3>1 DEF Client!DatasetIsTheFolder
    <3>3. /\ Append(clientCmd.tokens, Folder[clientCmd.next]) \in Seq(STRING)
          /\ Len(Append(clientCmd.tokens, Folder[clientCmd.next])) = clientCmd.next
          /\ \A k \in 1 .. clientCmd.next :
                Append(clientCmd.tokens, Folder[clientCmd.next])[k] = Folder[k]
      BY <1>2, <2>1
    <3>4. /\ clientCmd' \in CreateCommands /\ clientCmd'.name = "create"
          /\ clientCmd'.next = clientCmd.next + 1
          /\ clientCmd'.tokens = Append(clientCmd.tokens, Folder[clientCmd.next])
      <4>1. clientCmd.next + 1 \in 1 .. Len(Folder) + 1
        BY <1>2, <2>1
      <4> QED
        BY <1>1, <2>3, <3>3, <4>1 DEF CreateCommands
    <3>5. ClientTypes'
      <4>1. clientCmd' \in Commands
        BY <3>4 DEF Commands
      <4> QED
        BY <1>1, <2>3, <3>1, <4>1 DEF ClientTypes
    <3>6. NotExited' /\ Client!PushedIsWhole' /\ Client!DownloadIsWhole'
      BY <1>1, <2>3 DEF NotExited, Client!PushedIsWhole, Client!DownloadIsWhole, Client!NoExit
    <3>7. Client!LogPrintedOnce' /\ CountsTheReplay' /\ PagesAreSaved'
      BY <3>4 DEF Client!LogPrintedOnce, CountsTheReplay, PagesAreSaved
    <3>8. TokensAreUploads'
      <4>1. clientCmd'.next - 1 = clientCmd.next
        BY <1>2, <3>4
      <4>2. \A k \in 1 .. clientCmd.next : Folder[k] \in clientServer'.blobs
        BY <1>2, <3>1
      <4> QED
        BY <3>3, <3>4, <4>1, <4>2 DEF TokensAreUploads
    <3> QED
      BY <3>2, <3>5, <3>6, <3>7, <3>8 DEF ClientInv
  <2>4. CASE Client!End(1, "put failed") /\ clientServer' = clientServer
    <3>1. Client!DatasetIsTheFolder'
      BY <2>4 DEF Client!DatasetIsTheFolder
    <3> QED
      BY <1>3, <2>4, <3>1 DEF ClientTypes
  <2> QED
    <3> DEFINE server200 == [clientServer EXCEPT !.blobs = @ \cup {Folder[clientCmd.next]}]
               cmd200    == [clientCmd EXCEPT !.next = @ + 1,
                                              !.tokens = Append(@, Folder[clientCmd.next])]
               noToken   == Client!End(1, "no token")
               putFailed == Client!End(1, "put failed")
    <3>1. \/ noToken /\ clientServer' = clientServer
          \/ \E put \in {200, 403} :
                /\ clientServer' = IF put = 200 THEN server200 ELSE clientServer
                /\ IF put \in {200, 201} THEN clientCmd' = cmd200 /\ clientExit' = clientExit
                                         ELSE putFailed
      BY <1>4 DEF Client!UploadOne, Client!Uploaded
    <3>2. CASE noToken /\ clientServer' = clientServer
      BY <2>2, <3>2
    <3>3. CASE putFailed /\ clientServer' = clientServer
      BY <2>4, <3>3
    <3>4. CASE clientServer' = server200 /\ clientCmd' = cmd200 /\ clientExit' = clientExit
      BY <2>3, <3>4
    <3> HIDE DEF server200, cmd200, noToken, putFailed
    <3> QED
      BY <3>1, <3>2, <3>3, <3>4
<1>5. CASE Client!CreateDataset
  <2>1. CASE Client!End(1, "refused") /\ clientServer' = clientServer
    <3>1. Client!DatasetIsTheFolder'
      BY <2>1 DEF Client!DatasetIsTheFolder
    <3> QED
      BY <1>3, <2>1, <3>1 DEF ClientTypes
  <2>2. CASE /\ clientServer' = [clientServer EXCEPT !.dataset = clientCmd.tokens]
             /\ Client!End(0, "created") \/ Client!End(1, "lost")
    <3>1. clientCmd.next - 1 = Len(Folder)
      BY <1>2, <1>5 DEF Client!CreateDataset
    <3>2. clientCmd.tokens = Folder
      <4>1. clientCmd.tokens \in Seq(STRING) /\ Folder \in Seq(STRING)
            /\ Len(clientCmd.tokens) = Len(Folder)
            /\ \A k \in 1 .. Len(Folder) : clientCmd.tokens[k] = Folder[k]
        BY <1>2, <3>1
      <4> QED
        BY <4>1, SeqsAreEqual
    <3>3. Client!Range(Folder) \subseteq clientServer.blobs
      BY <1>2, <3>1 DEF Client!Range
    <3>4. /\ clientServer' \in ServerStates
          /\ clientServer'.dataset = Folder /\ clientServer'.blobs = clientServer.blobs
      <4>1. clientServer \in ServerStates /\ Folder \in Seq(STRING)
            /\ clientServer' = [clientServer EXCEPT !.dataset = Folder]
        BY <1>2, <2>2, <3>2 DEF ClientTypes
      <4> QED
        BY <4>1 DEF ServerStates
    <3>5. Client!DatasetIsTheFolder'
      BY <3>3, <3>4 DEF Client!DatasetIsTheFolder
    <3> QED
      BY <1>3, <2>2, <3>4, <3>5
  <2> QED
    BY <1>5, <2>1, <2>2 DEF Client!CreateDataset
<1> QED
  BY <1>4, <1>5

LEMMA ClientKeeps ==
    ASSUME ClientInv, Client!Next \/ UNCHANGED clientVars
    PROVE  ClientInv'
<1>1. CASE UNCHANGED clientVars
  <2>1. ClientTypes' /\ NotExited' /\ CountsTheReplay'
    BY <1>1 DEF ClientInv, clientVars, ClientTypes, NotExited, CountsTheReplay
  <2>2. PagesAreSaved' /\ TokensAreUploads'
    BY <1>1 DEF ClientInv, clientVars, PagesAreSaved, TokensAreUploads
  <2>3. /\ Client!LogPrintedOnce' /\ Client!PushedIsWhole' /\ Client!DownloadIsWhole'
        /\ Client!DatasetIsTheFolder'
    BY <1>1 DEF ClientInv, clientVars, Client!LogPrintedOnce, Client!PushedIsWhole,
                Client!DownloadIsWhole, Client!DatasetIsTheFolder
  <2> QED
    BY <2>1, <2>2, <2>3 DEF ClientInv
<1>2. CASE Client!Next
  BY <1>2, ServiceKeeps, CommandStarts, PushKeeps, LiveKeeps, OutputKeeps, CreateKeeps
     DEF Client!Next
<1> QED
  BY <1>1, <1>2

LEMMA ClientPromises ==
    ASSUME ClientInv
    PROVE  ClientKeepsItsWord
<1>1. clientCmd.name \in {"idle", "push", "live", "output", "create"}
  BY KindOfClientCommand DEF ClientInv
<1>2. Client!TypeOK
  BY <1>1 DEF ClientInv, ClientTypes, ServerStates, Client!TypeOK
<1> QED
  BY <1>2 DEF ClientInv, ClientKeepsItsWord

(* Whatever the service refuses, loses, delays, cuts or replays: the       *)
(* follower prints each event of the log once and in order, a push that    *)
(* exits 0 started a session with all its sources, a download that exits 0 *)
(* has every wanted file of the session listed, and a dataset is the whole *)
(* folder, though commands are repeated after a lost answer.               *)
THEOREM ClientIsHonest == Spec => []ClientKeepsItsWord
<1>1. Init => ClientInv
  BY ClientStarts DEF Init
<1>2. ClientInv /\ [Next]_vars => ClientInv'
  BY ClientOrWait, ClientKeeps
<1>3. ClientInv => ClientKeepsItsWord
  BY ClientPromises
<1> QED
  BY <1>1, <1>2, <1>3, PTL DEF Spec

-----------------------------------------------------------------------------
(* The generators.                                                         *)

LEMMA GeneratorsOrWait ==
    ASSUME [Next]_vars
    PROVE  Build!Next \/ UNCHANGED buildVars
  BY SMT DEF Next, Only, vars, buildVars

Partial == UNION {[S -> Nat] : S \in SUBSET Build!Sources}

\* The commands of the generators, with the local variables of each.
BuildCommands  == [name : {"build"}, slug : Build!Slugs, lines : Partial, verify : Nat]
EmbedCommands  == [name : {"embed"}, pins : 0 .. 2, got : Partial, check : BOOLEAN,
                   had : [Build!Sources -> Nat], since : Nat]
DeriveCommands == [name : {"derive"}, anchors : [Build!Replacements -> Nat],
                   done : {1 .. n : n \in 0 .. Reps}]

GeneratorTypes ==
    /\ buildSrc \in [Build!Sources -> Nat] /\ runner \in [Build!Sources -> Nat]
    /\ anchors \in [Build!Replacements -> Nat]
    /\ pins \in 0 .. 2
    /\ DOMAIN kernel = Build!Slugs /\ DOMAIN buildMeta = Build!Slugs
    /\ DOMAIN buildEntry = Build!Entries
    /\ buildCmd \in {Build!Idle} \cup BuildCommands \cup EmbedCommands \cup DeriveCommands
    /\ checked \subseteq {"embed", "k6", "m3"} /\ clean \subseteq Build!Sources
    /\ edits \in 0 .. MaxEdits /\ buildCommands \in 0 .. MaxCommands
    /\ buildExit \in [name : {"none", "embed", "derive"} \cup Build!Slugs \cup Build!Entries,
                      code : {0, 1}]

\* While a kernel is built, what was verified is what is on disk.
BuildInProgress ==
    buildCmd.name = "build" =>
        /\ buildCmd.verify = 0 => clean = {}
        /\ buildCmd.verify > 0 =>
              kernel[buildCmd.slug] = [blobs |-> buildCmd.lines, role |-> buildCmd.slug]
        /\ \A f \in clean : buildCmd.lines[f] = buildSrc[f]
        /\ buildExit = Build!NoExit

\* While the runner is embedded or checked, it is what was read of it, and
\* what was read of the sources is of today unless somebody edited them.
EmbedInProgress ==
    buildCmd.name = "embed" =>
        /\ buildCmd.had = runner
        /\ buildCmd.since <= edits
        /\ buildCmd.since = edits =>
              \A f \in DOMAIN buildCmd.got : buildCmd.got[f] = buildSrc[f]
        /\ buildExit = Build!NoExit

DeriveInProgress ==
    buildCmd.name = "derive" =>
        /\ \A k \in buildCmd.done : buildCmd.anchors[k] = 1
        /\ buildExit = Build!NoExit

\* What a clean check says, until something is edited or generated.
ChecksStand ==
    /\ "embed" \in checked => runner = buildSrc
    /\ \A e \in Build!Entries \cap checked :
          buildEntry[e] # << >> /\ buildEntry[e].embeds = runner

GeneratorInv ==
    /\ GeneratorTypes
    /\ BuildInProgress /\ EmbedInProgress /\ DeriveInProgress
    /\ ChecksStand
    /\ Build!BuiltIsVerified /\ Build!EntryHasItsPin /\ Build!DerivedIsWhole

LEMMA FilesOfTheKernels ==
    /\ \A k \in 1 .. Len(Blobs) : Blobs[k] \in Build!Sources
    /\ \A k \in 1 .. Len(Build!Order) : Build!Order[k] \in Build!Sources
    /\ {"none", "embed", "derive", "k6", "m3"} \cap Build!Slugs = {}
<1>1. /\ DOMAIN Blobs = 1 .. Len(Blobs) /\ DOMAIN Texts = 1 .. Len(Texts)
      /\ Len(Blobs) \in Nat /\ Len(Texts) \in Nat
  BY FilesAndBounds
<1>2. \A k \in 1 .. Len(Blobs) : Blobs[k] \in Build!Sources
  BY <1>1 DEF Build!Sources, Build!Range
<1>3. \A k \in 1 .. Len(Texts) : Texts[k] \in Build!Sources
  BY <1>1 DEF Build!Sources, Build!Range
<1>4. \A k \in 1 .. Len(Build!Order) : Build!Order[k] \in Build!Sources
  BY <1>1, <1>2, <1>3, FilesAndBounds DEF Build!Order
<1> QED
  BY <1>2, <1>4 DEF Build!Slugs

LEMMA GeneratorsStart ==
    ASSUME Build!Init
    PROVE  GeneratorInv
<1>1. Build!None \in Partial
  BY DEF Build!None, Partial
<1>2. GeneratorTypes
  BY FilesAndBounds DEF Build!Init, GeneratorTypes, Build!NoExit, Build!Idle
<1>3. BuildInProgress /\ EmbedInProgress /\ DeriveInProgress
  BY DEF Build!Init, Build!Idle, BuildInProgress, EmbedInProgress, DeriveInProgress
<1>4. ChecksStand
  BY DEF Build!Init, ChecksStand
<1>5. Build!BuiltIsVerified
  BY DEF Build!Init, Build!BuiltIsVerified, Build!Slugs, Build!NoExit
<1>6. Build!EntryHasItsPin /\ Build!DerivedIsWhole
  BY DEF Build!Init, Build!EntryHasItsPin, Build!DerivedIsWhole
<1> QED
  BY <1>2, <1>3, <1>4, <1>5, <1>6 DEF GeneratorInv

LEMMA PartialGrows ==
    ASSUME NEW g \in Partial, NEW f \in Build!Sources, buildSrc[f] \in Nat
    PROVE  /\ Build!Noted(g, f) \in Partial
           /\ DOMAIN Build!Noted(g, f) = DOMAIN g \cup {f}
           /\ (\A h \in DOMAIN g : g[h] = buildSrc[h]) =>
                  \A h \in DOMAIN g \cup {f} : Build!Noted(g, f)[h] = buildSrc[h]
<1>1. PICK S \in SUBSET Build!Sources : g \in [S -> Nat]
  BY DEF Partial
<1>2. /\ S \cup {f} \in SUBSET Build!Sources
      /\ Build!Noted(g, f) \in [S \cup {f} -> Nat]
  BY <1>1 DEF Build!Noted
<1> QED
  BY <1>1, <1>2 DEF Partial, Build!Noted

LEMMA PartsAreFinite ==
    ASSUME NEW g \in Partial
    PROVE  Build!Cardinality(DOMAIN g) \in Nat
<1>1. ASSUME NEW s \in Seq(STRING)
      PROVE  IsFiniteSet(Build!Range(s))
  <2>1. s \in Surjection(1 .. Len(s), Build!Range(s))
    BY <1>1 DEF Surjection, Build!Range
  <2>2. IsFiniteSet(1 .. Len(s))
    BY <1>1, FS_Interval
  <2> QED
    BY <2>1, <2>2, FS_Surjection
<1>2. IsFiniteSet(Build!Sources)
  BY <1>1, FilesAndBounds, FS_Union DEF Build!Sources
<1>3. DOMAIN g \in SUBSET Build!Sources
  BY DEF Partial
<1>4. Cardinality(DOMAIN g) \in Nat
  BY <1>2, <1>3, FS_Subset, FS_CardinalityType
<1>5. Build!Cardinality(DOMAIN g) = Cardinality(DOMAIN g)
  BY DEF Build!Cardinality, Cardinality
<1> QED
  BY <1>4, <1>5

LEMMA WholeIsPartial ==
    /\ [Build!Sources -> Nat] \subseteq Partial
    /\ \A g \in Partial : DOMAIN g = Build!Sources => g \in [Build!Sources -> Nat]
    /\ Build!None \in Partial /\ DOMAIN Build!None = {}
  BY DEF Partial, Build!None

LEMMA KindOfCommand ==
    ASSUME GeneratorTypes
    PROVE  /\ buildCmd.name = "build" => buildCmd \in BuildCommands
           /\ buildCmd.name = "embed" => buildCmd \in EmbedCommands
           /\ buildCmd.name = "derive" => buildCmd \in DeriveCommands
           /\ buildCmd = Build!Idle => buildCmd.name = "idle"
  BY DEF GeneratorTypes, Build!Idle, BuildCommands, EmbedCommands, DeriveCommands

LEMMA EditKeeps ==
    ASSUME GeneratorInv, Build!Edit
    PROVE  GeneratorInv'
<1> USE DEF GeneratorInv
<1>1. GeneratorTypes'
  <2>1. buildSrc' \in [Build!Sources -> Nat]
    BY DEF Build!Edit, GeneratorTypes
  <2>2. anchors' \in [Build!Replacements -> Nat] /\ pins' \in 0 .. 2
    BY DEF Build!Edit, GeneratorTypes
  <2>3. edits' \in 0 .. MaxEdits /\ checked' = {} /\ clean' \subseteq Build!Sources
    BY FilesAndBounds DEF Build!Edit, GeneratorTypes
  <2> QED
    BY <2>1, <2>2, <2>3 DEF Build!Edit, GeneratorTypes
<1>2. \A f \in clean' : f \in clean /\ buildSrc'[f] = buildSrc[f]
  BY DEF Build!Edit, GeneratorTypes
<1>3. BuildInProgress' /\ DeriveInProgress'
  BY <1>2 DEF Build!Edit, BuildInProgress, DeriveInProgress
<1>4. EmbedInProgress'
  <2>1. /\ edits' = edits + 1 /\ edits \in Nat
        /\ UNCHANGED << buildCmd, runner, buildExit >>
    BY FilesAndBounds DEF Build!Edit, GeneratorTypes
  <2>2. buildCmd.name = "embed" => buildCmd.since \in Nat
    BY KindOfCommand DEF EmbedCommands
  <2>3. buildCmd.name = "embed" => buildCmd'.since <= edits' /\ buildCmd'.since # edits'
    BY <2>1, <2>2 DEF EmbedInProgress
  <2> QED
    BY <2>1, <2>3 DEF EmbedInProgress
<1>5. ChecksStand' /\ Build!BuiltIsVerified' /\ Build!EntryHasItsPin' /\ Build!DerivedIsWhole'
  BY <1>2 DEF Build!Edit, ChecksStand, Build!BuiltIsVerified, Build!EntryHasItsPin,
              Build!DerivedIsWhole
<1> QED
  BY <1>1, <1>3, <1>4, <1>5

(* A generator that starts leaves no word of the one before it.            *)
LEMMA StartKeeps ==
    ASSUME GeneratorInv, Build!StartBuild \/ Build!StartEmbed \/ Build!StartDerive
    PROVE  GeneratorInv'
<1> USE DEF GeneratorInv, Build!Start, Build!NoExit
<1>1. /\ buildCmd' \in BuildCommands \cup EmbedCommands \cup DeriveCommands
      /\ buildCommands' \in 0 .. MaxCommands /\ clean' \subseteq clean
  <2>1. CASE Build!StartBuild
    BY <2>1, FilesAndBounds, WholeIsPartial DEF Build!StartBuild, GeneratorTypes, BuildCommands
  <2>2. CASE Build!StartEmbed
    BY <2>2, FilesAndBounds, WholeIsPartial DEF Build!StartEmbed, GeneratorTypes, EmbedCommands
  <2>3. CASE Build!StartDerive
    <3>1. {} \in {1 .. n : n \in 0 .. Reps}
      <4>1. {} = 1 .. 0 /\ 0 \in 0 .. Reps
        BY FilesAndBounds
      <4> QED
        BY <4>1
    <3>2. buildCmd' = [name |-> "derive", anchors |-> anchors, done |-> {}]
      BY <2>3 DEF Build!StartDerive
    <3>3. buildCmd' \in DeriveCommands
      BY <3>1, <3>2 DEF GeneratorTypes, DeriveCommands
    <3> QED
      BY <2>3, <3>3, FilesAndBounds DEF Build!StartDerive, GeneratorTypes
  <2> QED
    BY <2>1, <2>2, <2>3
<1>2. /\ buildExit' = [name |-> "none", code |-> 0]
      /\ UNCHANGED << buildSrc, pins, anchors, kernel, buildMeta, runner, buildEntry,
                      derived, checked, edits >>
  BY DEF Build!StartBuild, Build!StartEmbed, Build!StartDerive
<1>3. GeneratorTypes'
  BY <1>1, <1>2 DEF GeneratorTypes
<1>4. BuildInProgress'
  BY <1>2 DEF Build!StartBuild, Build!StartEmbed, Build!StartDerive, BuildInProgress
<1>5. EmbedInProgress'
  <2>1. CASE Build!StartEmbed
    <3>1. PICK check \in BOOLEAN :
             buildCmd' = [name |-> "embed", pins |-> pins, got |-> Build!None,
                          check |-> check, had |-> runner, since |-> edits]
      BY <2>1 DEF Build!StartEmbed
    <3>2. edits <= edits
      BY FilesAndBounds DEF GeneratorTypes
    <3> QED
      BY <1>2, <3>1, <3>2, WholeIsPartial DEF EmbedInProgress
  <2>2. CASE Build!StartBuild \/ Build!StartDerive
    BY <2>2 DEF Build!StartBuild, Build!StartDerive, EmbedInProgress
  <2> QED
    BY <2>1, <2>2
<1>6. DeriveInProgress'
  BY <1>2 DEF Build!StartBuild, Build!StartEmbed, Build!StartDerive, DeriveInProgress
<1>7. Build!BuiltIsVerified'
  BY <1>2, FilesOfTheKernels DEF Build!BuiltIsVerified
<1>8. ChecksStand' /\ Build!EntryHasItsPin' /\ Build!DerivedIsWhole'
  BY <1>2 DEF ChecksStand, Build!EntryHasItsPin, Build!DerivedIsWhole
<1> QED
  BY <1>3, <1>4, <1>5, <1>6, <1>7, <1>8

LEMMA BuildKeeps ==
    ASSUME GeneratorInv,
           Build!ReadBlob \/ Build!WriteKernel \/ Build!VerifyBlob \/ Build!WriteMeta
    PROVE  GeneratorInv'
<1> USE DEF GeneratorInv, Build!Goes, Build!End
<1>1. buildCmd.name = "build" /\ buildCmd \in BuildCommands
  BY KindOfCommand
     DEF Build!ReadBlob, Build!WriteKernel, Build!VerifyBlob, Build!WriteMeta
<1>2. /\ UNCHANGED << buildSrc, pins, anchors, runner, buildEntry, derived, edits, buildCommands >>
      /\ checked' \in {checked, {}}
  BY DEF Build!ReadBlob, Build!WriteKernel, Build!VerifyBlob, Build!WriteMeta
<1>3. ChecksStand' /\ Build!EntryHasItsPin' /\ Build!DerivedIsWhole'
  BY <1>2 DEF ChecksStand, Build!EntryHasItsPin, Build!DerivedIsWhole
<1>4. CASE Build!ReadBlob
  <2> DEFINE f == Blobs[Build!Cardinality(DOMAIN buildCmd.lines) + 1]
  <2>1. f \in Build!Sources
    <3>1. buildCmd.lines \in Partial
      BY <1>1 DEF BuildCommands
    <3>2. Build!Cardinality(DOMAIN buildCmd.lines) \in Nat
      BY <3>1, PartsAreFinite
    <3>3. Build!Cardinality(DOMAIN buildCmd.lines) + 1 \in 1 .. Len(Blobs)
      BY <1>4, <3>2, FilesAndBounds DEF Build!ReadBlob
    <3> QED
      BY <3>3, FilesOfTheKernels
  <2>2. Build!Noted(buildCmd.lines, f) \in Partial
    <3>1. buildCmd.lines \in Partial /\ buildSrc[f] \in Nat
      BY <1>1, <2>1 DEF BuildCommands, GeneratorTypes
    <3> HIDE DEF f
    <3> QED
      BY <2>1, <3>1, PartialGrows
  <2>3. buildCmd' = [buildCmd EXCEPT !.lines = Build!Noted(@, f)] /\ buildCmd.verify = 0
    BY <1>4 DEF Build!ReadBlob
  <2>4. /\ buildCmd' \in BuildCommands /\ buildCmd'.verify = 0
        /\ UNCHANGED << kernel, buildMeta, clean, checked, buildExit >>
    BY <1>1, <1>4, <2>2, <2>3 DEF BuildCommands, Build!ReadBlob
  <2> HIDE DEF f
  <2>5. GeneratorTypes'
    BY <1>2, <2>4 DEF GeneratorTypes
  <2>6. BuildInProgress' /\ EmbedInProgress' /\ DeriveInProgress'
    BY <1>1, <2>3, <2>4
       DEF BuildCommands, BuildInProgress, EmbedInProgress, DeriveInProgress
  <2>7. Build!BuiltIsVerified'
    BY <1>1, <1>2, <2>4 DEF Build!BuiltIsVerified
  <2> QED
    BY <1>3, <2>5, <2>6, <2>7
<1>5. CASE Build!WriteKernel
  <2>1. /\ buildCmd' = [buildCmd EXCEPT !.verify = 1] /\ buildCmd.verify = 0
        /\ kernel' = [kernel EXCEPT ![buildCmd.slug] =
                        [blobs |-> buildCmd.lines, role |-> buildCmd.slug]]
        /\ UNCHANGED << buildMeta, clean, buildExit >>
    BY <1>5 DEF Build!WriteKernel
  <2>2. buildCmd' \in BuildCommands /\ buildCmd'.verify = 1
        /\ buildCmd'.slug = buildCmd.slug /\ buildCmd'.lines = buildCmd.lines
    BY <1>1, <2>1 DEF BuildCommands
  <2>3. GeneratorTypes'
    BY <1>1, <1>2, <2>1, <2>2 DEF GeneratorTypes
  <2>4. BuildInProgress' /\ EmbedInProgress' /\ DeriveInProgress'
    BY <1>1, <1>2, <2>1, <2>2
       DEF BuildCommands, GeneratorTypes, BuildInProgress, EmbedInProgress, DeriveInProgress
  <2>5. Build!BuiltIsVerified'
    BY <1>1, <2>1, FilesOfTheKernels DEF BuildInProgress, Build!BuiltIsVerified, Build!NoExit
  <2> QED
    BY <1>3, <2>3, <2>4, <2>5
<1>6. CASE Build!VerifyBlob
  <2> DEFINE f == Blobs[buildCmd.verify]
  <2>1. /\ f \in Build!Sources /\ buildCmd.verify > 0 /\ buildCmd.verify \in Nat
        /\ UNCHANGED << kernel, buildMeta, checked >>
    BY <1>1, <1>6, FilesOfTheKernels DEF Build!VerifyBlob, BuildCommands
  <2>2. CASE buildCmd.lines[f] = buildSrc[f]
    <3>1. /\ buildCmd' = [buildCmd EXCEPT !.verify = @ + 1] /\ clean' = clean \cup {f}
          /\ UNCHANGED buildExit
      BY <1>6, <2>2 DEF Build!VerifyBlob, Build!Fresh
    <3>2. /\ buildCmd' \in BuildCommands /\ buildCmd'.verify > 0
          /\ buildCmd'.slug = buildCmd.slug /\ buildCmd'.lines = buildCmd.lines
      BY <1>1, <2>1, <3>1 DEF BuildCommands
    <3> HIDE DEF f
    <3>3. GeneratorTypes'
      BY <1>2, <2>1, <3>1, <3>2 DEF GeneratorTypes
    <3>4. BuildInProgress' /\ EmbedInProgress' /\ DeriveInProgress'
      BY <1>1, <1>2, <2>1, <2>2, <3>1, <3>2
         DEF BuildCommands, BuildInProgress, EmbedInProgress, DeriveInProgress
    <3>5. Build!BuiltIsVerified'
      BY <1>1, <3>1, FilesOfTheKernels DEF BuildInProgress, Build!BuiltIsVerified, Build!NoExit
    <3> QED
      BY <1>3, <3>3, <3>4, <3>5
  <2>3. CASE buildCmd.lines[f] # buildSrc[f]
    <3>1. /\ buildCmd' = Build!Idle /\ clean' = {}
          /\ buildExit' = [name |-> buildCmd.slug, code |-> 1]
      BY <1>6, <2>3 DEF Build!VerifyBlob, Build!Fresh
    <3>2. GeneratorTypes'
      BY <1>1, <1>2, <2>1, <3>1 DEF GeneratorTypes, BuildCommands
    <3>3. BuildInProgress' /\ EmbedInProgress' /\ DeriveInProgress'
      BY <3>1 DEF BuildInProgress, EmbedInProgress, DeriveInProgress, Build!Idle
    <3>4. Build!BuiltIsVerified'
      BY <3>1 DEF Build!BuiltIsVerified
    <3> QED
      BY <1>3, <3>2, <3>3, <3>4
  <2> QED
    BY <2>2, <2>3
<1>7. CASE Build!WriteMeta
  <2>1. /\ buildCmd' = Build!Idle /\ buildExit' = [name |-> buildCmd.slug, code |-> 0]
        /\ buildMeta' = [buildMeta EXCEPT ![buildCmd.slug] = << buildCmd.slug # "cpu" >>]
        /\ UNCHANGED << kernel, clean >> /\ buildCmd.verify > 0
    BY <1>1, <1>7, FilesAndBounds DEF Build!WriteMeta, BuildCommands
  <2>2. GeneratorTypes'
    BY <1>1, <1>2, <2>1 DEF GeneratorTypes, BuildCommands
  <2>3. BuildInProgress' /\ EmbedInProgress' /\ DeriveInProgress'
    BY <2>1 DEF BuildInProgress, EmbedInProgress, DeriveInProgress, Build!Idle
  <2>4. kernel[buildCmd.slug] = [blobs |-> buildCmd.lines, role |-> buildCmd.slug]
    BY <1>1, <2>1 DEF BuildInProgress
  <2>5. kernel[buildCmd.slug] # << >>
    BY <2>4
  <2>6. ASSUME NEW s \in Build!Slugs, buildExit' = [name |-> s, code |-> 0]
        PROVE  /\ s = buildCmd.slug
               /\ buildMeta'[s] = << s # "cpu" >>
    BY <1>1, <2>1, <2>6 DEF GeneratorTypes, BuildCommands
  <2>7. Build!BuiltIsVerified'
    BY <1>1, <1>2, <2>1, <2>4, <2>5, <2>6 DEF BuildInProgress, Build!BuiltIsVerified
  <2> QED
    BY <1>3, <2>2, <2>3, <2>7
<1> QED
  BY <1>4, <1>5, <1>6, <1>7

LEMMA EmbedKeeps ==
    ASSUME GeneratorInv, Build!ReadSource \/ Build!Embed \/ Build!EmbedCheck
    PROVE  GeneratorInv'
<1> USE DEF GeneratorInv, Build!Goes, Build!End
<1>1. buildCmd.name = "embed" /\ buildCmd \in EmbedCommands
  BY KindOfCommand DEF Build!ReadSource, Build!Embed, Build!EmbedCheck
<1>2. /\ UNCHANGED << buildSrc, anchors, kernel, buildMeta, buildEntry, derived, clean, edits,
                      buildCommands >>
      /\ buildExit = Build!NoExit
  BY <1>1 DEF Build!ReadSource, Build!Embed, Build!EmbedCheck, EmbedInProgress
<1>3. Build!EntryHasItsPin' /\ Build!DerivedIsWhole'
  BY <1>2 DEF Build!EntryHasItsPin, Build!DerivedIsWhole
<1>4. CASE Build!ReadSource
  <2> DEFINE f == Build!Order[Build!Cardinality(DOMAIN buildCmd.got) + 1]
  <2>1. f \in Build!Sources
    <3>1. buildCmd.got \in Partial
      BY <1>1 DEF EmbedCommands
    <3>2. Build!Cardinality(DOMAIN buildCmd.got) \in Nat
      BY <3>1, PartsAreFinite
    <3>3. Len(Build!Order) \in Nat
      BY FilesAndBounds DEF Build!Order
    <3>4. Build!Cardinality(DOMAIN buildCmd.got) + 1 \in 1 .. Len(Build!Order)
      BY <1>4, <3>2, <3>3 DEF Build!ReadSource
    <3> QED
      BY <3>4, FilesOfTheKernels
  <2>2. buildCmd.got \in Partial /\ buildSrc[f] \in Nat
    BY <1>1, <2>1 DEF EmbedCommands, GeneratorTypes
  <2>3. buildCmd' = [buildCmd EXCEPT !.got = Build!Noted(@, f)]
    BY <1>4 DEF Build!ReadSource
  <2> HIDE DEF f
  <2>4. /\ Build!Noted(buildCmd.got, f) \in Partial
        /\ DOMAIN Build!Noted(buildCmd.got, f) = DOMAIN buildCmd.got \cup {f}
        /\ (\A h \in DOMAIN buildCmd.got : buildCmd.got[h] = buildSrc[h]) =>
              \A h \in DOMAIN buildCmd.got \cup {f} :
                 Build!Noted(buildCmd.got, f)[h] = buildSrc[h]
    BY <2>1, <2>2, PartialGrows
  <2>5. /\ buildCmd' \in EmbedCommands /\ buildCmd'.had = buildCmd.had
        /\ buildCmd'.since = buildCmd.since
        /\ buildCmd'.got = Build!Noted(buildCmd.got, f)
    BY <1>1, <2>3, <2>4 DEF EmbedCommands
  <2>6. UNCHANGED << pins, runner, checked, buildExit >>
    BY <1>4 DEF Build!ReadSource
  <2>7. GeneratorTypes'
    BY <1>2, <2>5, <2>6 DEF GeneratorTypes
  <2>8. EmbedInProgress'
    BY <1>1, <1>2, <2>4, <2>5, <2>6 DEF EmbedInProgress
  <2>9. BuildInProgress' /\ DeriveInProgress'
    BY <2>5 DEF EmbedCommands, BuildInProgress, DeriveInProgress
  <2>10. ChecksStand' /\ Build!BuiltIsVerified'
    BY <1>2, <2>6 DEF ChecksStand, Build!BuiltIsVerified
  <2> QED
    BY <1>3, <2>7, <2>8, <2>9, <2>10
<1>5. CASE Build!Embed
  <2>1. buildCmd.got \in [Build!Sources -> Nat] /\ buildCmd.pins \in 0 .. 2
    BY <1>1, <1>5, WholeIsPartial DEF Build!Embed, EmbedCommands
  <2>2. /\ buildCmd' = [buildCmd EXCEPT !.check = TRUE, !.got = Build!None,
                                        !.had = buildCmd.got, !.since = edits]
        /\ runner' = buildCmd.got /\ pins' = buildCmd.pins /\ checked' = {}
        /\ UNCHANGED buildExit
    BY <1>5 DEF Build!Embed
  <2>3. /\ buildCmd' \in EmbedCommands /\ buildCmd'.had = buildCmd.got
        /\ buildCmd'.since = edits /\ buildCmd'.got = Build!None
    <3>1. buildCmd' = [name |-> "embed", pins |-> buildCmd.pins, got |-> Build!None,
                       check |-> TRUE, had |-> buildCmd.got, since |-> edits]
      BY <1>1, <2>2 DEF EmbedCommands
    <3>2. edits \in Nat /\ Build!None \in Partial
      BY WholeIsPartial, FilesAndBounds DEF GeneratorTypes
    <3> QED
      BY <2>1, <3>1, <3>2 DEF EmbedCommands
  <2>4. GeneratorTypes'
    BY <1>2, <2>1, <2>2, <2>3 DEF GeneratorTypes
  <2>5. EmbedInProgress'
    BY <1>2, <2>2, <2>3, <2>4, WholeIsPartial, FilesAndBounds
       DEF EmbedInProgress, GeneratorTypes
  <2>6. BuildInProgress' /\ DeriveInProgress'
    BY <2>3 DEF EmbedCommands, BuildInProgress, DeriveInProgress
  <2>7. ChecksStand' /\ Build!BuiltIsVerified'
    BY <1>2, <2>2 DEF ChecksStand, Build!BuiltIsVerified
  <2> QED
    BY <1>3, <2>4, <2>5, <2>6, <2>7
<1>6. CASE Build!EmbedCheck
  <2>1. buildCmd' = Build!Idle /\ UNCHANGED << pins, runner >>
    BY <1>6 DEF Build!EmbedCheck
  <2>2. /\ checked' \in {checked, checked \cup {"embed"}}
        /\ buildExit' \in {[name |-> "embed", code |-> c] : c \in {0, 1}}
    BY <1>6 DEF Build!EmbedCheck
  <2>3. GeneratorTypes'
    BY <1>2, <2>1, <2>2 DEF GeneratorTypes
  <2>4. BuildInProgress' /\ EmbedInProgress' /\ DeriveInProgress'
    BY <2>1 DEF BuildInProgress, EmbedInProgress, DeriveInProgress, Build!Idle
  <2>5. runner = buildSrc \/ checked' = checked
    <3>1. SUFFICES ASSUME checked' # checked
                   PROVE  runner = buildSrc
      OBVIOUS
    <3>2. /\ buildCmd.had = buildCmd.got /\ buildCmd.since = edits
          /\ DOMAIN buildCmd.got = Build!Sources
      BY <1>6, <3>1 DEF Build!EmbedCheck
    <3>3. \A f \in Build!Sources : runner[f] = buildSrc[f]
      BY <1>1, <3>2 DEF EmbedInProgress
    <3> QED
      BY <3>3 DEF GeneratorTypes
  <2>6. ChecksStand'
    BY <1>2, <2>1, <2>2, <2>5 DEF ChecksStand, Build!Entries
  <2>7. Build!BuiltIsVerified'
    BY <2>2, FilesOfTheKernels DEF Build!BuiltIsVerified
  <2> QED
    BY <1>3, <2>3, <2>4, <2>6, <2>7
<1> QED
  BY <1>4, <1>5, <1>6

LEMMA EntryKeeps ==
    ASSUME GeneratorInv, Build!BuildEntry
    PROVE  GeneratorInv'
<1> USE DEF GeneratorInv
<1>1. PICK e \in Build!Entries, check \in BOOLEAN :
         /\ buildCmd = Build!Idle /\ buildCommands < MaxCommands
         /\ buildCommands' = buildCommands + 1 /\ buildCmd' = Build!Idle
         /\ IF ~Build!Renderable(pins)
              THEN /\ buildExit' = [name |-> e, code |-> 1]
                   /\ UNCHANGED << buildEntry, checked >>
            ELSE IF check
              THEN /\ buildEntry' = buildEntry
                   /\ buildExit' = [name |-> e,
                                    code |-> IF Build!Same(buildEntry[e]) THEN 0 ELSE 1]
                   /\ checked' = IF Build!Same(buildEntry[e]) THEN checked \cup {e}
                                                            ELSE checked
            ELSE /\ buildEntry' = [buildEntry EXCEPT ![e] =
                                     [Build!Rendered EXCEPT !.pins = pins]]
                 /\ buildExit' = [name |-> e, code |-> 0]
                 /\ checked' = checked \ {e}
  BY DEF Build!BuildEntry
<1>2. UNCHANGED << buildSrc, pins, anchors, kernel, buildMeta, runner, derived, clean, edits >>
  BY DEF Build!BuildEntry
<1>3. /\ buildExit' \in [name : Build!Entries, code : {0, 1}] /\ buildExit'.name = e
      /\ checked' \subseteq {"embed", "k6", "m3"} /\ checked' \subseteq checked \cup {e}
      /\ DOMAIN buildEntry' = Build!Entries
  BY <1>1 DEF GeneratorTypes, Build!Entries
<1>4. GeneratorTypes'
  BY <1>1, <1>2, <1>3, FilesAndBounds DEF GeneratorTypes
<1>5. BuildInProgress' /\ EmbedInProgress' /\ DeriveInProgress'
  BY <1>1 DEF BuildInProgress, EmbedInProgress, DeriveInProgress, Build!Idle
<1>6. ASSUME NEW d \in Build!Entries \cap checked'
      PROVE  buildEntry'[d] # << >> /\ buildEntry'[d].embeds = runner'
  <2>1. CASE d \in checked /\ buildEntry'[d] = buildEntry[d]
    BY <1>2, <2>1 DEF ChecksStand
  <2>2. CASE d = e /\ d \in checked' /\ buildEntry' = buildEntry /\ Build!Same(buildEntry[e])
    <3>1. buildEntry[e] = [embeds |-> runner, pins |-> 1]
      BY <2>2 DEF Build!Same, Build!Rendered
    <3>2. buildEntry[e].embeds = runner /\ buildEntry[e] # << >>
      BY <3>1
    <3> QED
      BY <1>2, <2>2, <3>2
  <2> QED
    BY <1>1, <1>6, <2>1, <2>2 DEF GeneratorTypes
<1>7. ChecksStand'
  <2>1. "embed" \in checked' => "embed" \in checked
    BY <1>3 DEF Build!Entries
  <2> QED
    BY <1>2, <1>6, <2>1 DEF ChecksStand
<1>8. Build!BuiltIsVerified'
  BY <1>3, FilesOfTheKernels DEF Build!BuiltIsVerified, Build!Entries
<1>9. Build!EntryHasItsPin'
  BY <1>1, <1>2
     DEF Build!EntryHasItsPin, Build!Renderable, Build!Rendered, GeneratorTypes
<1>10. Build!DerivedIsWhole'
  BY <1>2 DEF Build!DerivedIsWhole
<1> QED
  BY <1>4, <1>5, <1>7, <1>8, <1>9, <1>10

LEMMA DeriveKeeps ==
    ASSUME GeneratorInv, Build!rep \/ Build!WriteDerived
    PROVE  GeneratorInv'
<1> USE DEF GeneratorInv, Build!Goes, Build!End
<1>1. buildCmd.name = "derive" /\ buildCmd \in DeriveCommands
  BY KindOfCommand DEF Build!rep, Build!WriteDerived
<1>2. /\ UNCHANGED << buildSrc, pins, anchors, kernel, buildMeta, runner, buildEntry, clean,
                      checked, edits, buildCommands >>
      /\ buildExit = Build!NoExit
  BY <1>1 DEF Build!rep, Build!WriteDerived, DeriveInProgress
<1>3. ChecksStand' /\ Build!EntryHasItsPin'
  BY <1>2 DEF ChecksStand, Build!EntryHasItsPin
<1>4. CASE Build!rep
  <2> DEFINE k == Build!Cardinality(buildCmd.done) + 1
  <2>1. PICK n \in 0 .. Reps : buildCmd.done = 1 .. n
    BY <1>1 DEF DeriveCommands
  <2>2. k = n + 1 /\ n < Reps /\ n \in Nat
    <3>1. n \in Nat /\ n <= Reps
      BY FilesAndBounds
    <3>2. Cardinality(1 .. n) = n
      BY <3>1, FS_Interval
    <3>3. Build!Cardinality(1 .. n) = Cardinality(1 .. n)
      BY DEF Build!Cardinality, Cardinality
    <3>4. n # Reps
      BY <1>4, <2>1 DEF Build!rep, Build!Replacements
    <3> QED
      BY <2>1, <3>1, <3>2, <3>3, <3>4, FilesAndBounds
  <2>3. UNCHANGED derived
    BY <1>4 DEF Build!rep
  <2>4. CASE Build!Replaces(k)
    <3>1. buildCmd' = [buildCmd EXCEPT !.done = @ \cup {k}] /\ UNCHANGED buildExit
      BY <1>4, <2>4 DEF Build!rep
    <3> HIDE DEF k
    <3>2. buildCmd.done \cup {k} = 1 .. n + 1 /\ n + 1 \in 0 .. Reps
      BY <2>1, <2>2, FilesAndBounds
    <3>3. buildCmd' \in DeriveCommands
      BY <1>1, <3>1, <3>2 DEF DeriveCommands
    <3>4. GeneratorTypes'
      BY <1>2, <2>3, <3>1, <3>3 DEF GeneratorTypes
    <3>5. BuildInProgress' /\ EmbedInProgress'
      BY <3>3 DEF DeriveCommands, BuildInProgress, EmbedInProgress
    <3>6. DeriveInProgress'
      BY <1>1, <1>2, <2>4, <3>1 DEF DeriveCommands, DeriveInProgress, Build!Replaces
    <3>7. Build!BuiltIsVerified' /\ Build!DerivedIsWhole'
      BY <1>2, <2>3, <3>1 DEF Build!BuiltIsVerified, Build!DerivedIsWhole
    <3> QED
      BY <1>3, <3>4, <3>5, <3>6, <3>7
  <2>5. CASE ~Build!Replaces(k)
    <3>1. buildCmd' = Build!Idle /\ buildExit' = [name |-> "derive", code |-> 1]
      BY <1>4, <2>5 DEF Build!rep
    <3>2. GeneratorTypes'
      BY <1>2, <2>3, <3>1 DEF GeneratorTypes
    <3>3. BuildInProgress' /\ EmbedInProgress' /\ DeriveInProgress'
      BY <3>1 DEF BuildInProgress, EmbedInProgress, DeriveInProgress, Build!Idle
    <3>4. Build!BuiltIsVerified' /\ Build!DerivedIsWhole'
      BY <2>3, <3>1 DEF Build!BuiltIsVerified, Build!DerivedIsWhole
    <3> QED
      BY <1>3, <3>2, <3>3, <3>4
  <2> QED
    BY <2>4, <2>5
<1>5. CASE Build!WriteDerived
  <2>1. /\ buildCmd' = Build!Idle /\ buildExit' = [name |-> "derive", code |-> 0]
        /\ derived' = << [k \in Build!Replacements |-> buildCmd.anchors[k]] >>
        /\ buildCmd.done = Build!Replacements
    BY <1>5 DEF Build!WriteDerived
  <2>2. GeneratorTypes'
    BY <1>2, <2>1 DEF GeneratorTypes
  <2>3. BuildInProgress' /\ EmbedInProgress' /\ DeriveInProgress'
    BY <2>1 DEF BuildInProgress, EmbedInProgress, DeriveInProgress, Build!Idle
  <2>4. Build!BuiltIsVerified'
    BY <2>1, FilesOfTheKernels DEF Build!BuiltIsVerified
  <2>5. Build!DerivedIsWhole'
    BY <1>1, <2>1 DEF DeriveInProgress, Build!DerivedIsWhole
  <2> QED
    BY <1>3, <2>2, <2>3, <2>4, <2>5
<1> QED
  BY <1>4, <1>5

LEMMA GeneratorsKeepTheirWord ==
    ASSUME GeneratorInv, Build!Next \/ UNCHANGED buildVars
    PROVE  GeneratorInv'
<1>1. CASE UNCHANGED buildVars
  <2>1. GeneratorTypes' /\ ChecksStand'
    BY <1>1 DEF GeneratorInv, buildVars, GeneratorTypes, ChecksStand
  <2>2. BuildInProgress' /\ EmbedInProgress' /\ DeriveInProgress'
    BY <1>1 DEF GeneratorInv, buildVars, BuildInProgress, EmbedInProgress, DeriveInProgress
  <2>3. /\ Build!BuiltIsVerified' /\ Build!EntryHasItsPin' /\ Build!DerivedIsWhole'
    BY <1>1 DEF GeneratorInv, buildVars, Build!BuiltIsVerified, Build!EntryHasItsPin,
                Build!DerivedIsWhole
  <2> QED
    BY <2>1, <2>2, <2>3 DEF GeneratorInv
<1>2. CASE Build!Next
  BY <1>2, EditKeeps, StartKeeps, BuildKeeps, EmbedKeeps, EntryKeeps, DeriveKeeps
     DEF Build!Next
<1> QED
  BY <1>1, <1>2

LEMMA GeneratorPromises ==
    ASSUME GeneratorInv
    PROVE  GeneratedIsFresh
<1>1. Build!TypeOK
  <2>1. buildCmd.name \in {"idle", "build", "embed", "derive"}
    BY DEF GeneratorInv, GeneratorTypes, BuildCommands, EmbedCommands, DeriveCommands, Build!Idle
  <2> QED
    BY <2>1 DEF GeneratorInv, GeneratorTypes, Build!TypeOK
<1>2. Build!CheckedEntryIsFresh
  BY DEF GeneratorInv, ChecksStand, Build!CheckedEntryIsFresh
<1> QED
  BY <1>1, <1>2 DEF GeneratorInv, GeneratedIsFresh

(* Whatever is edited while the generators run and in whatever order they  *)
(* are run: a kernel reported as verified holds every source that was not  *)
(* edited since, an entry that was checked carries today's sources with    *)
(* one pin flipped, and the derived bench has every replacement once.      *)
THEOREM GeneratedStaysFresh == Spec => []GeneratedIsFresh
<1>1. Init => GeneratorInv
  BY GeneratorsStart DEF Init
<1>2. GeneratorInv /\ [Next]_vars => GeneratorInv'
  BY GeneratorsOrWait, GeneratorsKeepTheirWord
<1>3. GeneratorInv => GeneratedIsFresh
  BY GeneratorPromises
<1> QED
  BY <1>1, <1>2, <1>3, PTL DEF Spec
===============================================================================
