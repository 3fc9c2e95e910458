----------------------------- MODULE CommandPage -----------------------------
(***************************************************************************)
(* A page that follows a command                                           *)
(* (demo/web/src/app/commands/[id]/page.tsx) and what it is sent by        *)
(* service/command.service.ts: the answer to its load, the status events   *)
(* that updateStatus and updateRunStatus emit after their save and a       *)
(* rendering, the lines of the log, appended to a file and then emitted,   *)
(* and the lines already in the file when it subscribed.  Messages of the  *)
(* websocket arrive in order, answers to requests whenever they do.  A row *)
(* is the number of the save that wrote it, a line its number.             *)
(***************************************************************************)
EXTENDS Naturals, Sequences, FiniteSets

CONSTANTS
  Savers,       \* the worker and the requests that save the row
  Silent,       \* those of them that emit nothing: lock, unlock, update
  MaxSaves, MaxLines, MaxRuns, MaxOpens, MaxDisconnects    \* bound a behaviour

ASSUME PageAssumption ==
  /\ Silent \subseteq Savers
  /\ {MaxLines, MaxRuns, MaxOpens, MaxDisconnects} \subseteq Nat
  /\ MaxSaves \in Nat \ {0}     \* the row of the command has been saved

VARIABLES
  row,          \* the last save
  savers,       \* what each has saved and not emitted yet, 0 for nothing
  lines,        \* the lines of the log so far: "append", "emit" or "done"
  file,         \* the log file
  rooms,        \* which rooms the page's socket has joined
  reading,      \* the lines subscribeLogEvent has read, or "sent", or "none"
  wire,         \* what is on its way to the page through the websocket
  answers,      \* the answers to its requests: a row each
  page,         \* the row it shows, and the lines
  missed,       \* history: rows it is not told of since its load: silent, emitted to nobody, or lost
  newest,       \* history: the newest row it has shown
  racing,       \* history: lines not yet emitted when the file was read, or emitted before the join
  cleared,      \* history: lines the page has shown and cleared
  opens, breaks, runs

vars == <<row, savers, lines, file, rooms, reading, wire, answers, page,
          missed, newest, racing, cleared, opens, breaks, runs>>
server == <<row, savers, lines, file>>
connection == <<rooms, reading, wire>>
history == <<missed, newest, racing, cleared>>
bounds == <<opens, breaks, runs>>

Lines == 1 .. MaxLines
NoPage == [open |-> FALSE, loading |-> FALSE, shown |-> 0, logs |-> <<>>]
Count(l, s) == Cardinality({i \in DOMAIN s : s[i] = l})

Init ==
  /\ row = 1
  /\ savers = [s \in Savers |-> 0]
  /\ lines = <<>>
  /\ file = <<>>
  /\ rooms = {}
  /\ reading = [pc |-> "none", lines |-> <<>>]
  /\ wire = <<>>
  /\ answers = {}
  /\ page = NoPage
  /\ missed = {} /\ newest = 0 /\ racing = {} /\ cleared = {}
  /\ opens = 0 /\ breaks = 0 /\ runs = 0

-----------------------------------------------------------------------------
(* The server.                                                             *)

\* dao.save; lock, unlock and update do not tell anybody. A request of the
\* page's own user is answered in the end.
Save(s) ==
  /\ row < MaxSaves /\ savers[s] = 0
  /\ row' = row + 1
  /\ savers' = [savers EXCEPT ![s] = IF s \in Silent THEN 0 ELSE row + 1]
  /\ \E mine \in BOOLEAN :
       answers' = IF mine /\ s \in Silent /\ page.open THEN answers \cup {row + 1} ELSE answers
  /\ missed' = IF s \in Silent THEN missed \cup {row + 1} ELSE missed
  /\ UNCHANGED <<lines, file, connection, page, newest, racing, cleared, bounds>>

\* Mutant: updateRunStatus emits nothing.
EmitNothing(s) ==
  /\ savers[s] # 0
  /\ savers' = [savers EXCEPT ![s] = 0]
  /\ \E mine \in BOOLEAN : answers' = IF mine /\ page.open THEN answers \cup {savers[s]} ELSE answers
  /\ UNCHANGED <<row, lines, file, connection, page, history, bounds>>

\* updateStatus and updateRunStatus render the copy they have saved, and emit
\* it to whoever is in the room by then.
Emit(s) ==
  /\ savers[s] # 0
  /\ savers' = [savers EXCEPT ![s] = 0]
  /\ IF "status" \in rooms
       THEN wire' = Append(wire, [type |-> "status", row |-> savers[s], lines |-> <<>>]) /\ UNCHANGED missed
       ELSE missed' = missed \cup {savers[s]} /\ UNCHANGED wire
  /\ \E mine \in BOOLEAN : answers' = IF mine /\ page.open THEN answers \cup {savers[s]} ELSE answers
  /\ UNCHANGED <<row, lines, file, rooms, reading, page, newest, racing, cleared, bounds>>

\* auditLog and executionLog: nobody waits for them, so that several lines may
\* be on their way to the file.
Log ==
  /\ Len(lines) < MaxLines
  /\ lines' = Append(lines, "append")
  /\ UNCHANGED <<row, savers, file, connection, answers, page, history, bounds>>

\* Mutant: the append is tried again after it has been done.
AppendLineTwice(l) ==
  /\ lines[l] = "append"
  /\ lines' = [lines EXCEPT ![l] = "emit"]
  /\ file' = file \o <<l, l>>
  /\ UNCHANGED <<row, savers, connection, answers, page, history, bounds>>

AppendLine(l) ==
  /\ lines[l] = "append"
  /\ lines' = [lines EXCEPT ![l] = "emit"]
  /\ file' = Append(file, l)
  /\ UNCHANGED <<row, savers, connection, answers, page, history, bounds>>

EmitLine(l) ==
  /\ lines[l] = "emit"
  /\ lines' = [lines EXCEPT ![l] = "done"]
  /\ wire' = IF "log" \in rooms
               THEN Append(wire, [type |-> "line", row |-> 0, lines |-> <<l>>]) ELSE wire
  /\ racing' = IF reading.pc = "read" THEN racing \cup {l} ELSE racing
  /\ UNCHANGED <<row, savers, file, rooms, reading, answers, page, missed, newest, cleared, bounds>>

\* execute removes the folder of the command, and the logs with it.
NewRun ==
  /\ runs < MaxRuns
  /\ runs' = runs + 1
  /\ \A l \in DOMAIN lines : lines[l] = "done"
  /\ file' = <<>>
  /\ UNCHANGED <<row, savers, lines, connection, answers, page, history, opens, breaks>>

\* subscribeStatusEvent, on the connection on which the page has asked for it.
JoinStatus ==
  /\ reading.pc \notin {"none", "lost"} /\ "status" \notin rooms
  /\ rooms' = rooms \cup {"status"}
  /\ UNCHANGED <<server, reading, wire, answers, page, history, bounds>>

\* Mutant: the room is joined before the file is read.
ReadLogJoined ==
  /\ reading.pc = "sent"
  /\ IF "log" \notin rooms
       THEN rooms' = rooms \cup {"log"} /\ UNCHANGED <<reading, racing>>
       ELSE /\ reading' = [pc |-> "read", lines |-> file]
            /\ racing' = racing \cup {l \in DOMAIN lines : lines[l] = "emit"}
            /\ UNCHANGED rooms
  /\ UNCHANGED <<server, wire, answers, page, missed, newest, cleared, bounds>>

\* subscribeLogEvent reads the files, which fails on a line half written...
ReadLog ==
  /\ reading.pc = "sent"
  /\ \/ /\ reading' = [pc |-> "read", lines |-> file]
        /\ racing' = racing \cup {l \in DOMAIN lines : lines[l] = "emit"}
     \/ /\ \E l \in DOMAIN lines : lines[l] = "append"
        /\ reading' = [pc |-> "failed", lines |-> <<>>]
        /\ UNCHANGED racing
  /\ UNCHANGED <<server, rooms, wire, answers, page, missed, newest, cleared, bounds>>

\* ... joins the room, and sends what it has read.
JoinLog ==
  /\ reading.pc = "read"
  /\ rooms' = rooms \cup {"log"}
  /\ wire' = Append(wire, [type |-> "read", row |-> 0, lines |-> reading.lines])
  /\ reading' = [pc |-> "joined", lines |-> <<>>]
  /\ UNCHANGED <<server, answers, page, history, bounds>>

\* loadCommand reads the row; the answer comes later.
Load ==
  /\ page.loading
  /\ page' = [page EXCEPT !.loading = FALSE]
  /\ answers' = answers \cup {row}
  /\ missed' = {}
  /\ UNCHANGED <<server, connection, newest, racing, cleared, bounds>>

-----------------------------------------------------------------------------
(* The page.                                                               *)

\* Opened, or loaded again: both effects start, the load and the subscriptions.
Open ==
  /\ opens < MaxOpens
  /\ opens' = opens + 1
  /\ page' = [NoPage EXCEPT !.open = TRUE, !.loading = TRUE]
  /\ rooms' = {} /\ wire' = <<>> /\ answers' = {}
  /\ reading' = [pc |-> "sent", lines |-> <<>>]
  /\ missed' = {} /\ newest' = 0 /\ racing' = {} /\ cleared' = {}
  /\ UNCHANGED <<server, breaks, runs>>

Showing(r, logs) ==
  /\ page' = [page EXCEPT !.shown = r, !.logs = logs]
  /\ newest' = IF r > newest THEN r ELSE newest

\* onRefreshPage, of whatever the answer is: the logs are cleared.
Refresh(r) ==
  /\ r \in answers
  /\ answers' = answers \ {r}
  /\ Showing(r, <<>>)
  /\ cleared' = cleared \cup {page.logs[i] : i \in DOMAIN page.logs}
  /\ UNCHANGED <<server, connection, missed, racing, bounds>>

\* onStatusEvent, onAuditLogEvent, and the callback with the lines that were read
Receive ==
  LET message == Head(wire) IN
  /\ wire # <<>>
  /\ wire' = Tail(wire)
  /\ IF message.type = "status"
       THEN Showing(message.row, page.logs)
       ELSE page' = [page EXCEPT !.logs = @ \o message.lines] /\ UNCHANGED newest
  /\ UNCHANGED <<server, rooms, reading, answers, missed, racing, cleared, bounds>>

\* The socket connects again by itself; nobody subscribes again, and what was
\* on its way is lost.
Reconnect ==
  /\ breaks < MaxDisconnects /\ page.open
  /\ breaks' = breaks + 1
  /\ rooms' = {}
  /\ reading' = [pc |-> "lost", lines |-> <<>>]
  /\ wire' = <<>>
  /\ missed' = missed \cup {wire[i].row : i \in {j \in DOMAIN wire : wire[j].type = "status"}}
  /\ UNCHANGED <<server, answers, page, newest, racing, cleared, opens, runs>>

Next ==
  \/ \E s \in Savers : Save(s) \/ Emit(s)
  \/ Log \/ NewRun
  \/ \E l \in DOMAIN lines : AppendLine(l) \/ EmitLine(l)
  \/ JoinStatus \/ ReadLog \/ JoinLog \/ Load
  \/ Open \/ (\E r \in answers : Refresh(r)) \/ Receive \/ Reconnect

Spec == Init /\ [][Next]_vars

-----------------------------------------------------------------------------
(* Properties.                                                             *)

Messages == [type : {"status", "line", "read"}, row : 0 .. MaxSaves, lines : Seq(Lines)]

TypeOK ==
  /\ row \in 1 .. MaxSaves
  /\ savers \in [Savers -> 0 .. MaxSaves]
  /\ lines \in Seq({"append", "emit", "done"}) /\ Len(lines) <= MaxLines
  /\ file \in Seq(DOMAIN lines) /\ Len(file) <= Len(lines)
  /\ rooms \subseteq {"status", "log"}
  /\ reading \in [pc : {"none", "sent", "read", "failed", "joined", "lost"}, lines : Seq(Lines)]
  /\ wire \in Seq(Messages)
  /\ answers \subseteq 1 .. MaxSaves
  /\ page \in [open : BOOLEAN, loading : BOOLEAN, shown : 0 .. MaxSaves, logs : Seq(Lines)]
  /\ missed \subseteq 0 .. MaxSaves /\ newest \in 0 .. MaxSaves
  /\ racing \subseteq Lines /\ cleared \subseteq Lines

\* Nothing is on its way to the page.
Quiet ==
  /\ page.open /\ ~page.loading /\ answers = {} /\ wire = <<>>
  /\ \A s \in Savers : savers[s] = 0

\* A page that nothing is on its way to shows the row as it is, whatever order
\* load, subscriptions and saves came in; unless nobody told it of a save that
\* followed its load (lock and update tell nobody, and before it has joined it
\* hears nothing), or it has shown that one and was sent an older row later.
PageShowsRow == Quiet => page.shown = row \/ row \in missed \/ newest = row

\* Each line of the log is on the page, and only once, though it is sent both in
\* what was read from the file and as an event; unless the page was refreshed
\* after it, or it was between file and event when the file was read, or was
\* sent between this and the join.
LogIsOnPage ==
  Quiet /\ reading.pc = "joined" =>
    \A i \in DOMAIN file :
      lines[file[i]] = "done" /\ file[i] \notin racing \cup cleared => Count(file[i], page.logs) = 1
=============================================================================
