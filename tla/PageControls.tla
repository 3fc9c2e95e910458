---------------------------- MODULE PageControls ----------------------------
(***************************************************************************)
(* The controls of the page of a command                                   *)
(* (demo/web/src/app/commands/[id]/page.tsx) and the requests they send    *)
(* (api/command.api.ts, api/request.ts) to the server                      *)
(* (rest/command.rest.ts behind framework/auth.ts).  The page decides what *)
(* to offer on a copy that may be old, and the server decides again, on    *)
(* another one: it loads the row, tests it, and saves its copy later.      *)
(*                                                                         *)
(* A row goes by the number of the save that wrote it.  Of a row only what *)
(* the controls and the tests of the server look at is kept; a status      *)
(* other than Running is "Idle".  How the page follows the command is the  *)
(* subject of CommandPage; here an event is heard or not.                  *)
(***************************************************************************)
EXTENDS Naturals, Sequences

CONSTANTS
  MaxSaves,     \* bounds the saves of others
  MaxAsks       \* bounds the requests of the users of the page, and its openings

ASSUME ControlsAssumption == MaxSaves \in Nat /\ MaxAsks \in Nat

VARIABLES
  rows,         \* what each save wrote: the last one is the row
  told,         \* the rows in the status events about to be emitted or on their way
  requests,     \* the requests of the page, in the order it sent them
  page,         \* the session, the row it shows, the dialog that is open
  saves, asks   \* how many there have been

vars == <<rows, told, requests, page, saves, asks>>

row == Len(rows)
Removed == [status |-> "Removed", locked |-> FALSE]
NoDialog == [kind |-> "none", seen |-> 0]
NoPage == [open |-> FALSE, session |-> "none", shown |-> 0, dialog |-> NoDialog]
NewPage == [NoPage EXCEPT !.open = TRUE]

\* A request: on whose behalf, what the user was shown when deciding on it, and
\* what it has come to, with the row it was refused on, has loaded or has saved.
Asked(op, seen) == [op |-> op, by |-> page.session, seen |-> seen, pc |-> "sent", row |-> 0]

Finished == [op |-> "load", by |-> "none", seen |-> 0, pc |-> "done", row |-> 0]

Init ==
  /\ rows = <<[status |-> "Idle", locked |-> FALSE]>>
  /\ told = {}
  /\ requests = <<>>
  /\ page = NoPage
  /\ saves = 0 /\ asks = 0

-----------------------------------------------------------------------------
(* The server.                                                             *)

\* The copies that may have been loaded and not saved yet.
Copies == {rows[n] : n \in {m \in DOMAIN rows : rows[m] # Removed}}

\* What others save: a copy with another status, which is then emitted, or, for
\* lock, unlock and update, silently. remove deletes what it found unlocked.
Loud == {[c EXCEPT !.status = st] : c \in Copies, st \in {"Idle", "Running"}}
Silent == {[c EXCEPT !.locked = b] : c \in Copies, b \in BOOLEAN}
          \cup {Removed : c \in {d \in Copies : ~d.locked}}

\* An event that nobody will hear, before the page is in the room or while its
\* socket is connecting again, is as good as none.
Tell(n) == UNCHANGED told \/ (page.open /\ told' = told \cup {n})

Save ==
  /\ saves < MaxSaves /\ saves' = saves + 1
  /\ \/ (\E c \in Loud : rows' = Append(rows, c)) /\ Tell(row + 1)
     \/ (\E c \in Silent : rows' = Append(rows, c)) /\ UNCHANGED told
  /\ UNCHANGED <<requests, page, asks>>

\* @RequiredRoles and canActivate, then what CommandService refuses with a 404
\* or a conflict.
RequiredRole(op) ==
  CASE op = "load" -> {"none", "user", "admin"}
    [] op \in {"lock", "unlock", "remove"} -> {"admin"}
    [] OTHER -> {"user", "admin"}

Conflict(op, c) ==
  \/ op \in {"restart", "update"} /\ c.status = "Running"
  \/ op \in {"update", "remove", "lock"} /\ c.locked
  \/ op = "unlock" /\ ~c.locked

Refuses(op, by, c) == by \notin RequiredRole(op) \/ c = Removed \/ Conflict(op, c)

Become(i, pc, n) == requests' = [requests EXCEPT ![i].pc = pc, ![i].row = n]

\* ui.setError(): the page shows why, and nothing else happens.
Refuse(i) ==
  /\ requests[i].pc = "sent"
  /\ Refuses(requests[i].op, requests[i].by, rows[row])
  /\ Become(i, "refused", row)
  /\ UNCHANGED <<rows, told, page, saves, asks>>

\* An update may ask for what its user may not have: too many files, or
\* references of symbols.
RejectSettings(i) ==
  /\ requests[i].pc = "sent" /\ requests[i].op = "update"
  /\ ~Refuses("update", requests[i].by, rows[row])
  /\ requests' = [requests EXCEPT ![i] = Finished]
  /\ UNCHANGED <<rows, told, page, saves, asks>>

\* load() and the tests
Accept(i) ==
  /\ requests[i].pc = "sent"
  /\ ~Refuses(requests[i].op, requests[i].by, rows[row])
  /\ Become(i, IF requests[i].op = "load" THEN "answered" ELSE "loaded", row)
  /\ UNCHANGED <<rows, told, page, saves, asks>>

\* What an operation makes of the copy it has loaded.
Effect(op, c) ==
  CASE op = "restart" -> [c EXCEPT !.status = "Idle"]
    [] op = "lock"    -> [c EXCEPT !.locked = TRUE]
    [] op = "unlock"  -> [c EXCEPT !.locked = FALSE]
    [] op = "remove"  -> Removed
    [] OTHER          -> c

\* The save. restart, and an update with executeItRightNow, end in
\* updateStatus, which emits; the event and the answer race to the page.
Serve(i) ==
  LET op == requests[i].op IN
  /\ requests[i].pc = "loaded"
  /\ rows' = Append(rows, Effect(op, rows[requests[i].row]))
  /\ Become(i, "answered", row + 1)
  /\ IF op \in {"restart", "update"} THEN Tell(row + 1) ELSE UNCHANGED told
  /\ UNCHANGED <<page, saves, asks>>

-----------------------------------------------------------------------------
(* The page.                                                               *)

Asks == asks < MaxAsks /\ asks' = asks + 1 /\ UNCHANGED saves

Ask(op, seen) ==
  /\ Asks
  /\ requests' = Append(requests, Asked(op, seen))

\* Opened, or loaded again. What the page before it had asked for is of no more
\* interest to it.
Open ==
  /\ Asks
  /\ page' = NewPage
  /\ requests' = <<[op |-> "load", by |-> "none", seen |-> 0, pc |-> "sent", row |-> 0]>>
  /\ told' = {}
  /\ UNCHANGED rows

\* The session comes out of the local storage after the page has been shown.
\* The effect that loads the command depends on its state, an object that is
\* new each time the provider renders, and runs again.
RestoreSession ==
  /\ page.open /\ page.session = "none"
  /\ \E role \in {"user", "admin"} :
       /\ page' = [page EXCEPT !.session = role]
       /\ requests' = Append(requests, [Asked("load", 0) EXCEPT !.by = role])
  /\ UNCHANGED <<rows, told, saves, asks>>

Reload ==
  /\ page.open
  /\ Ask("load", 0)
  /\ UNCHANGED <<rows, told, page>>

\* The buttons of the toolbar are enabled while the command that is shown is not
\* Running, that of the lock always; a dialog covers them. Without a session
\* each of them only asks to sign in.
shown == rows[page.shown]
CanClick == page.open /\ page.shown # 0 /\ page.dialog = NoDialog /\ page.session # "none"
Enabled == CanClick /\ shown.status # "Running"
IsAdmin == page.session = "admin"

\* Nothing is disabled while a request is on its way: a second click sends a
\* second request.
OnRestart ==
  /\ Enabled
  /\ Ask("restart", page.shown)
  /\ UNCHANGED <<rows, told, page>>

OpenDialog(kind) ==
  /\ page' = [page EXCEPT !.dialog = [kind |-> kind, seen |-> page.shown]]
  /\ UNCHANGED <<rows, told, requests, saves, asks>>

\* Mutant: whether the command is locked is left to the server.
OnDeleteAnyway == Enabled /\ IsAdmin /\ OpenDialog("confirm")

OnDelete == Enabled /\ IsAdmin /\ ~shown.locked /\ OpenDialog("confirm")

OnLockOrUnlock ==
  /\ CanClick /\ IsAdmin
  /\ Ask(IF shown.locked THEN "unlock" ELSE "lock", page.shown)
  /\ UNCHANGED <<rows, told, page>>

OnClickEditIcon == Enabled /\ ~shown.locked /\ OpenDialog("edit")

\* The confirmation closes as it sends; the dialog of the command waits for
\* the answer, and stays open if that is an error.
OnConfirm ==
  /\ page.dialog.kind = "confirm"
  /\ Ask("remove", page.dialog.seen)
  /\ page' = [page EXCEPT !.dialog = NoDialog]
  /\ UNCHANGED <<rows, told>>

OnSubmit ==
  /\ page.dialog.kind = "edit"
  /\ Ask("update", page.dialog.seen)
  /\ UNCHANGED <<rows, told, page>>

OnClose ==
  /\ page.dialog # NoDialog
  /\ page' = [page EXCEPT !.dialog = NoDialog]
  /\ UNCHANGED <<rows, told, requests, saves, asks>>

\* onRefreshPage, of whatever the answer is; an update closes its dialog.
Refresh(i) ==
  LET op == requests[i].op IN
  /\ requests[i].pc = "answered" /\ op # "remove"
  /\ requests' = [requests EXCEPT ![i] = Finished]
  /\ page' = [page EXCEPT !.shown = requests[i].row,
                !.dialog = IF op = "update" /\ @.kind = "edit" THEN NoDialog ELSE @]
  /\ UNCHANGED <<rows, told, saves, asks>>

\* The answer comes after the 60 seconds, or never.
TimeOut(i) ==
  /\ requests[i].pc = "answered"
  /\ requests' = [requests EXCEPT ![i] = Finished]
  /\ UNCHANGED <<rows, told, page, saves, asks>>

\* Mutant: the requests of the page that is left are kept.
LeaveAsking ==
  /\ page' = NoPage
  /\ told' = {}
  /\ UNCHANGED <<rows, requests, saves, asks>>

Leave ==
  /\ page' = NoPage
  /\ requests' = <<>> /\ told' = {}
  /\ UNCHANGED <<rows, saves, asks>>

\* After a removal the page is left for the list of repositories, and when the
\* token has expired (401) to sign in again.
LeaveRemoved(i) == requests[i].pc = "answered" /\ requests[i].op = "remove" /\ Leave
Redirect(i) == requests[i].pc = "sent" /\ requests[i].by # "none" /\ Leave

\* onStatusEvent shows the copy that was rendered after its save, whatever
\* else has been saved since.
Hear(n) ==
  /\ told' = told \ {n}
  /\ page' = [page EXCEPT !.shown = n]
  /\ UNCHANGED <<rows, requests, saves, asks>>

ServerStep(i) == Refuse(i) \/ RejectSettings(i) \/ Accept(i) \/ Serve(i)
AnswerStep(i) == Refresh(i) \/ TimeOut(i) \/ LeaveRemoved(i) \/ Redirect(i)
UserStep ==
  \/ OnRestart \/ OnDelete \/ OnLockOrUnlock \/ OnClickEditIcon
  \/ OnConfirm \/ OnSubmit \/ OnClose

Next ==
  \/ Save \/ \E n \in told : Hear(n)
  \/ \E i \in DOMAIN requests : ServerStep(i) \/ AnswerStep(i)
  \/ Open \/ RestoreSession \/ Reload \/ UserStep

Spec == Init /\ [][Next]_vars

-----------------------------------------------------------------------------
(* Properties.                                                             *)

Content == [status : {"Idle", "Running"}, locked : BOOLEAN] \cup {Removed}
Roles == {"none", "user", "admin"}
Request == [op : {"load", "restart", "update", "lock", "unlock", "remove"}, by : Roles, seen : Nat,
            pc : {"sent", "loaded", "answered", "refused", "done"}, row : Nat]

\* A page never shows, nor is sent, a row that nobody wrote, and one that has
\* been left is waiting for nothing.
TypeOK ==
  /\ rows \in Seq(Content) /\ rows # <<>>
  /\ told \subseteq 1 .. row
  /\ requests \in Seq(Request)
  /\ \A i \in DOMAIN requests : requests[i].row <= row
  /\ page \in [open : BOOLEAN, session : Roles, shown : 0 .. row,
               dialog : [kind : {"none", "confirm", "edit"}, seen : 0 .. row]]
  /\ ~page.open => page = NoPage /\ requests = <<>> /\ told = {}
  /\ saves \in 0 .. MaxSaves /\ asks \in 0 .. MaxAsks

\* What the page offers, the server does: restart, update, remove, lock and
\* unlock are refused only when the command has been saved since the user was
\* shown the one the request is about, or has been removed.
RefusalIsStale ==
  \A i \in DOMAIN requests : requests[i].pc = "refused" => requests[i].seen < requests[i].row
=============================================================================
