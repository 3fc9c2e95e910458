------------------------------- MODULE Users -------------------------------
(***************************************************************************)
(* The users of the demo (framework/user.ts, auth.ts, auth.github.ts), the *)
(* sessions their browsers hold (web lib/session.tsx) and the one thing a  *)
(* user's grant decides: how many files a command may process, which the   *)
(* dialog checks (web command-dialog.tsx, lib/command.dto.ts) and then the *)
(* server (service/command.service.ts).                                    *)
(*                                                                         *)
(* A browser is that of one GitHub account, which has an email.  The       *)
(* transactions of requests that overlap nest as in CommandFacade.         *)
(***************************************************************************)
EXTENDS Naturals, Sequences, FiniteSets

CONSTANTS
  Emails,         \* of GitHub accounts, each with a browser
  Names,          \* of users
  NameOf,         \* extractNameFromEmail
  Owners,         \* the names of the owners of repositories
  AdminName, AdminEmail,    \* ADMIN_NAME, ADMIN_GITHUB_EMAIL
  Nobody,         \* no email
  Editors,        \* who has a dialog, and stars, in this instance
  Handlers,       \* the requests that may be in flight together
  Nums,           \* what is typed for the number of files
  Quota,          \* DEFAULT_NUM_QUOTE, 5 in the code
  MaxUsers, MaxRequests, MaxStars, MaxRestarts     \* bound a behaviour

ASSUME UsersAssumption ==
  /\ NameOf \in [Emails -> Names] /\ Owners \subseteq Names
  /\ AdminName \in Names /\ AdminEmail \in Emails /\ Nobody \notin Emails /\ Editors \subseteq Emails
  /\ Nums \subseteq Nat /\ Quota \in Nat \ {0}
  /\ {MaxUsers, MaxRequests, MaxStars, MaxRestarts} \subseteq Nat
  /\ IsFiniteSet(Handlers)

VARIABLES
  table,      \* the users by id, the id sequence and the num of a command
  undo,       \* the open transactions: the table at the BEGIN, whether others were answered since
  handlers,
  starred,    \* who has starred qiangyt/batchai
  stored,     \* the localStorage of each browser: whose refresh token it holds, or 0
  session,    \* the session of its page: whose, and with what grant
  dialog,     \* its command dialog, if its page has one
  mixed,      \* history: a request was undone whose transaction another one was in
  requests, stars, restarts

vars == <<table, undo, handlers, starred, stored, session, dialog, mixed, requests, stars, restarts>>
browsers == <<stored, session, dialog>>
bounds == <<requests, stars, restarts>>

Ids == 1 .. MaxUsers
Grants == {"Default", "Promoted", "Full"}
NoUser == [name |-> "", email |-> Nobody, admin |-> FALSE, grant |-> "Default"]
NoSession == [id |-> 0, grant |-> "Default"]
NoDialog == [made |-> FALSE, seen |-> 0, num |-> 0, quota |-> 0, create |-> FALSE]
Idle == [pc |-> "idle", op |-> "none", e |-> Nobody, name |-> "", id |-> 0, user |-> NoUser,
         num |-> 0, why |-> "", ask |-> NoDialog]

\* User.getNumQuote: 0 for no bound.
QuotaOf(grant) == IF grant = "Default" THEN Quota ELSE 0

Init ==
  /\ table = [users |-> [i \in Ids |-> NoUser], last |-> 0, num |-> Quota]
  /\ undo = <<>>
  /\ handlers = [h \in Handlers |-> Idle]
  /\ starred = {}
  /\ stored = [e \in Emails |-> 0]
  /\ session = [e \in Emails |-> NoSession]
  /\ dialog = [e \in Emails |-> NoDialog]
  /\ mixed = FALSE
  /\ requests = 0 /\ stars = 0 /\ restarts = 0

-----------------------------------------------------------------------------
(* The browsers.                                                           *)

\* BEGIN, a savepoint when another transaction is open
Begin == [table |-> table, mixed |-> FALSE]

Call(h, call) ==
  /\ handlers[h].pc = "idle" /\ requests < MaxRequests
  /\ requests' = requests + 1
  /\ handlers' = [handlers EXCEPT ![h] = call]
  /\ undo' = IF call.pc = "guard" THEN undo ELSE Append(undo, Begin)
  /\ UNCHANGED <<table, starred, mixed, stars, restarts>>

\* The callback of GitHub's sign-in
SignInByGithub(h, e) ==
  Call(h, [Idle EXCEPT !.pc = "find", !.op = "github", !.e = e]) /\ UNCHANGED browsers

\* The administrator signs in with the initial password.
SignInByPassword(h) ==
  Call(h, [Idle EXCEPT !.pc = "find", !.op = "password", !.e = AdminEmail]) /\ UNCHANGED browsers

\* The page is loaded again, and renews the session it has stored.
Reload(h, e) ==
  /\ stored[e] # 0
  /\ Call(h, [Idle EXCEPT !.pc = "find", !.op = "renew", !.e = e, !.id = stored[e]])
  /\ session' = [session EXCEPT ![e] = NoSession]
  /\ dialog' = [dialog EXCEPT ![e] = NoDialog]
  /\ UNCHANGED stored

\* clear()
SignOut(e) ==
  /\ session[e] # NoSession
  /\ session' = [session EXCEPT ![e] = NoSession]
  /\ stored' = [stored EXCEPT ![e] = 0]
  /\ UNCHANGED <<table, undo, handlers, starred, dialog, mixed, bounds>>

\* CommandEditData.forUpdate and forCreate, when a page is shown: the dialog keeps
\* what it is made with, until another page is. A session that is not restored
\* yet has no grant.
MakeDialog(e, create) ==
  LET quota == QuotaOf(session[e].grant) IN
  /\ e \in Editors
  /\ dialog' = [dialog EXCEPT ![e] =
       [made |-> TRUE, seen |-> table.num, num |-> IF create THEN quota ELSE table.num,
        quota |-> quota, create |-> create]]
  /\ UNCHANGED <<table, undo, handlers, starred, stored, session, mixed, bounds>>

\* It opens, as often as the user likes, for one who is signed in, with what was
\* typed the last time; while it is open nothing else of the page is used.
Opens(e) == session[e] # NoSession /\ dialog[e].made

\* Mutant: a number of 0 is taken.
OnChangeNumOrZero(e, num) ==
  /\ Opens(e) /\ num # dialog[e].num
  /\ dialog[e].quota > 0 => num <= dialog[e].quota
  /\ dialog' = [dialog EXCEPT ![e].num = num]
  /\ UNCHANGED <<table, undo, handlers, starred, stored, session, mixed, bounds>>

\* What the quota does not allow is not taken.
OnChangeNum(e, num) ==
  /\ Opens(e) /\ num # dialog[e].num
  /\ dialog[e].quota > 0 => num > 0 /\ num <= dialog[e].quota
  /\ dialog' = [dialog EXCEPT ![e].num = num]
  /\ UNCHANGED <<table, undo, handlers, starred, stored, session, mixed, bounds>>

\* The dialog stays open until the answer, and may be submitted again.
OnSubmit(h, e) ==
  /\ Opens(e)
  /\ Call(h, [Idle EXCEPT !.pc = "guard", !.op = "command", !.e = e, !.id = session[e].id,
                          !.ask = dialog[e]])
  /\ UNCHANGED browsers

\* createRepo looks for the owner; an administrator removes a user.
Resolve(h, name) ==
  Call(h, [Idle EXCEPT !.pc = "find", !.op = "resolve", !.name = name]) /\ UNCHANGED browsers

RemoveUser(h, i) ==
  Call(h, [Idle EXCEPT !.pc = "find", !.op = "remove", !.id = i]) /\ UNCHANGED browsers

\* onModuleInit, when the server starts
InitAdminUser(h) ==
  /\ \A g \in Handlers : handlers[g].op # "init"
  /\ Call(h, [Idle EXCEPT !.pc = "find", !.op = "init", !.name = AdminName, !.e = AdminEmail])
  /\ UNCHANGED browsers

-----------------------------------------------------------------------------
(* The transactions of the facades.                                        *)

Innermost == undo[Len(undo)]
KeepDatabase == UNCHANGED <<table, undo, mixed>>
Keep == UNCHANGED <<starred, browsers, bounds>>
At(h, pc) == handlers[h].pc = pc
Goto(h, pc) == handlers' = [handlers EXCEPT ![h].pc = pc]
Throw(h, why) == handlers' = [handlers EXCEPT ![h].pc = "threw", ![h].why = why]

\* What the browser does with the answer. A sign-in leads to a new page.
\* A renewal does not store anything, and is of no use to the page when it is not
\* of the session that is stored by now.
Answered(c) ==
  CASE c.op \in {"github", "password"} ->
         /\ session' = [session EXCEPT ![c.e] = [id |-> c.id, grant |-> c.user.grant]]
         /\ stored' = [stored EXCEPT ![c.e] = c.id]
         /\ dialog' = [dialog EXCEPT ![c.e] = NoDialog]
    [] c.op = "renew" /\ stored[c.e] = c.id ->
         /\ session' = [session EXCEPT ![c.e] = [id |-> c.id, grant |-> c.user.grant]]
         /\ UNCHANGED <<stored, dialog>>
    [] OTHER -> UNCHANGED browsers

\* A request is answered, though its work stands only when the transactions that
\* are still open are committed too. The administrator is created when the
\* transaction for it is over.
Commit(h) ==
  /\ At(h, "returned")
  /\ undo' = [i \in 1 .. Len(undo) - 1 |-> [undo[i] EXCEPT !.mixed = TRUE]]
  /\ handlers' = [handlers EXCEPT ![h] =
       IF @.op = "init" /\ @.id = 0 THEN [@ EXCEPT !.pc = "create"] ELSE Idle]
  /\ Answered(handlers[h])
  /\ UNCHANGED <<table, starred, mixed, bounds>>

\* The rollback is of the innermost transaction, whoever began it.
Rollback(h) ==
  /\ At(h, "threw")
  /\ undo' = SubSeq(undo, 1, Len(undo) - 1)
  /\ table' = Innermost.table
  /\ mixed' = (mixed \/ Innermost.mixed \/ \E g \in Handlers \ {h} : ~At(g, "idle"))
  /\ handlers' = [handlers EXCEPT ![h] = Idle]
  /\ Keep

-----------------------------------------------------------------------------
(* The operations.                                                         *)

HasRow(i) == i \in Ids /\ table.users[i] # NoUser
Rows == {i \in Ids : HasRow(i)}
Named(name) == {i \in Rows : table.users[i].name = name}

\* Mutant: the user is found by his name.
FindByName(c) ==
  CASE c.op \in {"renew", "remove"} -> {c.id} \cap Rows
    [] c.op = "github" -> Named(NameOf[c.e])
    [] c.op = "password" -> Named(AdminName)
    [] OTHER -> Named(c.name)

\* findByGithubEmail, findByName and load
Find(c) ==
  CASE c.op \in {"renew", "remove"} -> {c.id} \cap Rows
    [] c.op = "github" -> {i \in Rows : table.users[i].email = c.e}
    [] c.op = "password" -> Named(AdminName)
    [] OTHER -> Named(c.name)

\* With a row or without: what each operation does next.
Found(h) ==
  LET c == handlers[h] IN
  /\ At(h, "find")
  /\ IF Find(c) # {}
       THEN LET i == CHOOSE x \in Find(c) : TRUE
                u == table.users[i]
            IN handlers' = [handlers EXCEPT ![h] =
                 [@ EXCEPT !.id = i, !.user = u,
                           !.pc = CASE c.op = "github" -> "grant"
                                    [] c.op = "remove" -> "delete"
                                    [] c.op = "password" /\ ~u.admin -> "threw"
                                    [] OTHER -> "returned"]]
       ELSE CASE c.op \in {"github", "resolve"} ->
                   handlers' = [handlers EXCEPT ![h].pc = "create",
                                  ![h].name = IF c.op = "github" THEN NameOf[c.e] ELSE c.name]
              [] c.op = "init" -> Goto(h, "returned")
              [] OTHER -> Throw(h, "not found")
  /\ KeepDatabase /\ Keep

\* The unique indexes on name and github_email
Taken(name, email, i) ==
  \E j \in Ids \ {i} : HasRow(j) /\
    (table.users[j].name = name \/ (email # Nobody /\ table.users[j].email = email))

\* create(): existsBy, and the hash of a password.
Create(h) ==
  LET c == handlers[h] IN
  /\ At(h, "create")
  /\ IF Named(c.name) # {}
       THEN IF c.op = "init" THEN handlers' = [handlers EXCEPT ![h] = Idle] ELSE Throw(h, "exists")
       ELSE Goto(h, "insert")
  /\ KeepDatabase /\ Keep

\* What is created; the row of an owner has no email.
Created(c) ==
  [name |-> c.name, email |-> IF c.op = "resolve" THEN Nobody ELSE c.e,
   admin |-> c.op = "init", grant |-> IF c.op = "init" THEN "Full" ELSE "Default"]

Insert(h) ==
  LET c == handlers[h]
      u == Created(c)
      i == table.last + 1
  IN
  /\ At(h, "insert")
  /\ IF Taken(u.name, u.email, 0)
       THEN /\ UNCHANGED table
            /\ IF c.op = "init" THEN handlers' = [handlers EXCEPT ![h] = Idle] ELSE Throw(h, "exists")
       ELSE /\ i \in Ids
            /\ table' = [table EXCEPT !.users[i] = u, !.last = i]
            /\ handlers' = [handlers EXCEPT ![h] =
                 IF c.op = "init" THEN Idle
                 ELSE [@ EXCEPT !.id = i, !.user = u, !.pc = IF c.op = "github" THEN "grant" ELSE "returned"]]
  /\ UNCHANGED <<undo, mixed>> /\ Keep

\* Mutant: an administrator's grant is that of his star, too.
GrantEverybody(h) ==
  LET c == handlers[h] IN
  /\ At(h, "grant")
  /\ handlers' = [handlers EXCEPT ![h].pc = "save", ![h].user.grant =
          IF c.e \in starred THEN "Promoted" ELSE "Default"]
  /\ KeepDatabase /\ Keep

\* checkGrantLevel, of anybody but an administrator; GitHub may fail.
Grant(h) ==
  LET c == handlers[h] IN
  /\ At(h, "grant")
  /\ \/ handlers' = [handlers EXCEPT ![h].pc = "save", ![h].user.grant =
          IF c.user.admin THEN @ ELSE IF c.e \in starred THEN "Promoted" ELSE "Default"]
     \/ ~c.user.admin /\ Throw(h, "github")
  /\ KeepDatabase /\ Keep

\* The copy is saved, by its id: a row removed meanwhile is there again.
Save(h) ==
  LET c == handlers[h]
      u == [c.user EXCEPT !.email = c.e]
  IN
  /\ At(h, "save")
  /\ IF Taken(u.name, u.email, c.id)
       THEN Throw(h, "exists") /\ UNCHANGED table
       ELSE /\ table' = [table EXCEPT !.users[c.id] = u, !.last = IF c.id > @ THEN c.id ELSE @]
            /\ handlers' = [handlers EXCEPT ![h].pc = "returned", ![h].user = u]
  /\ UNCHANGED <<undo, mixed>> /\ Keep

Delete(h) ==
  /\ At(h, "delete")
  /\ table' = [table EXCEPT !.users[handlers[h].id] = NoUser]
  /\ Goto(h, "returned")
  /\ UNCHANGED <<undo, mixed>> /\ Keep

\* createRepo goes on after resolve, and may fail.
FailResolved(h) ==
  /\ At(h, "returned") /\ handlers[h].op = "resolve"
  /\ Throw(h, "repo")
  /\ KeepDatabase /\ Keep

\* JwtStrategy.validate: whoever the token names, in a transaction of its own;
\* then the transaction of the command begins and the command is loaded.
Guard(h) ==
  LET i == handlers[h].id IN
  /\ At(h, "guard")
  /\ IF HasRow(i)
       THEN /\ handlers' = [handlers EXCEPT ![h].pc = "check", ![h].user = table.users[i],
                                            ![h].num = table.num]
            /\ undo' = Append(undo, Begin)
       ELSE handlers' = [handlers EXCEPT ![h] = Idle] /\ UNCHANGED undo
  /\ UNCHANGED <<table, mixed>> /\ Keep

\* create and update: the number of a command that is there is checked if it is
\* changed. The creation's row is CommandService's.
CheckNum(h) ==
  LET c == handlers[h]
      quota == QuotaOf(c.user.grant)
      checked == c.ask.create \/ c.ask.num # c.num
  IN
  /\ At(h, "check")
  /\ IF checked /\ quota > 0 /\ (c.ask.num <= 0 \/ c.ask.num > quota)
       THEN Throw(h, "quota") /\ UNCHANGED table
       ELSE /\ Goto(h, "returned")
            /\ table' = IF c.ask.create \/ ~checked THEN table ELSE [table EXCEPT !.num = c.ask.num]
  /\ UNCHANGED <<undo, mixed>> /\ Keep

-----------------------------------------------------------------------------
(* GitHub and the process.                                                 *)

Star(e) ==
  /\ e \in Editors /\ stars < MaxStars
  /\ stars' = stars + 1
  /\ starred' = (starred \cup {e}) \ (starred \cap {e})
  /\ UNCHANGED <<table, undo, handlers, browsers, mixed, requests, restarts>>

\* What is not committed is lost with the process.
Restart ==
  /\ restarts < MaxRestarts
  /\ restarts' = restarts + 1
  /\ table' = IF undo = <<>> THEN table ELSE undo[1].table
  /\ undo' = <<>>
  /\ mixed' = (mixed \/ (undo # <<>> /\ undo[1].mixed))
  /\ handlers' = [h \in Handlers |-> Idle]
  /\ UNCHANGED <<starred, browsers, requests, stars>>

HandlerStep(h) ==
  \/ Commit(h) \/ Rollback(h) \/ Found(h) \/ Create(h) \/ Insert(h) \/ Grant(h) \/ Save(h)
  \/ Delete(h) \/ FailResolved(h) \/ Guard(h) \/ CheckNum(h)

Next ==
  \/ \E h \in Handlers :
       \/ \E e \in Emails : SignInByGithub(h, e) \/ Reload(h, e) \/ OnSubmit(h, e)
       \/ SignInByPassword(h) \/ InitAdminUser(h)
       \/ \E name \in Owners : Resolve(h, name)
       \/ \E i \in Ids : RemoveUser(h, i)
       \/ HandlerStep(h)
  \/ \E e \in Emails :
       \/ SignOut(e) \/ Star(e)
       \/ \E create \in BOOLEAN : MakeDialog(e, create)
       \/ \E num \in Nums : OnChangeNum(e, num)
  \/ Restart

Spec == Init /\ [][Next]_vars

-----------------------------------------------------------------------------
(* Properties.                                                             *)

User == [name : Names, email : Emails \cup {Nobody}, admin : BOOLEAN, grant : Grants]

\* The type of the state; no two users have a name or an email in common, and
\* an administrator keeps the full grant whatever GitHub says of his star.
TypeOK ==
  /\ \A i \in Ids : table.users[i] \in User \cup {NoUser} /\ (HasRow(i) => i <= table.last)
  /\ \A i \in Ids : HasRow(i) =>
       ~Taken(table.users[i].name, table.users[i].email, i)
       /\ (table.users[i].admin => table.users[i].grant = "Full")
  /\ stored \in [Emails -> 0 .. MaxUsers]
  /\ session \in [Emails -> [id : 0 .. MaxUsers, grant : Grants]]
  /\ \A e \in Emails : session[e].id \in {0, stored[e]}
  /\ starred \subseteq Emails /\ mixed \in BOOLEAN

\* The token a browser holds names the account it signed in with, or nobody any
\* more, whatever signed in, was created or removed meanwhile, and with it what
\* it was granted; unless a rollback of another request has undone the user of a
\* sign-in that was answered, as his id goes to the next one then.
TokenIsOfItsUser ==
  mixed \/ \A e \in Emails :
    HasRow(stored[e]) => table.users[stored[e]].email = e

\* When the server refuses a number of files the dialog took, the user's grant
\* or the command has changed since the dialog was made.
RefusalIsExplained ==
  \A h \in Handlers :
    LET c == handlers[h] IN
    At(h, "threw") /\ c.why = "quota" =>
      QuotaOf(c.user.grant) # c.ask.quota \/ (~c.ask.create /\ c.num # c.ask.seen)
=============================================================================
