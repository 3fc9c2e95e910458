------------------------------ MODULE UsersProofs ------------------------------
(***************************************************************************)
(* Theorems about Users, for any accounts, names, requests in flight and   *)
(* restarts of the server.  UsersInv is about the tables: the one there is *)
(* and the ones a rollback or a restart brings back.  TokenInv follows an  *)
(* id from the row to the request that has found or made it, and from its  *)
(* answer to the browser.                                                  *)
(***************************************************************************)
EXTENDS Users, TLAPS, SequenceTheorems, FiniteSetTheorems

-----------------------------------------------------------------------------
(* The inductive invariant.                                                *)

Calls == {"idle", "guard", "find", "create", "insert", "grant", "save", "delete", "check", "returned", "threw"}
Kinds == {"none", "github", "password", "renew", "command", "resolve", "remove", "init"}
Reasons == {"", "not found", "exists", "github", "repo", "quota"}

Table == [users : [Ids -> User \cup {NoUser}], last : Nat, num : Nat]
Ask == [made : BOOLEAN, seen : Nat, num : Nat, quota : Nat, create : BOOLEAN]
Handler == [pc : Calls, op : Kinds, e : Emails \cup {Nobody}, name : Names \cup {""}, id : 0 .. MaxUsers,
            user : User \cup {NoUser}, num : Nat, why : Reasons, ask : Ask]

UserOK(u) == u \in User /\ (u.admin => u.grant = "Full" /\ u.email = AdminEmail)

\* A table as the unique indexes and the sequence keep it
TableOK(t) ==
  /\ t \in Table
  /\ \A i \in Ids : t.users[i] # NoUser => i <= t.last /\ UserOK(t.users[i])
  /\ \A i, j \in Ids : i # j /\ t.users[i] # NoUser /\ t.users[j] # NoUser =>
       /\ t.users[i].name # t.users[j].name
       /\ t.users[i].email # Nobody => t.users[i].email # t.users[j].email

\* What is typed into a dialog fits its quota, unless it is what was there.
AskOK(d) == d.quota > 0 => (0 < d.num /\ d.num <= d.quota) \/ (~d.create /\ d.num = d.seen)

Explained(c) == QuotaOf(c.user.grant) # c.ask.quota \/ (~c.ask.create /\ c.num # c.ask.seen)

\* What a request holds while it waits
HandlerOK(c) ==
  /\ c.pc \in {"create", "insert"} => c.name \in Names /\ c.op \in {"github", "resolve", "init"}
  /\ c.op \in {"github", "password", "renew", "init"} => c.e \in Emails
  /\ c.op \in {"resolve", "init"} => c.name \in Names
  /\ c.op \in {"password", "init"} => c.e = AdminEmail
  /\ c.pc \in {"grant", "save"} =>
       c.op = "github" /\ c.id \in Ids /\ UserOK(c.user) /\ c.user.email = c.e
  /\ c.pc = "returned" /\ c.op \in {"github", "password", "renew"} => c.id \in Ids
  /\ c.pc \in {"guard", "check"} => c.op = "command"
  /\ c.pc = "delete" => c.op = "remove"
  /\ AskOK(c.ask)
  /\ c.why = "quota" => c.pc = "threw" /\ Explained(c)

HandlersInv == handlers \in [Handlers -> Handler] /\ \A h \in Handlers : HandlerOK(handlers[h])

UndoInv ==
  /\ undo \in Seq([table : Table, mixed : BOOLEAN])
  /\ \A k \in DOMAIN undo : TableOK(undo[k].table)

\* The requests that have a transaction open; initAdminUser has ended its own
\* when it creates the user.
InTransaction(c) == c.pc \notin {"idle", "guard"} /\ ~(c.op = "init" /\ c.pc \in {"create", "insert"})
Within == {h \in Handlers : InTransaction(handlers[h])}

DepthInv == Len(undo) = Cardinality(Within)

BrowsersInv ==
  /\ stored \in [Emails -> 0 .. MaxUsers]
  /\ session \in [Emails -> [id : 0 .. MaxUsers, grant : Grants]]
  /\ dialog \in [Emails -> Ask]
  /\ \A e \in Emails :
       /\ session[e].id \in {0, stored[e]} /\ (session[e].id = 0 => session[e] = NoSession)
       /\ AskOK(dialog[e])

UsersInv ==
  /\ TableOK(table) /\ HandlersInv /\ UndoInv /\ DepthInv /\ BrowsersInv
  /\ starred \subseteq Emails /\ mixed \in BOOLEAN

\* Who is known by which id: by a token, or by a sign-in that has found or made
\* the user and is not answered yet
Known(c) == c.op \in {"github", "password"} /\ c.pc \in {"grant", "save", "returned"}
Claim(i, e) ==
  \/ e \in Emails /\ stored[e] = i /\ i # 0
  \/ \E h \in Handlers : Known(handlers[h]) /\ handlers[h].id = i /\ handlers[h].e = e

Agrees(t, i, e) == i <= t.last /\ (t.users[i] # NoUser => t.users[i].email = e)

TokenInv ==
  ~mixed =>
    /\ \A i \in Ids, e, f \in Emails : Claim(i, e) /\ Claim(i, f) => e = f
    /\ \A i \in Ids, e \in Emails : Claim(i, e) => Agrees(table, i, e)
    /\ \A k \in DOMAIN undo : ~undo[k].mixed =>
         \A e \in Emails : stored[e] # 0 => Agrees(undo[k].table, stored[e], e)

-----------------------------------------------------------------------------
(* The transactions.                                                       *)

Entry == [table : Table, mixed : BOOLEAN]

LEMMA Assumed ==
  /\ MaxUsers \in Nat /\ Quota \in Nat \ {0} /\ IsFiniteSet(Handlers) /\ Nobody \notin Emails
  /\ AdminName \in Names /\ AdminEmail \in Emails /\ Nums \subseteq Nat
  /\ Owners \subseteq Names /\ \A e \in Emails : NameOf[e] \in Names
  BY UsersAssumption DEF UsersAssumption

LEMMA NoUserType == NoUser \in User \cup {NoUser} /\ NoUser.grant = "Default" /\ ~NoUser.admin
  BY DEF NoUser

LEMMA IdleOK == Idle \in Handler /\ HandlerOK(Idle) /\ ~InTransaction(Idle) /\ ~Known(Idle)
<1>1. NoDialog \in Ask /\ AskOK(NoDialog)
  BY DEF NoDialog, Ask, AskOK
<1>2. 0 \in 0 .. MaxUsers
  BY Assumed
<1> QED
  BY <1>1, <1>2 DEF Idle, Handler, HandlerOK, InTransaction, Known, Calls, Kinds, Reasons

LEMMA UndoAppended ==
  ASSUME UndoInv, TableOK(table), undo' = Append(undo, Begin)
  PROVE  /\ UndoInv' /\ Len(undo') = Len(undo) + 1
         /\ \A k \in DOMAIN undo' : undo'[k] = Begin \/ (k \in DOMAIN undo /\ undo'[k] = undo[k])
<1>1. undo \in Seq(Entry) /\ Begin \in Entry /\ TableOK(Begin.table)
  BY DEF UndoInv, Entry, Begin, TableOK
<1>2. /\ undo' \in Seq(Entry) /\ Len(undo') = Len(undo) + 1 /\ Len(undo) \in Nat
      /\ \A k \in 1 .. Len(undo) : undo'[k] = undo[k]
      /\ undo'[Len(undo) + 1] = Begin
  BY <1>1, AppendProperties
<1>3. \A k \in 1 .. Len(undo) + 1 : k \in 1 .. Len(undo) \/ k = Len(undo) + 1
  BY <1>2
<1>4. \A k \in DOMAIN undo' : undo'[k] = Begin \/ (k \in DOMAIN undo /\ undo'[k] = undo[k])
  BY <1>1, <1>2, <1>3
<1> QED
  BY <1>1, <1>2, <1>4 DEF UndoInv, Entry

\* What is left of the transactions when the innermost one is over
LEMMA UndoCut ==
  ASSUME UndoInv, Len(undo) > 0, undo' = SubSeq(undo, 1, Len(undo) - 1)
  PROVE  /\ UndoInv' /\ Len(undo') = Len(undo) - 1
         /\ \A k \in DOMAIN undo' : k \in DOMAIN undo /\ undo'[k] = undo[k]
         /\ Innermost \in Entry /\ TableOK(Innermost.table) /\ Len(undo) \in DOMAIN undo
<1>1. undo \in Seq(Entry) /\ Len(undo) \in Nat
  BY DEF UndoInv, Entry
<1> DEFINE n == Len(undo) - 1
<1>2. n \in Nat /\ \A i \in 1 .. n : undo[i] \in Entry
  BY <1>1
<1>3. /\ SubSeq(undo, 1, n) \in Seq(Entry)
      /\ Len(SubSeq(undo, 1, n)) = IF 1 <= n THEN n - 1 + 1 ELSE 0
      /\ \A i \in 1 .. n - 1 + 1 : SubSeq(undo, 1, n)[i] = undo[1 + i - 1]
  BY <1>2, SubSeqProperties
<1>4. undo' = SubSeq(undo, 1, n)
  OBVIOUS
<1>5. 1 .. n \subseteq DOMAIN undo
  BY <1>1, <1>2
<1>6. Innermost \in Entry /\ TableOK(Innermost.table) /\ Len(undo) \in DOMAIN undo
  BY <1>1 DEF UndoInv, Innermost
<1> HIDE DEF n
<1>7. undo' \in Seq(Entry) /\ Len(undo') = n
  BY <1>2, <1>3, <1>4
<1>8. \A i \in 1 .. n : undo'[i] = undo[i]
  BY <1>2, <1>3, <1>4
<1>9. \A k \in DOMAIN undo' : k \in DOMAIN undo /\ undo'[k] = undo[k]
  BY <1>5, <1>7, <1>8
<1>10. UndoInv'
  BY <1>7, <1>9 DEF UndoInv, Entry
<1> QED
  BY <1>6, <1>7, <1>9, <1>10 DEF n

LEMMA UndoMarked ==
  ASSUME UndoInv, Len(undo) > 0,
         undo' = [i \in 1 .. Len(undo) - 1 |-> [undo[i] EXCEPT !.mixed = TRUE]]
  PROVE  /\ UndoInv' /\ Len(undo') = Len(undo) - 1
         /\ \A k \in DOMAIN undo' : undo'[k].mixed
<1>1. undo \in Seq(Entry) /\ Len(undo) \in Nat
  BY DEF UndoInv, Entry
<1> DEFINE n == Len(undo) - 1
<1>2. n \in Nat /\ \A i \in 1 .. n : i \in DOMAIN undo /\ undo[i] \in Entry
  BY <1>1
<1>3. undo' = [i \in 1 .. n |-> [undo[i] EXCEPT !.mixed = TRUE]]
  OBVIOUS
<1> HIDE DEF n
<1>4. \A i \in 1 .. n : undo'[i] \in Entry /\ undo'[i].mixed /\ undo'[i].table = undo[i].table
  BY <1>2, <1>3 DEF Entry
<1>5. undo' \in [1 .. n -> Entry]
  BY <1>3, <1>4
<1>6. undo' \in Seq(Entry) /\ Len(undo') = n /\ DOMAIN undo' = 1 .. n
  BY <1>2, <1>5
<1>7. UndoInv'
  BY <1>2, <1>4, <1>6 DEF UndoInv, Entry
<1> QED
  BY <1>4, <1>6, <1>7 DEF n

LEMMA WithinFinite == IsFiniteSet(Within) /\ Cardinality(Within) \in Nat
<1>1. IsFiniteSet(Within)
  BY Assumed, FS_Subset DEF Within
<1> QED
  BY <1>1, FS_CardinalityType

\* One handler moves.
Others(h) == \A g \in Handlers \ {h} : handlers'[g] = handlers[g]

LEMMA Opened ==
  ASSUME NEW h \in Handlers, Others(h), ~InTransaction(handlers[h]), InTransaction(handlers'[h])
  PROVE  Cardinality(Within') = Cardinality(Within) + 1
<1>1. Within' = Within \cup {h} /\ h \notin Within
  BY DEF Within, Others
<1> QED
  BY <1>1, WithinFinite, FS_AddElement

LEMMA Closed ==
  ASSUME NEW h \in Handlers, Others(h), InTransaction(handlers[h]), ~InTransaction(handlers'[h])
  PROVE  Cardinality(Within') = Cardinality(Within) - 1 /\ Cardinality(Within) > 0
<1>1. Within' = Within \ {h} /\ h \in Within
  BY DEF Within, Others
<1>2. Cardinality(Within) # 0
  BY <1>1, WithinFinite, FS_EmptySet
<1>3. Cardinality(Within \ {h}) = Cardinality(Within) - 1
  BY <1>1, WithinFinite, FS_RemoveElement
<1>4. Cardinality(Within') = Cardinality(Within) - 1
  BY <1>1, <1>3
<1> QED
  BY <1>2, <1>4, WithinFinite

LEMMA Stayed ==
  ASSUME NEW h \in Handlers, Others(h), InTransaction(handlers[h]) <=> InTransaction(handlers'[h])
  PROVE  Within' = Within
  BY DEF Within, Others

LEMMA Moved ==
  ASSUME HandlersInv, NEW h \in Handlers, NEW c, handlers' = [handlers EXCEPT ![h] = c],
         c \in Handler, HandlerOK(c)
  PROVE  HandlersInv' /\ Others(h) /\ handlers'[h] = c
  BY DEF HandlersInv, Others

-----------------------------------------------------------------------------
(* The steps of the operations: one handler goes on in its transaction.    *)

LEMMA Worked ==
  ASSUME UsersInv, NEW h \in Handlers, NEW c \in Handler, HandlerOK(c),
         handlers' = [handlers EXCEPT ![h] = c], InTransaction(c) <=> InTransaction(handlers[h]),
         TableOK(table'), UNCHANGED <<undo, mixed>>, Keep
  PROVE  UsersInv'
<1>1. HandlersInv' /\ Others(h) /\ handlers'[h] = c
  BY Moved DEF UsersInv
<1>2. Within' = Within
  BY <1>1, Stayed
<1>3. DepthInv' /\ UndoInv'
  BY <1>2 DEF UsersInv, DepthInv, UndoInv
<1>4. BrowsersInv' /\ (starred \subseteq Emails /\ mixed \in BOOLEAN)'
  BY DEF UsersInv, Keep, browsers, BrowsersInv
<1> QED
  BY <1>1, <1>3, <1>4 DEF UsersInv

LEMMA RowOK ==
  ASSUME TableOK(table), NEW i \in Rows
  PROVE  i \in Ids /\ table.users[i] \in User /\ UserOK(table.users[i]) /\ i <= table.last
  BY DEF TableOK, Rows, HasRow, UserOK

LEMMA OneHandler ==
  ASSUME UsersInv, NEW h \in Handlers
  PROVE  handlers[h] \in Handler /\ HandlerOK(handlers[h]) /\ TableOK(table) /\ table \in Table
  BY DEF UsersInv, HandlersInv, TableOK

LEMMA Thrown ==
  ASSUME UsersInv, NEW h \in Handlers, NEW why \in Reasons \ {"quota"}, Throw(h, why),
         InTransaction(handlers[h]), UNCHANGED <<table, undo, mixed>>, Keep
  PROVE  UsersInv'
<1> DEFINE d == [handlers[h] EXCEPT !.pc = "threw", !.why = why]
<1>1. handlers[h] \in Handler /\ HandlerOK(handlers[h]) /\ TableOK(table)
  BY OneHandler
<1>2. handlers' = [handlers EXCEPT ![h] = d]
  BY DEF Throw
<1>3. /\ d \in Handler /\ d.pc = "threw" /\ d.op = handlers[h].op /\ d.e = handlers[h].e
      /\ d.name = handlers[h].name /\ d.ask = handlers[h].ask /\ d.why = why
  BY <1>1 DEF Handler, Calls
<1> HIDE DEF d
<1>4. HandlerOK(d) /\ InTransaction(d)
  BY <1>1, <1>3 DEF HandlerOK, InTransaction
<1> QED
  BY <1>1, <1>2, <1>3, <1>4, Worked

\* It goes on, or has done, and nothing it holds changes.
LEMMA WentOn ==
  ASSUME UsersInv, NEW h \in Handlers, NEW pc \in {"insert", "returned"}, Goto(h, pc),
         pc = "insert" => handlers[h].pc = "create",
         pc = "returned" => handlers[h].op \in {"remove", "command", "init"} /\ InTransaction(handlers[h]),
         handlers[h].why # "quota", TableOK(table'), UNCHANGED <<undo, mixed>>, Keep
  PROVE  UsersInv'
<1> DEFINE d == [handlers[h] EXCEPT !.pc = pc]
<1>1. handlers[h] \in Handler /\ HandlerOK(handlers[h])
  BY OneHandler
<1>2. handlers' = [handlers EXCEPT ![h] = d]
  BY DEF Goto
<1>3. /\ d \in Handler /\ d.pc = pc /\ d.op = handlers[h].op /\ d.e = handlers[h].e
      /\ d.name = handlers[h].name /\ d.ask = handlers[h].ask /\ d.why = handlers[h].why
  BY <1>1 DEF Handler, Calls
<1> HIDE DEF d
<1>4. HandlerOK(d) /\ (InTransaction(d) <=> InTransaction(handlers[h]))
  BY <1>1, <1>3 DEF HandlerOK, InTransaction
<1> QED
  BY <1>1, <1>2, <1>3, <1>4, Worked

LEMMA FoundInv == ASSUME UsersInv, NEW h \in Handlers, Found(h) PROVE UsersInv'
<1> DEFINE c == handlers[h]
<1>1. /\ c \in Handler /\ HandlerOK(c) /\ TableOK(table) /\ c.pc = "find" /\ UNCHANGED <<table, undo, mixed>>
      /\ Keep /\ c.why # "quota"
  BY OneHandler DEF Found, At, KeepDatabase, HandlerOK
<1>2. ASSUME NEW d \in Handler, HandlerOK(d), handlers' = [handlers EXCEPT ![h] = d], d.op = c.op,
             d.pc \in {"create", "grant", "delete", "threw", "returned"}, d.pc = "create" => d.op # "init"
      PROVE  UsersInv'
  BY <1>1, <1>2, Worked DEF InTransaction
<1>3. CASE Find(c) # {}
  <2> DEFINE i == CHOOSE x \in Find(c) : TRUE
             u == table.users[i]
             pc == CASE c.op = "github" -> "grant"
                     [] c.op = "remove" -> "delete"
                     [] c.op = "password" /\ ~u.admin -> "threw"
                     [] OTHER -> "returned"
             d == [c EXCEPT !.id = i, !.user = u, !.pc = pc]
  <2>1. i \in Find(c)
    BY <1>3
  <2>2. i \in Rows /\ (c.op = "github" => u.email = c.e)
    BY <2>1, SMTT(30) DEF Find, Named
  <2>3. i \in Ids /\ u \in User /\ UserOK(u) /\ i \in 0 .. MaxUsers
    BY <1>1, <2>2, RowOK, Assumed DEF Ids
  <2>4. handlers' = [handlers EXCEPT ![h] = d]
    BY <1>3 DEF Found
  <2> HIDE DEF i, u
  <2>5. pc \in {"grant", "delete", "threw", "returned"} /\ (pc = "grant" <=> c.op = "github")
       /\ (pc = "delete" => c.op = "remove")
    OBVIOUS
  <2> HIDE DEF pc
  <2>6. /\ d \in Handler /\ d.pc = pc /\ d.op = c.op /\ d.e = c.e /\ d.name = c.name /\ d.id = i /\ d.user = u
        /\ d.ask = c.ask /\ d.why = c.why
    BY <1>1, <2>3, <2>5 DEF Handler, Calls
  <2> HIDE DEF d
  <2>7. HandlerOK(d)
    BY <1>1, <2>2, <2>3, <2>5, <2>6 DEF HandlerOK
  <2> QED
    BY <1>2, <2>4, <2>5, <2>6, <2>7
<1>4. CASE Find(c) = {}
  <2>1. CASE c.op \in {"github", "resolve"}
    <3> DEFINE name == IF c.op = "github" THEN NameOf[c.e] ELSE c.name
               d == [c EXCEPT !.pc = "create", !.name = name]
    <3>1. handlers' = [handlers EXCEPT ![h] = d]
      BY <1>4, <2>1 DEF Found
    <3>2. name \in Names
      BY <1>1, <2>1, Assumed DEF HandlerOK
    <3> HIDE DEF name
    <3>3. /\ d \in Handler /\ d.pc = "create" /\ d.op = c.op /\ d.e = c.e /\ d.name = name
          /\ d.ask = c.ask /\ d.why = c.why
      BY <1>1, <3>2 DEF Handler, Calls
    <3> HIDE DEF d
    <3>4. HandlerOK(d)
      BY <1>1, <2>1, <3>2, <3>3 DEF HandlerOK
    <3> QED
      BY <1>2, <2>1, <3>1, <3>3, <3>4
  <2>2. CASE c.op = "init"
    <3> DEFINE d == [c EXCEPT !.pc = "returned"]
    <3>1. handlers' = [handlers EXCEPT ![h] = d]
      BY <1>4, <2>2 DEF Found, Goto
    <3>2. /\ d \in Handler /\ d.pc = "returned" /\ d.op = c.op /\ d.e = c.e /\ d.name = c.name
          /\ d.ask = c.ask /\ d.why = c.why
      BY <1>1 DEF Handler, Calls
    <3> HIDE DEF d
    <3>3. HandlerOK(d)
      BY <1>1, <2>2, <3>2 DEF HandlerOK
    <3> QED
      BY <1>2, <3>1, <3>2, <3>3
  <2>3. CASE c.op \notin {"github", "resolve", "init"}
    BY <1>1, <1>4, <2>3, Thrown DEF Found, InTransaction, Reasons
  <2> QED
    BY <2>1, <2>2, <2>3
<1> QED
  BY <1>3, <1>4

\* initAdminUser gives up.
LEMMA GivenUp ==
  ASSUME UsersInv, NEW h \in Handlers, handlers' = [handlers EXCEPT ![h] = Idle],
         ~InTransaction(handlers[h]), TableOK(table'), UNCHANGED <<undo, mixed>>, Keep
  PROVE  UsersInv'
  BY IdleOK, Worked

LEMMA CreateInv == ASSUME UsersInv, NEW h \in Handlers, Create(h) PROVE UsersInv'
<1>1. /\ TableOK(table) /\ TableOK(table') /\ handlers[h].pc = "create" /\ UNCHANGED <<table, undo, mixed>>
      /\ Keep /\ handlers[h].why # "quota"
  BY OneHandler DEF Create, At, KeepDatabase, HandlerOK
<1>2. CASE handlers' = [handlers EXCEPT ![h] = Idle] /\ handlers[h].op = "init"
  BY <1>1, <1>2, GivenUp DEF InTransaction
<1>3. CASE Throw(h, "exists") /\ handlers[h].op # "init"
  BY <1>1, <1>3, Thrown DEF InTransaction, Reasons
<1>4. CASE Goto(h, "insert")
  BY <1>1, <1>4, WentOn
<1> QED
  BY <1>2, <1>3, <1>4 DEF Create

LEMMA NewUser ==
  ASSUME NEW c \in Handler, HandlerOK(c), c.pc = "insert"
  PROVE  Created(c) \in User /\ UserOK(Created(c)) /\ (c.op = "github" => Created(c).email = c.e)
  BY DEF HandlerOK, Created, User, UserOK, Grants

\* A row that the unique indexes take
LEMMA RowTaken ==
  ASSUME TableOK(table), NEW i \in Ids, NEW u, UserOK(u), ~Taken(u.name, u.email, i), NEW last \in Nat,
         last >= table.last, i <= last
  PROVE  TableOK([table EXCEPT !.users[i] = u, !.last = last])
<1> DEFINE t == [table EXCEPT !.users[i] = u, !.last = last]
<1>1. table \in Table /\ u \in User
  BY DEF TableOK, UserOK
<1>2. t \in Table /\ t.last = last /\ t.users[i] = u /\ \A j \in Ids \ {i} : t.users[j] = table.users[j]
  BY <1>1 DEF Table
<1> HIDE DEF t
<1>3. table.last \in Nat /\ i \in Nat
  BY <1>1 DEF Table, Ids
<1>4. \A j \in Ids : t.users[j] # NoUser => j <= t.last /\ UserOK(t.users[j])
  <2> SUFFICES ASSUME NEW j \in Ids, t.users[j] # NoUser PROVE j <= t.last /\ UserOK(t.users[j])
    OBVIOUS
  <2>1. CASE j = i
    BY <1>2, <2>1
  <2>2. CASE j # i
    <3>1. j <= table.last /\ UserOK(table.users[j]) /\ j \in Nat
      BY <1>2, <2>2 DEF TableOK, Ids
    <3> QED
      BY <1>2, <1>3, <2>2, <3>1
  <2> QED
    BY <2>1, <2>2
<1>5. \A j \in Ids \ {i} : t.users[j] # NoUser =>
        /\ t.users[j].name # u.name
        /\ u.email # Nobody \/ t.users[j].email # Nobody => t.users[j].email # u.email
  BY <1>2 DEF Taken, HasRow
<1>6. \A j, k \in Ids : j # k /\ t.users[j] # NoUser /\ t.users[k] # NoUser =>
        /\ t.users[j].name # t.users[k].name
        /\ t.users[j].email # Nobody => t.users[j].email # t.users[k].email
  BY <1>2, <1>5 DEF TableOK
<1> QED
  BY <1>2, <1>4, <1>6 DEF TableOK, t

LEMMA InsertInv == ASSUME UsersInv, NEW h \in Handlers, Insert(h) PROVE UsersInv'
<1> DEFINE c == handlers[h]
           u == Created(c)
           i == table.last + 1
<1>1. /\ c \in Handler /\ HandlerOK(c) /\ TableOK(table) /\ table \in Table /\ c.pc = "insert"
      /\ UNCHANGED <<undo, mixed>> /\ Keep /\ c.why # "quota"
  BY OneHandler DEF Insert, At, HandlerOK
<1>2. CASE UNCHANGED table /\ handlers' = [handlers EXCEPT ![h] = Idle] /\ c.op = "init"
  BY <1>1, <1>2, GivenUp DEF InTransaction
<1>3. CASE UNCHANGED table /\ Throw(h, "exists") /\ c.op # "init"
  BY <1>1, <1>3, Thrown DEF InTransaction, Reasons
<1>4. CASE /\ ~Taken(u.name, u.email, 0) /\ i \in Ids
           /\ table' = [table EXCEPT !.users[i] = u, !.last = i]
           /\ handlers' = [handlers EXCEPT ![h] =
                IF c.op = "init" THEN Idle
                ELSE [@ EXCEPT !.id = i, !.user = u, !.pc = IF c.op = "github" THEN "grant" ELSE "returned"]]
  <2>1. u \in User /\ UserOK(u) /\ (c.op = "github" => u.email = c.e)
    BY <1>1, NewUser
  <2>2. table.last \in Nat /\ i \in Nat /\ i >= table.last /\ 0 \notin Ids /\ i \in 0 .. MaxUsers
    BY <1>1, <1>4, Assumed DEF Table, Ids
  <2>3. ~Taken(u.name, u.email, i)
    BY <1>4, <2>2 DEF Taken
  <2> HIDE DEF u, i
  <2>4. TableOK(table')
    <3>1. i \in Ids /\ i <= i
      BY <1>4, <2>2
    <3>2. TableOK([table EXCEPT !.users[i] = u, !.last = i])
      BY <1>1, <2>1, <2>2, <2>3, <3>1, RowTaken
    <3> QED
      BY <1>4, <3>2, Zenon
  <2>5. CASE c.op = "init"
    BY <1>1, <1>4, <2>4, <2>5, GivenUp DEF InTransaction
  <2>6. CASE c.op # "init"
    <3> DEFINE pc == IF c.op = "github" THEN "grant" ELSE "returned"
               d == [c EXCEPT !.id = i, !.user = u, !.pc = pc]
    <3>1. handlers' = [handlers EXCEPT ![h] = d]
      BY <1>4, <2>6
    <3>2. pc \in {"grant", "returned"} /\ (pc = "grant" <=> c.op = "github")
      OBVIOUS
    <3> HIDE DEF pc
    <3>3. /\ d \in Handler /\ d.pc = pc /\ d.op = c.op /\ d.e = c.e /\ d.name = c.name /\ d.id = i
          /\ d.user = u /\ d.ask = c.ask /\ d.why = c.why
      BY <1>1, <2>1, <2>2, <3>2 DEF Handler, Calls
    <3> HIDE DEF d
    <3>4. HandlerOK(d) /\ (InTransaction(d) <=> InTransaction(c))
      BY <1>1, <1>4, <2>1, <2>6, <3>2, <3>3 DEF HandlerOK, InTransaction
    <3> QED
      BY <1>1, <2>4, <3>1, <3>3, <3>4, Worked
  <2> QED
    BY <2>5, <2>6
<1> QED
  BY <1>2, <1>3, <1>4 DEF Insert

LEMMA GrantInv == ASSUME UsersInv, NEW h \in Handlers, Grant(h) PROVE UsersInv'
<1> DEFINE c == handlers[h]
<1>1. /\ c \in Handler /\ HandlerOK(c) /\ TableOK(table) /\ c.pc = "grant" /\ UNCHANGED <<table, undo, mixed>>
      /\ Keep /\ c.why # "quota" /\ c.op = "github" /\ UserOK(c.user)
  BY OneHandler DEF Grant, At, KeepDatabase, HandlerOK
<1>2. CASE Throw(h, "github")
  BY <1>1, <1>2, Thrown DEF InTransaction, Reasons
<1>3. CASE handlers' = [handlers EXCEPT ![h].pc = "save", ![h].user.grant =
             IF c.user.admin THEN @ ELSE IF c.e \in starred THEN "Promoted" ELSE "Default"]
  <2> DEFINE grant == IF c.user.admin THEN c.user.grant ELSE IF c.e \in starred THEN "Promoted" ELSE "Default"
             u == [c.user EXCEPT !.grant = grant]
             d == [c EXCEPT !.pc = "save", !.user = u]
  <2>1. handlers' = [handlers EXCEPT ![h] = d]
    BY <1>3
  <2>2. c.user \in User
    BY <1>1 DEF UserOK
  <2>3. UserOK(u) /\ u \in User /\ u.email = c.user.email
    BY <1>1, <2>2 DEF UserOK, User, Grants
  <2> HIDE DEF u
  <2>4. /\ d \in Handler /\ d.pc = "save" /\ d.op = c.op /\ d.e = c.e /\ d.name = c.name /\ d.id = c.id
        /\ d.user = u /\ d.ask = c.ask /\ d.why = c.why
    BY <1>1, <2>3 DEF Handler, Calls
  <2> HIDE DEF d
  <2>5. HandlerOK(d) /\ (InTransaction(d) <=> InTransaction(c))
    BY <1>1, <2>3, <2>4 DEF HandlerOK, InTransaction
  <2> QED
    BY <1>1, <2>1, <2>4, <2>5, Worked
<1> QED
  BY <1>2, <1>3 DEF Grant

LEMMA SaveInv == ASSUME UsersInv, NEW h \in Handlers, Save(h) PROVE UsersInv'
<1> DEFINE c == handlers[h]
           u == [c.user EXCEPT !.email = c.e]
           last == IF c.id > table.last THEN c.id ELSE table.last
<1>1. /\ c \in Handler /\ HandlerOK(c) /\ TableOK(table) /\ table \in Table /\ c.pc = "save"
      /\ UNCHANGED <<undo, mixed>> /\ Keep /\ c.why # "quota" /\ c.op = "github" /\ UserOK(c.user)
      /\ c.id \in Ids /\ c.user.email = c.e
  BY OneHandler DEF Save, At, HandlerOK
<1>2. u \in User /\ UserOK(u) /\ u.email = c.e
  BY <1>1 DEF UserOK, User
<1>3. table.last \in Nat /\ c.id \in Nat
  BY <1>1 DEF Table, Ids
<1>4. last \in Nat /\ last >= table.last /\ c.id <= last
  BY <1>3
<1>5. CASE Throw(h, "exists") /\ UNCHANGED table
  BY <1>1, <1>5, Thrown DEF InTransaction, Reasons
<1>6. CASE /\ ~Taken(u.name, u.email, c.id)
           /\ table' = [table EXCEPT !.users[c.id] = u, !.last = last]
           /\ handlers' = [handlers EXCEPT ![h].pc = "returned", ![h].user = u]
  <2> HIDE DEF u, last
  <2>1. TableOK([table EXCEPT !.users[c.id] = u, !.last = last])
    BY <1>1, <1>2, <1>4, <1>6, RowTaken
  <2>2. TableOK(table')
    BY <1>6, <2>1, Zenon
  <2> DEFINE d == [c EXCEPT !.pc = "returned", !.user = u]
  <2>3. handlers' = [handlers EXCEPT ![h] = d]
    BY <1>6
  <2>4. /\ d \in Handler /\ d.pc = "returned" /\ d.op = c.op /\ d.e = c.e /\ d.name = c.name /\ d.id = c.id
        /\ d.user = u /\ d.ask = c.ask /\ d.why = c.why
    BY <1>1, <1>2 DEF Handler, Calls
  <2> HIDE DEF d
  <2>5. HandlerOK(d) /\ (InTransaction(d) <=> InTransaction(c))
    BY <1>1, <2>4 DEF HandlerOK, InTransaction
  <2> QED
    BY <1>1, <2>2, <2>3, <2>4, <2>5, Worked
<1>7. CASE Taken(u.name, u.email, c.id)
  BY <1>5, <1>7 DEF Save
<1>8. CASE ~Taken(u.name, u.email, c.id)
  BY <1>6, <1>8 DEF Save
<1> QED
  BY <1>7, <1>8

LEMMA DeleteInv == ASSUME UsersInv, NEW h \in Handlers, Delete(h) PROVE UsersInv'
<1>1. /\ TableOK(table) /\ table \in Table /\ handlers[h].pc = "delete" /\ handlers[h].op = "remove"
      /\ UNCHANGED <<undo, mixed>> /\ Keep /\ handlers[h].why # "quota" /\ Goto(h, "returned")
  BY OneHandler DEF Delete, At, HandlerOK
<1>2. TableOK(table')
  <2> DEFINE t == [table EXCEPT !.users[handlers[h].id] = NoUser]
  <2>1. /\ t \in Table /\ t.last = table.last
        /\ \A i \in Ids : t.users[i] # NoUser => t.users[i] = table.users[i]
    BY <1>1 DEF Table
  <2>2. table' = t
    BY DEF Delete
  <2> HIDE DEF t
  <2> QED
    BY <1>1, <2>1, <2>2 DEF TableOK
<1> QED
  BY <1>1, <1>2, WentOn DEF InTransaction

LEMMA FailResolvedInv == ASSUME UsersInv, NEW h \in Handlers, FailResolved(h) PROVE UsersInv'
  BY Thrown DEF FailResolved, At, KeepDatabase, InTransaction, Reasons

LEMMA CheckNumInv == ASSUME UsersInv, NEW h \in Handlers, CheckNum(h) PROVE UsersInv'
<1> DEFINE c == handlers[h]
           quota == QuotaOf(c.user.grant)
           checked == c.ask.create \/ c.ask.num # c.num
<1>1. /\ c \in Handler /\ HandlerOK(c) /\ TableOK(table) /\ table \in Table /\ c.pc = "check"
      /\ c.op = "command" /\ UNCHANGED <<undo, mixed>> /\ Keep /\ c.why # "quota" /\ c.ask \in Ask
      /\ quota \in Nat
  BY OneHandler, Assumed DEF CheckNum, At, HandlerOK, Handler, QuotaOf
<1>2. CASE /\ checked /\ quota > 0 /\ (c.ask.num <= 0 \/ c.ask.num > quota)
           /\ Throw(h, "quota") /\ UNCHANGED table
  <2> DEFINE d == [c EXCEPT !.pc = "threw", !.why = "quota"]
  <2>1. handlers' = [handlers EXCEPT ![h] = d]
    BY <1>2 DEF Throw
  <2>2. /\ d \in Handler /\ d.pc = "threw" /\ d.op = c.op /\ d.e = c.e /\ d.name = c.name
        /\ d.user = c.user /\ d.ask = c.ask /\ d.why = "quota" /\ d.num = c.num
    BY <1>1 DEF Handler, Calls, Reasons
  <2>3. quota # c.ask.quota \/ (~c.ask.create /\ c.num # c.ask.seen)
    BY <1>1, <1>2 DEF HandlerOK, AskOK, Ask
  <2> HIDE DEF d
  <2>4. HandlerOK(d) /\ (InTransaction(d) <=> InTransaction(c))
    BY <1>1, <2>2, <2>3 DEF HandlerOK, InTransaction, Explained
  <2> QED
    BY <1>1, <1>2, <2>1, <2>2, <2>4, Worked
<1>3. CASE Goto(h, "returned") /\ table' \in {table, [table EXCEPT !.num = c.ask.num]}
  <2>1. TableOK(table')
    <3> DEFINE t == [table EXCEPT !.num = c.ask.num]
    <3>1. t \in Table /\ t.users = table.users /\ t.last = table.last
      BY <1>1 DEF Table, Ask
    <3>2. table' \in {table, t}
      BY <1>3
    <3> HIDE DEF t
    <3> QED
      BY <1>1, <3>1, <3>2 DEF TableOK
  <2> QED
    BY <1>1, <1>3, <2>1, WentOn DEF InTransaction
<1> QED
  BY <1>2, <1>3 DEF CheckNum

-----------------------------------------------------------------------------
(* The steps that begin a transaction or end one.                          *)

LEMMA GuardInv == ASSUME UsersInv, NEW h \in Handlers, Guard(h) PROVE UsersInv'
<1> DEFINE c == handlers[h]
           i == handlers[h].id
           d == [c EXCEPT !.pc = "check", !.user = table.users[i], !.num = table.num]
<1>1. /\ c \in Handler /\ HandlerOK(c) /\ TableOK(table) /\ table \in Table /\ c.pc = "guard"
      /\ UNCHANGED <<table, mixed>> /\ Keep /\ c.why # "quota" /\ c.op = "command" /\ ~InTransaction(c)
  BY OneHandler DEF Guard, At, HandlerOK, InTransaction
<1>2. CASE HasRow(i)
  <2>1. handlers' = [handlers EXCEPT ![h] = d] /\ undo' = Append(undo, Begin)
    BY <1>2 DEF Guard
  <2>2. table.users[i] \in User \cup {NoUser} /\ table.num \in Nat
    BY <1>1, <1>2 DEF HasRow, Table
  <2>3. /\ d \in Handler /\ d.pc = "check" /\ d.op = c.op /\ d.e = c.e /\ d.name = c.name
        /\ d.ask = c.ask /\ d.why = c.why
    BY <1>1, <2>2 DEF Handler, Calls
  <2> HIDE DEF d
  <2>4. HandlerOK(d) /\ InTransaction(d)
    BY <1>1, <2>3 DEF HandlerOK, InTransaction
  <2>5. HandlersInv' /\ Others(h) /\ handlers'[h] = d
    BY <2>1, <2>3, <2>4, Moved DEF UsersInv
  <2>6. UndoInv' /\ Len(undo') = Len(undo) + 1
    BY <2>1, UndoAppended DEF UsersInv
  <2>7. Cardinality(Within') = Cardinality(Within) + 1
    BY <1>1, <2>4, <2>5, Opened
  <2>8. DepthInv'
    BY <2>6, <2>7 DEF DepthInv, UsersInv
  <2> QED
    BY <1>1, <2>5, <2>6, <2>8 DEF UsersInv, Keep, browsers, BrowsersInv
<1>3. CASE ~HasRow(i)
  <2>1. handlers' = [handlers EXCEPT ![h] = Idle] /\ UNCHANGED undo
    BY <1>3 DEF Guard
  <2> QED
    BY <1>1, <2>1, GivenUp
<1> QED
  BY <1>2, <1>3

LEMMA AnsweredInv ==
  ASSUME UsersInv, NEW h \in Handlers, handlers[h].pc = "returned", Answered(handlers[h])
  PROVE  BrowsersInv'
<1> DEFINE c == handlers[h]
           s == [id |-> c.id, grant |-> c.user.grant]
<1>1. c \in Handler /\ HandlerOK(c) /\ BrowsersInv /\ 0 \notin Ids /\ Ids \subseteq 0 .. MaxUsers
  BY OneHandler, Assumed DEF UsersInv, Ids
<1>2. s.id = c.id /\ s.grant = c.user.grant
  OBVIOUS
<1>3. ASSUME c.op \in {"github", "password", "renew"}
      PROVE  c.e \in Emails /\ c.id \in Ids /\ c.id # 0 /\ s \in [id : 0 .. MaxUsers, grant : Grants]
  <2>1. c.e \in Emails /\ c.id \in Ids
    BY <1>1, <1>3 DEF HandlerOK
  <2>2. c.user.grant \in Grants
    BY <1>1, NoUserType DEF Handler, User, Grants
  <2> QED
    BY <1>1, <2>1, <2>2
<1>4. CASE c.op \in {"github", "password"}
  <2>1. /\ session' = [session EXCEPT ![c.e] = s] /\ stored' = [stored EXCEPT ![c.e] = c.id]
        /\ dialog' = [dialog EXCEPT ![c.e] = NoDialog]
    BY <1>4 DEF Answered
  <2>2. NoDialog \in Ask /\ AskOK(NoDialog)
    BY DEF NoDialog, Ask, AskOK
  <2> HIDE DEF s
  <2> QED
    BY <1>1, <1>2, <1>3, <1>4, <2>1, <2>2 DEF BrowsersInv
<1>5. CASE c.op = "renew" /\ stored[c.e] = c.id
  <2>1. session' = [session EXCEPT ![c.e] = s] /\ UNCHANGED <<stored, dialog>>
    BY <1>5 DEF Answered
  <2> HIDE DEF s
  <2> QED
    BY <1>1, <1>2, <1>3, <1>5, <2>1 DEF BrowsersInv
<1>6. CASE c.op \notin {"github", "password"} /\ ~(c.op = "renew" /\ stored[c.e] = c.id)
  <2>1. UNCHANGED browsers
    BY <1>6 DEF Answered
  <2> QED
    BY <1>1, <2>1 DEF BrowsersInv, browsers
<1> QED
  BY <1>4, <1>5, <1>6

\* The transaction of one handler is over.
LEMMA Ended ==
  ASSUME UsersInv, NEW h \in Handlers, NEW c \in Handler, HandlerOK(c), InTransaction(handlers[h]),
         ~InTransaction(c), handlers' = [handlers EXCEPT ![h] = c], Len(undo') = Len(undo) - 1,
         UndoInv', BrowsersInv', TableOK(table'), (starred \subseteq Emails /\ mixed \in BOOLEAN)'
  PROVE  UsersInv'
<1>1. HandlersInv' /\ Others(h) /\ handlers'[h] = c
  BY Moved DEF UsersInv
<1>2. Cardinality(Within') = Cardinality(Within) - 1
  BY <1>1, Closed
<1>3. DepthInv'
  BY <1>2 DEF DepthInv, UsersInv
<1> QED
  BY <1>1, <1>3 DEF UsersInv

\* Whoever is in a transaction: there is an innermost one.
LEMMA SomeUndo ==
  ASSUME UsersInv, NEW h \in Handlers, InTransaction(handlers[h])
  PROVE  Len(undo) > 0 /\ UndoInv
<1>1. h \in Within
  BY DEF Within
<1>2. Cardinality(Within) # 0
  BY <1>1, WithinFinite, FS_EmptySet
<1>3. Cardinality(Within) > 0
  BY <1>2, WithinFinite
<1> QED
  BY <1>3 DEF UsersInv, DepthInv

LEMMA CommitInv == ASSUME UsersInv, NEW h \in Handlers, Commit(h) PROVE UsersInv'
<1> DEFINE c == handlers[h]
           d == IF c.op = "init" /\ c.id = 0 THEN [c EXCEPT !.pc = "create"] ELSE Idle
<1>1. /\ c \in Handler /\ HandlerOK(c) /\ c.pc = "returned" /\ InTransaction(c) /\ c.why # "quota"
      /\ TableOK(table') /\ (starred \subseteq Emails /\ mixed \in BOOLEAN)'
  BY OneHandler DEF Commit, At, InTransaction, HandlerOK, UsersInv
<1>2. handlers' = [handlers EXCEPT ![h] = d]
  BY DEF Commit
<1>3. d \in Handler /\ HandlerOK(d) /\ ~InTransaction(d)
  <2>1. CASE c.op = "init" /\ c.id = 0
    <3> DEFINE k == [c EXCEPT !.pc = "create"]
    <3>1. /\ k \in Handler /\ k.pc = "create" /\ k.op = "init" /\ k.e = c.e /\ k.name = c.name
          /\ k.ask = c.ask /\ k.why = c.why
      BY <1>1, <2>1 DEF Handler, Calls
    <3>2. d = k
      BY <2>1
    <3> HIDE DEF k, d
    <3>3. HandlerOK(k) /\ ~InTransaction(k)
      BY <1>1, <2>1, <3>1 DEF HandlerOK, InTransaction
    <3> QED
      BY <3>1, <3>2, <3>3
  <2>2. CASE ~(c.op = "init" /\ c.id = 0)
    BY <2>2, IdleOK
  <2> QED
    BY <2>1, <2>2
<1> HIDE DEF d
<1>4. UndoInv' /\ Len(undo') = Len(undo) - 1
  BY <1>1, SomeUndo, UndoMarked DEF Commit
<1>5. BrowsersInv'
  BY <1>1, AnsweredInv DEF Commit
<1> QED
  BY <1>1, <1>2, <1>3, <1>4, <1>5, Ended

LEMMA RollbackInv == ASSUME UsersInv, NEW h \in Handlers, Rollback(h) PROVE UsersInv'
<1>1. InTransaction(handlers[h]) /\ handlers' = [handlers EXCEPT ![h] = Idle]
  BY DEF Rollback, At, InTransaction
<1>2. /\ UndoInv' /\ Len(undo') = Len(undo) - 1 /\ Innermost \in Entry /\ TableOK(Innermost.table)
  BY <1>1, SomeUndo, UndoCut DEF Rollback
<1>3. TableOK(table')
  BY <1>2 DEF Rollback
<1>4. mixed' \in BOOLEAN
  BY <1>2 DEF Rollback, UsersInv, Entry
<1>5. BrowsersInv' /\ (starred \subseteq Emails)'
  BY DEF UsersInv, Rollback, Keep, browsers, BrowsersInv
<1> QED
  BY <1>1, <1>2, <1>3, <1>4, <1>5, IdleOK, Ended

-----------------------------------------------------------------------------
(* The steps of the browsers and of the process.                           *)

LEMMA CalledInv ==
  ASSUME UsersInv, NEW h \in Handlers, NEW c \in Handler, HandlerOK(c), c.pc \in {"find", "guard"},
         Call(h, c), BrowsersInv'
  PROVE  UsersInv'
<1>1. /\ handlers' = [handlers EXCEPT ![h] = c] /\ ~InTransaction(handlers[h])
      /\ TableOK(table') /\ (starred \subseteq Emails /\ mixed \in BOOLEAN)'
  BY DEF Call, InTransaction, UsersInv
<1>2. HandlersInv' /\ Others(h) /\ handlers'[h] = c
  BY <1>1, Moved DEF UsersInv
<1>3. CASE c.pc = "guard"
  <2>1. undo' = undo /\ ~InTransaction(c)
    BY <1>3 DEF Call, InTransaction
  <2>2. Within' = Within
    BY <1>1, <1>2, <2>1, Stayed
  <2> QED
    BY <1>1, <1>2, <2>1, <2>2 DEF UsersInv, DepthInv, UndoInv
<1>4. CASE c.pc = "find"
  <2>1. undo' = Append(undo, Begin) /\ InTransaction(c)
    BY <1>4 DEF Call, InTransaction
  <2>2. Cardinality(Within') = Cardinality(Within) + 1
    BY <1>1, <1>2, <2>1, Opened
  <2>3. UndoInv' /\ Len(undo') = Len(undo) + 1
    BY <2>1, UndoAppended DEF UsersInv
  <2> QED
    BY <1>1, <1>2, <2>2, <2>3 DEF UsersInv, DepthInv
<1> QED
  BY <1>3, <1>4

\* A call of the server that leaves the page alone
LEMMA RequestInv ==
  ASSUME UsersInv, NEW h \in Handlers, NEW c \in Handler, c.pc = "find",
         c.op \in {"github", "password", "resolve", "remove", "init"},
         c.op \in {"github", "password", "init"} => c.e \in Emails,
         c.op \in {"password", "init"} => c.e = AdminEmail,
         c.op \in {"resolve", "init"} => c.name \in Names,
         c.ask = Idle.ask, c.why = Idle.why, Call(h, c), UNCHANGED browsers
  PROVE  UsersInv'
<1>1. HandlerOK(c)
  BY IdleOK DEF HandlerOK, Idle
<1>2. BrowsersInv'
  BY DEF UsersInv, BrowsersInv, browsers
<1> QED
  BY <1>1, <1>2, CalledInv

LEMMA RequestsInv ==
  ASSUME UsersInv, NEW h \in Handlers,
         \/ \E e \in Emails : SignInByGithub(h, e)
         \/ SignInByPassword(h)
         \/ InitAdminUser(h)
         \/ \E name \in Owners : Resolve(h, name)
         \/ \E i \in Ids : RemoveUser(h, i)
  PROVE  UsersInv'
<1>1. Ids \subseteq 0 .. MaxUsers
  BY Assumed DEF Ids
<1>2. ASSUME NEW e \in Emails, SignInByGithub(h, e) PROVE UsersInv'
  <2> DEFINE c == [Idle EXCEPT !.pc = "find", !.op = "github", !.e = e]
  <2>1. Call(h, c) /\ UNCHANGED browsers
    BY <1>2 DEF SignInByGithub
  <2>2. c \in Handler /\ c.pc = "find" /\ c.op = "github" /\ c.e = e /\ c.ask = Idle.ask /\ c.why = Idle.why
    BY <1>1, IdleOK, Assumed DEF Handler, Calls, Kinds
  <2> HIDE DEF c
  <2> QED
    BY <2>1, <2>2, RequestInv, Assumed
<1>3. CASE SignInByPassword(h)
  <2> DEFINE c == [Idle EXCEPT !.pc = "find", !.op = "password", !.e = AdminEmail]
  <2>1. Call(h, c) /\ UNCHANGED browsers
    BY <1>3 DEF SignInByPassword
  <2>2. /\ c \in Handler /\ c.pc = "find" /\ c.op = "password" /\ c.e = AdminEmail
        /\ c.ask = Idle.ask /\ c.why = Idle.why
    BY <1>1, IdleOK, Assumed DEF Handler, Calls, Kinds
  <2> HIDE DEF c
  <2> QED
    BY <2>1, <2>2, RequestInv, Assumed
<1>4. CASE InitAdminUser(h)
  <2> DEFINE c == [Idle EXCEPT !.pc = "find", !.op = "init", !.name = AdminName, !.e = AdminEmail]
  <2>1. Call(h, c) /\ UNCHANGED browsers
    BY <1>4 DEF InitAdminUser
  <2>2. /\ c \in Handler /\ c.pc = "find" /\ c.op = "init" /\ c.e = AdminEmail /\ c.name = AdminName
        /\ c.ask = Idle.ask /\ c.why = Idle.why
    BY <1>1, IdleOK, Assumed DEF Handler, Calls, Kinds
  <2> HIDE DEF c
  <2> QED
    BY <2>1, <2>2, RequestInv, Assumed
<1>5. ASSUME NEW name \in Owners, Resolve(h, name) PROVE UsersInv'
  <2> DEFINE c == [Idle EXCEPT !.pc = "find", !.op = "resolve", !.name = name]
  <2>1. Call(h, c) /\ UNCHANGED browsers
    BY <1>5 DEF Resolve
  <2>2. /\ c \in Handler /\ c.pc = "find" /\ c.op = "resolve" /\ c.name \in Names
        /\ c.ask = Idle.ask /\ c.why = Idle.why
    BY <1>1, IdleOK, Assumed DEF Handler, Calls, Kinds
  <2> HIDE DEF c
  <2> QED
    BY <2>1, <2>2, RequestInv, Assumed
<1>6. ASSUME NEW i \in Ids, RemoveUser(h, i) PROVE UsersInv'
  <2> DEFINE c == [Idle EXCEPT !.pc = "find", !.op = "remove", !.id = i]
  <2>1. Call(h, c) /\ UNCHANGED browsers
    BY <1>6 DEF RemoveUser
  <2>2. c \in Handler /\ c.pc = "find" /\ c.op = "remove" /\ c.ask = Idle.ask /\ c.why = Idle.why
    BY <1>1, IdleOK, Assumed DEF Handler, Calls, Kinds
  <2> HIDE DEF c
  <2> QED
    BY <2>1, <2>2, RequestInv, Assumed
<1> QED
  BY <1>2, <1>3, <1>4, <1>5, <1>6

LEMMA ReloadInv == ASSUME UsersInv, NEW h \in Handlers, NEW e \in Emails, Reload(h, e) PROVE UsersInv'
<1> DEFINE c == [Idle EXCEPT !.pc = "find", !.op = "renew", !.e = e, !.id = stored[e]]
<1>1. Call(h, c)
  BY DEF Reload
<1>2. stored[e] \in 0 .. MaxUsers
  BY DEF UsersInv, BrowsersInv
<1>3. /\ c \in Handler /\ c.pc = "find" /\ c.op = "renew" /\ c.e = e /\ c.ask = Idle.ask /\ c.why = Idle.why
  BY <1>2, IdleOK DEF Handler, Calls, Kinds
<1> HIDE DEF c
<1>4. HandlerOK(c)
  BY <1>3, IdleOK DEF HandlerOK, Idle
<1>5. NoSession \in [id : 0 .. MaxUsers, grant : Grants] /\ NoSession.id = 0
  BY Assumed DEF NoSession, Grants
<1>6. NoDialog \in Ask /\ AskOK(NoDialog)
  BY DEF NoDialog, Ask, AskOK
<1>7. BrowsersInv'
  BY <1>5, <1>6 DEF Reload, UsersInv, BrowsersInv
<1> QED
  BY <1>1, <1>3, <1>4, <1>7, CalledInv

LEMMA OnSubmitInv == ASSUME UsersInv, NEW h \in Handlers, NEW e \in Emails, OnSubmit(h, e) PROVE UsersInv'
<1> DEFINE c == [Idle EXCEPT !.pc = "guard", !.op = "command", !.e = e, !.id = session[e].id,
                             !.ask = dialog[e]]
<1>1. Call(h, c)
  BY DEF OnSubmit
<1>2. session[e].id \in 0 .. MaxUsers /\ dialog[e] \in Ask /\ AskOK(dialog[e])
  BY DEF UsersInv, BrowsersInv
<1>3. /\ c \in Handler /\ c.pc = "guard" /\ c.op = "command" /\ c.e = e /\ c.ask = dialog[e] /\ c.why = Idle.why
  BY <1>2, IdleOK DEF Handler, Calls, Kinds
<1> HIDE DEF c
<1>4. HandlerOK(c)
  BY <1>2, <1>3, IdleOK DEF HandlerOK, Idle
<1>5. BrowsersInv'
  BY DEF OnSubmit, UsersInv, browsers, BrowsersInv
<1> QED
  BY <1>1, <1>3, <1>4, <1>5, CalledInv

\* What happens in the page alone
LEMMA PageInv ==
  ASSUME UsersInv, UNCHANGED <<table, undo, handlers, mixed>>, BrowsersInv', starred' \subseteq Emails
  PROVE  UsersInv'
<1>1. TableOK(table)' /\ HandlersInv' /\ UndoInv' /\ mixed' \in BOOLEAN
  BY DEF UsersInv, TableOK, HandlersInv, UndoInv
<1>2. Within' = Within
  BY DEF Within
<1>3. DepthInv'
  BY <1>2 DEF UsersInv, DepthInv
<1> QED
  BY <1>1, <1>3 DEF UsersInv

LEMMA SignOutInv == ASSUME UsersInv, NEW e \in Emails, SignOut(e) PROVE UsersInv'
<1>1. NoSession \in [id : 0 .. MaxUsers, grant : Grants] /\ NoSession.id = 0 /\ 0 \in 0 .. MaxUsers
  BY Assumed DEF NoSession, Grants
<1>2. BrowsersInv' /\ starred' \subseteq Emails
  BY <1>1 DEF SignOut, UsersInv, BrowsersInv
<1> QED
  BY <1>2, PageInv DEF SignOut

LEMMA MakeDialogInv ==
  ASSUME UsersInv, NEW e \in Emails, NEW create \in BOOLEAN, MakeDialog(e, create)
  PROVE  UsersInv'
<1> DEFINE quota == QuotaOf(session[e].grant)
           d == [made |-> TRUE, seen |-> table.num,
                 num |-> IF create THEN quota ELSE table.num, quota |-> quota, create |-> create]
<1>1. quota \in Nat /\ table.num \in Nat
  BY Assumed DEF QuotaOf, UsersInv, TableOK, Table
<1>2. dialog' = [dialog EXCEPT ![e] = d]
  BY DEF MakeDialog
<1> HIDE DEF quota
<1>3. d \in Ask /\ AskOK(d)
  BY <1>1 DEF Ask, AskOK
<1> HIDE DEF d
<1>4. BrowsersInv' /\ starred' \subseteq Emails
  BY <1>2, <1>3 DEF MakeDialog, UsersInv, BrowsersInv
<1> QED
  BY <1>4, PageInv DEF MakeDialog

LEMMA OnChangeNumInv ==
  ASSUME UsersInv, NEW e \in Emails, NEW num \in Nums, OnChangeNum(e, num)
  PROVE  UsersInv'
<1> DEFINE d == [dialog[e] EXCEPT !.num = num]
<1>1. num \in Nat /\ dialog[e] \in Ask /\ dialog \in [Emails -> Ask]
  BY Assumed DEF UsersInv, BrowsersInv
<1>2. dialog' = [dialog EXCEPT ![e] = d]
  BY DEF OnChangeNum
<1>3. d \in Ask /\ d.num = num /\ d.quota = dialog[e].quota
  BY <1>1 DEF Ask
<1> HIDE DEF d
<1>4. AskOK(d)
  BY <1>1, <1>3 DEF OnChangeNum, AskOK, Ask
<1>5. BrowsersInv' /\ starred' \subseteq Emails
  BY <1>2, <1>3, <1>4 DEF OnChangeNum, UsersInv, BrowsersInv
<1> QED
  BY <1>5, PageInv DEF OnChangeNum

LEMMA StarInv == ASSUME UsersInv, NEW e \in Emails, Star(e) PROVE UsersInv'
<1>1. BrowsersInv' /\ starred' \subseteq Emails
  BY DEF Star, UsersInv, browsers, BrowsersInv
<1> QED
  BY <1>1, PageInv DEF Star

LEMMA RestartInv == ASSUME UsersInv, Restart PROVE UsersInv'
<1>1. HandlersInv'
  BY IdleOK DEF Restart, HandlersInv
<1>2. Within' = {}
  BY IdleOK DEF Restart, Within
<1>3. undo' = <<>> /\ undo \in Seq(Entry)
  BY DEF Restart, UsersInv, UndoInv, Entry
<1>4. UndoInv' /\ DepthInv'
  BY <1>2, <1>3, FS_EmptySet, Assumed DEF UndoInv, DepthInv
<1>5. undo # <<>> => 1 \in DOMAIN undo /\ undo[1] \in Entry
  BY <1>3
<1>6. TableOK(table') /\ mixed' \in BOOLEAN
  BY <1>5 DEF Restart, UsersInv, UndoInv, Entry
<1>7. BrowsersInv' /\ starred' \subseteq Emails
  BY DEF Restart, UsersInv, browsers, BrowsersInv
<1> QED
  BY <1>1, <1>4, <1>6, <1>7 DEF UsersInv

-----------------------------------------------------------------------------
(* The invariant of the specification.                                     *)

LEMMA InitInv == Init => UsersInv
<1> SUFFICES ASSUME Init PROVE UsersInv
  OBVIOUS
<1>1. TableOK(table)
  BY NoUserType, Assumed DEF Init, TableOK, Table
<1>2. HandlersInv
  BY IdleOK DEF Init, HandlersInv
<1>3. UndoInv
  BY DEF Init, UndoInv
<1>4. Within = {}
  BY IdleOK DEF Init, Within
<1>5. DepthInv
  BY <1>4, FS_EmptySet DEF Init, DepthInv
<1>6. NoSession \in [id : 0 .. MaxUsers, grant : Grants] /\ NoSession.id = 0 /\ 0 \in 0 .. MaxUsers
  BY Assumed DEF NoSession, Grants
<1>7. NoDialog \in Ask /\ AskOK(NoDialog)
  BY DEF NoDialog, Ask, AskOK
<1>8. BrowsersInv
  BY <1>6, <1>7 DEF Init, BrowsersInv
<1> QED
  BY <1>1, <1>2, <1>3, <1>5, <1>8 DEF Init, UsersInv

LEMMA StutterInv == ASSUME UsersInv, UNCHANGED vars PROVE UsersInv'
<1>1. BrowsersInv' /\ starred' \subseteq Emails
  BY DEF vars, UsersInv, BrowsersInv
<1> QED
  BY <1>1, PageInv DEF vars

LEMMA NextInv == UsersInv /\ [Next]_vars => UsersInv'
<1> SUFFICES ASSUME UsersInv, [Next]_vars PROVE UsersInv'
  OBVIOUS
<1>1. ASSUME NEW h \in Handlers, HandlerStep(h) PROVE UsersInv'
  BY <1>1, CommitInv, RollbackInv, FoundInv, CreateInv, InsertInv, GrantInv, SaveInv, DeleteInv,
     FailResolvedInv, GuardInv, CheckNumInv DEF HandlerStep
<1>2. ASSUME NEW h \in Handlers, NEW e \in Emails, Reload(h, e) \/ OnSubmit(h, e) PROVE UsersInv'
  BY <1>2, ReloadInv, OnSubmitInv
<1>3. ASSUME NEW e \in Emails,
             \/ SignOut(e) \/ Star(e)
             \/ \E create \in BOOLEAN : MakeDialog(e, create)
             \/ \E num \in Nums : OnChangeNum(e, num)
      PROVE  UsersInv'
  BY <1>3, SignOutInv, StarInv, MakeDialogInv, OnChangeNumInv
<1> QED
  BY <1>1, <1>2, <1>3, RequestsInv, RestartInv, StutterInv DEF Next

LEMMA TypeFollows == UsersInv => TypeOK
<1> SUFFICES ASSUME UsersInv PROVE TypeOK
  OBVIOUS
<1>1. TableOK(table) /\ BrowsersInv
  BY DEF UsersInv
<1>2. \A i \in Ids : table.users[i] \in User \cup {NoUser} /\ (HasRow(i) => i <= table.last)
  BY <1>1 DEF TableOK, Table, HasRow
<1>3. \A i \in Ids : HasRow(i) =>
        ~Taken(table.users[i].name, table.users[i].email, i)
        /\ (table.users[i].admin => table.users[i].grant = "Full")
  <2> SUFFICES ASSUME NEW i \in Ids, HasRow(i)
               PROVE  /\ ~Taken(table.users[i].name, table.users[i].email, i)
                      /\ table.users[i].admin => table.users[i].grant = "Full"
    OBVIOUS
  <2>1. \A j \in Ids \ {i} : HasRow(j) =>
          /\ table.users[j].name # table.users[i].name
          /\ table.users[i].email # Nobody => table.users[j].email # table.users[i].email
    BY <1>1 DEF TableOK, HasRow
  <2>2. UserOK(table.users[i])
    BY <1>1 DEF TableOK, HasRow
  <2> QED
    BY <2>1, <2>2 DEF Taken, UserOK
<1> QED
  BY <1>1, <1>2, <1>3 DEF TypeOK, BrowsersInv, UsersInv

LEMMA ExplainedFollows == UsersInv => RefusalIsExplained
  BY DEF UsersInv, HandlersInv, HandlerOK, Explained, RefusalIsExplained, At

LEMMA Invariant == Spec => []UsersInv
  BY InitInv, NextInv, PTL DEF Spec

\* The state has its type, no two users share a name or an email, and an
\* administrator keeps the full grant, however requests, rollbacks and restarts
\* interleave (user.ts).
THEOREM TypeCorrect == Spec => []TypeOK
  BY Invariant, TypeFollows, PTL

\* A number of files that the dialog took is refused by the server only when
\* the grant or the command has changed since the dialog was made
\* (command-dialog.tsx, command.service.ts).
THEOREM Refusal == Spec => []RefusalIsExplained
  BY Invariant, ExplainedFollows, PTL

-----------------------------------------------------------------------------
(* Whose a token is.                                                       *)

LEMMA TokenKept ==
  ASSUME UsersInv, TokenInv, mixed' = mixed,
         \A i \in Ids, e \in Emails : Claim(i, e)' =>
           Claim(i, e) /\ (Agrees(table, i, e) => Agrees(table', i, e)),
         \A k \in DOMAIN undo' : undo'[k].mixed \/
           /\ undo'[k] = Begin \/ (k \in DOMAIN undo /\ undo'[k] = undo[k])
           /\ \A e \in Emails : stored'[e] \in {0, stored[e]}
  PROVE  TokenInv'
<1> SUFFICES ASSUME ~mixed' PROVE TokenInv'
  BY DEF TokenInv
<1>1. \A i \in Ids, e, f \in Emails : Claim(i, e) /\ Claim(i, f) => e = f
  BY DEF TokenInv
<1>2. \A i \in Ids, e \in Emails : Claim(i, e) => Agrees(table, i, e)
  BY DEF TokenInv
<1>3. \A e \in Emails : stored[e] # 0 => stored[e] \in Ids /\ Claim(stored[e], e)
  <2>1. 0 .. MaxUsers = {0} \cup Ids
    BY Assumed DEF Ids
  <2> QED
    BY <2>1 DEF UsersInv, BrowsersInv, Claim
<1>4. (\A i \in Ids, e, f \in Emails : Claim(i, e) /\ Claim(i, f) => e = f)'
  <2>1. \A i \in Ids, e, f \in Emails : Claim(i, e)' /\ Claim(i, f)' => e = f
    BY <1>1
  <2> QED
    BY <2>1
<1>5. \A i \in Ids, e \in Emails : Claim(i, e)' => Agrees(table', i, e)
  BY <1>2
<1>6. ASSUME NEW k \in DOMAIN undo', ~undo'[k].mixed, NEW e \in Emails, stored'[e] # 0
      PROVE  Agrees(undo'[k].table, stored'[e], e)
  <2>1. stored'[e] = stored[e] /\ stored[e] \in Ids
    BY <1>3, <1>6
  <2>2. CASE undo'[k] = Begin
    <3>1. undo'[k].table = table
      BY <2>2 DEF Begin
    <3> QED
      BY <1>2, <1>3, <1>6, <2>1, <3>1
  <2>3. CASE k \in DOMAIN undo /\ undo'[k] = undo[k]
    BY <1>6, <2>1, <2>3 DEF TokenInv
  <2> QED
    BY <1>6, <2>2, <2>3
<1> QED
  BY <1>4, <1>5, <1>6 DEF TokenInv

\* Nobody is known by an id anew.
LEMMA ClaimsKept ==
  ASSUME NEW h \in Handlers, Others(h), \A e \in Emails : stored'[e] \in {0, stored[e]},
         Known(handlers'[h]) =>
           Known(handlers[h]) /\ handlers'[h].id = handlers[h].id /\ handlers'[h].e = handlers[h].e
  PROVE  \A i \in Ids, e \in Emails : Claim(i, e)' => Claim(i, e)
<1> SUFFICES ASSUME NEW i \in Ids, NEW e \in Emails, Claim(i, e)' PROVE Claim(i, e)
  OBVIOUS
<1>1. CASE stored'[e] = i /\ i # 0
  BY <1>1 DEF Claim
<1>2. ASSUME NEW g \in Handlers, Known(handlers'[g]), handlers'[g].id = i, handlers'[g].e = e
      PROVE  Claim(i, e)
  BY <1>2 DEF Claim, Others
<1> QED
  BY <1>1, <1>2 DEF Claim

LEMMA Quiet ==
  ASSUME UsersInv, TokenInv, NEW h \in Handlers, NEW c, handlers' = [handlers EXCEPT ![h] = c],
         mixed' = mixed, \A e \in Emails : stored'[e] \in {0, stored[e]},
         Known(c) => Known(handlers[h]) /\ c.id = handlers[h].id /\ c.e = handlers[h].e,
         \A i \in Ids, e \in Emails : Agrees(table, i, e) => Agrees(table', i, e),
         undo' \in {undo, Append(undo, Begin)}
  PROVE  TokenInv'
<1>1. Others(h) /\ handlers'[h] = c
  BY DEF UsersInv, HandlersInv, Others
<1>2. \A i \in Ids, e \in Emails : Claim(i, e)' => Claim(i, e)
  BY <1>1, ClaimsKept
<1>3. \A k \in DOMAIN undo' : undo'[k] = Begin \/ (k \in DOMAIN undo /\ undo'[k] = undo[k])
  <2>1. CASE undo' = undo
    BY <2>1
  <2>2. CASE undo' = Append(undo, Begin)
    BY <2>2, UndoAppended DEF UsersInv
  <2> QED
    BY <2>1, <2>2
<1> QED
  BY <1>2, <1>3, TokenKept

LEMMA CalledToken ==
  ASSUME UsersInv, TokenInv, NEW h \in Handlers, NEW c, Call(h, c), c.pc \in {"find", "guard"},
         UNCHANGED stored
  PROVE  TokenInv'
<1>1. ~Known(c)
  BY DEF Known
<1>2. /\ handlers' = [handlers EXCEPT ![h] = c] /\ UNCHANGED <<table, mixed>>
      /\ undo' \in {undo, Append(undo, Begin)}
  BY DEF Call
<1> QED
  BY <1>1, <1>2, Quiet

LEMMA CallsToken ==
  ASSUME UsersInv, TokenInv, NEW h \in Handlers,
         \/ \E e \in Emails : SignInByGithub(h, e) \/ Reload(h, e) \/ OnSubmit(h, e)
         \/ SignInByPassword(h) \/ InitAdminUser(h)
         \/ \E name \in Owners : Resolve(h, name)
         \/ \E i \in Ids : RemoveUser(h, i)
  PROVE  TokenInv'
<1>1. \E c : Call(h, c) /\ c.pc \in {"find", "guard"} /\ UNCHANGED stored
  <2>1. ASSUME NEW e \in Emails, SignInByGithub(h, e)
        PROVE  \E c : Call(h, c) /\ c.pc \in {"find", "guard"} /\ UNCHANGED stored
    <3>1. [Idle EXCEPT !.pc = "find", !.op = "github", !.e = e].pc = "find"
      BY DEF Idle
    <3> QED
      BY <2>1, <3>1 DEF SignInByGithub, browsers
  <2>2. ASSUME NEW e \in Emails, Reload(h, e)
        PROVE  \E c : Call(h, c) /\ c.pc \in {"find", "guard"} /\ UNCHANGED stored
    <3>1. [Idle EXCEPT !.pc = "find", !.op = "renew", !.e = e, !.id = stored[e]].pc = "find"
      BY DEF Idle
    <3> QED
      BY <2>2, <3>1 DEF Reload
  <2>3. ASSUME NEW e \in Emails, OnSubmit(h, e)
        PROVE  \E c : Call(h, c) /\ c.pc \in {"find", "guard"} /\ UNCHANGED stored
    <3>1. [Idle EXCEPT !.pc = "guard", !.op = "command", !.e = e, !.id = session[e].id,
                       !.ask = dialog[e]].pc = "guard"
      BY DEF Idle
    <3> QED
      BY <2>3, <3>1 DEF OnSubmit, browsers
  <2>4. CASE SignInByPassword(h)
    <3>1. [Idle EXCEPT !.pc = "find", !.op = "password", !.e = AdminEmail].pc = "find"
      BY DEF Idle
    <3> QED
      BY <2>4, <3>1 DEF SignInByPassword, browsers
  <2>5. CASE InitAdminUser(h)
    <3>1. [Idle EXCEPT !.pc = "find", !.op = "init", !.name = AdminName, !.e = AdminEmail].pc = "find"
      BY DEF Idle
    <3> QED
      BY <2>5, <3>1 DEF InitAdminUser, browsers
  <2>6. ASSUME NEW name \in Owners, Resolve(h, name)
        PROVE  \E c : Call(h, c) /\ c.pc \in {"find", "guard"} /\ UNCHANGED stored
    <3>1. [Idle EXCEPT !.pc = "find", !.op = "resolve", !.name = name].pc = "find"
      BY DEF Idle
    <3> QED
      BY <2>6, <3>1 DEF Resolve, browsers
  <2>7. ASSUME NEW i \in Ids, RemoveUser(h, i)
        PROVE  \E c : Call(h, c) /\ c.pc \in {"find", "guard"} /\ UNCHANGED stored
    <3>1. [Idle EXCEPT !.pc = "find", !.op = "remove", !.id = i].pc = "find"
      BY DEF Idle
    <3> QED
      BY <2>7, <3>1 DEF RemoveUser, browsers
  <2> QED
    BY <2>1, <2>2, <2>3, <2>4, <2>5, <2>6, <2>7
<1> QED
  BY <1>1, CalledToken

\* A sign-in has found its user, or made him.
LEMMA Learnt ==
  ASSUME UsersInv, TokenInv, NEW h \in Handlers, NEW c, handlers' = [handlers EXCEPT ![h] = c],
         UNCHANGED <<mixed, stored, undo>>, Agrees(table', c.id, c.e),
         ~mixed => \A e \in Emails : Claim(c.id, e) => e = c.e,
         \A i \in Ids, e \in Emails : Agrees(table, i, e) => Agrees(table', i, e)
  PROVE  TokenInv'
<1> SUFFICES ASSUME ~mixed PROVE TokenInv'
  BY DEF TokenInv
<1>1. Others(h) /\ handlers'[h] = c
  BY DEF UsersInv, HandlersInv, Others
<1>2. /\ \A i \in Ids, e, f \in Emails : Claim(i, e) /\ Claim(i, f) => e = f
      /\ \A i \in Ids, e \in Emails : Claim(i, e) => Agrees(table, i, e)
      /\ \A k \in DOMAIN undo : ~undo[k].mixed =>
           \A e \in Emails : stored[e] # 0 => Agrees(undo[k].table, stored[e], e)
  BY DEF TokenInv
<1>3. \A i \in Ids, e \in Emails : Claim(i, e)' => Claim(i, e) \/ (i = c.id /\ e = c.e)
  <2> SUFFICES ASSUME NEW i \in Ids, NEW e \in Emails, Claim(i, e)', ~(i = c.id /\ e = c.e)
               PROVE  Claim(i, e)
    OBVIOUS
  <2>1. CASE stored'[e] = i /\ i # 0
    BY <2>1 DEF Claim
  <2>2. ASSUME NEW g \in Handlers, Known(handlers'[g]), handlers'[g].id = i, handlers'[g].e = e
        PROVE  Claim(i, e)
    BY <1>1, <2>2 DEF Claim, Others
  <2> QED
    BY <2>1, <2>2 DEF Claim
<1>4. \A i \in Ids, e, f \in Emails : Claim(i, e)' /\ Claim(i, f)' => e = f
  BY <1>2, <1>3
<1>5. \A i \in Ids, e \in Emails : Claim(i, e)' => Agrees(table', i, e)
  BY <1>2, <1>3
<1> QED
  BY <1>2, <1>4, <1>5 DEF TokenInv

LEMMA FoundToken == ASSUME UsersInv, TokenInv, NEW h \in Handlers, Found(h) PROVE TokenInv'
<1> DEFINE c == handlers[h]
<1>1. /\ c \in Handler /\ HandlerOK(c) /\ TableOK(table) /\ c.pc = "find"
      /\ UNCHANGED <<table, undo, mixed, stored>>
  BY OneHandler DEF Found, At, KeepDatabase, Keep, browsers
<1>2. ASSUME NEW d, handlers' = [handlers EXCEPT ![h] = d], ~Known(d) PROVE TokenInv'
  BY <1>1, <1>2, Quiet
<1>3. CASE Find(c) # {}
  <2> DEFINE i == CHOOSE x \in Find(c) : TRUE
             u == table.users[i]
             pc == CASE c.op = "github" -> "grant"
                     [] c.op = "remove" -> "delete"
                     [] c.op = "password" /\ ~u.admin -> "threw"
                     [] OTHER -> "returned"
             d == [c EXCEPT !.id = i, !.user = u, !.pc = pc]
  <2>1. i \in Find(c)
    BY <1>3
  <2>2. i \in Rows /\ (c.op = "github" => u.email = c.e)
    BY <2>1, SMTT(30) DEF Find, Named
  <2>3. i \in Ids /\ UserOK(u) /\ i <= table.last /\ u # NoUser
    BY <1>1, <2>2, RowOK DEF Rows, HasRow
  <2>4. handlers' = [handlers EXCEPT ![h] = d]
    BY <1>3 DEF Found
  <2>5. c.op = "password" /\ pc # "threw" => u.admin
    OBVIOUS
  <2>6. pc = "threw" => ~(pc \in {"grant", "save", "returned"})
    OBVIOUS
  <2> HIDE DEF pc
  <2>7. d.id = i /\ d.e = c.e /\ d.op = c.op /\ d.pc = pc
    BY <1>1 DEF Handler
  <2> HIDE DEF i, u, d
  <2>8. CASE ~Known(d)
    BY <1>2, <2>4, <2>8
  <2>9. CASE Known(d)
    <3>1. u.email = c.e
      BY <1>1, <2>2, <2>3, <2>5, <2>6, <2>7, <2>9 DEF Known, HandlerOK, UserOK
    <3>2. Agrees(table, i, c.e)
      BY <2>3, <3>1 DEF Agrees, u
    <3>3. ~mixed => \A e \in Emails : Claim(i, e) => e = c.e
      BY <2>3, <3>1 DEF TokenInv, Agrees, u
    <3> QED
      BY <1>1, <2>4, <2>7, <3>2, <3>3, Learnt
  <2> QED
    BY <2>8, <2>9
<1>4. CASE Find(c) = {}
  <2>1. CASE c.op \in {"github", "resolve"}
    <3> DEFINE name == IF c.op = "github" THEN NameOf[c.e] ELSE c.name
               d == [c EXCEPT !.pc = "create", !.name = name]
    <3>1. handlers' = [handlers EXCEPT ![h] = d]
      BY <1>4, <2>1 DEF Found
    <3>2. d.pc = "create"
      BY <1>1 DEF Handler
    <3> HIDE DEF d
    <3> QED
      BY <1>2, <3>1, <3>2 DEF Known
  <2>2. CASE c.op = "init"
    <3> DEFINE d == [c EXCEPT !.pc = "returned"]
    <3>1. handlers' = [handlers EXCEPT ![h] = d]
      BY <1>4, <2>2 DEF Found, Goto
    <3>2. d.op = "init"
      BY <1>1, <2>2 DEF Handler
    <3> HIDE DEF d
    <3> QED
      BY <1>2, <3>1, <3>2 DEF Known
  <2>3. CASE c.op \notin {"github", "resolve", "init"}
    <3> DEFINE d == [c EXCEPT !.pc = "threw", !.why = "not found"]
    <3>1. handlers' = [handlers EXCEPT ![h] = d]
      BY <1>4, <2>3 DEF Found, Throw
    <3>2. d.pc = "threw"
      BY <1>1 DEF Handler
    <3> HIDE DEF d
    <3> QED
      BY <1>2, <3>1, <3>2 DEF Known
  <2> QED
    BY <2>1, <2>2, <2>3
<1> QED
  BY <1>3, <1>4

\* It has failed, or has become idle.
LEMMA ThrownToken ==
  ASSUME UsersInv, TokenInv, NEW h \in Handlers, NEW why,
         Throw(h, why) \/ handlers' = [handlers EXCEPT ![h] = Idle], UNCHANGED <<table, mixed, undo, stored>>
  PROVE  TokenInv'
<1>1. CASE Throw(h, why)
  <2> DEFINE d == [handlers[h] EXCEPT !.pc = "threw", !.why = why]
  <2>1. handlers' = [handlers EXCEPT ![h] = d]
    BY <1>1 DEF Throw
  <2>2. d.pc = "threw"
    BY OneHandler DEF Handler
  <2> HIDE DEF d
  <2> QED
    BY <2>1, <2>2, Quiet DEF Known
<1>2. CASE handlers' = [handlers EXCEPT ![h] = Idle]
  BY <1>2, IdleOK, Quiet
<1> QED
  BY <1>1, <1>2

\* It goes on, and does not become known.
LEMMA WentToken ==
  ASSUME UsersInv, TokenInv, NEW h \in Handlers, NEW pc, Goto(h, pc),
         pc = "returned" => handlers[h].op \notin {"github", "password"},
         pc \in {"insert", "returned"}, UNCHANGED <<mixed, undo, stored>>,
         \A i \in Ids, e \in Emails : Agrees(table, i, e) => Agrees(table', i, e)
  PROVE  TokenInv'
<1> DEFINE d == [handlers[h] EXCEPT !.pc = pc]
<1>1. handlers' = [handlers EXCEPT ![h] = d]
  BY DEF Goto
<1>2. d.pc = pc /\ d.op = handlers[h].op
  BY OneHandler DEF Handler
<1> HIDE DEF d
<1> QED
  BY <1>1, <1>2, Quiet DEF Known

LEMMA CreateToken == ASSUME UsersInv, TokenInv, NEW h \in Handlers, Create(h) PROVE TokenInv'
<1>1. UNCHANGED <<table, mixed, undo, stored>>
  BY DEF Create, KeepDatabase, Keep, browsers
<1>2. CASE handlers' = [handlers EXCEPT ![h] = Idle] \/ Throw(h, "exists")
  BY <1>1, <1>2, ThrownToken
<1>3. CASE Goto(h, "insert")
  BY <1>1, <1>3, WentToken
<1> QED
  BY <1>2, <1>3 DEF Create

LEMMA InsertToken == ASSUME UsersInv, TokenInv, NEW h \in Handlers, Insert(h) PROVE TokenInv'
<1> DEFINE c == handlers[h]
           u == Created(c)
           i == table.last + 1
<1>1. /\ c \in Handler /\ HandlerOK(c) /\ TableOK(table) /\ table \in Table /\ c.pc = "insert"
      /\ UNCHANGED <<undo, mixed, stored>>
  BY OneHandler DEF Insert, At, Keep, browsers
<1>2. CASE UNCHANGED table /\ (handlers' = [handlers EXCEPT ![h] = Idle] \/ Throw(h, "exists"))
  BY <1>1, <1>2, ThrownToken
<1>3. CASE /\ i \in Ids
           /\ table' = [table EXCEPT !.users[i] = u, !.last = i]
           /\ handlers' = [handlers EXCEPT ![h] =
                IF c.op = "init" THEN Idle
                ELSE [@ EXCEPT !.id = i, !.user = u, !.pc = IF c.op = "github" THEN "grant" ELSE "returned"]]
  <2>1. c.op = "github" => u.email = c.e
    BY <1>1, NewUser
  <2>2. table.last \in Nat /\ i = table.last + 1
    BY <1>1 DEF Table
  <2> HIDE DEF u, i
  <2>3. table'.last = i /\ table'.users[i] = u /\ \A j \in Ids \ {i} : table'.users[j] = table.users[j]
    BY <1>1, <1>3 DEF Table
  <2>4. \A j \in Ids, e \in Emails : Agrees(table, j, e) => j # i /\ Agrees(table', j, e)
    BY <2>2, <2>3 DEF Agrees, Ids
  <2>5. CASE c.op = "init"
    BY <1>1, <1>3, <2>4, <2>5, IdleOK, Quiet
  <2>6. CASE c.op # "init"
    <3> DEFINE pc == IF c.op = "github" THEN "grant" ELSE "returned"
               d == [c EXCEPT !.id = i, !.user = u, !.pc = pc]
    <3>1. handlers' = [handlers EXCEPT ![h] = d]
      BY <1>3, <2>6
    <3>2. d.id = i /\ d.e = c.e /\ d.op = c.op
      BY <1>1 DEF Handler
    <3> HIDE DEF pc, d
    <3>3. CASE c.op = "github"
      <4>1. Agrees(table', i, c.e)
        BY <1>3, <2>1, <2>2, <2>3, <3>3 DEF Agrees
      <4>2. ~mixed => \A e \in Emails : Claim(i, e) => e = c.e
        BY <1>3, <2>4 DEF TokenInv
      <4> QED
        BY <1>1, <2>4, <3>1, <3>2, <4>1, <4>2, Learnt
    <3>4. CASE c.op # "github"
      <4>1. ~Known(d)
        BY <1>1, <2>6, <3>2, <3>4 DEF Known, HandlerOK
      <4> QED
        BY <1>1, <2>4, <3>1, <4>1, Quiet
    <3> QED
      BY <3>3, <3>4
  <2> QED
    BY <2>5, <2>6
<1> QED
  BY <1>2, <1>3 DEF Insert

LEMMA GrantToken == ASSUME UsersInv, TokenInv, NEW h \in Handlers, Grant(h) PROVE TokenInv'
<1>1. UNCHANGED <<table, mixed, undo, stored>> /\ handlers[h].pc = "grant" /\ handlers[h] \in Handler
      /\ HandlerOK(handlers[h])
  BY OneHandler DEF Grant, At, KeepDatabase, Keep, browsers
<1>2. CASE Throw(h, "github")
  BY <1>1, <1>2, ThrownToken
<1>3. ASSUME NEW grant, handlers' = [handlers EXCEPT ![h].pc = "save", ![h].user.grant = grant]
      PROVE  TokenInv'
  <2> DEFINE d == [handlers[h] EXCEPT !.pc = "save", !.user.grant = grant]
  <2>1. handlers' = [handlers EXCEPT ![h] = d]
    BY <1>3
  <2>2. d.id = handlers[h].id /\ d.e = handlers[h].e
    BY <1>1 DEF Handler
  <2>3. Known(handlers[h])
    BY <1>1 DEF Known, HandlerOK
  <2> HIDE DEF d
  <2> QED
    BY <1>1, <2>1, <2>2, <2>3, Quiet
<1> QED
  BY <1>2, <1>3 DEF Grant

LEMMA SaveToken == ASSUME UsersInv, TokenInv, NEW h \in Handlers, Save(h) PROVE TokenInv'
<1> DEFINE c == handlers[h]
           u == [c.user EXCEPT !.email = c.e]
           last == IF c.id > table.last THEN c.id ELSE table.last
<1>1. /\ c \in Handler /\ HandlerOK(c) /\ TableOK(table) /\ table \in Table /\ c.pc = "save"
      /\ UNCHANGED <<undo, mixed, stored>> /\ c.op = "github" /\ UserOK(c.user) /\ c.id \in Ids
      /\ c.e \in Emails
  BY OneHandler DEF Save, At, HandlerOK, Keep, browsers
<1>2. u.email = c.e
  BY <1>1 DEF UserOK, User
<1>3. table.last \in Nat /\ c.id \in Nat /\ Known(c)
  BY <1>1 DEF Table, Ids, Known
<1>4. last \in Nat /\ last >= table.last
  BY <1>3
<1>5. CASE Throw(h, "exists") /\ UNCHANGED table
  BY <1>1, <1>5, ThrownToken
<1>6. CASE /\ table' = [table EXCEPT !.users[c.id] = u, !.last = last]
           /\ handlers' = [handlers EXCEPT ![h].pc = "returned", ![h].user = u]
  <2> HIDE DEF u, last
  <2> DEFINE d == [c EXCEPT !.pc = "returned", !.user = u]
  <2>1. handlers' = [handlers EXCEPT ![h] = d]
    BY <1>6
  <2>2. d.id = c.id /\ d.e = c.e
    BY <1>1 DEF Handler
  <2>3. table'.last = last /\ table'.users[c.id] = u /\ \A j \in Ids \ {c.id} : table'.users[j] = table.users[j]
    BY <1>1, <1>6 DEF Table
  <2> HIDE DEF d
  <2>4. Others(h) /\ handlers'[h] = d
    BY <2>1 DEF UsersInv, HandlersInv, Others
  <2>5. \A i \in Ids, e \in Emails : Claim(i, e)' => Claim(i, e)
    BY <1>1, <1>3, <2>2, <2>4, ClaimsKept
  <2>6. Claim(c.id, c.e)
    BY <1>3 DEF Claim
  <2>7. CASE mixed
    BY <1>1, <2>7 DEF TokenInv
  <2>8. CASE ~mixed
    <3>1. \A e \in Emails : Claim(c.id, e) => e = c.e
      BY <1>1, <2>6, <2>8 DEF TokenInv
    <3>2. \A i \in Ids, e \in Emails : Claim(i, e) /\ Agrees(table, i, e) => Agrees(table', i, e)
      <4> SUFFICES ASSUME NEW i \in Ids, NEW e \in Emails, Claim(i, e), Agrees(table, i, e)
                   PROVE  Agrees(table', i, e)
        OBVIOUS
      <4>1. i <= last
        BY <1>3, <1>4 DEF Agrees, Ids
      <4>2. i = c.id => e = c.e
        BY <3>1
      <4> QED
        BY <1>2, <2>3, <4>1, <4>2 DEF Agrees
    <3> QED
      BY <1>1, <2>5, <3>2, TokenKept
  <2> QED
    BY <2>7, <2>8
<1>7. CASE Taken(u.name, u.email, c.id)
  BY <1>5, <1>7 DEF Save
<1>8. CASE ~Taken(u.name, u.email, c.id)
  BY <1>6, <1>8 DEF Save
<1> QED
  BY <1>7, <1>8

LEMMA DeleteToken == ASSUME UsersInv, TokenInv, NEW h \in Handlers, Delete(h) PROVE TokenInv'
<1>1. /\ table \in Table /\ handlers[h].op = "remove" /\ Goto(h, "returned")
      /\ UNCHANGED <<undo, mixed, stored>>
  BY OneHandler DEF Delete, At, HandlerOK, Keep, browsers
<1>2. \A i \in Ids, e \in Emails : Agrees(table, i, e) => Agrees(table', i, e)
  <2> DEFINE t == [table EXCEPT !.users[handlers[h].id] = NoUser]
  <2>1. /\ t.last = table.last
        /\ \A i \in Ids : t.users[i] # NoUser => t.users[i] = table.users[i]
    BY <1>1 DEF Table
  <2>2. table' = t
    BY DEF Delete
  <2> HIDE DEF t
  <2> QED
    BY <2>1, <2>2 DEF Agrees
<1> QED
  BY <1>1, <1>2, WentToken

LEMMA GuardToken == ASSUME UsersInv, TokenInv, NEW h \in Handlers, Guard(h) PROVE TokenInv'
<1> DEFINE i == handlers[h].id
           d == [handlers[h] EXCEPT !.pc = "check", !.user = table.users[i], !.num = table.num]
<1>1. UNCHANGED <<table, mixed, stored>>
  BY DEF Guard, Keep, browsers
<1>2. CASE HasRow(i)
  <2>1. handlers' = [handlers EXCEPT ![h] = d] /\ undo' = Append(undo, Begin)
    BY <1>2 DEF Guard
  <2>2. d.pc = "check"
    BY OneHandler DEF Handler
  <2> HIDE DEF d
  <2> QED
    BY <1>1, <2>1, <2>2, Quiet DEF Known
<1>3. CASE ~HasRow(i)
  BY <1>1, <1>3, ThrownToken DEF Guard
<1> QED
  BY <1>2, <1>3

LEMMA CheckNumToken == ASSUME UsersInv, TokenInv, NEW h \in Handlers, CheckNum(h) PROVE TokenInv'
<1>1. /\ table \in Table /\ handlers[h].op = "command" /\ UNCHANGED <<undo, mixed, stored>>
  BY OneHandler DEF CheckNum, At, HandlerOK, Keep, browsers
<1>2. CASE Throw(h, "quota") /\ UNCHANGED table
  BY <1>1, <1>2, ThrownToken
<1>3. ASSUME NEW num, Goto(h, "returned"), table' \in {table, [table EXCEPT !.num = num]} PROVE TokenInv'
  <2>1. table'.last = table.last /\ table'.users = table.users
    BY <1>1, <1>3 DEF Table
  <2> QED
    BY <1>1, <1>3, <2>1, WentToken DEF Agrees
<1> QED
  BY <1>2, <1>3 DEF CheckNum

LEMMA CommitToken == ASSUME UsersInv, TokenInv, NEW h \in Handlers, Commit(h) PROVE TokenInv'
<1> DEFINE c == handlers[h]
           d == IF c.op = "init" /\ c.id = 0 THEN [c EXCEPT !.pc = "create"] ELSE Idle
<1>1. /\ c \in Handler /\ HandlerOK(c) /\ c.pc = "returned" /\ InTransaction(c) /\ UNCHANGED <<table, mixed>>
  BY OneHandler DEF Commit, At, InTransaction
<1>2. handlers' = [handlers EXCEPT ![h] = d]
  BY DEF Commit
<1>3. ~Known(d)
  <2>1. CASE c.op = "init" /\ c.id = 0
    <3>1. d.pc = "create"
      BY <1>1, <2>1 DEF Handler
    <3> QED
      BY <3>1 DEF Known
  <2>2. CASE ~(c.op = "init" /\ c.id = 0)
    BY <2>2, IdleOK
  <2> QED
    BY <2>1, <2>2
<1> HIDE DEF d
<1>4. Others(h) /\ handlers'[h] = d
  BY <1>2 DEF UsersInv, HandlersInv, Others
<1>5. \A k \in DOMAIN undo' : undo'[k].mixed
  BY <1>1, SomeUndo, UndoMarked DEF Commit
<1>6. \A i \in Ids, e \in Emails : Claim(i, e)' => Claim(i, e)
  <2> SUFFICES ASSUME NEW i \in Ids, NEW e \in Emails, Claim(i, e)' PROVE Claim(i, e)
    OBVIOUS
  <2>1. CASE stored'[e] = i /\ i # 0
    <3>1. CASE stored'[e] = stored[e]
      BY <2>1, <3>1 DEF Claim
    <3>2. CASE stored'[e] # stored[e]
      <4>1. c.op \in {"github", "password"} /\ stored' = [stored EXCEPT ![c.e] = c.id]
        BY <3>2 DEF Commit, Answered, browsers
      <4>2. e = c.e /\ c.id = i
        BY <2>1, <3>2, <4>1 DEF UsersInv, BrowsersInv
      <4>3. Known(c)
        BY <1>1, <4>1 DEF Known
      <4> QED
        BY <4>2, <4>3 DEF Claim
    <3> QED
      BY <3>1, <3>2
  <2>2. ASSUME NEW g \in Handlers, Known(handlers'[g]), handlers'[g].id = i, handlers'[g].e = e
        PROVE  Claim(i, e)
    BY <1>3, <1>4, <2>2 DEF Claim, Others
  <2> QED
    BY <2>1, <2>2 DEF Claim
<1> QED
  BY <1>1, <1>5, <1>6, TokenKept

\* What is left when nobody is in a request: the tokens.
LEMMA Alone ==
  ASSUME UsersInv, TokenInv, ~mixed, UNCHANGED stored, \A g \in Handlers : ~Known(handlers'[g]),
         \A e \in Emails : stored[e] # 0 => Agrees(table', stored[e], e),
         \A k \in DOMAIN undo' : k \in DOMAIN undo /\ undo'[k] = undo[k]
  PROVE  TokenInv'
<1>1. \A i \in Ids, e \in Emails : Claim(i, e)' => stored[e] = i /\ i # 0 /\ Claim(i, e)
  BY DEF Claim
<1>2. \A i \in Ids, e, f \in Emails : Claim(i, e) /\ Claim(i, f) => e = f
  BY DEF TokenInv
<1>3. \A i \in Ids, e, f \in Emails : Claim(i, e)' /\ Claim(i, f)' => e = f
  BY <1>1, <1>2
<1>4. \A i \in Ids, e \in Emails : Claim(i, e)' => Agrees(table', i, e)
  BY <1>1
<1>5. \A k \in DOMAIN undo' : ~undo'[k].mixed =>
        \A e \in Emails : stored'[e] # 0 => Agrees(undo'[k].table, stored'[e], e)
  BY DEF TokenInv
<1> QED
  BY <1>3, <1>4, <1>5 DEF TokenInv

LEMMA RollbackToken == ASSUME UsersInv, TokenInv, NEW h \in Handlers, Rollback(h) PROVE TokenInv'
<1> SUFFICES ASSUME ~mixed' PROVE TokenInv'
  BY DEF TokenInv
<1>1. InTransaction(handlers[h]) /\ handlers' = [handlers EXCEPT ![h] = Idle] /\ UNCHANGED stored
  BY DEF Rollback, At, InTransaction, Keep, browsers
<1>2. ~mixed /\ ~Innermost.mixed /\ \A g \in Handlers \ {h} : handlers[g].pc = "idle"
  BY DEF Rollback, At
<1>3. \A g \in Handlers : ~Known(handlers'[g])
  BY <1>1, <1>2, IdleOK DEF UsersInv, HandlersInv, Known
<1>4. /\ \A k \in DOMAIN undo' : k \in DOMAIN undo /\ undo'[k] = undo[k]
      /\ Len(undo) \in DOMAIN undo
  BY <1>1, SomeUndo, UndoCut DEF Rollback
<1>5. \A e \in Emails : stored[e] # 0 => Agrees(Innermost.table, stored[e], e)
  BY <1>2, <1>4 DEF TokenInv, Innermost
<1>6. \A e \in Emails : stored[e] # 0 => Agrees(table', stored[e], e)
  BY <1>5 DEF Rollback
<1> QED
  BY <1>1, <1>2, <1>3, <1>4, <1>6, Alone

LEMMA RestartToken == ASSUME UsersInv, TokenInv, Restart PROVE TokenInv'
<1> SUFFICES ASSUME ~mixed' PROVE TokenInv'
  BY DEF TokenInv
<1>1. ~mixed /\ (undo # <<>> => ~undo[1].mixed) /\ UNCHANGED stored /\ undo' = <<>>
  BY DEF Restart, browsers
<1>2. \A g \in Handlers : ~Known(handlers'[g])
  BY IdleOK DEF Restart
<1>3. undo \in Seq(Entry)
  BY DEF UsersInv, UndoInv, Entry
<1>4. \A e \in Emails : stored[e] # 0 => Agrees(table', stored[e], e)
  <2>1. CASE undo = <<>>
    <3>1. table' = table /\ 0 .. MaxUsers = {0} \cup Ids
      BY <2>1, Assumed DEF Restart, Ids
    <3>2. \A e \in Emails : stored[e] # 0 => stored[e] \in Ids /\ Claim(stored[e], e)
      BY <3>1 DEF UsersInv, BrowsersInv, Claim
    <3> QED
      BY <1>1, <3>1, <3>2 DEF TokenInv
  <2>2. CASE undo # <<>>
    <3>1. table' = undo[1].table /\ 1 \in DOMAIN undo /\ ~undo[1].mixed
      BY <1>1, <1>3, <2>2 DEF Restart
    <3> QED
      BY <1>1, <3>1 DEF TokenInv
  <2> QED
    BY <2>1, <2>2
<1> QED
  BY <1>1, <1>2, <1>4, Alone

LEMMA PageToken ==
  ASSUME UsersInv, TokenInv, UNCHANGED <<table, undo, handlers, mixed>>,
         \A e \in Emails : stored'[e] \in {0, stored[e]}
  PROVE  TokenInv'
<1>1. \A i \in Ids, e \in Emails : Claim(i, e)' => Claim(i, e)
  BY DEF Claim
<1> QED
  BY <1>1, TokenKept

LEMMA InitToken == Init => TokenInv
<1> SUFFICES ASSUME Init PROVE TokenInv
  OBVIOUS
<1>1. 0 \notin Ids /\ \A h \in Handlers : ~Known(handlers[h])
  BY IdleOK, Assumed DEF Init, Ids
<1>2. \A i \in Ids, e \in Emails : ~Claim(i, e)
  BY <1>1 DEF Init, Claim
<1> QED
  BY <1>2 DEF Init, TokenInv

LEMMA NextToken == UsersInv /\ TokenInv /\ [Next]_vars => TokenInv'
<1> SUFFICES ASSUME UsersInv, TokenInv, [Next]_vars PROVE TokenInv'
  OBVIOUS
<1>1. ASSUME NEW h \in Handlers, HandlerStep(h) PROVE TokenInv'
  <2>1. ASSUME FailResolved(h) PROVE TokenInv'
    BY <2>1, ThrownToken DEF FailResolved, KeepDatabase, Keep, browsers
  <2> QED
    BY <1>1, <2>1, CommitToken, RollbackToken, FoundToken, CreateToken, InsertToken, GrantToken, SaveToken,
       DeleteToken, GuardToken, CheckNumToken DEF HandlerStep
<1>2. ASSUME NEW e \in Emails, SignOut(e) PROVE TokenInv'
  <2>1. \A f \in Emails : stored'[f] \in {0, stored[f]}
    BY <1>2 DEF SignOut, UsersInv, BrowsersInv
  <2> QED
    BY <1>2, <2>1, PageToken DEF SignOut
<1>3. ASSUME NEW e \in Emails, Star(e) \/ (\E create \in BOOLEAN : MakeDialog(e, create))
                               \/ (\E num \in Nums : OnChangeNum(e, num))
      PROVE  TokenInv'
  <2>1. UNCHANGED <<table, undo, handlers, mixed, stored>>
    BY <1>3 DEF Star, MakeDialog, OnChangeNum, browsers
  <2> QED
    BY <2>1, PageToken
<1>4. CASE UNCHANGED vars
  BY <1>4, PageToken DEF vars
<1> QED
  BY <1>1, <1>2, <1>3, <1>4, CallsToken, RestartToken DEF Next

LEMMA TokenFollows == UsersInv /\ TokenInv => TokenIsOfItsUser
<1>1. 0 \notin Ids
  BY Assumed DEF Ids
<1> QED
  BY <1>1 DEF TokenInv, TokenIsOfItsUser, Claim, Agrees, HasRow

LEMMA TokenInvariant == Spec => []TokenInv
  BY Invariant, InitToken, NextToken, PTL DEF Spec

\* Whatever signs in, is created, removed, undone or lost with the process, a
\* browser's token names the account it signed in with or nobody, unless a
\* rollback took another request's work along (user.ts, auth.ts).
THEOREM Token == Spec => []TokenIsOfItsUser
  BY Invariant, TokenInvariant, TokenFollows, PTL

=============================================================================
