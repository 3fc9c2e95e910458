---------------------------- MODULE CommandFacade ----------------------------
(***************************************************************************)
(* CommandService behind its facade (service/command.facade.ts): every     *)
(* request runs in a @Transactional method (framework/transaction.ts),     *)
(* which begins a transaction, commits it when the method returns and      *)
(* rolls it back when it throws.                                           *)
(*                                                                         *)
(* The database is SQLite: TypeORM has one connection and gives the same   *)
(* query runner to everybody. It counts the open transactions: the first   *)
(* is a BEGIN, those after it are savepoints, and a commit or a rollback   *)
(* is of the innermost one, whoever began it. So the transactions of       *)
(* requests that overlap are not isolated, and what the worker and         *)
(* initCheck save meanwhile is in them too.                                *)
(***************************************************************************)
EXTENDS CommandService

ASSUME HandlersFinite == IsFiniteSet(Handlers)

VARIABLES
  undo,       \* the table at the BEGIN and at each savepoint, innermost last
  starting    \* the transaction of onModuleInit's initCheck() is open

facadeVars == <<vars, undo, starting>>

Table == [present |-> present, rows |-> rows]

Restore(image) ==
  /\ present' = image.present
  /\ rows' = image.rows

\* What a crash leaves: SQLite undoes the transaction that is open.
Durable == IF undo = <<>> THEN Table ELSE Head(undo)

Innermost == undo[Len(undo)]
Outer == SubSeq(undo, 1, Len(undo) - 1)

FacadeInit ==
  /\ Init
  /\ undo = <<Table>>
  /\ starting = TRUE

-----------------------------------------------------------------------------

\* startTransaction, then the method.
Begin(h) ==
  /\ Request(h)
  /\ undo' = Append(undo, Table)
  /\ UNCHANGED starting

\* The method's own steps save into whatever transaction is innermost.
Within ==
  /\ (\E h \in Handlers : HandlerStep(h)) \/ WorkerStep \/ BootStep
  /\ UNCHANGED <<undo, starting>>

\* commitTransaction
Commit(h) ==
  /\ handlers[h].pc = "returned"
  /\ Respond(h) /\ KeepTable
  /\ undo' = Outer
  /\ UNCHANGED starting

\* Mutant: the rollback is not done.
RollbackNothing(h) ==
  /\ handlers[h].pc = "threw"
  /\ Respond(h) /\ KeepTable
  /\ UNCHANGED <<undo, starting>>

\* rollbackTransaction: the method threw, or the rendering of its result did
Rollback(h) ==
  /\ handlers[h].pc = "threw" \/ (handlers[h].pc = "returned" /\ "render" \in Faults)
  /\ Respond(h) /\ Restore(Innermost)
  /\ undo' = Outer
  /\ UNCHANGED starting

\* initCheck() of the facade commits at once, as the service's own initCheck()
\* is not awaited.
CommitStart ==
  /\ starting
  /\ starting' = FALSE
  /\ undo' = Outer
  /\ UNCHANGED vars

\* The server dies, or an unhandled rejection of initCheck ends it, and boots
\* again: its transaction is undone, and a new one begins.
Reboot ==
  /\ \/ Crash /\ Restore(Durable)
     \/ \E job \in boot.failing :
          Unhandled /\ IF undo = <<>> THEN Save(job.id, Marked(job)) ELSE Restore(Durable)
  /\ undo' = <<[present |-> present', rows |-> rows']>>
  /\ starting' = TRUE

FacadeNext ==
  \/ \E h \in Handlers : Begin(h) \/ Commit(h) \/ Rollback(h)
  \/ Within
  \/ CommitStart
  \/ Reboot

FacadeSpec == FacadeInit /\ [][FacadeNext]_facadeVars

-----------------------------------------------------------------------------
(* Properties.                                                             *)

TableType == [present: SUBSET Cmds, rows: [Cmds -> Row]]

FacadeTypeOK ==
  /\ TypeOK
  /\ undo \in Seq(TableType)
  /\ starting \in BOOLEAN

\* Whatever a rollback or a crash brings back, a row of it that says Succeeded
\* has been through every stage: an image taken between the steps of several
\* requests and of the worker is as complete as the table itself.
ImagesAreComplete ==
  /\ SucceededMeansComplete
  /\ \A i \in DOMAIN undo : \A id \in undo[i].present : Complete(undo[i].rows[id])

\* Though a commit is of whatever transaction is innermost, none stays open: a
\* server that no request is using loses nothing when it dies.
QuietIsDurable ==
  (\A h \in Handlers : handlers[h].pc = "idle") /\ ~starting => Durable = Table

=============================================================================
