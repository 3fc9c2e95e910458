--------------------------- MODULE CommandService ---------------------------
(***************************************************************************)
(* The command service of the demo server                                  *)
(* (demo/server/src/service/command.service.ts): the command table, the    *)
(* request handlers that load a row, change their own in-memory copy of it *)
(* and save the copy back, the in-memory PQueue with concurrency 1, the    *)
(* worker that executes the queued jobs stage by stage, and initCheck, the *)
(* recovery that runs (un-awaited) when the server boots.                  *)
(*                                                                         *)
(* Every `await' of the code on the database, on files or on a child       *)
(* process is a point where another handler or the worker may run, so a    *)
(* handler is a program counter and a copy `c' of the row it loaded.       *)
(* TypeORM's save(c) writes every column of the copy: the last writer wins *)
(* and a row that was deleted meanwhile is inserted again, without its     *)
(* repository when the copy had not read that lazy relation yet.           *)
(*                                                                         *)
(* Here each save is durable as soon as it returns, which is what          *)
(* dao.save() does outside a transaction; CommandFacade adds the           *)
(* transactions the facade opens around the handlers.                      *)
(***************************************************************************)
EXTENDS Naturals, Sequences, FiniteSets

CONSTANTS
  NumCmds,        \* how many command ids there are; bounds the create requests
  KeyOf,          \* the (repo, command) pair of each id, see @Unique
  Params,         \* what a user may set on a command: num, lang, targetPaths...
  DefaultParams,
  Handlers,       \* the requests that may be in flight together
  Ops,            \* the operations the users of this instance call
  Faults,         \* what may fail: stages, "prepare", "render", "remove"
  MaxRequests,    \* bounds the requests of a behaviour
  MaxCrashes      \* bounds the crashes of a behaviour

Cmds == 1 .. NumCmds

Status == {"Pending", "Queued", "Running", "Succeeded", "Failed"}

\* The stages up to the commit, then the ones doRun enters only with changes.
EarlyStages == {"SyncRepo", "CheckedOut", "BatchAIExecuted", "ChangesAdded", "ChangesCommited"}
LateStages == {"ChangesPushed", "ChangesArchived", "GetCommitId"}
RunStatus == {"Begin", "End"} \cup EarlyStages \cup LateStages

\* The stages that run a program inside the command's working copy.
InCopy == {"BatchAIExecuted", "ChangesAdded", "ChangesCommited", "ChangesPushed", "GetCommitId"}

\* The operations of the API; create and update come with executeItRightNow or
\* without it, and "view" is any of those that load a command and only read.
Creates == {"create", "createAndRun"}
Updates == {"update", "updateAndRun"}
Reads == {"view"}
AllOps == Creates \cup Updates \cup Reads \cup {"restart", "resume", "stop", "remove", "lock", "unlock"}

ASSUME ConstantsAssumption ==
  /\ NumCmds \in Nat \ {0}
  /\ KeyOf \in [Cmds -> Nat]
  /\ DefaultParams \in Params
  /\ Ops \subseteq AllOps
  /\ Faults \subseteq EarlyStages \cup LateStages \cup {"prepare", "render", "remove"}
  /\ MaxRequests \in Nat
  /\ MaxCrashes \in Nat

VARIABLES
  present,    \* the ids that have a row
  rows,       \* the rows; an absent one is left at its default
  born,       \* the ids given out (AUTOINCREMENT never gives one twice)
  handlers,   \* the requests in flight: program counter, arguments, copy
  queue,      \* the jobs of the PQueue; each closure holds a copy
  worker,     \* the one job being executed
  boot,       \* initCheck
  tree,       \* per (repo, command): is there a working copy on disk?
  requests, crashes

vars == <<present, rows, born, handlers, queue, worker, boot, tree, requests, crashes>>

-----------------------------------------------------------------------------
(* Rows, copies and the table.                                             *)

\* A copy: the entity in memory, its repo not read yet, or read and found or not.
Copy == [status: Status, runStatus: RunStatus, hasChanges: BOOLEAN, commit: BOOLEAN,
         locked: BOOLEAN, params: Params, repo: {"lazy", "some", "none"}]

Row == {c \in Copy : c.repo # "lazy"}

NewRow(p) == [status |-> "Pending", runStatus |-> "Begin", hasChanges |-> FALSE,
              commit |-> FALSE, locked |-> FALSE, params |-> p, repo |-> "some"]

Blank == NewRow(DefaultParams)

NextRunStatus ==
  [Begin |-> "SyncRepo", SyncRepo |-> "CheckedOut", CheckedOut |-> "BatchAIExecuted",
   BatchAIExecuted |-> "ChangesAdded", ChangesAdded |-> "ChangesCommited",
   ChangesCommited |-> "ChangesPushed", ChangesPushed |-> "ChangesArchived",
   ChangesArchived |-> "GetCommitId", GetCommitId |-> "End", End |-> "End"]

\* What find() returns of a row.
Loaded(id) == [rows[id] EXCEPT !.repo = "lazy"]

HasRepo(id) == id \in present /\ rows[id].repo = "some"

\* The row after save(c): a relation that was not read is not written.
Stored(id, c) ==
  IF c.repo # "lazy" THEN c
  ELSE [c EXCEPT !.repo = IF HasRepo(id) THEN "some" ELSE "none"]

KeyTaken(id) == \E d \in Cmds \ {id} : HasRepo(d) /\ KeyOf[d] = KeyOf[id]

\* @Unique: a row that has no repository is equal to no other.
CanSave(id, c) == Stored(id, c).repo = "some" => ~KeyTaken(id)

\* save() updates the row, or inserts it when it is gone.
Save(id, c) ==
  /\ present' = present \cup {id}
  /\ rows' = [rows EXCEPT ![id] = Stored(id, c)]

KeepTable == UNCHANGED <<present, rows>>

-----------------------------------------------------------------------------
(* Initial state: the server boots on a table of commands nobody ran yet.  *)

IdleHandler == [pc |-> "idle", op |-> "none", id |-> 1, params |-> DefaultParams, c |-> Blank]
IdleWorker == [pc |-> "idle", id |-> 1, c |-> Blank, fresh |-> FALSE, tail |-> FALSE]
Booting == [pc |-> "listRunning", failing |-> {}]

Init ==
  /\ \E n \in 0 .. NumCmds : born = 1 .. n
  /\ present = {id \in born : \A d \in born : d < id => KeyOf[d] # KeyOf[id]}
  /\ rows = [id \in Cmds |-> Blank]
  /\ handlers = [h \in Handlers |-> IdleHandler]
  /\ queue = <<>>
  /\ worker = IdleWorker
  /\ boot = Booting
  /\ tree = [k \in {KeyOf[id] : id \in Cmds} |-> FALSE]
  /\ requests = 0
  /\ crashes = 0

-----------------------------------------------------------------------------
(* The request handlers.                                                   *)

\* The handler goes on at pc with the copy c; nothing of it outlives its end.
Hold(h, c, pc) ==
  handlers' = [handlers EXCEPT ![h] =
    IF pc \in {"returned", "threw"} THEN [IdleHandler EXCEPT !.pc = pc]
                                   ELSE [@ EXCEPT !.pc = pc, !.c = c]]
Goto(h, pc) == Hold(h, handlers[h].c, pc)
Throw(h) == Goto(h, "threw") /\ KeepTable

\* await this.dao.save(c), then go on at pc; the constraint may refuse it
SaveAndGoto(h, c, pc) ==
  IF CanSave(handlers[h].id, c)
    THEN Save(handlers[h].id, c) /\ Hold(h, c, pc)
    ELSE Throw(h)

\* updateStatus(): the save, then a message to the websocket, whose rendering
\* (CommandDetail.from reads the repository) may throw after the row is written
SaveAndEmit(h, c, pc) ==
  LET id == handlers[h].id IN
  IF CanSave(id, c)
    THEN /\ Save(id, c)
         /\ \/ Hold(h, Stored(id, c), pc)
            \/ "render" \in Faults /\ Goto(h, "threw")
    ELSE Throw(h)

HandlerAt(h, ops, pc) == handlers[h].op \in ops /\ handlers[h].pc = pc

\* what no handler step after the first touches
KeepOthers == UNCHANGED <<born, worker, boot, requests, crashes>>

\* A request arrives. A create gets the next id; what is updated exists.
Request(h) ==
  /\ handlers[h].pc = "idle"
  /\ requests < MaxRequests
  /\ requests' = requests + 1
  /\ \E op \in Ops, id \in Cmds, p \in Params :
       /\ op \in Creates => id \notin born /\ \A d \in Cmds : d < id => d \in born
       /\ op \notin Creates => id \in born
       /\ op \notin Creates \cup Updates => p = DefaultParams
       /\ born' = IF op \in Creates THEN born \cup {id} ELSE born
       /\ handlers' = [handlers EXCEPT ![h] =
            [pc |-> "load", op |-> op, id |-> id, params |-> p, c |-> Blank]]
  /\ UNCHANGED <<present, rows, queue, worker, boot, tree, crashes>>

\* load(id): 404 when there is no row, else the handler's own copy of it
Load(h) ==
  /\ handlers[h].pc = "load" /\ handlers[h].op \notin Creates
  /\ IF handlers[h].id \in present
       THEN /\ Hold(h, Loaded(handlers[h].id), IF handlers[h].op \in Reads THEN "returned" ELSE "write")
            /\ KeepTable
       ELSE Throw(h)
  /\ UNCHANGED <<queue, tree>> /\ KeepOthers

\* create: existsBy, then (quota and role permitting) a new row
CheckExists(h) ==
  /\ HandlerAt(h, Creates, "load")
  /\ IF \E d \in Cmds : HasRepo(d) /\ KeyOf[d] = KeyOf[handlers[h].id]
       THEN Throw(h)
       ELSE Hold(h, NewRow(handlers[h].params), "write") /\ KeepTable
  /\ UNCHANGED <<queue, tree>> /\ KeepOthers

Create(h) ==
  /\ HandlerAt(h, Creates, "write")
  /\ \/ SaveAndGoto(h, handlers[h].c, IF handlers[h].op = "createAndRun" THEN "enqueue" ELSE "returned")
     \/ Throw(h)                        \* over the quota, or not an admin
  /\ UNCHANGED <<queue, tree>> /\ KeepOthers

\* update: the copy is saved; with executeItRightNow the same copy, as stale
\* as it may be by then, goes on to restart()
Update(h) ==
  LET c == handlers[h].c
      updated == [c EXCEPT !.params = handlers[h].params] IN
  /\ HandlerAt(h, Updates, "write")
  /\ IF c.locked \/ c.status = "Running"
       THEN Throw(h)
       ELSE \/ SaveAndGoto(h, updated, IF handlers[h].op = "updateAndRun" THEN "restart" ELSE "returned")
            \/ Throw(h)                 \* over the quota, or not an admin
  /\ UNCHANGED <<queue, tree>> /\ KeepOthers

\* Mutant: the status is not reset.
RestartedKeepingStatus(c) == [c EXCEPT !.hasChanges = FALSE, !.runStatus = "Begin"]
\* Mutant: the two enumerations are confused.
RestartedConfused(c) == [c EXCEPT !.hasChanges = FALSE, !.status = "Begin", !.runStatus = "Begin"]

\* What restart() resets; commitId is not among it.
Restarted(c) == [c EXCEPT !.hasChanges = FALSE, !.status = "Pending", !.runStatus = "Begin"]

Restart(h) ==
  LET c == handlers[h].c IN
  /\ HandlerAt(h, {"restart"}, "write") \/ HandlerAt(h, Updates, "restart")
  /\ IF c.status = "Running"
       THEN Throw(h)
       ELSE SaveAndGoto(h, Restarted(c), "enqueue")
  /\ UNCHANGED <<queue, tree>> /\ KeepOthers

\* resume keeps runStatus, so that doRun skips the stages already done
Resume(h) ==
  /\ HandlerAt(h, {"resume"}, "write")
  /\ KeepTable
  /\ IF handlers[h].c.status \in {"Pending", "Failed"} THEN Goto(h, "enqueue") ELSE Goto(h, "threw")
  /\ UNCHANGED <<queue, tree>> /\ KeepOthers

\* Mutant: the job is added without marking the command.
EnqueueUnmarked(h) ==
  /\ handlers[h].pc = "enqueue"
  /\ SaveAndEmit(h, handlers[h].c, "add")
  /\ UNCHANGED <<queue, tree>> /\ KeepOthers

\* enqueue: the status is saved first...
Enqueue(h) ==
  /\ handlers[h].pc = "enqueue"
  /\ SaveAndEmit(h, [handlers[h].c EXCEPT !.status = "Queued"], "add")
  /\ UNCHANGED <<queue, tree>> /\ KeepOthers

\* ... and the closure added to the queue after the save has returned
AddJob(h) ==
  /\ handlers[h].pc = "add"
  /\ queue' = Append(queue, [id |-> handlers[h].id, c |-> handlers[h].c])
  /\ Goto(h, "returned")
  /\ KeepTable /\ UNCHANGED tree /\ KeepOthers

\* stop: the test of the status only translates a message, it refuses nothing
Stop(h) ==
  /\ HandlerAt(h, {"stop"}, "write")
  /\ SaveAndEmit(h, [handlers[h].c EXCEPT !.status = "Pending"], "returned")
  /\ UNCHANGED <<queue, tree>> /\ KeepOthers

\* remove: the folder first (archived, then deleted; its path is made of the
\* repository's name), the row afterwards
RemoveFiles(h) ==
  /\ HandlerAt(h, {"remove"}, "write")
  /\ KeepTable
  /\ \/ /\ ~handlers[h].c.locked /\ HasRepo(handlers[h].id)
        /\ tree' = [tree EXCEPT ![KeyOf[handlers[h].id]] = FALSE]
        /\ Goto(h, "delete")
     \/ /\ handlers[h].c.locked \/ ~HasRepo(handlers[h].id) \/ "remove" \in Faults
        /\ Goto(h, "threw")
        /\ UNCHANGED tree
  /\ UNCHANGED queue /\ KeepOthers

RemoveRow(h) ==
  LET id == handlers[h].id IN
  /\ HandlerAt(h, {"remove"}, "delete")
  /\ present' = present \ {id}
  /\ rows' = [rows EXCEPT ![id] = Blank]
  /\ Goto(h, "returned")
  /\ UNCHANGED <<queue, tree>> /\ KeepOthers

Lock(h) ==
  /\ HandlerAt(h, {"lock"}, "write")
  /\ IF handlers[h].c.locked
       THEN Throw(h)
       ELSE SaveAndGoto(h, [handlers[h].c EXCEPT !.locked = TRUE], "returned")
  /\ UNCHANGED <<queue, tree>> /\ KeepOthers

Unlock(h) ==
  /\ HandlerAt(h, {"unlock"}, "write")
  /\ IF ~handlers[h].c.locked
       THEN Throw(h)
       ELSE SaveAndGoto(h, [handlers[h].c EXCEPT !.locked = FALSE], "returned")
  /\ UNCHANGED <<queue, tree>> /\ KeepOthers

\* One await-to-await step of the method that handler h is in.
HandlerStep(h) ==
  \/ Load(h) \/ CheckExists(h) \/ Create(h) \/ Update(h) \/ Restart(h) \/ Resume(h)
  \/ Enqueue(h) \/ AddJob(h) \/ Stop(h) \/ RemoveFiles(h) \/ RemoveRow(h)
  \/ Lock(h) \/ Unlock(h)

Done(h) == handlers[h].pc \in {"returned", "threw"}

\* The response is sent. What becomes of the table then, as in a crash, is for
\* the next-state relation to say.
Respond(h) ==
  /\ Done(h)
  /\ handlers' = [handlers EXCEPT ![h] = IdleHandler]
  /\ UNCHANGED <<queue, tree>> /\ KeepOthers

-----------------------------------------------------------------------------
(* The worker: execute() and doRun().                                      *)

KeepRequests == UNCHANGED <<born, handlers, boot, requests, crashes>>

\* The job goes on at pc; "idle" is the end of it, whether it was done or its
\* error was swallowed by the closure of the queue.
WorkerTo(c, pc) ==
  worker' = IF pc = "idle" THEN IdleWorker ELSE [worker EXCEPT !.c = c, !.pc = pc]

\* updateStatus() and updateRunStatus(); a bare dao.save() renders nothing
WorkerSave(c, next, onThrow) ==
  IF CanSave(worker.id, c)
    THEN /\ Save(worker.id, c)
         /\ \/ WorkerTo(Stored(worker.id, c), next)
            \/ /\ "render" \in Faults
               /\ ~(worker.pc = "save" /\ c.runStatus = "GetCommitId")
               /\ WorkerTo(c, onThrow)
    ELSE KeepTable /\ WorkerTo(c, onThrow)

\* execute: "confirm the command is queued" looks at the copy in the closure
Take ==
  LET job == Head(queue) IN
  /\ worker.pc = "idle"
  /\ queue # <<>>
  /\ queue' = Tail(queue)
  /\ worker' = IF job.c.status = "Queued"
                 THEN [pc |-> "start", id |-> job.id, fresh |-> FALSE, tail |-> FALSE,
                       c |-> [job.c EXCEPT !.status = "Running"]]
                 ELSE IdleWorker
  /\ KeepTable /\ UNCHANGED tree /\ KeepRequests

Start ==
  /\ worker.pc = "start"
  /\ WorkerSave(worker.c, "prepare", "idle")
  /\ UNCHANGED <<queue, tree>> /\ KeepRequests

\* Mutant: the folder of the last run is not removed.
PrepareKeepingFolder ==
  /\ worker.pc = "prepare"
  /\ worker' = [worker EXCEPT !.pc = "stage"]
  /\ KeepTable /\ UNCHANGED <<queue, tree>> /\ KeepRequests

\* archiveCommand and removeCommand: outside the try, so an error leaves the
\* row Running and is swallowed by the closure of the queue
Prepare ==
  /\ worker.pc = "prepare"
  /\ \/ /\ worker.c.repo = "some"
        /\ tree' = [tree EXCEPT ![KeyOf[worker.id]] = FALSE]
        /\ worker' = [worker EXCEPT !.pc = "stage"]
     \/ /\ worker.c.repo # "some" \/ "prepare" \in Faults
        /\ worker' = IdleWorker
        /\ UNCHANGED tree
  /\ KeepTable /\ UNCHANGED queue /\ KeepRequests

\* The stage doRun comes to next, given the copy and, at the tail, that it is
\* past the if (c.hasChanges) ... else ...
StageToDo ==
  LET next == NextRunStatus[worker.c.runStatus] IN
  IF worker.tail THEN "End"
  ELSE IF next \in EarlyStages THEN next
  ELSE IF ~worker.c.hasChanges THEN "ArchivedUnchanged"
  ELSE next

\* What the stage's own work needs: the programs run in the working copy.
Workable(stage) == stage \in InCopy => tree[KeyOf[worker.id]]

\* Mutant: the commit id is not kept.
AfterStageForgetful(stage, changes) ==
  IF stage = "ChangesCommited" THEN [worker.c EXCEPT !.runStatus = stage, !.hasChanges = changes]
  ELSE [worker.c EXCEPT !.runStatus = IF stage = "ArchivedUnchanged" THEN "ChangesArchived" ELSE stage]

\* The copy once the stage is done: commit() tells whether there were changes.
AfterStage(stage, changes) ==
  LET c == worker.c IN
  CASE stage = "ChangesCommited" -> [c EXCEPT !.runStatus = stage, !.hasChanges = changes]
    [] stage = "GetCommitId" -> [c EXCEPT !.runStatus = stage, !.commit = TRUE]
    [] stage = "ArchivedUnchanged" -> [c EXCEPT !.runStatus = "ChangesArchived"]
    [] OTHER -> [c EXCEPT !.runStatus = stage]

\* if (c.status !== Running) return: of the copy, which nobody else changes
Cancelled == worker.c.status # "Running" /\ StageToDo \notin {"ArchivedUnchanged", "End"}

Stage ==
  LET stage == StageToDo
      key == KeyOf[worker.id] IN
  /\ worker.pc = "stage"
  /\ Workable(stage)
  /\ \E changes \in BOOLEAN :
       /\ stage # "ChangesCommited" => changes = FALSE
       /\ worker' = IF Cancelled THEN [worker EXCEPT !.pc = "succeed"]
                    ELSE [worker EXCEPT !.pc = "save", !.c = AfterStage(stage, changes),
                            !.fresh = @ \/ stage = "CheckedOut",
                            !.tail = @ \/ stage = "ArchivedUnchanged"]
  /\ tree' = [tree EXCEPT ![key] = @ \/ (stage = "CheckedOut" /\ ~Cancelled)]
  /\ KeepTable /\ UNCHANGED queue /\ KeepRequests

\* The stage throws: git, the network or batchai failed, or the working copy
\* is not there. A checkout may leave a copy behind.
StageFails ==
  LET stage == StageToDo
      key == KeyOf[worker.id] IN
  /\ worker.pc = "stage" /\ ~Cancelled
  /\ stage \in Faults \/ ~Workable(stage)
  /\ worker' = [worker EXCEPT !.pc = "fail"]
  /\ \E left \in BOOLEAN :
       /\ left => stage = "CheckedOut"
       /\ tree' = [tree EXCEPT ![key] = @ \/ left]
  /\ KeepTable /\ UNCHANGED queue /\ KeepRequests

SaveStage ==
  /\ worker.pc = "save"
  /\ WorkerSave(worker.c, IF worker.c.runStatus = "End" THEN "succeed" ELSE "stage", "fail")
  /\ UNCHANGED <<queue, tree>> /\ KeepRequests

Succeed ==
  /\ worker.pc = "succeed"
  /\ WorkerSave([worker.c EXCEPT !.status = "Succeeded"], "idle", "fail")
  /\ UNCHANGED <<queue, tree>> /\ KeepRequests

\* Mutant: the failure is logged but not recorded.
FailUnrecorded ==
  /\ worker.pc = "fail"
  /\ worker' = IdleWorker
  /\ KeepTable /\ UNCHANGED <<queue, tree>> /\ KeepRequests

Fail ==
  /\ worker.pc = "fail"
  /\ WorkerSave([worker.c EXCEPT !.status = "Failed"], "idle", "idle")
  /\ UNCHANGED <<queue, tree>> /\ KeepRequests

WorkerStep ==
  \/ Take \/ Start \/ Prepare \/ Stage \/ StageFails \/ SaveStage \/ Succeed \/ Fail

-----------------------------------------------------------------------------
(* The server dies and boots again: initCheck().                           *)

KeepBusy == UNCHANGED <<born, handlers, worker, tree, requests, crashes>>

\* Everything but the table and the files is in memory.
LoseMemory ==
  /\ handlers' = [h \in Handlers |-> IdleHandler]
  /\ queue' = <<>>
  /\ worker' = IdleWorker
  /\ boot' = Booting

\* What of the table survives is for the next-state relation to say.
Crash ==
  /\ crashes < MaxCrashes
  /\ crashes' = crashes + 1
  /\ LoseMemory
  /\ UNCHANGED <<born, tree, requests>>

\* Mutant: interrupted commands are not looked for.
ListRunningNone ==
  /\ boot.pc = "listRunning"
  /\ boot' = [boot EXCEPT !.pc = "listQueued"]
  /\ KeepTable /\ UNCHANGED queue /\ KeepBusy

\* The interrupted commands are read...
ListRunning ==
  /\ boot.pc = "listRunning"
  /\ boot' = [pc |-> "listQueued",
              failing |-> {[id |-> id, c |-> Loaded(id)] :
                             id \in {d \in present : rows[d].status = "Running"}}]
  /\ KeepTable /\ UNCHANGED queue /\ KeepBusy

\* Mutant: the two enumerations are confused.
MarkedConfused(job) == [job.c EXCEPT !.status = "End"]

\* ... and marked, each by a save nothing waits for: the promises of the map()
\* are not returned.
Marked(job) == [job.c EXCEPT !.status = "Failed"]

FailInterrupted ==
  \E job \in boot.failing :
    /\ Save(job.id, Marked(job))
    /\ boot' = [boot EXCEPT !.failing = @ \ {job}]
    /\ UNCHANGED queue /\ KeepBusy

\* So when the rendering after such a save throws, that is an unhandled
\* rejection and ends the server (the table: see Next).
Unhandled ==
  /\ "render" \in Faults
  /\ LoseMemory
  /\ UNCHANGED <<born, tree, requests, crashes>>

\* Mutant: what was queued is not enqueued again.
ListQueuedNone ==
  /\ boot.pc = "listQueued"
  /\ boot' = [boot EXCEPT !.pc = "done"]
  /\ KeepTable /\ UNCHANGED queue /\ KeepBusy

\* The Queued rows are enqueued again, the oldest first, without a save.
Waiting == {id \in present : rows[id].status = "Queued"}

ListQueued ==
  /\ boot.pc = "listQueued"
  /\ \E n \in 0 .. NumCmds : \E order \in [1 .. n -> Waiting] :
       /\ \A i, j \in 1 .. n : i < j => order[i] < order[j]     \* createdAt ASC
       /\ \A id \in Waiting : \E i \in 1 .. n : order[i] = id
       /\ queue' = queue \o [i \in 1 .. n |-> [id |-> order[i], c |-> Loaded(order[i])]]
  /\ boot' = [boot EXCEPT !.pc = "done"]
  /\ KeepTable /\ KeepBusy

BootStep == ListRunning \/ FailInterrupted \/ ListQueued

-----------------------------------------------------------------------------

Next ==
  \/ \E h \in Handlers : Request(h) \/ HandlerStep(h) \/ (Respond(h) /\ KeepTable)
  \/ WorkerStep
  \/ BootStep
  \/ \E job \in boot.failing : Unhandled /\ Save(job.id, Marked(job))
  \/ Crash /\ KeepTable

Spec == Init /\ [][Next]_vars

\* The event loop runs every callback that is due and the children end; the
\* users owe nothing.
Fairness ==
  /\ \A h \in Handlers : WF_vars(HandlerStep(h)) /\ WF_vars(Respond(h) /\ KeepTable)
  /\ WF_vars(WorkerStep)
  /\ WF_vars(ListRunning) /\ WF_vars(FailInterrupted) /\ WF_vars(ListQueued)

FairSpec == Spec /\ Fairness

-----------------------------------------------------------------------------
(* Properties.                                                             *)

Job == [id: Cmds, c: Copy]

HandlerPC == {"idle", "load", "write", "restart", "enqueue", "add", "delete", "returned", "threw"}
WorkerPC == {"idle", "start", "prepare", "stage", "save", "succeed", "fail"}

HandlerType == [pc: HandlerPC, op: Ops \cup {"none"}, id: Cmds, params: Params, c: Copy]
WorkerType == [pc: WorkerPC, id: Cmds, c: Copy, fresh: BOOLEAN, tail: BOOLEAN]
BootType == [pc: {"listRunning", "listQueued", "done"}, failing: SUBSET Job]

TypeOK ==
  /\ present \subseteq Cmds
  /\ rows \in [Cmds -> Row]
  /\ born \subseteq Cmds
  /\ handlers \in [Handlers -> HandlerType]
  /\ queue \in Seq(Job)
  /\ worker \in WorkerType
  /\ boot \in BootType
  /\ tree \in [{KeyOf[id] : id \in Cmds} -> BOOLEAN]
  /\ requests \in Nat /\ crashes \in Nat

Complete(c) ==
  /\ c.status = "Succeeded" => c.runStatus = "End"
  /\ c.status = "Succeeded" /\ c.hasChanges => c.commit

\* A row that says Succeeded has been through every stage, and when it has
\* changes their commit id is known: no stale save, restart, resume, lost row
\* or recovery can combine a Succeeded status with an unfinished run.
SucceededMeansComplete == \A id \in present : Complete(rows[id])

\* What a run commits, pushes and reports was made in a working copy this very
\* run checked out: the leftovers of an earlier, interrupted run never are.
WorkIsFromThisRun ==
  worker.pc = "save" /\ worker.c.runStatus \in InCopy => worker.fresh

\* execute() and doRun() test the status seven times in order to cancel; none
\* of the tests can ever succeed, because they look at copies only the worker
\* writes: a queued job says Queued and the run it becomes says Running.
CancelNeverFires ==
  /\ \A i \in DOMAIN queue : queue[i].c.status = "Queued"
  /\ worker.pc \in {"start", "prepare", "stage", "save"} => worker.c.status = "Running"

Working(id) == worker.pc # "idle" /\ worker.id = id

\* A Running row has the worker on it, or initCheck is about to mark it Failed:
\* otherwise it is stuck, as restart, resume and update refuse it. (A row that
\* was removed and came back without its repository does get stuck.)
RunningHasWorker ==
  \A id \in present : rows[id].status = "Running" /\ HasRepo(id) =>
    \/ Working(id)
    \/ boot.pc = "listRunning" \/ \E job \in boot.failing : job.id = id

\* A Queued row has a job in the queue, or a handler or initCheck is about to
\* add one: no wake-up is lost.
QueuedHasJob ==
  \A id \in present : rows[id].status = "Queued" =>
    \/ \E i \in DOMAIN queue : queue[i].id = id
    \/ Working(id)
    \/ \E h \in Handlers : handlers[h].id = id /\ handlers[h].pc \in {"restart", "enqueue", "add"}
    \/ boot.pc # "done"

\* Whatever the users do and wherever the server crashes, a command that waits
\* or runs gets out of it.
CommandSettles ==
  \A id \in Cmds :
    (id \in present /\ rows[id].status \in {"Queued", "Running"})
      ~> (id \in present => rows[id].status \notin {"Queued", "Running"})

=============================================================================
