---------------------------- MODULE CommandProofs ----------------------------
(***************************************************************************)
(* Theorems about CommandService, for every number of commands, handlers,  *)
(* requests and crashes, every set of operations and every set of faults:  *)
(* what holds of its rows, its queue and its worker; that it implements    *)
(* CommandLifecycle; and what survives the rollbacks of its facade.        *)
(*                                                                         *)
(* A save writes a whole copy, so what holds of every row must hold of     *)
(* every copy of a row that some handler, job, worker or recovery still    *)
(* holds: that is the inductive invariant. That no command is left waiting *)
(* or running needs more: which saves may write which status, and when the *)
(* constraint on the table refuses one.                                    *)
(***************************************************************************)
EXTENDS CommandRefinement, CommandFacade, SequenceTheorems, FiniteSetTheorems, TLAPS

\* Of one copy: what Complete says, and that a run past GetCommitId which has
\* changes also has their commit id (Complete alone is not kept by Succeed).
CopyInv(c) ==
  /\ Complete(c)
  /\ c.runStatus \in {"GetCommitId", "End"} /\ c.hasChanges => c.commit

\* A copy about to be wrapped in a job already says Queued.
HandlersInv ==
  \A h \in Handlers :
    /\ CopyInv(handlers[h].c)
    /\ handlers[h].pc = "add" => handlers[h].c.status = "Queued"

QueueInv ==
  \A i \in DOMAIN queue : CopyInv(queue[i].c) /\ queue[i].c.status = "Queued"

WorkerInv ==
  /\ CopyInv(worker.c)
  /\ worker.pc \in {"start", "prepare", "stage", "save", "succeed"} => worker.c.status = "Running"
  /\ worker.pc = "succeed" => worker.c.runStatus = "End"
  /\ worker.tail => ~worker.c.hasChanges

\* The working copy the worker finds is one it checked out.
TreeInv ==
  /\ worker.pc \in {"stage", "save"} /\ tree[KeyOf[worker.id]] => worker.fresh
  /\ worker.pc = "save" /\ worker.c.runStatus \in InCopy => worker.fresh

IInv ==
  /\ TypeOK
  /\ \A id \in Cmds : CopyInv(rows[id])
  /\ HandlersInv
  /\ QueueInv
  /\ WorkerInv
  /\ TreeInv
  /\ \A job \in boot.failing : CopyInv(job.c)

-----------------------------------------------------------------------------
(* Lemmas about the operators of the model.                                *)

LEMMA BlankRow ==
  /\ Blank \in Row /\ Blank \in Copy
  /\ \A p \in Params : NewRow(p) \in Row /\ NewRow(p) \in Copy
<1>1. \A p \in Params : NewRow(p) \in Copy /\ NewRow(p).repo # "lazy"
  BY DEF NewRow, Copy, Status, RunStatus
<1> QED
  BY <1>1, ConstantsAssumption DEF ConstantsAssumption, Blank, Row

\* Between a row and the copies of it.
LEMMA LoadedType ==
  ASSUME rows \in [Cmds -> Row], NEW id \in Cmds
  PROVE  Loaded(id) \in Copy /\ Loaded(id).status = rows[id].status
  BY DEF Loaded, Row, Copy

\* The jobs that initCheck makes of the Queued rows.
LEMMA RequeuedType ==
  ASSUME TypeOK, NEW n \in 0 .. NumCmds, NEW order \in [1 .. n -> Waiting]
  PROVE  /\ [i \in 1 .. n |-> [id |-> order[i], c |-> Loaded(order[i])]] \in Seq(Job)
         /\ Len([i \in 1 .. n |-> [id |-> order[i], c |-> Loaded(order[i])]]) = n
<1> DEFINE job(id) == [id |-> id, c |-> Loaded(id)]
<1>1. \A id \in Waiting : job(id) \in Job
  BY LoadedType DEF TypeOK, Waiting, Job
<1>2. n \in Nat
  BY ConstantsAssumption DEF ConstantsAssumption
<1> HIDE DEF job
<1>3. [i \in 1 .. n |-> job(order[i])] \in [1 .. n -> Job]
  BY <1>1
<1> DEFINE jobs == [i \in 1 .. n |-> job(order[i])]
<1>4. jobs \in Seq(Job) /\ Len(jobs) = n
  <2> HIDE DEF jobs
  <2>1. jobs \in [1 .. n -> Job]
    BY <1>3 DEF jobs
  <2> QED
    BY <1>2, <2>1
<1> QED
  BY <1>4 DEF job

LEMMA StoredType ==
  ASSUME NEW id \in Cmds, NEW c \in Copy
  PROVE  Stored(id, c) \in Row /\ Stored(id, c) \in Copy
  BY DEF Stored, Row, Copy

LEMMA NextRunStatusType == \A r \in RunStatus : NextRunStatus[r] \in RunStatus
  BY DEF NextRunStatus, RunStatus, EarlyStages, LateStages

\* End follows only GetCommitId and itself.
LEMMA EndIsLast ==
  \A r \in RunStatus : NextRunStatus[r] = "End" => r \in {"GetCommitId", "End"}
  BY DEF NextRunStatus, RunStatus, EarlyStages, LateStages

\* The records a handler, the worker and initCheck start from.
LEMMA IdleTypes ==
  IdleHandler \in HandlerType /\ IdleWorker \in WorkerType /\ Booting \in BootType
<1>1. 1 \in Cmds
  BY ConstantsAssumption DEF ConstantsAssumption, Cmds
<1> QED
  BY <1>1, BlankRow, ConstantsAssumption
  DEF ConstantsAssumption, IdleHandler, IdleWorker, Booting, HandlerType, HandlerPC, WorkerType,
      WorkerPC, BootType

\* What a handler step does to handlers, and to the row it saves.
LEMMA HoldType ==
  ASSUME TypeOK, NEW h \in Handlers, NEW c \in Copy, NEW pc \in HandlerPC, Hold(h, c, pc)
  PROVE  handlers' \in [Handlers -> HandlerType]
<1>1. IdleHandler \in HandlerType
  BY IdleTypes
<1>2. [IdleHandler EXCEPT !.pc = pc] \in HandlerType
  BY <1>1 DEF HandlerType
<1>3. [handlers[h] EXCEPT !.pc = pc, !.c = c] \in HandlerType
  BY DEF TypeOK, HandlerType
<1> QED
  BY <1>2, <1>3 DEF Hold, TypeOK

LEMMA SaveType ==
  ASSUME TypeOK, NEW id \in Cmds, NEW c \in Copy, Save(id, c)
  PROVE  present' \subseteq Cmds /\ rows' \in [Cmds -> Row]
  BY StoredType DEF TypeOK, Save

TableTyped == present' \subseteq Cmds /\ rows' \in [Cmds -> Row]

LEMMA SaveAndGotoType ==
  ASSUME TypeOK, NEW h \in Handlers, NEW c \in Copy, NEW pc \in HandlerPC,
         SaveAndGoto(h, c, pc) \/ SaveAndEmit(h, c, pc) \/ Throw(h) \/ (Goto(h, pc) /\ KeepTable)
  PROVE  TableTyped /\ handlers' \in [Handlers -> HandlerType]
<1> DEFINE id == handlers[h].id
<1>1. id \in Cmds /\ handlers[h].c \in Copy /\ "threw" \in HandlerPC
  BY DEF TypeOK, HandlerType, HandlerPC
<1>2. ASSUME NEW q \in HandlerPC, Goto(h, q)
      PROVE  handlers' \in [Handlers -> HandlerType]
  BY <1>1, <1>2, HoldType DEF Goto
<1>3. ASSUME KeepTable
      PROVE  TableTyped
  BY <1>3 DEF TypeOK, KeepTable, TableTyped
<1>4. CASE Throw(h)
  BY <1>1, <1>2, <1>3, <1>4 DEF Throw
<1>5. CASE SaveAndGoto(h, c, pc)
  BY <1>1, <1>4, <1>5, SaveType, HoldType DEF SaveAndGoto, TableTyped
<1>6. CASE SaveAndEmit(h, c, pc)
  <2>1. Stored(id, c) \in Copy
    BY <1>1, StoredType
  <2> QED
    BY <1>1, <1>2, <1>4, <1>6, <2>1, SaveType, HoldType DEF SaveAndEmit, TableTyped
<1>7. CASE Goto(h, pc) /\ KeepTable
  BY <1>2, <1>3, <1>7
<1> QED
  BY <1>4, <1>5, <1>6, <1>7

LEMMA WorkerSaveType ==
  ASSUME TypeOK, NEW c \in Copy, NEW next \in WorkerPC, NEW onThrow \in WorkerPC,
         WorkerSave(c, next, onThrow)
  PROVE  TableTyped /\ worker' \in WorkerType
<1>1. worker.id \in Cmds
  BY DEF TypeOK, WorkerType
<1>2. ASSUME NEW d \in Copy, NEW pc \in WorkerPC, WorkerTo(d, pc)
      PROVE  worker' \in WorkerType
  <2>1. [worker EXCEPT !.c = d, !.pc = pc] \in WorkerType
    BY DEF TypeOK, WorkerType
  <2> QED
    BY <1>2, <2>1, IdleTypes DEF WorkerTo
<1>3. Stored(worker.id, c) \in Copy
  BY <1>1, StoredType
<1>4. CASE CanSave(worker.id, c)
  BY <1>1, <1>2, <1>3, <1>4, SaveType DEF WorkerSave, TableTyped
<1>5. CASE ~CanSave(worker.id, c)
  BY <1>2, <1>5 DEF WorkerSave, TableTyped, TypeOK, KeepTable
<1> QED
  BY <1>4, <1>5

LEMMA InitType == Init => TypeOK
<1> SUFFICES ASSUME Init PROVE TypeOK
  OBVIOUS
<1>1. born \subseteq Cmds /\ present \subseteq Cmds
  BY ConstantsAssumption DEF Init, Cmds, ConstantsAssumption
<1>2. queue \in Seq(Job)
  BY DEF Init
<1>3. rows \in [Cmds -> Row] /\ tree \in [{KeyOf[id] : id \in Cmds} -> BOOLEAN]
  BY BlankRow DEF Init
<1> QED
  BY <1>1, <1>2, <1>3, IdleTypes DEF Init, TypeOK

\* The rest of the state in a handler step.
LEMMA KeepOthersType ==
  ASSUME TypeOK, KeepOthers, TableTyped, handlers' \in [Handlers -> HandlerType],
         queue' \in Seq(Job), tree' \in [{KeyOf[id] : id \in Cmds} -> BOOLEAN]
  PROVE  TypeOK'
  BY DEF TypeOK, KeepOthers, TableTyped

LEMMA RequestType == ASSUME TypeOK, NEW h \in Handlers, Request(h) PROVE TypeOK'
<1>1. PICK op \in Ops, id \in Cmds, p \in Params :
        /\ born' = IF op \in Creates THEN born \cup {id} ELSE born
        /\ handlers' = [handlers EXCEPT ![h] =
             [pc |-> "load", op |-> op, id |-> id, params |-> p, c |-> Blank]]
  BY Zenon DEF Request
<1>2. handlers' \in [Handlers -> HandlerType] /\ born' \subseteq Cmds
  BY <1>1, BlankRow DEF TypeOK, HandlerType, HandlerPC
<1> QED
  BY <1>2 DEF Request, TypeOK

LEMMA HandlerStepType == ASSUME TypeOK, NEW h \in Handlers, HandlerStep(h) PROVE TypeOK'
<1> DEFINE id == handlers[h].id
           c == handlers[h].c
<1>1. id \in Cmds /\ c \in Copy /\ handlers[h].params \in Params /\ Loaded(id) \in Copy
  BY LoadedType DEF TypeOK, HandlerType
<1>2. {"load", "write", "restart", "enqueue", "add", "delete", "returned", "threw"} \subseteq HandlerPC
  BY DEF HandlerPC
<1>3. ASSUME NEW d \in Copy, NEW pc \in HandlerPC, UNCHANGED <<queue, tree>>, KeepOthers,
             SaveAndGoto(h, d, pc) \/ SaveAndEmit(h, d, pc) \/ Throw(h) \/ (Goto(h, pc) /\ KeepTable)
      PROVE  TypeOK'
  BY <1>3, SaveAndGotoType, KeepOthersType DEF TypeOK
<1>4. CASE Load(h)
  BY <1>1, <1>2, <1>3, <1>4, HoldType, KeepOthersType DEF Load, KeepTable, TypeOK, TableTyped
<1>5. CASE CheckExists(h)
  BY <1>1, <1>2, <1>3, <1>5, HoldType, KeepOthersType, BlankRow
  DEF CheckExists, KeepTable, TypeOK, TableTyped
<1>6. CASE Create(h)
  BY <1>1, <1>2, <1>3, <1>6 DEF Create
<1>7. CASE Update(h)
  <2>1. [c EXCEPT !.params = handlers[h].params] \in Copy
    BY <1>1 DEF Copy
  <2> QED
    BY <1>1, <1>2, <1>3, <1>7, <2>1 DEF Update
<1>8. CASE Restart(h)
  <2>1. Restarted(c) \in Copy
    BY <1>1 DEF Copy, Restarted, Status, RunStatus
  <2> QED
    BY <1>2, <1>3, <1>8, <2>1 DEF Restart
<1>9. CASE Resume(h)
  BY <1>1, <1>2, <1>3, <1>9 DEF Resume
<1>10. CASE Enqueue(h)
  <2>1. [c EXCEPT !.status = "Queued"] \in Copy
    BY <1>1 DEF Copy, Status
  <2> QED
    BY <1>2, <1>3, <1>10, <2>1 DEF Enqueue
<1>11. CASE AddJob(h)
  <2>1. queue' \in Seq(Job)
    BY <1>1, <1>11 DEF AddJob, TypeOK, Job
  <2> QED
    BY <1>1, <1>2, <1>11, <2>1, SaveAndGotoType, KeepOthersType DEF AddJob, TypeOK
<1>12. CASE Stop(h)
  <2>1. [c EXCEPT !.status = "Pending"] \in Copy
    BY <1>1 DEF Copy, Status
  <2> QED
    BY <1>2, <1>3, <1>12, <2>1 DEF Stop
<1>13. CASE RemoveFiles(h)
  <2>1. tree' \in [{KeyOf[d] : d \in Cmds} -> BOOLEAN]
    BY <1>13 DEF RemoveFiles, TypeOK
  <2>2. KeepTable /\ (Goto(h, "delete") \/ Goto(h, "threw")) /\ UNCHANGED queue /\ KeepOthers
    BY <1>13 DEF RemoveFiles
  <2> QED
    BY <1>1, <1>2, <2>1, <2>2, SaveAndGotoType, KeepOthersType DEF TypeOK
<1>14. CASE RemoveRow(h)
  <2>1. handlers' \in [Handlers -> HandlerType]
    BY <1>1, <1>2, <1>14, HoldType DEF RemoveRow, Goto
  <2>2. TableTyped
    BY <1>1, <1>14, BlankRow DEF RemoveRow, TableTyped, TypeOK
  <2> QED
    BY <1>14, <2>1, <2>2, KeepOthersType DEF RemoveRow, TypeOK
<1>15. CASE Lock(h)
  <2>1. [c EXCEPT !.locked = TRUE] \in Copy
    BY <1>1 DEF Copy
  <2> QED
    BY <1>2, <1>3, <1>15, <2>1 DEF Lock
<1>16. CASE Unlock(h)
  <2>1. [c EXCEPT !.locked = FALSE] \in Copy
    BY <1>1 DEF Copy
  <2> QED
    BY <1>2, <1>3, <1>16, <2>1 DEF Unlock
<1> QED
  BY <1>4, <1>5, <1>6, <1>7, <1>8, <1>9, <1>10, <1>11, <1>12, <1>13, <1>14, <1>15, <1>16
  DEF HandlerStep

\* The rest of the state in a step of the worker.
LEMMA KeepRequestsType ==
  ASSUME TypeOK, KeepRequests, TableTyped, worker' \in WorkerType,
         queue' \in Seq(Job), tree' \in [{KeyOf[id] : id \in Cmds} -> BOOLEAN]
  PROVE  TypeOK'
  BY DEF TypeOK, KeepRequests, TableTyped

\* What stage the worker comes to, and the copy after it.
LEMMA StageType ==
  ASSUME TypeOK
  PROVE  /\ StageToDo \in RunStatus \cup {"ArchivedUnchanged"}
         /\ \A changes \in BOOLEAN : AfterStage(StageToDo, changes) \in Copy
<1>1. worker.c \in Copy /\ worker.c.runStatus \in RunStatus
  BY DEF TypeOK, WorkerType, Copy
<1>2. NextRunStatus[worker.c.runStatus] \in RunStatus
  BY <1>1, NextRunStatusType
<1>3. StageToDo \in RunStatus \cup {"ArchivedUnchanged"}
  BY <1>2 DEF StageToDo, RunStatus, EarlyStages
<1>4. ASSUME NEW changes \in BOOLEAN
      PROVE  AfterStage(StageToDo, changes) \in Copy
  <2>1. CASE StageToDo = "ChangesCommited"
    BY <1>1, <2>1 DEF AfterStage, Copy, RunStatus, EarlyStages
  <2>2. CASE StageToDo = "GetCommitId"
    BY <1>1, <2>2 DEF AfterStage, Copy, RunStatus, LateStages
  <2>3. CASE StageToDo = "ArchivedUnchanged"
    BY <1>1, <2>3 DEF AfterStage, Copy, RunStatus, LateStages
  <2>4. CASE StageToDo \in RunStatus \ {"ChangesCommited", "GetCommitId"}
    <3>1. StageToDo # "ArchivedUnchanged"
      BY <2>4 DEF RunStatus, EarlyStages, LateStages
    <3>2. AfterStage(StageToDo, changes) = [worker.c EXCEPT !.runStatus = StageToDo]
      BY <2>4, <3>1 DEF AfterStage
    <3> QED
      BY <1>1, <2>4, <3>2 DEF Copy
  <2> QED
    BY <1>3, <2>1, <2>2, <2>3, <2>4
<1> QED
  BY <1>3, <1>4

LEMMA WorkerStepType == ASSUME TypeOK, WorkerStep PROVE TypeOK'
<1>1. worker \in WorkerType /\ worker.c \in Copy /\ worker.id \in Cmds
  BY DEF TypeOK, WorkerType
<1>2. {"idle", "start", "prepare", "stage", "save", "succeed", "fail"} \subseteq WorkerPC
  BY DEF WorkerPC
<1>3. ASSUME NEW c \in Copy, NEW next \in WorkerPC, NEW onThrow \in WorkerPC,
             WorkerSave(c, next, onThrow), UNCHANGED <<queue, tree>>, KeepRequests
      PROVE  TypeOK'
  BY <1>3, WorkerSaveType, KeepRequestsType DEF TypeOK
<1>4. ASSUME KeepTable
      PROVE  TableTyped
  BY <1>4 DEF KeepTable, TableTyped, TypeOK
<1>5. CASE Take
  <2>1. Head(queue) \in Job /\ queue' \in Seq(Job)
    BY <1>5 DEF Take, TypeOK
  <2>2. [Head(queue).c EXCEPT !.status = "Running"] \in Copy /\ Head(queue).id \in Cmds
    BY <2>1 DEF Job, Copy, Status
  <2>3. worker' \in WorkerType
    BY <1>2, <1>5, <2>2, IdleTypes DEF Take, WorkerType
  <2> QED
    BY <1>4, <1>5, <2>1, <2>3, KeepRequestsType DEF Take, TypeOK
<1>6. CASE Start
  BY <1>1, <1>2, <1>3, <1>6 DEF Start
<1>7. CASE Prepare
  <2>1. [worker EXCEPT !.pc = "stage"] \in WorkerType
    BY <1>1, <1>2 DEF WorkerType
  <2>2. tree' \in [{KeyOf[id] : id \in Cmds} -> BOOLEAN]
    BY <1>7 DEF Prepare, TypeOK
  <2> QED
    BY <1>4, <1>7, <2>1, <2>2, IdleTypes, KeepRequestsType DEF Prepare, TypeOK
<1>8. CASE Stage
  <2>1. PICK changes \in BOOLEAN :
          worker' = IF Cancelled THEN [worker EXCEPT !.pc = "succeed"]
                    ELSE [worker EXCEPT !.pc = "save", !.c = AfterStage(StageToDo, changes),
                            !.fresh = @ \/ StageToDo = "CheckedOut",
                            !.tail = @ \/ StageToDo = "ArchivedUnchanged"]
    BY <1>8 DEF Stage
  <2>2. AfterStage(StageToDo, changes) \in Copy
    BY StageType
  <2>3. worker' \in WorkerType
    BY <1>1, <1>2, <2>1, <2>2 DEF WorkerType
  <2>4. tree' \in [{KeyOf[id] : id \in Cmds} -> BOOLEAN]
    BY <1>8 DEF Stage, TypeOK
  <2> QED
    BY <1>4, <1>8, <2>3, <2>4, KeepRequestsType DEF Stage, TypeOK
<1>9. CASE StageFails
  <2>1. worker' \in WorkerType
    BY <1>1, <1>2, <1>9 DEF StageFails, WorkerType
  <2>2. tree' \in [{KeyOf[id] : id \in Cmds} -> BOOLEAN]
    BY <1>9 DEF StageFails, TypeOK
  <2> QED
    BY <1>4, <1>9, <2>1, <2>2, KeepRequestsType DEF StageFails, TypeOK
<1>10. CASE SaveStage
  BY <1>1, <1>2, <1>3, <1>10 DEF SaveStage
<1>11. CASE Succeed
  <2>1. [worker.c EXCEPT !.status = "Succeeded"] \in Copy
    BY <1>1 DEF Copy, Status
  <2> QED
    BY <1>2, <1>3, <1>11, <2>1 DEF Succeed
<1>12. CASE Fail
  <2>1. [worker.c EXCEPT !.status = "Failed"] \in Copy
    BY <1>1 DEF Copy, Status
  <2> QED
    BY <1>2, <1>3, <1>12, <2>1 DEF Fail
<1> QED
  BY <1>5, <1>6, <1>7, <1>8, <1>9, <1>10, <1>11, <1>12 DEF WorkerStep

LEMMA LoseMemoryType ==
  ASSUME LoseMemory
  PROVE  /\ handlers' \in [Handlers -> HandlerType] /\ queue' \in Seq(Job)
         /\ worker' \in WorkerType /\ boot' \in BootType
  BY IdleTypes DEF LoseMemory

LEMMA BootStepType == ASSUME TypeOK, BootStep PROVE TypeOK'
<1>1. boot \in BootType /\ boot.failing \subseteq Job
  BY DEF TypeOK, BootType
<1>2. CASE ListRunning
  <2>1. boot' \in BootType
    BY <1>2, LoadedType DEF ListRunning, TypeOK, BootType, Job
  <2> QED
    BY <1>2, <2>1 DEF ListRunning, TypeOK, KeepTable, KeepBusy
<1>3. CASE FailInterrupted
  <2>1. PICK job \in boot.failing :
          /\ Save(job.id, Marked(job))
          /\ boot' = [boot EXCEPT !.failing = @ \ {job}]
    BY <1>3 DEF FailInterrupted
  <2>2. job.id \in Cmds /\ Marked(job) \in Copy
    BY <1>1 DEF Marked, Job, Copy, Status
  <2>3. boot' \in BootType
    BY <1>1, <2>1 DEF BootType
  <2> QED
    BY <1>3, <2>1, <2>2, <2>3, SaveType DEF FailInterrupted, TypeOK, KeepBusy
<1>4. CASE ListQueued
  <2>1. PICK n \in 0 .. NumCmds : \E order \in [1 .. n -> Waiting] :
          queue' = queue \o [i \in 1 .. n |-> [id |-> order[i], c |-> Loaded(order[i])]]
    BY <1>4 DEF ListQueued
  <2>2. PICK order \in [1 .. n -> Waiting] :
          queue' = queue \o [i \in 1 .. n |-> [id |-> order[i], c |-> Loaded(order[i])]]
    BY <2>1
  <2>3. [i \in 1 .. n |-> [id |-> order[i], c |-> Loaded(order[i])]] \in Seq(Job)
    BY RequeuedType
  <2>4. queue' \in Seq(Job)
    BY <2>2, <2>3 DEF TypeOK
  <2> QED
    BY <1>1, <1>4, <2>4 DEF ListQueued, TypeOK, BootType, KeepTable, KeepBusy
<1> QED
  BY <1>2, <1>3, <1>4 DEF BootStep

LEMMA CrashType ==
  ASSUME TypeOK, Crash \/ Unhandled, TableTyped
  PROVE  TypeOK'
<1>1. LoseMemory
  BY DEF Crash, Unhandled
<1> QED
  BY <1>1, LoseMemoryType DEF Crash, Unhandled, TypeOK, TableTyped

LEMMA RespondType == ASSUME TypeOK, NEW h \in Handlers, Respond(h), TableTyped PROVE TypeOK'
  BY IdleTypes DEF Respond, TypeOK, KeepOthers, TableTyped

LEMMA NextType == TypeOK /\ [Next]_vars => TypeOK'
<1> SUFFICES ASSUME TypeOK, [Next]_vars PROVE TypeOK'
  OBVIOUS
<1>1. CASE UNCHANGED vars
  BY <1>1 DEF vars, TypeOK
<1>2. CASE \E job \in boot.failing : Unhandled /\ Save(job.id, Marked(job))
  <2>1. PICK job \in boot.failing : Save(job.id, Marked(job))
    BY <1>2
  <2>2. job.id \in Cmds /\ Marked(job) \in Copy
    BY DEF TypeOK, BootType, Marked, Job, Copy, Status
  <2> QED
    BY <1>2, <2>1, <2>2, SaveType, CrashType DEF TableTyped
<1>3. CASE Crash /\ KeepTable
  BY <1>3, CrashType DEF TypeOK, TableTyped, KeepTable
<1>4. ASSUME NEW h \in Handlers, Respond(h), KeepTable
      PROVE  TypeOK'
  BY <1>4, RespondType DEF TypeOK, TableTyped, KeepTable
<1> QED
  BY <1>1, <1>2, <1>3, <1>4, RequestType, HandlerStepType, WorkerStepType, BootStepType
  DEF Next

\* Every variable keeps its type: a status stays a status and a run status a
\* run status through every handler, the worker, initCheck and a crash.
THEOREM TypeCorrect == Spec => []TypeOK
<1> QED
  BY InitType, NextType, PTL DEF Spec

-----------------------------------------------------------------------------
(* The inductive invariant.                                                *)

LEMMA NewCopy == CopyInv(Blank) /\ \A p \in Params : CopyInv(NewRow(p))
  BY DEF CopyInv, Complete, Blank, NewRow

LEMMA InitInv == Init => IInv
<1> SUFFICES ASSUME Init PROVE IInv
  OBVIOUS
<1>1. HandlersInv
  BY NewCopy DEF Init, HandlersInv, IdleHandler
<1>2. WorkerInv /\ TreeInv
  BY NewCopy DEF Init, WorkerInv, TreeInv, IdleWorker
<1>3. QueueInv
  BY DEF Init, QueueInv
<1>4. \A id \in Cmds : CopyInv(rows[id])
  BY NewCopy DEF Init
<1>5. \A job \in boot.failing : CopyInv(job.c)
  BY DEF Init, Booting
<1> QED
  BY <1>1, <1>2, <1>3, <1>4, <1>5, InitType DEF IInv

RowsInv == \A id \in Cmds : CopyInv(rows[id])

LEMMA StoredInv ==
  ASSUME NEW id \in Cmds, NEW c \in Copy
  PROVE  /\ Stored(id, c).status = c.status /\ Stored(id, c).runStatus = c.runStatus
         /\ Stored(id, c).hasChanges = c.hasChanges
         /\ CopyInv(Stored(id, c)) <=> CopyInv(c)
<1>1. /\ Stored(id, c).status = c.status /\ Stored(id, c).runStatus = c.runStatus
      /\ Stored(id, c).hasChanges = c.hasChanges /\ Stored(id, c).commit = c.commit
  BY DEF Stored, Copy
<1> QED
  BY <1>1 DEF CopyInv, Complete

LEMMA LoadedInv ==
  ASSUME rows \in [Cmds -> Row], NEW id \in Cmds, CopyInv(rows[id])
  PROVE  CopyInv(Loaded(id))
<1>1. /\ Loaded(id).status = rows[id].status /\ Loaded(id).runStatus = rows[id].runStatus
      /\ Loaded(id).hasChanges = rows[id].hasChanges /\ Loaded(id).commit = rows[id].commit
  BY DEF Loaded, Row, Copy
<1> QED
  BY <1>1 DEF CopyInv, Complete

LEMMA SaveInv ==
  ASSUME TypeOK, RowsInv, NEW id \in Cmds, NEW c \in Copy, CopyInv(c), Save(id, c)
  PROVE  RowsInv'
<1> SUFFICES ASSUME NEW d \in Cmds PROVE CopyInv(rows'[d])
  BY DEF RowsInv, CopyInv, Complete
<1>1. rows'[d] = IF d = id THEN Stored(id, c) ELSE rows[d]
  BY DEF Save, TypeOK
<1> QED
  BY <1>1, StoredInv DEF RowsInv

\* The copy a handler goes on with.
LEMMA HoldInv ==
  ASSUME TypeOK, HandlersInv, NEW h \in Handlers, NEW c, CopyInv(c), NEW pc \in HandlerPC,
         pc = "add" => c.status = "Queued", Hold(h, c, pc)
  PROVE  HandlersInv'
<1> SUFFICES ASSUME NEW g \in Handlers
             PROVE  /\ CopyInv(handlers'[g].c)
                    /\ handlers'[g].pc = "add" => handlers'[g].c.status = "Queued"
  BY DEF HandlersInv, CopyInv, Complete
<1>1. CASE g # h
  BY <1>1 DEF Hold, HandlersInv, TypeOK
<1>2. CASE g = h /\ pc \in {"returned", "threw"}
  <2>1. handlers'[g] = [IdleHandler EXCEPT !.pc = pc]
    BY <1>2 DEF Hold, TypeOK
  <2>2. handlers'[g].c = Blank /\ handlers'[g].pc = pc
    BY <2>1, IdleTypes DEF IdleHandler, HandlerType
  <2> QED
    BY <1>2, <2>2, NewCopy
<1>3. CASE g = h /\ pc \notin {"returned", "threw"}
  <2>1. handlers'[g] = [handlers[h] EXCEPT !.pc = pc, !.c = c]
    BY <1>3 DEF Hold, TypeOK
  <2>2. handlers'[g].c = c /\ handlers'[g].pc = pc
    BY <2>1 DEF TypeOK, HandlerType
  <2> QED
    BY <2>2
<1> QED
  BY <1>1, <1>2, <1>3

LEMMA SaveAndGotoInv ==
  ASSUME TypeOK, RowsInv, HandlersInv, NEW h \in Handlers, NEW c \in Copy, CopyInv(c),
         NEW pc \in HandlerPC, pc = "add" => c.status = "Queued",
         \/ SaveAndGoto(h, c, pc) \/ SaveAndEmit(h, c, pc) \/ Throw(h)
         \/ Goto(h, pc) /\ KeepTable /\ pc # "add"
  PROVE  RowsInv' /\ HandlersInv'
<1> DEFINE id == handlers[h].id
<1>1. id \in Cmds /\ CopyInv(handlers[h].c) /\ "threw" \in HandlerPC
  BY DEF TypeOK, HandlerType, HandlerPC, HandlersInv
<1>2. ASSUME NEW q \in HandlerPC, q # "add", Goto(h, q)
      PROVE  HandlersInv'
  BY <1>1, <1>2, HoldInv DEF Goto
<1>3. ASSUME KeepTable
      PROVE  RowsInv'
  BY <1>3 DEF KeepTable, RowsInv, CopyInv, Complete
<1>4. CASE Throw(h)
  BY <1>1, <1>2, <1>3, <1>4 DEF Throw
<1>5. CASE SaveAndGoto(h, c, pc)
  BY <1>1, <1>4, <1>5, SaveInv, HoldInv DEF SaveAndGoto
<1>6. CASE SaveAndEmit(h, c, pc)
  <2>1. CopyInv(Stored(id, c)) /\ Stored(id, c).status = c.status
    BY <1>1, StoredInv
  <2> QED
    BY <1>1, <1>2, <1>4, <1>6, <2>1, SaveInv, HoldInv DEF SaveAndEmit
<1>7. CASE Goto(h, pc) /\ KeepTable /\ pc # "add"
  BY <1>2, <1>3, <1>7
<1> QED
  BY <1>4, <1>5, <1>6, <1>7

\* The part of the invariant about everything but the table and the handlers.
RestInv == QueueInv /\ WorkerInv /\ TreeInv /\ \A job \in boot.failing : CopyInv(job.c)

LEMMA KeepOthersInv ==
  ASSUME RestInv, KeepOthers, UNCHANGED <<queue, tree>>
  PROVE  RestInv'
<1>1. QueueInv'
  BY DEF RestInv, QueueInv, CopyInv, Complete
<1>2. WorkerInv' /\ TreeInv'
  BY DEF RestInv, WorkerInv, TreeInv, KeepOthers, CopyInv, Complete
<1>3. (\A job \in boot.failing : CopyInv(job.c))'
  BY DEF RestInv, KeepOthers, CopyInv, Complete
<1> QED
  BY <1>1, <1>2, <1>3 DEF RestInv

LEMMA InvParts == IInv <=> TypeOK /\ RowsInv /\ HandlersInv /\ RestInv
  BY DEF IInv, RowsInv, RestInv

LEMMA HandlerStepInv ==
  ASSUME TypeOK, RowsInv, HandlersInv, RestInv, NEW h \in Handlers, HandlerStep(h)
  PROVE  RowsInv' /\ HandlersInv' /\ RestInv'
<1> DEFINE id == handlers[h].id
           c == handlers[h].c
<1>1. id \in Cmds /\ c \in Copy /\ CopyInv(c) /\ handlers[h].params \in Params
  BY DEF TypeOK, HandlerType, HandlersInv
<1>2. {"load", "write", "restart", "enqueue", "add", "delete", "returned", "threw"} \subseteq HandlerPC
  BY DEF HandlerPC
<1>3. ASSUME NEW d \in Copy, CopyInv(d), NEW pc \in HandlerPC, pc = "add" => d.status = "Queued",
             UNCHANGED <<queue, tree>>, KeepOthers,
             \/ SaveAndGoto(h, d, pc) \/ SaveAndEmit(h, d, pc) \/ Throw(h)
             \/ Goto(h, pc) /\ KeepTable /\ pc # "add"
      PROVE  RowsInv' /\ HandlersInv' /\ RestInv'
  BY <1>3, SaveAndGotoInv, KeepOthersInv
<1>4. ASSUME KeepTable
      PROVE  RowsInv'
  BY <1>4 DEF KeepTable, RowsInv, CopyInv, Complete
<1>5. CASE Load(h)
  <2>1. CopyInv(Loaded(id))
    BY <1>1, LoadedInv DEF TypeOK, RowsInv
  <2> QED
    BY <1>1, <1>2, <1>3, <1>4, <1>5, <2>1, HoldInv, KeepOthersInv DEF Load
<1>6. CASE CheckExists(h)
  BY <1>1, <1>2, <1>3, <1>4, <1>6, HoldInv, KeepOthersInv, NewCopy DEF CheckExists
<1>7. CASE Create(h)
  BY <1>1, <1>2, <1>3, <1>7 DEF Create
<1>8. CASE Update(h)
  <2> DEFINE d == [c EXCEPT !.params = handlers[h].params]
  <2>1. d \in Copy /\ CopyInv(d)
    BY <1>1 DEF Copy, CopyInv, Complete
  <2> QED
    BY <1>1, <1>2, <1>3, <1>8, <2>1 DEF Update
<1>9. CASE Restart(h)
  <2>1. Restarted(c) \in Copy /\ CopyInv(Restarted(c))
    BY <1>1 DEF Copy, Status, RunStatus, Restarted, CopyInv, Complete
  <2> QED
    BY <1>2, <1>3, <1>9, <2>1 DEF Restart
<1>10. CASE Resume(h)
  BY <1>1, <1>2, <1>3, <1>10 DEF Resume
<1>11. CASE Enqueue(h)
  <2> DEFINE d == [c EXCEPT !.status = "Queued"]
  <2>1. d \in Copy /\ CopyInv(d) /\ d.status = "Queued"
    BY <1>1 DEF Copy, Status, CopyInv, Complete
  <2> QED
    BY <1>2, <1>3, <1>11, <2>1 DEF Enqueue
<1>12. CASE AddJob(h)
  <2>1. QueueInv'
    <3>1. c.status = "Queued"
      BY <1>12 DEF AddJob, HandlersInv
    <3>2. queue' = Append(queue, [id |-> id, c |-> c]) /\ queue \in Seq(Job)
      BY <1>12 DEF AddJob, TypeOK
    <3>3. ASSUME NEW i \in DOMAIN queue'
          PROVE  queue'[i].c = c \/ (i \in DOMAIN queue /\ queue'[i] = queue[i])
      BY <3>2, <3>3
    <3> QED
      BY <1>1, <3>1, <3>3 DEF RestInv, QueueInv, CopyInv, Complete
  <2>2. (WorkerInv /\ TreeInv /\ \A job \in boot.failing : CopyInv(job.c))'
    BY <1>12 DEF AddJob, KeepOthers, RestInv, WorkerInv, TreeInv, CopyInv, Complete
  <2> QED
    BY <1>1, <1>2, <1>4, <1>12, <2>1, <2>2, HoldInv DEF AddJob, Goto, RestInv
<1>13. CASE Stop(h)
  <2> DEFINE d == [c EXCEPT !.status = "Pending"]
  <2>1. d \in Copy /\ CopyInv(d)
    BY <1>1 DEF Copy, Status, CopyInv, Complete
  <2> QED
    BY <1>2, <1>3, <1>13, <2>1 DEF Stop
<1>14. CASE RemoveFiles(h)
  <2>1. \A k \in DOMAIN tree : tree'[k] => tree[k]
    BY <1>1, <1>14 DEF RemoveFiles, TypeOK
  <2>2. TreeInv'
    BY <1>14, <2>1 DEF RemoveFiles, KeepOthers, RestInv, TreeInv, TypeOK, WorkerType
  <2>3. QueueInv'
    BY <1>14 DEF RemoveFiles, RestInv, QueueInv, CopyInv, Complete
  <2>4. WorkerInv' /\ (\A job \in boot.failing : CopyInv(job.c))'
    BY <1>14 DEF RemoveFiles, KeepOthers, RestInv, WorkerInv, CopyInv, Complete
  <2> QED
    BY <1>1, <1>2, <1>4, <1>14, <2>2, <2>3, <2>4, HoldInv DEF RemoveFiles, Goto, RestInv
<1>15. CASE RemoveRow(h)
  <2>1. RowsInv'
    <3>1. \A d \in Cmds : rows'[d] = Blank \/ rows'[d] = rows[d]
      BY <1>15 DEF RemoveRow, TypeOK
    <3> QED
      BY <3>1, NewCopy DEF RowsInv, CopyInv, Complete
  <2> QED
    BY <1>1, <1>2, <1>15, <2>1, HoldInv, KeepOthersInv DEF RemoveRow, Goto
<1>16. CASE Lock(h)
  <2> DEFINE d == [c EXCEPT !.locked = TRUE]
  <2>1. d \in Copy /\ CopyInv(d)
    BY <1>1 DEF Copy, CopyInv, Complete
  <2> QED
    BY <1>2, <1>3, <1>16, <2>1 DEF Lock
<1>17. CASE Unlock(h)
  <2> DEFINE d == [c EXCEPT !.locked = FALSE]
  <2>1. d \in Copy /\ CopyInv(d)
    BY <1>1 DEF Copy, CopyInv, Complete
  <2> QED
    BY <1>2, <1>3, <1>17, <2>1 DEF Unlock
<1> QED
  BY <1>5, <1>6, <1>7, <1>8, <1>9, <1>10, <1>11, <1>12, <1>13, <1>14, <1>15, <1>16, <1>17
  DEF HandlerStep
\* What a request or a step of the worker leaves alone.
LEMMA KeepQueueInv == ASSUME QueueInv, UNCHANGED queue PROVE QueueInv'
  BY DEF QueueInv, CopyInv, Complete

LEMMA KeepRequestsInv ==
  ASSUME HandlersInv, RestInv, KeepRequests
  PROVE  HandlersInv' /\ (\A job \in boot.failing : CopyInv(job.c))'
  BY DEF HandlersInv, RestInv, KeepRequests, CopyInv, Complete

LEMMA RequestInv ==
  ASSUME TypeOK, RowsInv, HandlersInv, RestInv, NEW h \in Handlers, Request(h)
  PROVE  RowsInv' /\ HandlersInv' /\ RestInv'
<1>1. PICK op \in Ops, id \in Cmds, p \in Params :
        handlers' = [handlers EXCEPT ![h] =
             [pc |-> "load", op |-> op, id |-> id, params |-> p, c |-> Blank]]
  BY Zenon DEF Request
<1>2. HandlersInv'
  BY <1>1, NewCopy DEF HandlersInv, TypeOK, CopyInv, Complete
<1>3. RowsInv' /\ QueueInv'
  BY KeepQueueInv DEF Request, RowsInv, RestInv, CopyInv, Complete
<1>4. WorkerInv' /\ TreeInv' /\ (\A job \in boot.failing : CopyInv(job.c))'
  BY DEF Request, RestInv, WorkerInv, TreeInv, CopyInv, Complete
<1> QED
  BY <1>2, <1>3, <1>4 DEF RestInv

LEMMA RespondInv ==
  ASSUME TypeOK, HandlersInv, RestInv, NEW h \in Handlers, Respond(h)
  PROVE  HandlersInv' /\ RestInv'
<1>1. HandlersInv'
  BY NewCopy DEF Respond, HandlersInv, TypeOK, IdleHandler, CopyInv, Complete
<1> QED
  BY <1>1, KeepOthersInv DEF Respond

\* The worker after a save: the copy it saved is the copy it keeps.
LEMMA WorkerSaveInv ==
  ASSUME TypeOK, RowsInv, HandlersInv, RestInv, NEW c \in Copy, CopyInv(c),
         worker.tail => ~c.hasChanges,
         NEW next \in WorkerPC, NEW onThrow \in WorkerPC,
         \A pc \in {next, onThrow} :
           /\ pc \in {"start", "prepare", "stage", "save", "succeed"} => c.status = "Running"
           /\ pc = "succeed" => c.runStatus = "End"
           /\ pc # "save" /\ (pc = "stage" => worker.pc = "save"),
         WorkerSave(c, next, onThrow), UNCHANGED <<queue, tree>>, KeepRequests
  PROVE  RowsInv' /\ HandlersInv' /\ RestInv'
<1>1. worker \in WorkerType /\ worker.id \in Cmds
  BY DEF TypeOK, WorkerType
<1>2. RowsInv'
  <2>1. CASE Save(worker.id, c)
    BY <1>1, <2>1, SaveInv
  <2>2. CASE KeepTable
    BY <2>2 DEF KeepTable, RowsInv, CopyInv, Complete
  <2> QED
    BY <2>1, <2>2 DEF WorkerSave
<1>3. PICK pc \in {next, onThrow} : WorkerTo(c, pc) \/ WorkerTo(Stored(worker.id, c), pc)
  BY DEF WorkerSave
<1>5. PICK d \in {c, Stored(worker.id, c)} : WorkerTo(d, pc)
  BY <1>3
<1>6. /\ CopyInv(d) /\ d.status = c.status /\ d.runStatus = c.runStatus
      /\ d.hasChanges = c.hasChanges
  BY <1>1, StoredInv
<1>4. WorkerInv' /\ TreeInv'
  <2>1. CASE pc = "idle"
    BY <1>5, <2>1, NewCopy DEF WorkerTo, IdleWorker, WorkerInv, TreeInv, CopyInv, Complete
  <2>2. CASE pc # "idle"
    <3>1. worker' = [worker EXCEPT !.c = d, !.pc = pc]
      BY <1>5, <2>2 DEF WorkerTo
    <3>2. /\ worker'.c = d /\ worker'.pc = pc /\ worker'.id = worker.id
          /\ worker'.fresh = worker.fresh /\ worker'.tail = worker.tail
      BY <1>1, <3>1 DEF WorkerType
    <3>3. WorkerInv'
      BY <1>6, <3>2 DEF WorkerInv, CopyInv, Complete
    <3>4. TreeInv'
      BY <3>2 DEF TreeInv, RestInv
    <3> QED
      BY <3>3, <3>4
  <2> QED
    BY <2>1, <2>2
<1> QED
  BY <1>2, <1>4, KeepQueueInv, KeepRequestsInv DEF RestInv

\* A step of the worker that saves nothing.
LEMMA WorkerOnlyInv ==
  ASSUME RowsInv, HandlersInv, RestInv, KeepTable, KeepRequests,
         QueueInv', WorkerInv', TreeInv'
  PROVE  RowsInv' /\ HandlersInv' /\ RestInv'
<1>1. RowsInv'
  BY DEF KeepTable, RowsInv, CopyInv, Complete
<1> QED
  BY <1>1, KeepRequestsInv DEF RestInv

\* The stage, in the terms of the copy: a run ends only after GetCommitId or
\* without changes, and only a commit changes hasChanges.
LEMMA StageInv ==
  ASSUME TypeOK, WorkerInv, worker.pc = "stage", NEW changes \in BOOLEAN,
         NEW d, d = AfterStage(StageToDo, changes)
  PROVE  /\ CopyInv(d) /\ d.status = "Running"
         /\ worker.tail \/ StageToDo = "ArchivedUnchanged" => ~d.hasChanges
         /\ StageToDo \in RunStatus => d.runStatus = StageToDo
         /\ StageToDo = "ArchivedUnchanged" => d.runStatus = "ChangesArchived"
<1> DEFINE c == worker.c
           stage == StageToDo
<1>1. c \in Copy /\ c.status = "Running" /\ CopyInv(c) /\ (worker.tail => ~c.hasChanges)
  BY DEF TypeOK, WorkerType, WorkerInv
<1>2. stage \in RunStatus \cup {"ArchivedUnchanged"}
  BY StageType
<1>3. stage = "ArchivedUnchanged" => ~c.hasChanges
  <2>1. NextRunStatus[c.runStatus] \in RunStatus
    BY <1>1, NextRunStatusType DEF Copy
  <2> QED
    BY <2>1 DEF StageToDo, RunStatus, EarlyStages, LateStages
<1>4. stage \in EarlyStages => ~worker.tail
  BY DEF StageToDo, EarlyStages
<1>5. stage = "End" => ~c.hasChanges \/ c.commit
  <2>1. CASE worker.tail
    BY <1>1, <2>1
  <2>2. CASE ~worker.tail /\ stage = "End"
    <3>1. NextRunStatus[c.runStatus] = "End" \/ ~c.hasChanges
      BY <2>2 DEF StageToDo, EarlyStages
    <3>2. c.runStatus \in RunStatus
      BY <1>1 DEF Copy
    <3>3. ~c.hasChanges \/ c.runStatus \in {"GetCommitId", "End"}
      BY <3>1, <3>2, EndIsLast
    <3> QED
      BY <1>1, <3>3 DEF CopyInv
  <2> QED
    BY <2>1, <2>2
<1>6. CASE stage = "ChangesCommited"
  <2>1. d = [c EXCEPT !.runStatus = stage, !.hasChanges = changes]
    BY <1>6 DEF AfterStage
  <2> QED
    BY <1>1, <1>4, <1>6, <2>1 DEF Copy, CopyInv, Complete, EarlyStages
<1>7. CASE stage = "GetCommitId"
  <2>1. d = [c EXCEPT !.runStatus = stage, !.commit = TRUE]
    BY <1>7 DEF AfterStage
  <2> QED
    BY <1>1, <1>7, <2>1 DEF Copy, CopyInv, Complete
<1>8. CASE stage = "ArchivedUnchanged"
  <2>1. d = [c EXCEPT !.runStatus = "ChangesArchived"]
    BY <1>8 DEF AfterStage
  <2> QED
    BY <1>1, <1>3, <1>8, <2>1 DEF Copy, CopyInv, Complete, RunStatus, EarlyStages, LateStages
<1>9. CASE stage \notin {"ChangesCommited", "GetCommitId", "ArchivedUnchanged"}
  <2>1. d = [c EXCEPT !.runStatus = stage]
    BY <1>9 DEF AfterStage
  <2>2. d.status = c.status /\ d.hasChanges = c.hasChanges /\ d.commit = c.commit /\ d.runStatus = stage
    BY <1>1, <2>1 DEF Copy
  <2> QED
    BY <1>1, <1>5, <1>9, <2>2 DEF CopyInv, Complete
<1> QED
  BY <1>6, <1>7, <1>8, <1>9

LEMMA WorkerStepInv ==
  ASSUME TypeOK, RowsInv, HandlersInv, RestInv, WorkerStep
  PROVE  RowsInv' /\ HandlersInv' /\ RestInv'
<1>1. worker \in WorkerType /\ worker.c \in Copy /\ worker.id \in Cmds /\ CopyInv(worker.c)
  BY DEF TypeOK, WorkerType, RestInv, WorkerInv
<1>2. {"idle", "start", "prepare", "stage", "save", "succeed", "fail"} \subseteq WorkerPC
  BY DEF WorkerPC
<1>3. QueueInv /\ WorkerInv /\ TreeInv
  BY DEF RestInv
<1>4. ASSUME worker' = IdleWorker
      PROVE  WorkerInv' /\ TreeInv'
  BY <1>4, NewCopy DEF IdleWorker, WorkerInv, TreeInv, CopyInv, Complete
<1>5. CASE Take
  <2>1. queue \in Seq(Job) /\ queue # <<>> /\ queue' = Tail(queue)
    BY <1>5 DEF Take, TypeOK
  <2>2. QueueInv'
    <3>1. \A i \in DOMAIN queue' : i + 1 \in DOMAIN queue /\ queue'[i] = queue[i + 1]
      BY <2>1
    <3> QED
      BY <1>3, <3>1 DEF QueueInv, CopyInv, Complete
  <2> DEFINE job == Head(queue)
             d == [job.c EXCEPT !.status = "Running"]
  <2>3. job = queue[1] /\ 1 \in DOMAIN queue /\ job \in Job
    BY <2>1
  <2>4. job.c \in Copy /\ CopyInv(job.c) /\ job.c.status = "Queued"
    BY <1>3, <2>3 DEF QueueInv, Job
  <2>5. d.status = "Running" /\ CopyInv(d)
    BY <2>4 DEF Copy, CopyInv, Complete
  <2>6. worker' = [pc |-> "start", id |-> job.id, fresh |-> FALSE, tail |-> FALSE, c |-> d]
    BY <1>5, <2>4 DEF Take
  <2>7. worker'.c = d /\ worker'.pc = "start" /\ worker'.tail = FALSE
    BY <2>6
  <2>8. WorkerInv' /\ TreeInv'
    BY <2>5, <2>7 DEF WorkerInv, TreeInv, CopyInv, Complete
  <2> QED
    BY <1>5, <2>2, <2>8, WorkerOnlyInv DEF Take
<1>6. CASE Start
  BY <1>1, <1>2, <1>3, <1>6, WorkerSaveInv DEF Start, WorkerInv
<1>7. CASE Prepare
  <2>1. QueueInv'
    BY <1>3, <1>7, KeepQueueInv DEF Prepare
  <2>2. WorkerInv' /\ TreeInv'
    <3>1. CASE worker' = IdleWorker
      BY <1>4, <3>1
    <3>2. CASE /\ tree' = [tree EXCEPT ![KeyOf[worker.id]] = FALSE]
               /\ worker' = [worker EXCEPT !.pc = "stage"]
      <4>1. ~tree'[KeyOf[worker.id]]
        BY <1>1, <3>2 DEF TypeOK
      <4>2. /\ worker'.pc = "stage" /\ worker'.c = worker.c /\ worker'.id = worker.id
            /\ worker'.tail = worker.tail
        BY <1>1, <3>2 DEF WorkerType
      <4> QED
        BY <1>3, <1>7, <4>1, <4>2 DEF Prepare, WorkerInv, TreeInv, CopyInv, Complete
    <3> QED
      BY <1>7, <3>1, <3>2 DEF Prepare
  <2> QED
    BY <1>7, <2>1, <2>2, WorkerOnlyInv DEF Prepare
<1>8. CASE Stage
  <2>1. PICK changes \in BOOLEAN :
          worker' = IF Cancelled THEN [worker EXCEPT !.pc = "succeed"]
                    ELSE [worker EXCEPT !.pc = "save", !.c = AfterStage(StageToDo, changes),
                            !.fresh = @ \/ StageToDo = "CheckedOut",
                            !.tail = @ \/ StageToDo = "ArchivedUnchanged"]
    BY <1>8 DEF Stage
  <2>2. worker.pc = "stage" /\ ~Cancelled
    BY <1>3, <1>8 DEF Stage, Cancelled, WorkerInv
  <2> DEFINE d == AfterStage(StageToDo, changes)
  <2>3. /\ worker'.pc = "save" /\ worker'.c = d /\ worker'.id = worker.id
        /\ worker'.fresh = (worker.fresh \/ StageToDo = "CheckedOut")
        /\ worker'.tail = (worker.tail \/ StageToDo = "ArchivedUnchanged")
    BY <1>1, <2>1, <2>2 DEF WorkerType
  <2>4. /\ CopyInv(d) /\ d.status = "Running"
        /\ worker.tail \/ StageToDo = "ArchivedUnchanged" => ~d.hasChanges
        /\ StageToDo \in RunStatus => d.runStatus = StageToDo
        /\ StageToDo = "ArchivedUnchanged" => d.runStatus = "ChangesArchived"
    BY <1>3, <2>2, StageInv
  <2>5. WorkerInv'
    BY <2>3, <2>4 DEF WorkerInv, CopyInv, Complete
  <2>6. TreeInv'
    <3>1. tree'[KeyOf[worker.id]] = (tree[KeyOf[worker.id]] \/ StageToDo = "CheckedOut")
      BY <1>1, <1>8, <2>2 DEF Stage, TypeOK
    <3>2. d.runStatus \in InCopy => StageToDo \in InCopy
      BY <2>4, StageType DEF InCopy
    <3>3. StageToDo \in InCopy => tree[KeyOf[worker.id]]
      BY <1>8 DEF Stage, Workable
    <3> QED
      BY <1>3, <2>2, <2>3, <3>1, <3>2, <3>3 DEF TreeInv
  <2>7. QueueInv'
    BY <1>3, <1>8, KeepQueueInv DEF Stage
  <2> QED
    BY <1>8, <2>5, <2>6, <2>7, WorkerOnlyInv DEF Stage
<1>9. CASE StageFails
  <2>1. /\ worker'.pc = "fail" /\ worker'.c = worker.c /\ worker'.tail = worker.tail
    BY <1>1, <1>9 DEF StageFails, WorkerType
  <2>2. WorkerInv' /\ TreeInv'
    BY <1>3, <2>1 DEF WorkerInv, TreeInv, CopyInv, Complete
  <2>3. QueueInv'
    BY <1>3, <1>9, KeepQueueInv DEF StageFails
  <2> QED
    BY <1>9, <2>2, <2>3, WorkerOnlyInv DEF StageFails
<1>10. CASE SaveStage
  BY <1>1, <1>2, <1>3, <1>10, WorkerSaveInv DEF SaveStage, WorkerInv
<1>11. CASE Succeed
  <2> DEFINE d == [worker.c EXCEPT !.status = "Succeeded"]
  <2>1. /\ d \in Copy /\ CopyInv(d) /\ d.hasChanges = worker.c.hasChanges
    BY <1>1, <1>3, <1>11 DEF Copy, Status, Succeed, WorkerInv, CopyInv, Complete
  <2> QED
    BY <1>2, <1>3, <1>11, <2>1, WorkerSaveInv DEF Succeed, WorkerInv
<1>12. CASE Fail
  <2> DEFINE d == [worker.c EXCEPT !.status = "Failed"]
  <2>1. d \in Copy /\ CopyInv(d) /\ d.hasChanges = worker.c.hasChanges
    BY <1>1 DEF Copy, Status, CopyInv, Complete
  <2> QED
    BY <1>2, <1>3, <1>12, <2>1, WorkerSaveInv DEF Fail, WorkerInv
<1> QED
  BY <1>5, <1>6, <1>7, <1>8, <1>9, <1>10, <1>11, <1>12 DEF WorkerStep

LEMMA LoseMemoryInv == ASSUME LoseMemory PROVE HandlersInv' /\ RestInv'
<1>1. HandlersInv'
  BY NewCopy DEF LoseMemory, HandlersInv, IdleHandler, CopyInv, Complete
<1>2. WorkerInv' /\ TreeInv'
  BY NewCopy DEF LoseMemory, IdleWorker, WorkerInv, TreeInv, CopyInv, Complete
<1>3. QueueInv' /\ (\A job \in boot.failing : CopyInv(job.c))'
  BY DEF LoseMemory, QueueInv, Booting
<1> QED
  BY <1>1, <1>2, <1>3 DEF RestInv

LEMMA BootStepInv ==
  ASSUME TypeOK, RowsInv, HandlersInv, RestInv, BootStep
  PROVE  RowsInv' /\ HandlersInv' /\ RestInv'
<1>1. ASSUME KeepBusy
      PROVE  HandlersInv' /\ WorkerInv' /\ TreeInv'
  BY <1>1 DEF KeepBusy, HandlersInv, RestInv, WorkerInv, TreeInv, CopyInv, Complete
<1>2. ASSUME KeepTable
      PROVE  RowsInv'
  BY <1>2 DEF KeepTable, RowsInv, CopyInv, Complete
<1>3. CASE ListRunning
  <2>1. \A job \in boot'.failing : CopyInv(job.c)
    BY <1>3, LoadedInv DEF ListRunning, RowsInv, TypeOK
  <2>2. (\A job \in boot.failing : CopyInv(job.c))'
    BY <2>1 DEF CopyInv, Complete
  <2> QED
    BY <1>1, <1>2, <1>3, <2>2, KeepQueueInv DEF ListRunning, RestInv
<1>4. CASE FailInterrupted
  <2>1. PICK job \in boot.failing :
          /\ Save(job.id, Marked(job))
          /\ boot' = [boot EXCEPT !.failing = @ \ {job}]
    BY <1>4 DEF FailInterrupted
  <2>2. job.id \in Cmds /\ job.c \in Copy /\ CopyInv(job.c)
    BY DEF TypeOK, BootType, Job, RestInv
  <2>3. Marked(job) \in Copy /\ CopyInv(Marked(job))
    BY <2>2 DEF Marked, Copy, Status, CopyInv, Complete
  <2>4. boot'.failing \subseteq boot.failing
    BY <2>1 DEF TypeOK, BootType
  <2>5. (\A j \in boot.failing : CopyInv(j.c))'
    BY <2>4 DEF RestInv, CopyInv, Complete
  <2> QED
    BY <1>1, <1>4, <2>1, <2>2, <2>3, <2>5, SaveInv, KeepQueueInv DEF FailInterrupted, RestInv
<1>5. CASE ListQueued
  <2>1. PICK n \in 0 .. NumCmds : \E order \in [1 .. n -> Waiting] :
          queue' = queue \o [i \in 1 .. n |-> [id |-> order[i], c |-> Loaded(order[i])]]
    BY <1>5 DEF ListQueued
  <2>2. PICK order \in [1 .. n -> Waiting] :
          queue' = queue \o [i \in 1 .. n |-> [id |-> order[i], c |-> Loaded(order[i])]]
    BY <2>1
  <2> DEFINE more == [i \in 1 .. n |-> [id |-> order[i], c |-> Loaded(order[i])]]
  <2>3. \A i \in 1 .. n : CopyInv(more[i].c) /\ more[i].c.status = "Queued"
    BY LoadedInv, LoadedType DEF Waiting, RowsInv, TypeOK
  <2>4. QueueInv'
    <3>1. queue \in Seq(Job) /\ more \in Seq(Job) /\ Len(more) = n
      BY RequeuedType DEF TypeOK
    <3>2. ASSUME NEW i \in DOMAIN queue'
          PROVE  \/ i \in DOMAIN queue /\ queue'[i] = queue[i]
                 \/ \E j \in 1 .. n : queue'[i] = more[j]
      <4> HIDE DEF more
      <4>1. queue' = queue \o more
        BY <2>2 DEF more
      <4>2. i \in 1 .. Len(queue) + n
        BY <3>1, <3>2, <4>1
      <4>3. CASE i <= Len(queue)
        BY <3>1, <4>1, <4>2, <4>3
      <4>4. CASE i > Len(queue)
        BY <3>1, <4>1, <4>2, <4>4
      <4> QED
        BY <3>1, <4>2, <4>3, <4>4
    <3> HIDE DEF more
    <3> QED
      BY <2>3, <3>2 DEF RestInv, QueueInv, CopyInv, Complete
  <2>5. (\A job \in boot.failing : CopyInv(job.c))'
    BY <1>5 DEF ListQueued, TypeOK, BootType, RestInv, CopyInv, Complete
  <2> QED
    BY <1>1, <1>2, <1>5, <2>4, <2>5 DEF ListQueued, RestInv
<1> QED
  BY <1>3, <1>4, <1>5 DEF BootStep

LEMMA CrashInv ==
  ASSUME Crash \/ Unhandled
  PROVE  HandlersInv' /\ RestInv'
  BY LoseMemoryInv DEF Crash, Unhandled

LEMMA NextInv == IInv /\ [Next]_vars => IInv'
<1> SUFFICES ASSUME IInv, [Next]_vars PROVE IInv'
  OBVIOUS
<1>1. TypeOK /\ RowsInv /\ HandlersInv /\ RestInv
  BY InvParts
<1>2. TypeOK'
  BY <1>1, NextType
<1>3. RowsInv' /\ HandlersInv' /\ RestInv'
  <2>1. CASE UNCHANGED vars
    BY <1>1, <2>1
    DEF vars, RowsInv, HandlersInv, RestInv, QueueInv, WorkerInv, TreeInv, CopyInv, Complete
  <2>2. CASE \E job \in boot.failing : Unhandled /\ Save(job.id, Marked(job))
    <3>1. PICK job \in boot.failing : Save(job.id, Marked(job))
      BY <2>2
    <3>2. job.id \in Cmds /\ job.c \in Copy /\ CopyInv(job.c)
      BY <1>1 DEF TypeOK, BootType, Job, RestInv
    <3>3. Marked(job) \in Copy /\ CopyInv(Marked(job))
      BY <3>2 DEF Marked, Copy, Status, CopyInv, Complete
    <3> QED
      BY <1>1, <2>2, <3>1, <3>2, <3>3, SaveInv, CrashInv
  <2>3. CASE Crash /\ KeepTable
    BY <1>1, <2>3, CrashInv DEF KeepTable, RowsInv, CopyInv, Complete
  <2>4. ASSUME NEW h \in Handlers, Respond(h), KeepTable
        PROVE  RowsInv' /\ HandlersInv' /\ RestInv'
    BY <1>1, <2>4, RespondInv DEF KeepTable, RowsInv, CopyInv, Complete
  <2> QED
    BY <1>1, <2>1, <2>2, <2>3, <2>4, RequestInv, HandlerStepInv, WorkerStepInv, BootStepInv
    DEF Next
<1> QED
  BY <1>2, <1>3 DEF IInv, RowsInv, RestInv

LEMMA Invariance == Spec => []IInv
<1> QED
  BY InitInv, NextInv, PTL DEF Spec

-----------------------------------------------------------------------------
(* What follows.                                                           *)

\* A row that says Succeeded has run to its End, and with changes it has the
\* id of their commit, however many stale copies are saved over one another.
THEOREM SucceededIsComplete == Spec => []SucceededMeansComplete
<1>1. IInv => SucceededMeansComplete
  BY DEF IInv, CopyInv, TypeOK, SucceededMeansComplete
<1> QED
  BY <1>1, Invariance, PTL

\* doRun works only in a checkout of the very run that is going on.
THEOREM FreshWork == Spec => []WorkIsFromThisRun
<1>1. IInv => WorkIsFromThisRun
  BY DEF IInv, TreeInv, WorkIsFromThisRun
<1> QED
  BY <1>1, Invariance, PTL

\* The tests of the status in execute() and doRun() never cancel anything.
THEOREM NeverCancelled == Spec => []CancelNeverFires
<1>1. IInv => CancelNeverFires
  BY DEF IInv, QueueInv, WorkerInv, CancelNeverFires
<1> QED
  BY <1>1, Invariance, PTL

-----------------------------------------------------------------------------
(* No command is left waiting or running for ever.                         *)

\* Of the rows that have a repository no two are of the same command. A copy
\* that has not read its repository is saved without the constraint being
\* asked, and cannot break it.
UniqueKeys ==
  \A d, e \in Cmds : HasRepo(d) /\ HasRepo(e) /\ KeyOf[d] = KeyOf[e] => d = e

\* The constraint will not refuse this copy.
Storable(id, c) == c.repo = "some" => HasRepo(id)

\* What of the copies decides which status a save may write.
StatusInv ==
  \A h \in Handlers :
    /\ handlers[h].op \in Creates /\ handlers[h].pc = "write" => handlers[h].c.status = "Pending"
    /\ handlers[h].pc = "restart" => handlers[h].c.status # "Running"

TableInv ==
  /\ UniqueKeys
  /\ StatusInv
  /\ \A job \in boot.failing : job.c.repo = "lazy"

\* The worker gives up before its try only on a row that it saved without a
\* repository.
PrepareInv ==
  worker.pc = "prepare" /\ HasRepo(worker.id) /\ rows[worker.id].status = "Running" => worker.c.repo = "some"

\* Who will see to a Queued row, with a copy that can be saved. That it
\* can is what makes this inductive: a job whose save is refused is dropped.
Waits(id) ==
  \/ \E i \in DOMAIN queue : queue[i].id = id /\ Storable(id, queue[i].c)
  \/ worker.pc = "start" /\ worker.id = id /\ Storable(id, worker.c)
  \/ \E h \in Handlers :
       /\ handlers[h].id = id /\ handlers[h].pc \in {"restart", "enqueue", "add"}
       /\ Storable(id, handlers[h].c)
  \/ boot.pc # "done"

QueuedInv == \A id \in present : rows[id].status = "Queued" => Waits(id)

-----------------------------------------------------------------------------
(* Saves and the constraint.                                               *)

LEMMA StorableCanSave ==
  ASSUME UniqueKeys, NEW id \in Cmds, NEW c \in Copy, Storable(id, c)
  PROVE  CanSave(id, c)
<1>1. Stored(id, c).repo = "some" => HasRepo(id)
  BY DEF Stored, Storable, Copy
<1> QED
  BY <1>1 DEF CanSave, KeyTaken, UniqueKeys

\* After a save the row is what Stored says, and the others are as they were.
LEMMA SavedRow ==
  ASSUME TypeOK, NEW id \in Cmds, NEW c \in Copy, Save(id, c)
  PROVE  /\ id \in present' /\ rows'[id] = Stored(id, c) /\ rows'[id].status = c.status
         /\ Storable(id, c)'
         /\ \A d \in Cmds \ {id} : /\ d \in present' <=> d \in present
                                   /\ rows'[d] = rows[d]
                                   /\ HasRepo(d)' <=> HasRepo(d)
<1>1. id \in present' /\ rows'[id] = Stored(id, c)
  BY DEF Save, TypeOK
<1>2. Stored(id, c).status = c.status /\ (c.repo = "some" => Stored(id, c).repo = "some")
  BY DEF Stored, Copy
<1>3. \A d \in Cmds \ {id} : (d \in present' <=> d \in present) /\ rows'[d] = rows[d]
  BY DEF Save, TypeOK
<1> QED
  BY <1>1, <1>2, <1>3 DEF Storable, HasRepo

LEMMA SaveKeepsUnique ==
  ASSUME TypeOK, UniqueKeys, NEW id \in Cmds, NEW c \in Copy, Save(id, c),
         CanSave(id, c) \/ c.repo = "lazy"
  PROVE  UniqueKeys'
<1> SUFFICES ASSUME NEW d \in Cmds, NEW e \in Cmds, HasRepo(d)', HasRepo(e)', KeyOf[d] = KeyOf[e], d # e
             PROVE  FALSE
  BY DEF UniqueKeys
<1>1. CanSave(id, c)
  BY StorableCanSave DEF Storable
<1>2. ASSUME NEW f \in Cmds \ {id}, HasRepo(id)', HasRepo(f)', KeyOf[f] = KeyOf[id]
      PROVE  FALSE
  <2>1. Stored(id, c).repo = "some" /\ HasRepo(f)
    BY <1>2, SavedRow DEF HasRepo
  <2> QED
    BY <1>1, <1>2, <2>1 DEF CanSave, KeyTaken
<1>3. CASE d # id /\ e # id
  BY <1>3, SavedRow DEF UniqueKeys
<1>4. CASE d = id \/ e = id
  BY <1>2, <1>4
<1> QED
  BY <1>3, <1>4

\* Whose save is refused had read its repository before the row was removed.
LEMMA RefusedHasNoRepo ==
  ASSUME UniqueKeys, NEW id \in Cmds, NEW c \in Copy, ~CanSave(id, c)
  PROVE  ~Storable(id, c) /\ ~HasRepo(id)
  BY StorableCanSave DEF Storable

-----------------------------------------------------------------------------
(* What a handler step does to the table and to the handlers.              *)

HandlerWrites(h, c) == CanSave(handlers[h].id, c) /\ Save(handlers[h].id, c)

LEMMA HoldShape ==
  ASSUME TypeOK, NEW h \in Handlers, NEW c, NEW pc, Hold(h, c, pc)
  PROVE  /\ handlers'[h].pc = pc
         /\ pc \notin {"returned", "threw"} =>
              /\ handlers'[h].id = handlers[h].id /\ handlers'[h].op = handlers[h].op
              /\ handlers'[h].c = c
         /\ \A g \in Handlers \ {h} : handlers'[g] = handlers[g]
<1>1. CASE pc \in {"returned", "threw"}
  <2>1. handlers'[h] = [IdleHandler EXCEPT !.pc = pc]
    BY <1>1 DEF Hold, TypeOK
  <2>2. handlers'[h].pc = pc
    BY <2>1, IdleTypes DEF HandlerType
  <2> QED
    BY <1>1, <2>2 DEF Hold, TypeOK
<1>2. CASE pc \notin {"returned", "threw"}
  <2>1. handlers'[h] = [handlers[h] EXCEPT !.pc = pc, !.c = c]
    BY <1>2 DEF Hold, TypeOK
  <2>2. /\ handlers'[h].pc = pc /\ handlers'[h].c = c
        /\ handlers'[h].id = handlers[h].id /\ handlers'[h].op = handlers[h].op
    BY <2>1 DEF TypeOK, HandlerType
  <2> QED
    BY <1>2, <2>2 DEF Hold, TypeOK
<1> QED
  BY <1>1, <1>2

LEMMA SaveShape ==
  ASSUME NEW h \in Handlers, NEW c, NEW pc,
         SaveAndGoto(h, c, pc) \/ SaveAndEmit(h, c, pc) \/ Throw(h)
  PROVE  KeepTable \/ HandlerWrites(h, c)
  BY DEF SaveAndGoto, SaveAndEmit, Throw, HandlerWrites

\* Only lock and unlock may write that a command runs.
LEMMA HandlerTable ==
  ASSUME TypeOK, StatusInv, NEW h \in Handlers, HandlerStep(h)
  PROVE  \/ KeepTable
         \/ \E c \in Copy :
              HandlerWrites(h, c) /\ (c.status = "Running" => handlers[h].op \in {"lock", "unlock"})
         \/ RemoveRow(h)
<1> DEFINE c == handlers[h].c
<1>1. c \in Copy /\ handlers[h].params \in Params
  BY DEF TypeOK, HandlerType
<1>2. CASE Create(h)
  BY <1>1, <1>2, SaveShape DEF Create, HandlerAt, StatusInv
<1>3. CASE Update(h)
  <2> DEFINE d == [c EXCEPT !.params = handlers[h].params]
  <2>1. d \in Copy /\ d.status = c.status
    BY <1>1 DEF Copy
  <2> QED
    BY <1>3, <2>1, SaveShape DEF Update, Throw
<1>4. CASE Restart(h)
  <2>1. Restarted(c) \in Copy /\ Restarted(c).status = "Pending"
    BY <1>1 DEF Copy, Status, RunStatus, Restarted
  <2> QED
    BY <1>4, <2>1, SaveShape DEF Restart, Throw
<1>5. CASE Enqueue(h)
  <2> DEFINE d == [c EXCEPT !.status = "Queued"]
  <2>1. d \in Copy /\ d.status = "Queued"
    BY <1>1 DEF Copy, Status
  <2> QED
    BY <1>5, <2>1, SaveShape DEF Enqueue
<1>6. CASE Stop(h)
  <2> DEFINE d == [c EXCEPT !.status = "Pending"]
  <2>1. d \in Copy /\ d.status = "Pending"
    BY <1>1 DEF Copy, Status
  <2> QED
    BY <1>6, <2>1, SaveShape DEF Stop
<1>7. CASE Lock(h)
  <2>1. [c EXCEPT !.locked = TRUE] \in Copy
    BY <1>1 DEF Copy
  <2> QED
    BY <1>7, <2>1, SaveShape DEF Lock, HandlerAt
<1>8. CASE Unlock(h)
  <2>1. [c EXCEPT !.locked = FALSE] \in Copy
    BY <1>1 DEF Copy
  <2> QED
    BY <1>8, <2>1, SaveShape DEF Unlock, HandlerAt
<1>9. CASE Load(h) \/ CheckExists(h) \/ Resume(h) \/ AddJob(h) \/ RemoveFiles(h)
  BY <1>9 DEF Load, CheckExists, Resume, AddJob, RemoveFiles, Throw
<1> QED
  BY <1>2, <1>3, <1>4, <1>5, <1>6, <1>7, <1>8, <1>9 DEF HandlerStep

\* The others stay where they are, and only three steps begin to wait.
LEMMA HandlerMoves ==
  ASSUME TypeOK, NEW h \in Handlers, HandlerStep(h)
  PROVE  /\ \A g \in Handlers \ {h} : handlers'[g] = handlers[g]
         /\ KeepOthers
<1> DEFINE id == handlers[h].id
<1>1. \A c, pc : Hold(h, c, pc) => \A g \in Handlers \ {h} : handlers'[g] = handlers[g]
  BY DEF Hold, TypeOK
<1>2. \A pc : Goto(h, pc) => \A g \in Handlers \ {h} : handlers'[g] = handlers[g]
  BY <1>1 DEF Goto
<1>3. \A c, pc : SaveAndGoto(h, c, pc) \/ SaveAndEmit(h, c, pc) \/ Throw(h) =>
        \A g \in Handlers \ {h} : handlers'[g] = handlers[g]
  BY <1>1, <1>2 DEF SaveAndGoto, SaveAndEmit, Throw
<1>4. CASE Load(h) \/ CheckExists(h) \/ Resume(h) \/ AddJob(h) \/ RemoveFiles(h) \/ RemoveRow(h)
  BY <1>1, <1>2, <1>3, <1>4 DEF Load, CheckExists, Resume, AddJob, RemoveFiles, RemoveRow
<1>5. CASE Create(h) \/ Update(h) \/ Restart(h)
  BY <1>3, <1>5 DEF Create, Update, Restart
<1>6. CASE Enqueue(h) \/ Stop(h) \/ Lock(h) \/ Unlock(h)
  BY <1>3, <1>6 DEF Enqueue, Stop, Lock, Unlock
<1> QED
  BY <1>4, <1>5, <1>6 DEF HandlerStep

LEMMA HandlerStatus ==
  ASSUME TypeOK, StatusInv, NEW h \in Handlers, HandlerStep(h)
  PROVE  StatusInv'
<1> DEFINE c == handlers[h].c
           Right ==
             /\ handlers'[h].op \in Creates /\ handlers'[h].pc = "write" => handlers'[h].c.status = "Pending"
             /\ handlers'[h].pc = "restart" => handlers'[h].c.status # "Running"
<1> SUFFICES Right
  BY HandlerMoves DEF StatusInv
<1>1. ASSUME NEW d, NEW pc, pc \notin {"write", "restart"}, Hold(h, d, pc)
      PROVE  Right
  BY <1>1, HoldShape
<1>2. ASSUME NEW pc, pc \notin {"write", "restart"}, Goto(h, pc)
      PROVE  Right
  BY <1>1, <1>2 DEF Goto
<1>3. ASSUME NEW d, NEW pc, pc \notin {"write", "restart"},
             SaveAndGoto(h, d, pc) \/ SaveAndEmit(h, d, pc) \/ Throw(h)
      PROVE  Right
  BY <1>1, <1>2, <1>3 DEF SaveAndGoto, SaveAndEmit, Throw
<1>4. CASE Load(h)
  <2>1. CASE Throw(h)
    BY <1>2, <2>1 DEF Throw
  <2>2. CASE ~Throw(h)
    BY <1>1, <1>4, <2>2, HoldShape DEF Load, Creates
  <2> QED
    BY <2>1, <2>2
<1>5. CASE CheckExists(h)
  <2>1. CASE Throw(h)
    BY <1>2, <2>1 DEF Throw
  <2>2. CASE ~Throw(h)
    <3>1. Hold(h, NewRow(handlers[h].params), "write")
      BY <1>5, <2>2 DEF CheckExists
    <3> QED
      BY <3>1, HoldShape DEF NewRow
  <2> QED
    BY <2>1, <2>2
<1>6. CASE Create(h)
  BY <1>2, <1>3, <1>6 DEF Create
<1>7. CASE Update(h)
  <2> DEFINE d == [c EXCEPT !.params = handlers[h].params]
  <2>1. d.status = c.status
    BY DEF TypeOK, HandlerType, Copy
  <2>2. CASE Throw(h)
    BY <1>2, <2>2 DEF Throw
  <2>3. CASE ~Throw(h)
    <3>1. c.status # "Running" /\ \E pc \in {"restart", "returned"} : Hold(h, d, pc)
      BY <1>7, <2>3 DEF Update, SaveAndGoto
    <3> QED
      BY <2>1, <3>1, HoldShape
  <2> QED
    BY <2>2, <2>3
<1>8. CASE Restart(h) \/ Enqueue(h) \/ Stop(h) \/ Lock(h) \/ Unlock(h)
  BY <1>2, <1>3, <1>8 DEF Restart, Enqueue, Stop, Lock, Unlock
<1>9. CASE Resume(h) \/ AddJob(h) \/ RemoveFiles(h) \/ RemoveRow(h)
  BY <1>2, <1>9 DEF Resume, AddJob, RemoveFiles, RemoveRow
<1> QED
  BY <1>4, <1>5, <1>6, <1>7, <1>8, <1>9 DEF HandlerStep

-----------------------------------------------------------------------------
(* The table: no hypothesis is needed.                                     *)

\* What a save of the worker does.
LEMMA WorkerSaveTable ==
  ASSUME NEW c, NEW next, NEW onThrow, WorkerSave(c, next, onThrow)
  PROVE  \/ KeepTable
         \/ CanSave(worker.id, c) /\ Save(worker.id, c)
  BY DEF WorkerSave

\* The copies that the worker saves, and when.
WorkerWrites(c) ==
  /\ c \in Copy /\ CanSave(worker.id, c) /\ Save(worker.id, c)
  /\ worker.pc \in {"start", "save"} => c.status = "Running"
  /\ worker.pc = "succeed" => c.status = "Succeeded"
  /\ worker.pc = "fail" => c.status = "Failed"
  /\ worker.pc \in {"start", "save", "succeed", "fail"}

LEMMA WorkerTable ==
  ASSUME TypeOK, WorkerInv, WorkerStep
  PROVE  KeepTable \/ \E c : WorkerWrites(c)
<1>1. worker.c \in Copy /\ worker.id \in Cmds
  BY DEF TypeOK, WorkerType
<1>2. CASE Start
  BY <1>1, <1>2, WorkerSaveTable DEF Start, WorkerInv, WorkerWrites
<1>3. CASE SaveStage
  BY <1>1, <1>3, WorkerSaveTable DEF SaveStage, WorkerInv, WorkerWrites
<1>4. CASE Succeed
  <2> DEFINE d == [worker.c EXCEPT !.status = "Succeeded"]
  <2>1. d \in Copy /\ d.status = "Succeeded"
    BY <1>1 DEF Copy, Status
  <2> QED
    BY <1>4, <2>1, WorkerSaveTable DEF Succeed, WorkerWrites
<1>5. CASE Fail
  <2> DEFINE d == [worker.c EXCEPT !.status = "Failed"]
  <2>1. d \in Copy /\ d.status = "Failed"
    BY <1>1 DEF Copy, Status
  <2> QED
    BY <1>5, <2>1, WorkerSaveTable DEF Fail, WorkerWrites
<1>6. CASE Take \/ Prepare \/ Stage \/ StageFails
  BY <1>6 DEF Take, Prepare, Stage, StageFails
<1> QED
  BY <1>2, <1>3, <1>4, <1>5, <1>6 DEF WorkerStep

\* The copy of an interrupted command, marked.
LEMMA MarkedCopy ==
  ASSUME TypeOK, TableInv, NEW job \in boot.failing
  PROVE  /\ job.id \in Cmds /\ Marked(job) \in Copy
         /\ Marked(job).status = "Failed" /\ Marked(job).repo = "lazy"
<1>1. job \in Job
  BY DEF TypeOK, BootType
<1> QED
  BY <1>1 DEF TableInv, Marked, Job, Copy, Status

LEMMA InitTable == Init => TableInv
<1> SUFFICES ASSUME Init PROVE TableInv
  OBVIOUS
<1>1. UniqueKeys
  <2> SUFFICES ASSUME NEW d \in Cmds, NEW e \in Cmds, HasRepo(d), HasRepo(e), KeyOf[d] = KeyOf[e], d < e
               PROVE  FALSE
    BY DEF UniqueKeys, Cmds
  <2>1. e \in present /\ d \in born
    BY DEF HasRepo, Init
  <2> QED
    BY <2>1 DEF Init
<1>2. StatusInv
  BY DEF Init, StatusInv, IdleHandler
<1>3. \A job \in boot.failing : job.c.repo = "lazy"
  BY DEF Init, Booting
<1> QED
  BY <1>1, <1>2, <1>3 DEF TableInv

LEMMA RemoveKeepsUnique ==
  ASSUME TypeOK, UniqueKeys, NEW h \in Handlers, RemoveRow(h)
  PROVE  /\ UniqueKeys'
         /\ handlers[h].id \notin present'
         /\ \A d \in Cmds \ {handlers[h].id} : /\ d \in present' <=> d \in present
                                               /\ rows'[d] = rows[d]
                                               /\ HasRepo(d)' <=> HasRepo(d)
<1>1. /\ handlers[h].id \notin present'
      /\ \A d \in Cmds \ {handlers[h].id} : (d \in present' <=> d \in present) /\ rows'[d] = rows[d]
  BY DEF RemoveRow, TypeOK, HandlerType
<1> QED
  BY <1>1 DEF UniqueKeys, HasRepo

LEMMA KeepsUnique == ASSUME UniqueKeys, KeepTable PROVE UniqueKeys'
  BY DEF UniqueKeys, KeepTable, HasRepo

LEMMA NextTable == IInv /\ TableInv /\ [Next]_vars => TableInv'
<1> SUFFICES ASSUME IInv, TableInv, [Next]_vars PROVE TableInv'
  OBVIOUS
<1>1. TypeOK /\ WorkerInv /\ UniqueKeys /\ StatusInv
  BY DEF IInv, TableInv
<1> DEFINE Lazy == \A job \in boot.failing : job.c.repo = "lazy"
<1>2. Lazy
  BY DEF TableInv
<1>3. CASE UNCHANGED vars
  BY <1>1, <1>2, <1>3, KeepsUnique DEF vars, KeepTable, StatusInv, TableInv
<1>4. ASSUME NEW h \in Handlers, Request(h)
      PROVE  TableInv'
  <2>1. PICK op \in Ops, id \in Cmds, p \in Params :
          handlers' = [handlers EXCEPT ![h] =
               [pc |-> "load", op |-> op, id |-> id, params |-> p, c |-> Blank]]
    BY <1>4, Zenon DEF Request
  <2>2. StatusInv'
    BY <1>1, <2>1 DEF StatusInv, TypeOK
  <2> QED
    BY <1>1, <1>2, <1>4, <2>2, KeepsUnique DEF Request, KeepTable, TableInv
<1>5. ASSUME NEW h \in Handlers, HandlerStep(h)
      PROVE  TableInv'
  <2>1. UniqueKeys'
    <3>1. handlers[h].id \in Cmds
      BY <1>1 DEF TypeOK, HandlerType
    <3> QED
      BY <1>1, <1>5, <3>1, HandlerTable, SaveKeepsUnique, RemoveKeepsUnique, KeepsUnique DEF HandlerWrites
  <2> QED
    BY <1>1, <1>2, <1>5, <2>1, HandlerStatus, HandlerMoves DEF TableInv, KeepOthers
<1>6. ASSUME NEW h \in Handlers, Respond(h), KeepTable
      PROVE  TableInv'
  <2>1. StatusInv'
    BY <1>1, <1>6 DEF Respond, StatusInv, TypeOK, IdleHandler
  <2> QED
    BY <1>1, <1>2, <1>6, <2>1, KeepsUnique DEF Respond, KeepOthers, TableInv
<1>7. CASE WorkerStep
  <2>1. UniqueKeys'
    BY <1>1, <1>7, WorkerTable, SaveKeepsUnique, KeepsUnique DEF WorkerWrites, TypeOK, WorkerType
  <2>2. KeepRequests
    BY <1>7 DEF WorkerStep, Take, Start, Prepare, Stage, StageFails, SaveStage, Succeed, Fail
  <2> QED
    BY <1>1, <1>2, <2>1, <2>2 DEF KeepRequests, StatusInv, TableInv
<1>8. CASE ListRunning
  <2>1. \A job \in boot'.failing : job.c.repo = "lazy"
    <3>1. \A id \in Cmds : Loaded(id).repo = "lazy"
      BY <1>1 DEF Loaded, TypeOK, Row, Copy
    <3> QED
      BY <1>1, <1>8, <3>1 DEF ListRunning, TypeOK
  <2> QED
    BY <1>1, <1>8, <2>1, KeepsUnique DEF ListRunning, KeepBusy, StatusInv, TableInv
<1>9. CASE FailInterrupted
  <2>1. PICK job \in boot.failing :
          /\ Save(job.id, Marked(job))
          /\ boot' = [boot EXCEPT !.failing = @ \ {job}]
    BY <1>9 DEF FailInterrupted
  <2>2. boot'.failing \subseteq boot.failing
    BY <1>1, <2>1 DEF TypeOK, BootType
  <2>3. UniqueKeys'
    BY <1>1, <2>1, MarkedCopy, SaveKeepsUnique
  <2> QED
    BY <1>1, <1>2, <1>9, <2>2, <2>3 DEF FailInterrupted, KeepBusy, StatusInv, TableInv
<1>10. CASE ListQueued
  <2>1. boot'.failing = boot.failing
    BY <1>1, <1>10 DEF ListQueued, TypeOK, BootType
  <2> QED
    BY <1>1, <1>2, <1>10, <2>1, KeepsUnique DEF ListQueued, KeepBusy, StatusInv, TableInv
<1>11. ASSUME LoseMemory, UniqueKeys'
       PROVE  TableInv'
  BY <1>11 DEF LoseMemory, Booting, IdleHandler, StatusInv, TableInv
<1>12. CASE \E job \in boot.failing : Unhandled /\ Save(job.id, Marked(job))
  BY <1>1, <1>11, <1>12, MarkedCopy, SaveKeepsUnique DEF Unhandled
<1>13. CASE Crash /\ KeepTable
  BY <1>1, <1>11, <1>13, KeepsUnique DEF Crash
<1> QED
  BY <1>3, <1>4, <1>5, <1>6, <1>7, <1>8, <1>9, <1>10, <1>12, <1>13 DEF Next, BootStep

LEMMA TableInvariance == Spec => [](IInv /\ TableInv)
<1> QED
  BY InitInv, NextInv, InitTable, NextTable, PTL DEF Spec

-----------------------------------------------------------------------------
(* A Running row has the worker on it.                                     *)

RunningInv == RunningHasWorker /\ PrepareInv

\* Rows that keep to themselves.
RunningOk(id) ==
  id \in present /\ rows[id].status = "Running" /\ HasRepo(id) =>
    \/ Working(id)
    \/ boot.pc = "listRunning" \/ \E job \in boot.failing : job.id = id

LEMMA RunningParts == RunningHasWorker <=> \A id \in present : RunningOk(id)
  BY DEF RunningHasWorker, RunningOk

\* A save of a copy that does not say Running: who watched the other rows
\* still does.
LEMMA OtherSave ==
  ASSUME TypeOK, RunningHasWorker, NEW id \in Cmds, NEW c \in Copy, Save(id, c),
         \A d \in Cmds \ {id} : Working(d) => Working(d)',
         boot.pc = "listRunning" => boot'.pc = "listRunning",
         \A d \in Cmds \ {id} :
           (\E job \in boot.failing : job.id = d) => \E job \in boot'.failing : job.id = d,
         c.status = "Running" => Working(id)'
  PROVE  RunningHasWorker'
<1> SUFFICES ASSUME NEW d \in present', rows'[d].status = "Running", HasRepo(d)'
             PROVE  Working(d)' \/ boot'.pc = "listRunning" \/ \E job \in boot'.failing : job.id = d
  BY DEF RunningHasWorker
<1>1. d \in Cmds
  BY SaveType
<1>2. CASE d = id
  BY <1>2, SavedRow
<1>3. CASE d # id
  <2>1. d \in present /\ rows[d].status = "Running" /\ HasRepo(d)
    BY <1>1, <1>3, SavedRow
  <2> QED
    BY <1>1, <1>3, <2>1 DEF RunningHasWorker
<1> QED
  BY <1>2, <1>3

LEMMA SameTable ==
  ASSUME RunningHasWorker, KeepTable, boot' = boot,
         \A d \in present : Working(d) /\ HasRepo(d) /\ rows[d].status = "Running" => Working(d)'
  PROVE  RunningHasWorker'
  BY DEF RunningHasWorker, KeepTable, HasRepo

LEMMA HandlerRunning ==
  ASSUME IInv, TableInv, RunningInv, Ops \cap {"lock", "unlock"} = {},
         NEW h \in Handlers, HandlerStep(h)
  PROVE  RunningInv'
<1> DEFINE id == handlers[h].id
<1>1. TypeOK /\ StatusInv /\ id \in Cmds /\ handlers[h].op \notin {"lock", "unlock"}
  BY DEF IInv, TableInv, TypeOK, HandlerType
<1>2. worker' = worker /\ boot' = boot
  BY <1>1, HandlerMoves DEF KeepOthers
<1>3. \A d : Working(d)' <=> Working(d)
  BY <1>2 DEF Working
<1>4. CASE KeepTable
  BY <1>2, <1>3, <1>4, SameTable DEF RunningInv, PrepareInv, KeepTable, HasRepo
<1>5. ASSUME NEW c \in Copy, HandlerWrites(h, c), c.status # "Running"
      PROVE  RunningInv'
  <2>1. RunningHasWorker'
    BY <1>1, <1>2, <1>3, <1>5, OtherSave DEF RunningInv, HandlerWrites
  <2>2. PrepareInv'
    <3>1. worker.id \in Cmds
      BY <1>1 DEF TypeOK, WorkerType
    <3> QED
      BY <1>1, <1>2, <1>5, <3>1, SavedRow DEF RunningInv, PrepareInv, HandlerWrites
  <2> QED
    BY <2>1, <2>2 DEF RunningInv
<1>6. CASE RemoveRow(h)
  <2>1. present' \subseteq Cmds
    BY <1>1, <1>6 DEF RemoveRow, TypeOK
  <2>2. ASSUME NEW d \in Cmds, HasRepo(d)'
        PROVE  d # id /\ d \in present /\ HasRepo(d) /\ rows'[d] = rows[d]
    <3>1. /\ d # id
          /\ d \in present' <=> d \in present
          /\ rows'[d] = rows[d]
          /\ HasRepo(d)' <=> HasRepo(d)
      <4>1. d # id
        BY <1>1, <1>6, <2>2, RemoveKeepsUnique DEF TableInv, HasRepo
      <4> QED
        BY <1>1, <1>6, <4>1, RemoveKeepsUnique DEF TableInv
    <3> QED
      BY <2>2, <3>1 DEF HasRepo
  <2>3. RunningHasWorker'
    BY <1>2, <1>3, <2>1, <2>2 DEF RunningInv, RunningHasWorker
  <2>4. PrepareInv'
    BY <1>1, <1>2, <2>2 DEF RunningInv, PrepareInv, TypeOK, WorkerType
  <2> QED
    BY <2>3, <2>4 DEF RunningInv
<1> QED
  BY <1>1, <1>4, <1>5, <1>6, HandlerTable

LEMMA WorkerRunning ==
  ASSUME IInv, TableInv, RunningInv, Faults \cap {"prepare", "render"} = {}, WorkerStep
  PROVE  RunningInv'
<1> DEFINE id == worker.id
<1>1. /\ TypeOK /\ WorkerInv /\ QueueInv /\ UniqueKeys /\ RunningHasWorker
      /\ worker \in WorkerType /\ id \in Cmds /\ worker.c \in Copy
  BY DEF IInv, TableInv, RunningInv, TypeOK, WorkerType
<1>2. boot' = boot
  BY DEF WorkerStep, Take, Start, Prepare, Stage, StageFails, SaveStage, Succeed, Fail, KeepRequests
<1>3. ASSUME worker'.pc # "idle", worker'.id = id
      PROVE  \A d : Working(d) => Working(d)'
  BY <1>3 DEF Working
\* a save that is done
<1>4. ASSUME NEW c \in Copy, NEW next, CanSave(id, c), Save(id, c), WorkerTo(Stored(id, c), next),
             c.status = "Running" => next # "idle", worker.pc # "idle",
             next = "prepare" => c = worker.c
      PROVE  RunningInv'
  <2>1. \A d \in Cmds \ {id} : ~Working(d)
    BY DEF Working
  <2>2. next # "idle" => Working(id)' /\ worker'.c = Stored(id, c) /\ worker'.pc = next /\ worker'.id = id
    BY <1>1, <1>4 DEF WorkerTo, Working, WorkerType
  <2>3. RunningHasWorker'
    BY <1>1, <1>2, <1>4, <2>1, <2>2, OtherSave
  <2>4. PrepareInv'
    <3>1. next = "idle" => worker'.pc = "idle"
      BY <1>4 DEF WorkerTo, IdleWorker
    <3>2. rows'[id] = Stored(id, c)
      BY <1>1, <1>4, SavedRow
    <3> QED
      BY <2>2, <3>1, <3>2 DEF PrepareInv, HasRepo
  <2> QED
    BY <2>3, <2>4 DEF RunningInv
\* a save that is refused: the row has no repository
<1>5. ASSUME NEW c \in Copy, NEW pc, ~CanSave(id, c), KeepTable, WorkerTo(c, pc), pc # "prepare"
      PROVE  RunningInv'
  <2>1. ~HasRepo(id)
    BY <1>1, <1>5, RefusedHasNoRepo
  <2>2. RunningHasWorker'
    BY <1>1, <1>2, <1>5, <2>1, SameTable DEF Working
  <2>3. worker'.pc # "prepare"
    BY <1>1, <1>5 DEF WorkerTo, IdleWorker, WorkerType
  <2> QED
    BY <2>2, <2>3 DEF RunningInv, PrepareInv
<1>6. ASSUME NEW c \in Copy, NEW next, NEW onThrow, WorkerSave(c, next, onThrow),
             c.status = "Running" => next # "idle", worker.pc # "idle",
             next = "prepare" => c = worker.c, onThrow # "prepare"
      PROVE  RunningInv'
  BY <1>4, <1>5, <1>6 DEF WorkerSave
<1>7. CASE Take
  <2>1. Head(queue).c.status = "Queued"
    BY <1>1, <1>7 DEF Take, QueueInv, TypeOK
  <2>2. worker'.pc = "start" /\ KeepTable /\ \A d : ~Working(d)
    BY <1>7, <2>1 DEF Take, Working
  <2> QED
    BY <1>1, <1>2, <2>2, SameTable DEF RunningInv, PrepareInv
<1>8. CASE Start
  BY <1>1, <1>6, <1>8 DEF Start
<1>9. CASE Prepare
  <2>1. CASE worker' = [worker EXCEPT !.pc = "stage"]
    <3>1. worker'.pc = "stage" /\ worker'.id = id
      BY <1>1, <2>1 DEF WorkerType
    <3> QED
      BY <1>1, <1>2, <1>3, <1>9, <3>1, SameTable DEF Prepare, RunningInv, PrepareInv
  <2>2. CASE worker' = IdleWorker /\ worker.c.repo # "some"
    <3>1. ~(HasRepo(id) /\ rows[id].status = "Running") /\ worker'.pc = "idle"
      BY <1>9, <2>2 DEF RunningInv, PrepareInv, Prepare, IdleWorker
    <3> QED
      BY <1>1, <1>2, <1>9, <3>1, SameTable DEF Prepare, RunningInv, PrepareInv, Working
  <2> QED
    BY <1>9, <2>1, <2>2 DEF Prepare
<1>10. CASE Stage \/ StageFails
  <2>1. worker'.pc \in {"save", "succeed", "fail"} /\ worker'.id = id /\ KeepTable
    <3>1. CASE Stage
      BY <1>1, <3>1 DEF Stage, WorkerType
    <3>2. CASE StageFails
      BY <1>1, <3>2 DEF StageFails, WorkerType
    <3> QED
      BY <1>10, <3>1, <3>2
  <2> QED
    BY <1>1, <1>2, <1>3, <2>1, SameTable DEF RunningInv, PrepareInv
<1>11. CASE SaveStage
  BY <1>1, <1>6, <1>11 DEF SaveStage
<1>12. CASE Succeed
  <2>1. [worker.c EXCEPT !.status = "Succeeded"] \in Copy
        /\ [worker.c EXCEPT !.status = "Succeeded"].status = "Succeeded"
    BY <1>1 DEF Copy, Status
  <2> QED
    BY <1>1, <1>6, <1>12, <2>1 DEF Succeed
<1>13. CASE Fail
  <2>1. [worker.c EXCEPT !.status = "Failed"] \in Copy
        /\ [worker.c EXCEPT !.status = "Failed"].status = "Failed"
    BY <1>1 DEF Copy, Status
  <2> QED
    BY <1>1, <1>6, <1>13, <2>1 DEF Fail
<1> QED
  BY <1>7, <1>8, <1>9, <1>10, <1>11, <1>12, <1>13 DEF WorkerStep

LEMMA BootRunning ==
  ASSUME IInv, TableInv, RunningInv, BootStep
  PROVE  RunningInv'
<1>1. TypeOK /\ RunningHasWorker /\ boot \in BootType
  BY DEF IInv, RunningInv, TypeOK
<1>2. worker' = worker
  BY DEF BootStep, ListRunning, FailInterrupted, ListQueued, KeepBusy
<1>3. KeepTable => PrepareInv'
  BY <1>2 DEF RunningInv, PrepareInv, KeepTable, HasRepo
<1>4. CASE ListRunning
  <2>1. \A id \in present : rows[id].status = "Running" => \E job \in boot'.failing : job.id = id
    <3> SUFFICES ASSUME NEW id \in present, rows[id].status = "Running"
                 PROVE  \E job \in boot'.failing : job.id = id
      OBVIOUS
    <3>1. [id |-> id, c |-> Loaded(id)] \in boot'.failing
      BY <1>4 DEF ListRunning
    <3> QED
      BY <3>1
  <2> QED
    BY <1>3, <1>4, <2>1 DEF ListRunning, KeepTable, RunningInv, RunningHasWorker
<1>5. CASE FailInterrupted
  <2>1. PICK job \in boot.failing :
          /\ Save(job.id, Marked(job))
          /\ boot' = [boot EXCEPT !.failing = @ \ {job}]
    BY <1>5 DEF FailInterrupted
  <2>2. boot'.pc = boot.pc /\ boot'.failing = boot.failing \ {job}
    BY <1>1, <2>1 DEF BootType
  <2>3. RunningHasWorker'
    BY <1>1, <1>2, <2>1, <2>2, MarkedCopy, OtherSave DEF Working
  <2>4. PrepareInv'
    <3>1. worker.id \in Cmds
      BY <1>1 DEF TypeOK, WorkerType
    <3> QED
      BY <1>1, <1>2, <2>1, <3>1, MarkedCopy, SavedRow DEF RunningInv, PrepareInv
  <2> QED
    BY <2>3, <2>4 DEF RunningInv
<1>6. CASE ListQueued
  <2>1. boot'.failing = boot.failing /\ boot.pc # "listRunning"
    BY <1>1, <1>6 DEF ListQueued, BootType
  <2>2. RunningHasWorker'
    BY <1>1, <1>2, <1>6, <2>1 DEF ListQueued, KeepTable, RunningHasWorker, Working, HasRepo
  <2> QED
    BY <1>3, <1>6, <2>2 DEF ListQueued, RunningInv
<1> QED
  BY <1>4, <1>5, <1>6 DEF BootStep

\* Unless a user locks or unlocks, which saves a status read long ago, and
\* unless what precedes or follows a save fails, no command is stuck in Running.
THEOREM RunningIsWatched ==
  ASSUME Ops \cap {"lock", "unlock"} = {}, Faults \cap {"prepare", "render"} = {}
  PROVE  Spec => []RunningHasWorker
<1>1. Init => RunningInv
  BY DEF Init, Booting, IdleWorker, RunningInv, RunningHasWorker, PrepareInv
<1>2. IInv /\ TableInv /\ RunningInv /\ [Next]_vars => RunningInv'
  <2> SUFFICES ASSUME IInv, TableInv, RunningInv, [Next]_vars PROVE RunningInv'
    OBVIOUS
  <2>1. ASSUME KeepTable, UNCHANGED <<worker, boot>>
        PROVE  RunningInv'
    BY <2>1 DEF KeepTable, RunningInv, RunningHasWorker, PrepareInv, Working, HasRepo
  <2>2. CASE UNCHANGED vars
    BY <2>1, <2>2 DEF vars, KeepTable
  <2>3. ASSUME NEW h \in Handlers, Request(h) \/ (Respond(h) /\ KeepTable)
        PROVE  RunningInv'
    BY <2>1, <2>3 DEF Request, Respond, KeepOthers, KeepTable
  <2>4. ASSUME LoseMemory
        PROVE  RunningInv'
    BY <2>4 DEF LoseMemory, Booting, IdleWorker, RunningInv, RunningHasWorker, PrepareInv
  <2>5. CASE (\E job \in boot.failing : Unhandled /\ Save(job.id, Marked(job))) \/ (Crash /\ KeepTable)
    BY <2>4, <2>5 DEF Unhandled, Crash
  <2> QED
    BY <2>2, <2>3, <2>5, HandlerRunning, WorkerRunning, BootRunning DEF Next
<1>3. RunningInv => RunningHasWorker
  BY DEF RunningInv
<1> QED
  BY <1>1, <1>2, <1>3, TableInvariance, PTL DEF Spec

-----------------------------------------------------------------------------
(* A Queued row has somebody to see to it.                                 *)

Waiter(h, id) ==
  /\ handlers[h].id = id /\ handlers[h].pc \in {"restart", "enqueue", "add"}
  /\ Storable(id, handlers[h].c)

\* Who waited still waits.
LEMMA StillWaits ==
  ASSUME NEW id, Waits(id), HasRepo(id) => HasRepo(id)', boot' = boot,
         \A i \in DOMAIN queue : queue[i].id = id => \E j \in DOMAIN queue' : queue'[j] = queue[i],
         worker.pc = "start" /\ worker.id = id /\ Storable(id, worker.c) => worker' = worker,
         \A h \in Handlers : Waiter(h, id) => Waits(id)' \/ handlers'[h] = handlers[h]
  PROVE  Waits(id)'
<1>1. CASE \E i \in DOMAIN queue : queue[i].id = id /\ Storable(id, queue[i].c)
  <2>1. PICK i \in DOMAIN queue : queue[i].id = id /\ Storable(id, queue[i].c)
    BY <1>1
  <2>2. PICK j \in DOMAIN queue' : queue'[j] = queue[i]
    BY <2>1
  <2>3. queue'[j].id = id /\ (queue'[j].c.repo = "some" => HasRepo(id)')
    BY <2>1, <2>2 DEF Storable
  <2> QED
    BY <2>3 DEF Waits, Storable
<1>2. CASE worker.pc = "start" /\ worker.id = id /\ Storable(id, worker.c)
  BY <1>2 DEF Waits, Storable
<1>3. CASE \E h \in Handlers : Waiter(h, id)
  BY <1>3 DEF Waiter, Waits, Storable
<1>4. CASE boot.pc # "done"
  BY <1>4 DEF Waits
<1> QED
  BY <1>1, <1>2, <1>3, <1>4 DEF Waits, Waiter

LEMMA HandlerQueued ==
  ASSUME IInv, TableInv, QueuedInv, Ops \cap {"update", "lock", "unlock"} = {}, "render" \notin Faults,
         NEW h \in Handlers, HandlerStep(h)
  PROVE  QueuedInv'
<1> PICK id \in Cmds, c \in Copy : id = handlers[h].id /\ c = handlers[h].c
  BY DEF IInv, TypeOK, HandlerType
<1>1. /\ TypeOK /\ StatusInv /\ UniqueKeys /\ id \in Cmds /\ c \in Copy
      /\ handlers[h].op \notin {"update", "lock", "unlock"}
  BY DEF IInv, TableInv, TypeOK, HandlerType
<1>2. /\ worker' = worker /\ boot' = boot
      /\ \A g \in Handlers \ {h} : handlers'[g] = handlers[g]
  BY <1>1, HandlerMoves DEF KeepOthers
<1>3. \A i \in DOMAIN queue : \E j \in DOMAIN queue' : queue'[j] = queue[i]
  <2>1. CASE queue' = queue
    BY <2>1
  <2>2. CASE AddJob(h)
    BY <1>1, <2>2 DEF AddJob, TypeOK
  <2>3. CASE ~AddJob(h)
    BY <2>1, <2>3
    DEF HandlerStep, Load, CheckExists, Create, Update, Restart, Resume, Enqueue, Stop, RemoveFiles,
        RemoveRow, Lock, Unlock
  <2> QED
    BY <2>2, <2>3
\* the rows the step does not write
<1>4. ASSUME NEW d \in Cmds, d # id, d \in present, rows[d].status = "Queued", HasRepo(d) => HasRepo(d)'
      PROVE  Waits(d)'
  <2>1. \A g \in Handlers : Waiter(g, d) => handlers'[g] = handlers[g]
    BY <1>2, <1>4 DEF Waiter
  <2>2. Waits(d)
    BY <1>4 DEF QueuedInv
  <2> QED
    BY <1>2, <1>3, <1>4, <2>1, <2>2, StillWaits
<1>5. ASSUME NEW d \in Copy, Save(id, d), d.status = "Queued" => Waits(id)'
      PROVE  QueuedInv'
  <2> SUFFICES ASSUME NEW e \in present', rows'[e].status = "Queued"
               PROVE  Waits(e)'
    BY DEF QueuedInv
  <2>1. e \in Cmds
    BY <1>1, <1>5, SaveType
  <2>2. CASE e = id
    BY <1>1, <1>5, <2>2, SavedRow
  <2>3. CASE e # id
    BY <1>1, <1>4, <1>5, <2>1, <2>3, SavedRow
  <2> QED
    BY <2>2, <2>3
\* nothing is written, and h did not wait or waits on
<1>6. ASSUME KeepTable, Waiter(h, id) => Waits(id)'
      PROVE  QueuedInv'
  <2> SUFFICES ASSUME NEW e \in present, rows[e].status = "Queued"
               PROVE  Waits(e)'
    BY <1>6 DEF QueuedInv, KeepTable
  <2>1. Waits(e) /\ e \in Cmds
    BY <1>1 DEF QueuedInv, TypeOK
  <2>2. HasRepo(e) => HasRepo(e)'
    BY <1>6 DEF KeepTable, HasRepo
  <2>3. CASE e # id
    BY <1>4, <2>1, <2>2, <2>3
  <2>4. CASE e = id
    <3>1. \A g \in Handlers : Waiter(g, e) => Waits(e)' \/ handlers'[g] = handlers[g]
      BY <1>2, <1>6, <2>4
    <3> QED
      BY <1>2, <1>3, <2>1, <2>2, <2>4, <3>1, StillWaits
  <2> QED
    BY <2>3, <2>4
\* a save that is refused
<1>7. ASSUME NEW d \in Copy, d.repo = c.repo, ~CanSave(id, d), Throw(h)
      PROVE  QueuedInv'
  <2>1. ~Storable(id, c)
    BY <1>1, <1>7, RefusedHasNoRepo DEF Storable
  <2> QED
    BY <1>6, <1>7, <2>1 DEF Throw, Waiter
<1>8. ASSUME NEW d \in Copy, NEW pc, Save(id, d), Hold(h, d, pc) \/ Hold(h, Stored(id, d), pc),
             pc \in {"restart", "enqueue", "add"}
      PROVE  Waits(id)'
  <2>1. PICK e \in {d, Stored(id, d)} : Hold(h, e, pc)
    BY <1>8
  <2>2. handlers'[h].pc = pc /\ handlers'[h].id = id /\ handlers'[h].c = e
    BY <1>1, <1>8, <2>1, HoldShape
  <2>3. Storable(id, e)'
    <3>1. id \in present' /\ rows'[id] = Stored(id, d) /\ Storable(id, d)'
      BY <1>1, <1>8, SavedRow
    <3> QED
      BY <2>1, <3>1 DEF Storable, HasRepo
  <2> QED
    BY <1>8, <2>2, <2>3 DEF Waits, Storable
<1>9. CASE Load(h) \/ CheckExists(h) \/ RemoveFiles(h)
  <2>1. KeepTable /\ handlers[h].pc \notin {"restart", "enqueue", "add"}
    BY <1>9 DEF Load, CheckExists, RemoveFiles, Throw, HandlerAt
  <2> QED
    BY <1>6, <2>1 DEF Waiter
<1>10. CASE Resume(h)
  <2>1. KeepTable /\ handlers[h].pc = "write"
    BY <1>10 DEF Resume, HandlerAt
  <2> QED
    BY <1>6, <2>1 DEF Waiter
<1>11. CASE Create(h)
  <2>1. handlers[h].pc = "write" /\ c.status = "Pending"
    BY <1>1, <1>11 DEF Create, HandlerAt, StatusInv
  <2> QED
    BY <1>1, <1>5, <1>6, <1>11, <2>1 DEF Create, SaveAndGoto, Throw, Waiter
<1>12. CASE Update(h)
  <2> DEFINE d == [c EXCEPT !.params = handlers[h].params]
  <2>1. d \in Copy
    BY <1>1 DEF Copy, TypeOK, HandlerType
  <2>2. handlers[h].op = "updateAndRun" /\ handlers[h].pc = "write"
    BY <1>1, <1>12 DEF Update, HandlerAt, Updates
  <2>3. CASE Throw(h)
    BY <1>6, <2>2, <2>3 DEF Throw, Waiter
  <2>4. CASE Save(id, d) /\ Hold(h, d, "restart")
    BY <1>5, <1>8, <2>1, <2>4
  <2> QED
    BY <1>12, <2>2, <2>3, <2>4 DEF Update, SaveAndGoto
<1>13. CASE Restart(h)
  <2>1. Restarted(c) \in Copy /\ Restarted(c).status = "Pending" /\ Restarted(c).repo = c.repo
    BY <1>1 DEF Copy, Status, RunStatus, Restarted
  <2>2. CASE c.status = "Running"
    <3>1. handlers[h].pc = "write" /\ Throw(h)
      BY <1>1, <1>13, <2>2 DEF Restart, HandlerAt, StatusInv
    <3> QED
      BY <1>6, <3>1 DEF Throw, Waiter
  <2>3. CASE c.status # "Running"
    BY <1>5, <1>7, <1>13, <2>1, <2>3 DEF Restart, SaveAndGoto
  <2> QED
    BY <2>2, <2>3
<1>14. CASE Enqueue(h)
  <2> DEFINE d == [c EXCEPT !.status = "Queued"]
  <2>1. d \in Copy /\ d.repo = c.repo
    BY <1>1 DEF Copy, Status
  <2>2. CASE CanSave(id, d)
    <3>1. Save(id, d) /\ Hold(h, Stored(id, d), "add")
      BY <1>14, <2>2 DEF Enqueue, SaveAndEmit
    <3> QED
      BY <1>5, <1>8, <2>1, <3>1
  <2>3. CASE ~CanSave(id, d)
    <3>1. Throw(h)
      BY <1>14, <2>3 DEF Enqueue, SaveAndEmit
    <3> QED
      BY <1>7, <2>1, <2>3, <3>1
  <2> QED
    BY <2>2, <2>3
<1>15. CASE AddJob(h)
  <2>1. ASSUME Waiter(h, id)
        PROVE  Waits(id)'
    <3>1. queue \in Seq(Job) /\ queue' = Append(queue, [id |-> id, c |-> c])
      BY <1>1, <1>15 DEF AddJob, TypeOK
    <3>2. Len(queue) + 1 \in DOMAIN queue' /\ queue'[Len(queue) + 1] = [id |-> id, c |-> c]
      BY <3>1
    <3>3. c.repo = "some" => HasRepo(id)'
      BY <1>15, <2>1 DEF AddJob, KeepTable, Waiter, Storable, HasRepo
    <3> QED
      BY <3>2, <3>3 DEF Waits, Storable
  <2> QED
    BY <1>6, <1>15, <2>1 DEF AddJob
<1>16. CASE Stop(h)
  <2> DEFINE d == [c EXCEPT !.status = "Pending"]
  <2>1. d \in Copy /\ d.status = "Pending"
    BY <1>1 DEF Copy, Status
  <2>2. handlers[h].pc = "write"
    BY <1>16 DEF Stop, HandlerAt
  <2> QED
    BY <1>5, <1>6, <1>16, <2>1, <2>2 DEF Stop, SaveAndEmit, Throw, Waiter
<1>17. CASE RemoveRow(h)
  <2> SUFFICES ASSUME NEW e \in present', rows'[e].status = "Queued"
               PROVE  Waits(e)'
    BY DEF QueuedInv
  <2>1. e \in Cmds /\ e # id
    BY <1>1, <1>17, RemoveKeepsUnique DEF RemoveRow, TypeOK
  <2> QED
    BY <1>1, <1>4, <1>17, <2>1, RemoveKeepsUnique
<1>18. ~Lock(h) /\ ~Unlock(h)
  BY <1>1 DEF Lock, Unlock, HandlerAt
<1> QED
  BY <1>9, <1>10, <1>11, <1>12, <1>13, <1>14, <1>15, <1>16, <1>17, <1>18 DEF HandlerStep

LEMMA WorkerQueued ==
  ASSUME IInv, TableInv, QueuedInv, "render" \notin Faults, WorkerStep
  PROVE  QueuedInv'
<1>1. /\ TypeOK /\ WorkerInv /\ QueueInv /\ UniqueKeys
      /\ worker \in WorkerType /\ worker.id \in Cmds /\ worker.c \in Copy
  BY DEF IInv, TableInv, TypeOK, WorkerType
<1>2. boot' = boot /\ handlers' = handlers
  BY DEF WorkerStep, Take, Start, Prepare, Stage, StageFails, SaveStage, Succeed, Fail, KeepRequests
\* a row the step does not write, and that the worker is not about to start
<1>3. ASSUME NEW d, Waits(d), HasRepo(d) => HasRepo(d)', UNCHANGED queue,
             ~(worker.pc = "start" /\ worker.id = d /\ Storable(d, worker.c))
      PROVE  Waits(d)'
  BY <1>2, <1>3, StillWaits
<1>4. ASSUME NEW c, WorkerWrites(c), UNCHANGED queue
      PROVE  QueuedInv'
  <2> SUFFICES ASSUME NEW e \in present', rows'[e].status = "Queued"
               PROVE  Waits(e)'
    BY DEF QueuedInv
  <2>1. e \in Cmds
    BY <1>1, <1>4, SaveType DEF WorkerWrites
  <2>2. e # worker.id
    BY <1>1, <1>4, SavedRow DEF WorkerWrites
  <2>3. e \in present /\ rows[e].status = "Queued" /\ (HasRepo(e) => HasRepo(e)')
    BY <1>1, <1>4, <2>1, <2>2, SavedRow DEF WorkerWrites
  <2> QED
    BY <1>3, <1>4, <2>2, <2>3 DEF QueuedInv
<1>5. ASSUME KeepTable, UNCHANGED queue, worker.pc = "start" => ~Storable(worker.id, worker.c)
      PROVE  QueuedInv'
  <2> SUFFICES ASSUME NEW e \in present, rows[e].status = "Queued"
               PROVE  Waits(e)'
    BY <1>5 DEF QueuedInv, KeepTable
  <2>1. HasRepo(e) => HasRepo(e)'
    BY <1>5 DEF KeepTable, HasRepo
  <2> QED
    BY <1>3, <1>5, <2>1 DEF QueuedInv
<1>6. CASE Take
  <2> SUFFICES ASSUME NEW e \in present, rows[e].status = "Queued", boot.pc = "done"
               PROVE  Waits(e)'
    BY <1>2, <1>6 DEF Take, QueuedInv, KeepTable, Waits
  <2> DEFINE job == Head(queue)
  <2>1. /\ queue \in Seq(Job) /\ queue # <<>> /\ queue' = Tail(queue) /\ worker.pc = "idle"
        /\ job = queue[1] /\ job \in Job
    BY <1>1, <1>6 DEF Take, TypeOK
  <2>2. job.c \in Copy /\ job.c.status = "Queued"
    BY <1>1, <2>1 DEF QueueInv, Job
  <2>3. worker'.pc = "start" /\ worker'.id = job.id /\ worker'.c.repo = job.c.repo
    BY <1>6, <2>2 DEF Take, Copy
  <2>4. HasRepo(e)' <=> HasRepo(e)
    BY <1>6 DEF Take, KeepTable, Storable, HasRepo
  <2>5. Waits(e)
    BY DEF QueuedInv
  <2>6. CASE \E h \in Handlers : Waiter(h, e)
    BY <1>2, <2>4, <2>6 DEF Waits, Waiter, Storable
  <2>7. CASE \E i \in DOMAIN queue : queue[i].id = e /\ Storable(e, queue[i].c)
    <3>1. PICK i \in DOMAIN queue : queue[i].id = e /\ Storable(e, queue[i].c)
      BY <2>7
    <3>2. CASE i = 1
      <4>1. worker'.c.repo = "some" => HasRepo(e)'
        BY <2>1, <2>3, <2>4, <3>1, <3>2 DEF Storable
      <4> QED
        BY <2>1, <2>3, <3>1, <3>2, <4>1 DEF Waits, Storable
    <3>3. CASE i # 1
      <4>1. i - 1 \in DOMAIN queue' /\ queue'[i - 1] = queue[i]
        BY <2>1, <3>1, <3>3
      <4> QED
        BY <2>4, <3>1, <4>1 DEF Waits, Storable
    <3> QED
      BY <3>2, <3>3
  <2> QED
    BY <2>1, <2>5, <2>6, <2>7 DEF Waits, Waiter
<1>7. CASE Start
  <2>1. CanSave(worker.id, worker.c) => \E c : WorkerWrites(c)
    BY <1>1, <1>7 DEF Start, WorkerSave, WorkerWrites, WorkerInv
  <2>2. ~CanSave(worker.id, worker.c) => KeepTable /\ ~Storable(worker.id, worker.c)
    BY <1>1, <1>7, RefusedHasNoRepo DEF Start, WorkerSave
  <2> QED
    BY <1>4, <1>5, <1>7, <2>1, <2>2 DEF Start
<1>8. CASE Prepare \/ Stage \/ StageFails \/ SaveStage \/ Succeed \/ Fail
  <2>1. UNCHANGED queue /\ worker.pc # "start"
    BY <1>8 DEF Prepare, Stage, StageFails, SaveStage, Succeed, Fail
  <2> QED
    BY <1>1, <1>4, <1>5, <1>8, <2>1, WorkerTable
<1> QED
  BY <1>6, <1>7, <1>8 DEF WorkerStep

LEMMA BootQueued ==
  ASSUME IInv, TableInv, QueuedInv, BootStep
  PROVE  QueuedInv'
<1>1. TypeOK /\ boot \in BootType
  BY DEF IInv, TypeOK
<1>2. worker' = worker /\ handlers' = handlers
  BY DEF BootStep, ListRunning, FailInterrupted, ListQueued, KeepBusy
<1>3. CASE ListRunning
  BY <1>3 DEF ListRunning, QueuedInv, Waits
<1>4. CASE FailInterrupted
  <2> SUFFICES ASSUME NEW e \in present', rows'[e].status = "Queued"
               PROVE  Waits(e)'
    BY DEF QueuedInv
  <2>1. PICK job \in boot.failing :
          /\ Save(job.id, Marked(job))
          /\ boot' = [boot EXCEPT !.failing = @ \ {job}]
          /\ queue' = queue
    BY <1>4 DEF FailInterrupted
  <2>2. e \in Cmds
    BY <1>1, <2>1, MarkedCopy, SaveType
  <2>3. e # job.id
    BY <1>1, <2>1, MarkedCopy, SavedRow
  <2>4. e \in present /\ rows[e].status = "Queued" /\ (HasRepo(e) <=> HasRepo(e)')
    BY <1>1, <2>1, <2>2, <2>3, MarkedCopy, SavedRow
  <2>5. Waits(e) /\ boot'.pc = boot.pc
    BY <1>1, <2>1, <2>4 DEF QueuedInv, BootType
  <2> QED
    BY <1>2, <2>1, <2>4, <2>5 DEF Waits, Storable
<1>5. CASE ListQueued
  <2> SUFFICES ASSUME NEW e \in present, rows[e].status = "Queued"
               PROVE  Waits(e)'
    BY <1>5 DEF ListQueued, KeepTable, QueuedInv
  <2>1. PICK n \in 0 .. NumCmds : \E order \in [1 .. n -> Waiting] :
          /\ \A id \in Waiting : \E i \in 1 .. n : order[i] = id
          /\ queue' = queue \o [i \in 1 .. n |-> [id |-> order[i], c |-> Loaded(order[i])]]
    BY <1>5 DEF ListQueued
  <2>2. PICK order \in [1 .. n -> Waiting] :
          /\ \A id \in Waiting : \E i \in 1 .. n : order[i] = id
          /\ queue' = queue \o [i \in 1 .. n |-> [id |-> order[i], c |-> Loaded(order[i])]]
    BY <2>1
  <2> DEFINE more == [i \in 1 .. n |-> [id |-> order[i], c |-> Loaded(order[i])]]
  <2>3. PICK i \in 1 .. n : order[i] = e
    BY <2>2 DEF Waiting
  <2>4. more[i].id = e /\ more[i].c.repo = "lazy"
    BY <1>1, <2>3 DEF Loaded, TypeOK, Row, Copy
  <2>5. more \in Seq(Job) /\ Len(more) = n /\ queue \in Seq(Job) /\ queue' = queue \o more
    BY <1>1, <2>2, RequeuedType DEF TypeOK
  <2> HIDE DEF more
  <2>6. Len(queue) + i \in DOMAIN queue' /\ queue'[Len(queue) + i] = more[i]
    BY <2>3, <2>5
  <2>7. queue'[Len(queue) + i].c.repo # "some"
    BY <2>4, <2>6
  <2> QED
    BY <2>4, <2>6, <2>7 DEF Waits, Storable
<1> QED
  BY <1>3, <1>4, <1>5 DEF BootStep

\* Unless an update, a lock or an unlock saves a status read long ago, and
\* unless what follows a save fails, no command waits for ever: whatever says
\* Queued has a job, or somebody on the way to add it.
THEOREM QueuedIsSeen ==
  ASSUME Ops \cap {"update", "lock", "unlock"} = {}, "render" \notin Faults
  PROVE  Spec => []QueuedHasJob
<1>1. Init => QueuedInv
  BY DEF Init, Booting, QueuedInv, Waits
<1>2. IInv /\ TableInv /\ QueuedInv /\ [Next]_vars => QueuedInv'
  <2> SUFFICES ASSUME IInv, TableInv, QueuedInv, [Next]_vars PROVE QueuedInv'
    OBVIOUS
  <2>1. CASE UNCHANGED vars
    BY <2>1 DEF vars, QueuedInv, Waits, Storable, HasRepo
  <2>2. ASSUME NEW h \in Handlers, Request(h) \/ (Respond(h) /\ KeepTable)
        PROVE  QueuedInv'
    <3> SUFFICES ASSUME NEW e \in present, rows[e].status = "Queued"
                 PROVE  Waits(e)'
      BY <2>2 DEF Request, KeepTable, QueuedInv
    <3>1. /\ handlers[h].pc \notin {"restart", "enqueue", "add"}
          /\ \A g \in Handlers \ {h} : handlers'[g] = handlers[g]
          /\ UNCHANGED <<present, rows, queue, worker, boot>>
      BY <2>2 DEF Request, Respond, Done, KeepOthers, KeepTable, IInv, TypeOK
    <3>2. Waits(e) /\ (HasRepo(e) => HasRepo(e)')
      BY <3>1 DEF QueuedInv, HasRepo
    <3>3. \A g \in Handlers : Waiter(g, e) => handlers'[g] = handlers[g]
      BY <3>1 DEF Waiter
    <3> QED
      BY <3>1, <3>2, <3>3, StillWaits
  <2>3. ASSUME LoseMemory
        PROVE  QueuedInv'
    BY <2>3 DEF LoseMemory, Booting, QueuedInv, Waits
  <2>4. CASE (\E job \in boot.failing : Unhandled /\ Save(job.id, Marked(job))) \/ (Crash /\ KeepTable)
    BY <2>3, <2>4 DEF Unhandled, Crash
  <2> QED
    BY <2>1, <2>2, <2>4, HandlerQueued, WorkerQueued, BootQueued DEF Next
<1>3. QueuedInv => QueuedHasJob
  BY DEF QueuedInv, Waits, QueuedHasJob, Working
<1> QED
  BY <1>1, <1>2, <1>3, TableInvariance, PTL DEF Spec

-----------------------------------------------------------------------------
(***************************************************************************)
(* The refinement.  CommandService implements CommandLifecycle.            *)
(***************************************************************************)

(* The mapping.                                                            *)

LEMMA RunIs ==
  ASSUME NEW w
  PROVE  /\ w.pc = "idle" => RunOf(w) = Lifecycle!NoRun
         /\ w.pc = "start" => RunOf(w) = [phase |-> "taken", id |-> w.id]
         /\ w.pc \notin {"idle", "start"} => RunOf(w) = [phase |-> "running", id |-> w.id]
  BY DEF RunOf, Lifecycle!NoRun

LEMMA RecoveryIs ==
  /\ RecoveryAt("listRunning") = "find" /\ RecoveryAt("listQueued") = "refill"
  /\ RecoveryAt("done") = "none"
  BY DEF RecoveryAt

LEMMA IdsType ==
  ASSUME NEW q \in Seq(Job)
  PROVE  Ids(q) \in Seq(Cmds) /\ Len(Ids(q)) = Len(q) /\ \A i \in 1 .. Len(q) : Ids(q)[i] = q[i].id
<1>1. q \in [1 .. Len(q) -> Job] /\ DOMAIN q = 1 .. Len(q) /\ Len(q) \in Nat
  BY LenProperties
<1>2. Ids(q) \in [1 .. Len(q) -> Cmds]
  BY <1>1 DEF Ids, Job
<1> QED
  BY <1>1, <1>2 DEF Ids

LEMMA IdsAppend ==
  ASSUME NEW q \in Seq(Job), NEW job \in Job
  PROVE  Ids(Append(q, job)) = Append(Ids(q), job.id)
<1> DEFINE r == Append(q, job)
           s == Append(Ids(q), job.id)
<1>1. /\ r \in Seq(Job) /\ Len(r) = Len(q) + 1 /\ Len(q) \in Nat
      /\ \A i \in 1 .. Len(q) : r[i] = q[i]
      /\ r[Len(q) + 1] = job
  BY AppendProperties
<1>2. Ids(q) \in Seq(Cmds) /\ Len(Ids(q)) = Len(q) /\ \A i \in 1 .. Len(q) : Ids(q)[i] = q[i].id
  BY IdsType
<1>3. /\ s \in Seq(Cmds) /\ Len(s) = Len(q) + 1
      /\ \A i \in 1 .. Len(q) : s[i] = q[i].id
      /\ s[Len(q) + 1] = job.id
  <2>1. job.id \in Cmds
    BY DEF Job
  <2> QED
    BY <1>2, <2>1, AppendProperties
<1> HIDE DEF r, s
<1>4. Ids(r) \in Seq(Cmds) /\ Len(Ids(r)) = Len(r) /\ \A i \in 1 .. Len(r) : Ids(r)[i] = r[i].id
  BY <1>1, IdsType
<1>5. ASSUME NEW i \in 1 .. Len(q) + 1
      PROVE  Ids(r)[i] = s[i]
  <2>1. i \in 1 .. Len(q) \/ i = Len(q) + 1
    BY <1>1
  <2> QED
    BY <1>1, <1>3, <1>4, <2>1
<1>6. Ids(r) = s
  BY <1>1, <1>3, <1>4, <1>5, SeqEqual
<1> QED
  BY <1>6 DEF r, s

LEMMA IdsTail ==
  ASSUME NEW q \in Seq(Job), q # <<>>
  PROVE  Ids(q) # <<>> /\ Head(Ids(q)) = Head(q).id /\ Ids(Tail(q)) = Tail(Ids(q))
<1>1. Len(q) \in Nat \ {0} /\ Tail(q) \in Seq(Job) /\ Len(Tail(q)) = Len(q) - 1
  BY EmptySeq, HeadTailProperties
<1>2. Ids(q) \in Seq(Cmds) /\ Len(Ids(q)) = Len(q) /\ Ids(q) # <<>>
  BY <1>1, IdsType
<1>3. Head(Ids(q)) = Head(q).id
  BY <1>1, <1>2, IdsType
<1>4. Tail(Ids(q)) \in Seq(Cmds) /\ Ids(Tail(q)) \in Seq(Cmds)
      /\ Len(Tail(Ids(q))) = Len(q) - 1 /\ Len(Ids(Tail(q))) = Len(q) - 1
  BY <1>1, <1>2, IdsType, HeadTailProperties
<1>5. ASSUME NEW i \in 1 .. Len(q) - 1
      PROVE  Ids(Tail(q))[i] = Tail(Ids(q))[i]
  <2>1. Ids(Tail(q))[i] = Tail(q)[i].id /\ Tail(q)[i] = q[i + 1]
    BY <1>1, IdsType, HeadTailProperties
  <2>2. Tail(Ids(q))[i] = Ids(q)[i + 1] /\ Ids(q)[i + 1] = q[i + 1].id
    BY <1>1, <1>2, <1>4, IdsType, HeadTailProperties
  <2> QED
    BY <2>1, <2>2
<1> QED
  BY <1>2, <1>3, <1>4, <1>5, SeqEqual

LEMMA IdsConcat ==
  ASSUME NEW q \in Seq(Job), NEW r \in Seq(Job)
  PROVE  Ids(q \o r) = Ids(q) \o Ids(r)
<1>1. q \o r \in Seq(Job) /\ Len(q \o r) = Len(q) + Len(r)
  BY ConcatProperties
<1>2. /\ Ids(q) \o Ids(r) \in Seq(Cmds) /\ Ids(q \o r) \in Seq(Cmds)
      /\ Len(Ids(q) \o Ids(r)) = Len(q) + Len(r) /\ Len(Ids(q \o r)) = Len(q) + Len(r)
  <2>1. /\ Ids(q) \in Seq(Cmds) /\ Ids(r) \in Seq(Cmds)
        /\ Len(Ids(q)) = Len(q) /\ Len(Ids(r)) = Len(r)
    BY IdsType
  <2>2. Ids(q \o r) \in Seq(Cmds) /\ Len(Ids(q \o r)) = Len(q) + Len(r)
    BY <1>1, IdsType
  <2> QED
    BY <2>1, <2>2, ConcatProperties
<1>3. ASSUME NEW i \in 1 .. Len(q) + Len(r)
      PROVE  Ids(q \o r)[i] = (Ids(q) \o Ids(r))[i]
  <2>1. Ids(q \o r)[i] = (q \o r)[i].id
    BY <1>1, IdsType
  <2>2. (q \o r)[i] = IF i <= Len(q) THEN q[i] ELSE r[i - Len(q)]
    BY ConcatProperties
  <2>3. (Ids(q) \o Ids(r))[i] = IF i <= Len(q) THEN Ids(q)[i] ELSE Ids(r)[i - Len(q)]
    BY IdsType, ConcatProperties
  <2> QED
    BY <2>1, <2>2, <2>3, IdsType
<1> QED
  BY <1>2, <1>3, SeqEqual

LEMMA SavedStatus ==
  ASSUME TypeOK, NEW id \in Cmds, NEW c \in Copy, Save(id, c)
  PROVE  Statuses' = [Statuses EXCEPT ![id] = c.status]
<1>1. Stored(id, c).status = c.status
  BY DEF Stored, Copy
<1> QED
  BY <1>1 DEF Save, Statuses, TypeOK

LEMMA KeptStatus == ASSUME KeepTable PROVE Statuses' = Statuses
  BY DEF KeepTable, Statuses

\* A handler that goes on, or ends, has no draft but at "write".
LEMMA HeldDrafts ==
  ASSUME TypeOK, NEW h \in Handlers, NEW c, NEW pc, Hold(h, c, pc),
         pc # "write" \/ handlers[h].op \in Creates
  PROVE  Drafts' \subseteq Drafts
<1>1. ASSUME NEW g \in Handlers, HoldsDraft(g)'
      PROVE  g # h /\ handlers'[g] = handlers[g]
  <2>1. handlers[h] \in HandlerType /\ "none" \notin Creates
    BY DEF TypeOK, Creates
  <2>2. ~HoldsDraft(h)'
    BY <2>1 DEF Hold, HoldsDraft, IdleHandler, TypeOK, HandlerType
  <2> QED
    BY <1>1, <2>2 DEF Hold, TypeOK
<1> QED
  BY <1>1 DEF Drafts, HoldsDraft

LEMMA KeptDrafts == ASSUME UNCHANGED handlers PROVE Drafts' = Drafts
  BY DEF Drafts, HoldsDraft

-----------------------------------------------------------------------------
(* The invariant: initCheck marks a command once, a new row is Pending, and *)
(* when nothing is removed every copy is of a row that is there, with its   *)
(* repository, so that no save of the worker is refused.                    *)

OneEach == \A j, k \in boot.failing : j.id = k.id => j = k

NewRows ==
  \A h \in Handlers :
    HandlerAt(h, Creates, "write") => handlers[h].c = NewRow(handlers[h].params)

TableKept ==
  /\ \A id \in present : rows[id].repo = "some"
  /\ \A d, e \in present : KeyOf[d] = KeyOf[e] => d = e

HandlersKept ==
  \A h \in Handlers :
    /\ handlers[h].c.repo # "none"
    /\ HoldsDraft(h) \/ handlers[h].pc \in {"restart", "enqueue", "add"} => handlers[h].id \in present

QueueKept == \A i \in DOMAIN queue : queue[i].id \in present /\ queue[i].c.repo # "none"

WorkerKept ==
  worker.pc # "idle" =>
    /\ worker.id \in present /\ worker.c.repo # "none"
    /\ worker.pc # "start" => worker.c.repo = "some"

BootKept == \A job \in boot.failing : job.id \in present /\ job.c.repo # "none"

NothingLost == TableKept /\ HandlersKept /\ QueueKept /\ WorkerKept /\ BootKept

MapInv == OneEach /\ NewRows /\ ("remove" \notin Ops => NothingLost)

\* A copy of a row that is there can be saved.
LEMMA Fits ==
  ASSUME TypeOK, TableKept, NEW id \in present, NEW c \in Copy, c.repo # "none"
  PROVE  CanSave(id, c) /\ Stored(id, c).repo = "some"
<1>1. HasRepo(id)
  BY DEF TableKept, HasRepo
<1>2. ~KeyTaken(id)
  BY DEF KeyTaken, HasRepo, TableKept
<1>3. Stored(id, c).repo = "some"
  BY <1>1 DEF Stored, Copy
<1> QED
  BY <1>2, <1>3 DEF CanSave

LEMMA SaveKept ==
  ASSUME TypeOK, TableKept, NEW id \in Cmds, NEW c \in Copy, CanSave(id, c), Save(id, c),
         c.repo # "none", id \in present \/ c.repo = "some"
  PROVE  TableKept' /\ present' = present \cup {id}
<1>1. Stored(id, c).repo = "some"
  BY Fits DEF Stored, Copy
<1>2. ~KeyTaken(id)
  BY <1>1 DEF CanSave
<1>3. present' = present \cup {id} /\ rows'[id].repo = "some" /\ \A d \in Cmds \ {id} : rows'[d] = rows[d]
  BY <1>1 DEF Save, TypeOK
<1>4. present \subseteq Cmds
  BY DEF TypeOK
<1>5. \A d \in present' : rows'[d].repo = "some"
  BY <1>3, <1>4 DEF TableKept
<1>6. \A d \in present \ {id} : KeyOf[d] # KeyOf[id]
  BY <1>2, <1>4 DEF KeyTaken, HasRepo, TableKept
<1>7. \A d, e \in present' : KeyOf[d] = KeyOf[e] => d = e
  BY <1>3, <1>6 DEF TableKept
<1> QED
  BY <1>3, <1>5, <1>7 DEF TableKept

LEMMA TableStays == ASSUME TableKept, KeepTable PROVE TableKept' /\ present' = present
  BY DEF TableKept, KeepTable

LEMMA HoldKept ==
  ASSUME TypeOK, HandlersKept, present \subseteq present', NEW h \in Handlers, NEW c, NEW pc,
         Hold(h, c, pc), c.repo # "none",
         \/ handlers[h].id \in present'
         \/ pc \in {"returned", "threw", "delete"}
         \/ pc = "write" /\ handlers[h].op \in Creates
  PROVE  HandlersKept'
<1> SUFFICES ASSUME NEW g \in Handlers
             PROVE  /\ handlers'[g].c.repo # "none"
                    /\ HoldsDraft(g)' \/ handlers'[g].pc \in {"restart", "enqueue", "add"}
                          => handlers'[g].id \in present'
  BY DEF HandlersKept
<1>1. CASE g # h
  BY <1>1 DEF Hold, HandlersKept, HoldsDraft, TypeOK
<1>2. CASE g = h /\ pc \in {"returned", "threw"}
  BY <1>2 DEF Hold, HoldsDraft, IdleHandler, Blank, NewRow, TypeOK
<1>3. CASE g = h /\ pc \notin {"returned", "threw"}
  <2>1. handlers'[g] = [handlers[h] EXCEPT !.pc = pc, !.c = c] /\ handlers[h] \in HandlerType
    BY <1>3 DEF Hold, TypeOK
  <2>2. /\ handlers'[g].c = c
        /\ handlers'[g].pc = pc
        /\ handlers'[g].id = handlers[h].id
        /\ handlers'[g].op = handlers[h].op
    BY <2>1 DEF HandlerType
  <2> QED
    BY <1>3, <2>2 DEF HoldsDraft
<1> QED
  BY <1>1, <1>2, <1>3

LEMMA SaveAndGotoKept ==
  ASSUME TypeOK, TableKept, HandlersKept, NEW h \in Handlers, NEW c \in Copy, c.repo # "none",
         handlers[h].id \in present \/ c.repo = "some", NEW pc,
         SaveAndGoto(h, c, pc) \/ SaveAndEmit(h, c, pc) \/ Throw(h)
  PROVE  TableKept' /\ HandlersKept' /\ present \subseteq present'
<1> DEFINE id == handlers[h].id
<1>1. id \in Cmds /\ handlers[h].c.repo # "none"
  BY DEF TypeOK, HandlerType, HandlersKept
<1>2. CASE Throw(h)
  <2>1. TableKept' /\ present' = present
    BY <1>2, TableStays DEF Throw
  <2> QED
    BY <1>1, <1>2, <2>1, HoldKept DEF Throw, Goto
<1>3. CASE CanSave(id, c) /\ Save(id, c) /\ \E d \in {c, Stored(id, c)} : Hold(h, d, pc)
  <2>1. TableKept' /\ present' = present \cup {id}
    BY <1>1, <1>3, SaveKept
  <2>2. Stored(id, c).repo # "none"
    BY Fits DEF Stored
  <2> QED
    BY <1>3, <2>1, <2>2, HoldKept
<1>4. CASE CanSave(id, c) /\ Save(id, c) /\ Goto(h, "threw")
  <2>1. TableKept' /\ present' = present \cup {id}
    BY <1>1, <1>4, SaveKept
  <2> QED
    BY <1>1, <1>4, <2>1, HoldKept DEF Goto
<1> QED
  BY <1>2, <1>3, <1>4 DEF SaveAndGoto, SaveAndEmit

LEMMA OthersKept ==
  ASSUME QueueKept, WorkerKept, BootKept, present \subseteq present', UNCHANGED <<queue, worker, boot>>
  PROVE  QueueKept' /\ WorkerKept' /\ BootKept'
  BY DEF QueueKept, WorkerKept, BootKept

LEMMA HandlerStepKept ==
  ASSUME TypeOK, NewRows, "remove" \notin Ops, NothingLost, NEW h \in Handlers, HandlerStep(h)
  PROVE  NothingLost'
<1> DEFINE id == handlers[h].id
           c == handlers[h].c
<1>1. /\ id \in Cmds /\ c \in Copy
      /\ handlers[h].op \in Ops \cup {"none"} /\ handlers[h].params \in Params
      /\ c.repo # "none" /\ TableKept /\ HandlersKept /\ QueueKept /\ WorkerKept /\ BootKept
      /\ HoldsDraft(h) \/ handlers[h].pc \in {"restart", "enqueue", "add"} => id \in present
  BY DEF TypeOK, HandlerType, NothingLost, HandlersKept
<1>2. ASSUME TableKept', HandlersKept', present \subseteq present', KeepOthers, UNCHANGED queue
      PROVE  NothingLost'
  BY <1>1, <1>2, OthersKept DEF KeepOthers, NothingLost
<1>3. ASSUME NEW d \in Copy, d.repo # "none", id \in present \/ d.repo = "some", NEW pc,
             SaveAndGoto(h, d, pc) \/ SaveAndEmit(h, d, pc) \/ Throw(h), KeepOthers, UNCHANGED queue
      PROVE  NothingLost'
  BY <1>1, <1>2, <1>3, SaveAndGotoKept
<1>4. CASE Load(h)
  <2>1. CASE id \in present
    <3>1. KeepTable /\ Loaded(id).repo # "none"
      BY <1>1, <1>4, <2>1 DEF Load, Loaded, TypeOK, Row, Copy
    <3>2. TableKept' /\ present' = present
      BY <1>1, <3>1, TableStays
    <3>3. HandlersKept'
      BY <1>1, <1>4, <2>1, <3>1, <3>2, HoldKept DEF Load
    <3> QED
      BY <1>2, <1>4, <3>2, <3>3 DEF Load
  <2>2. CASE id \notin present
    BY <1>1, <1>3, <1>4, <2>2, Fits, BlankRow DEF Load, Blank, NewRow
  <2> QED
    BY <2>1, <2>2
<1>5. CASE CheckExists(h)
  <2>1. CASE Throw(h)
    BY <1>3, <1>5, <2>1, BlankRow DEF CheckExists, Blank, NewRow
  <2>2. CASE Hold(h, NewRow(handlers[h].params), "write") /\ KeepTable
    <3>1. TableKept' /\ present' = present
      BY <1>1, <2>2, TableStays
    <3>2. HandlersKept'
      BY <1>1, <1>5, <2>2, <3>1, HoldKept DEF CheckExists, HandlerAt, NewRow
    <3> QED
      BY <1>2, <1>5, <3>1, <3>2 DEF CheckExists
  <2> QED
    BY <1>5, <2>1, <2>2 DEF CheckExists
<1>6. CASE Create(h)
  <2>1. c = NewRow(handlers[h].params)
    BY <1>6 DEF Create, NewRows, HandlerAt
  <2>2. c.repo = "some"
    BY <2>1 DEF NewRow
  <2> QED
    BY <1>1, <1>3, <1>6, <2>2 DEF Create
<1>7. CASE Update(h)
  <2>1. /\ [c EXCEPT !.params = handlers[h].params] \in Copy
        /\ [c EXCEPT !.params = handlers[h].params].repo = c.repo
    BY <1>1 DEF Copy
  <2>2. id \in present
    BY <1>1, <1>7 DEF Update, HandlerAt, HoldsDraft, Updates, Creates
  <2> QED
    BY <1>1, <1>3, <1>7, <2>1, <2>2 DEF Update
<1>8. CASE Restart(h)
  <2>1. Restarted(c) \in Copy /\ Restarted(c).repo = c.repo
    BY <1>1 DEF Copy, Restarted, Status, RunStatus
  <2>2. id \in present
    BY <1>1, <1>8 DEF Restart, HandlerAt, HoldsDraft, Creates
  <2> QED
    BY <1>1, <1>3, <1>8, <2>1, <2>2 DEF Restart
<1>9. CASE Resume(h)
  <2>1. TableKept' /\ present' = present
    BY <1>1, <1>9, TableStays DEF Resume
  <2>2. id \in present
    BY <1>1, <1>9 DEF Resume, HandlerAt, HoldsDraft, Creates
  <2>3. HandlersKept'
    BY <1>1, <1>9, <2>1, <2>2, HoldKept DEF Resume, Goto
  <2> QED
    BY <1>2, <1>9, <2>1, <2>3 DEF Resume
<1>10. CASE Enqueue(h)
  <2>1. [c EXCEPT !.status = "Queued"] \in Copy /\ [c EXCEPT !.status = "Queued"].repo = c.repo
    BY <1>1 DEF Copy, Status
  <2> QED
    BY <1>1, <1>3, <1>10, <2>1 DEF Enqueue
<1>11. CASE AddJob(h)
  <2>1. TableKept' /\ present' = present
    BY <1>1, <1>11, TableStays DEF AddJob
  <2>2. id \in present /\ [id |-> id, c |-> c] \in Job
    BY <1>1, <1>11 DEF AddJob, Job
  <2>3. HandlersKept'
    BY <1>1, <1>11, <2>1, <2>2, HoldKept DEF AddJob, Goto
  <2>4. QueueKept'
    <3>1. queue \in Seq(Job) /\ queue' = Append(queue, [id |-> id, c |-> c])
      BY <1>11 DEF AddJob, TypeOK
    <3> QED
      BY <1>1, <2>1, <2>2, <3>1, AppendProperties DEF QueueKept
  <2>5. WorkerKept' /\ BootKept'
    BY <1>1, <1>11, <2>1 DEF AddJob, KeepOthers, WorkerKept, BootKept
  <2> QED
    BY <2>1, <2>3, <2>4, <2>5 DEF NothingLost
<1>12. CASE Stop(h)
  <2>1. [c EXCEPT !.status = "Pending"] \in Copy /\ [c EXCEPT !.status = "Pending"].repo = c.repo
    BY <1>1 DEF Copy, Status
  <2>2. id \in present
    BY <1>1, <1>12 DEF Stop, HandlerAt, HoldsDraft, Creates
  <2> QED
    BY <1>1, <1>3, <1>12, <2>1, <2>2 DEF Stop
<1>13. CASE RemoveFiles(h) \/ RemoveRow(h)
  BY <1>1, <1>13 DEF RemoveFiles, RemoveRow, HandlerAt
<1>14. CASE Lock(h)
  <2>1. [c EXCEPT !.locked = TRUE] \in Copy /\ [c EXCEPT !.locked = TRUE].repo = c.repo
    BY <1>1 DEF Copy
  <2>2. id \in present
    BY <1>1, <1>14 DEF Lock, HandlerAt, HoldsDraft, Creates
  <2> QED
    BY <1>1, <1>3, <1>14, <2>1, <2>2 DEF Lock
<1>15. CASE Unlock(h)
  <2>1. [c EXCEPT !.locked = FALSE] \in Copy /\ [c EXCEPT !.locked = FALSE].repo = c.repo
    BY <1>1 DEF Copy
  <2>2. id \in present
    BY <1>1, <1>15 DEF Unlock, HandlerAt, HoldsDraft, Creates
  <2> QED
    BY <1>1, <1>3, <1>15, <2>1, <2>2 DEF Unlock
<1> QED
  BY <1>4, <1>5, <1>6, <1>7, <1>8, <1>9, <1>10, <1>11, <1>12, <1>13, <1>14, <1>15 DEF HandlerStep

LEMMA WorkerSaveKept ==
  ASSUME TypeOK, TableKept, WorkerKept, worker.pc # "idle", NEW c \in Copy,
         c.repo = worker.c.repo, NEW next \in WorkerPC \ {"start"}, NEW onThrow \in {"idle", "fail"},
         worker.pc = "start" => onThrow = "idle", WorkerSave(c, next, onThrow)
  PROVE  TableKept' /\ WorkerKept' /\ present' = present
<1>1. /\ worker \in WorkerType /\ worker.id \in present /\ worker.id \in Cmds /\ c.repo # "none"
      /\ onThrow = "fail" => c.repo = "some"
  BY DEF WorkerKept, TypeOK, WorkerType
<1>2. CanSave(worker.id, c) /\ Stored(worker.id, c).repo = "some"
  BY <1>1, Fits
<1>3. TableKept' /\ present' = present
  BY <1>1, <1>2, SaveKept DEF WorkerSave
<1>4. ASSUME NEW d, NEW pc, WorkerTo(d, pc), pc = "idle" \/ d.repo = "some"
      PROVE  WorkerKept'
  BY <1>1, <1>3, <1>4 DEF WorkerTo, WorkerKept, IdleWorker, WorkerType
<1>5. PICK d, pc : WorkerTo(d, pc) /\ (pc = "idle" \/ d.repo = "some")
  <2>1. WorkerTo(Stored(worker.id, c), next) \/ WorkerTo(c, onThrow)
    BY <1>2 DEF WorkerSave
  <2> QED
    BY <1>1, <1>2, <2>1
<1> QED
  BY <1>3, <1>4, <1>5

LEMMA WorkerStepKept ==
  ASSUME TypeOK, NothingLost, WorkerStep
  PROVE  NothingLost'
<1>1. /\ worker \in WorkerType /\ worker.c \in Copy /\ queue \in Seq(Job)
      /\ TableKept /\ HandlersKept /\ QueueKept /\ WorkerKept /\ BootKept
  BY DEF TypeOK, WorkerType, NothingLost
<1>2. ASSUME TableKept', WorkerKept', QueueKept', present' = present, KeepRequests
      PROVE  NothingLost'
  BY <1>1, <1>2 DEF NothingLost, KeepRequests, HandlersKept, HoldsDraft, BootKept
<1>3. ASSUME NEW c \in Copy, c.repo = worker.c.repo, worker.pc # "idle",
             NEW next \in WorkerPC \ {"start"}, NEW onThrow \in {"idle", "fail"},
             worker.pc = "start" => onThrow = "idle", WorkerSave(c, next, onThrow),
             UNCHANGED <<queue, tree>>, KeepRequests
      PROVE  NothingLost'
  <2>1. TableKept' /\ WorkerKept' /\ present' = present
    BY <1>1, <1>3, WorkerSaveKept
  <2>2. QueueKept'
    BY <1>1, <1>3, <2>1 DEF QueueKept
  <2> QED
    BY <1>2, <1>3, <2>1, <2>2
<1>4. ASSUME KeepTable, UNCHANGED queue, KeepRequests, WorkerKept'
      PROVE  NothingLost'
  <2>1. TableKept' /\ present' = present
    BY <1>1, <1>4, TableStays
  <2>2. QueueKept'
    BY <1>1, <1>4, <2>1 DEF QueueKept
  <2> QED
    BY <1>2, <1>4, <2>1, <2>2
<1>5. CASE Take
  <2>1. TableKept' /\ present' = present
    BY <1>1, <1>5, TableStays DEF Take
  <2>2. queue # <<>> /\ queue' = Tail(queue) /\ Head(queue) = queue[1] /\ 1 \in DOMAIN queue
    BY <1>1, <1>5, EmptySeq DEF Take
  <2>3. QueueKept'
    BY <1>1, <2>1, <2>2, HeadTailProperties DEF QueueKept
  <2>6. Head(queue) \in Job
    BY <1>1, <2>2, HeadTailProperties
  <2>4. Head(queue).id \in present /\ Head(queue).c.repo # "none" /\ Head(queue).c \in Copy
    BY <1>1, <2>2, <2>6 DEF QueueKept, Job
  <2>5. WorkerKept'
    BY <1>5, <2>1, <2>4 DEF Take, WorkerKept, IdleWorker, Copy
  <2> QED
    BY <1>2, <1>5, <2>1, <2>3, <2>5 DEF Take
<1>6. CASE Start
  BY <1>1, <1>3, <1>6 DEF Start, WorkerPC
<1>7. CASE Prepare
  <2>1. WorkerKept'
    BY <1>1, <1>7 DEF Prepare, WorkerKept, IdleWorker, KeepTable, WorkerType
  <2> QED
    BY <1>4, <1>7, <2>1 DEF Prepare
<1>8. CASE Stage
  <2>1. PICK changes \in BOOLEAN :
          worker' = IF Cancelled THEN [worker EXCEPT !.pc = "succeed"]
                    ELSE [worker EXCEPT !.pc = "save", !.c = AfterStage(StageToDo, changes),
                            !.fresh = @ \/ StageToDo = "CheckedOut",
                            !.tail = @ \/ StageToDo = "ArchivedUnchanged"]
    BY <1>8 DEF Stage
  <2>2. AfterStage(StageToDo, changes).repo = worker.c.repo
    BY <1>1 DEF AfterStage, Copy
  <2>3. worker'.id = worker.id /\ worker'.c.repo = worker.c.repo
    BY <1>1, <2>1, <2>2 DEF WorkerType
  <2>4. WorkerKept'
    BY <1>1, <1>8, <2>3 DEF Stage, WorkerKept, KeepTable
  <2> QED
    BY <1>4, <1>8, <2>4 DEF Stage
<1>9. CASE StageFails
  <2>1. WorkerKept'
    BY <1>1, <1>9 DEF StageFails, WorkerKept, KeepTable, WorkerType
  <2> QED
    BY <1>4, <1>9, <2>1 DEF StageFails
<1>10. CASE SaveStage
  BY <1>1, <1>3, <1>10 DEF SaveStage, WorkerPC
<1>11. CASE Succeed
  <2>1. /\ [worker.c EXCEPT !.status = "Succeeded"] \in Copy
        /\ [worker.c EXCEPT !.status = "Succeeded"].repo = worker.c.repo
    BY <1>1 DEF Copy, Status
  <2> QED
    BY <1>3, <1>11, <2>1 DEF Succeed, WorkerPC
<1>12. CASE Fail
  <2>1. /\ [worker.c EXCEPT !.status = "Failed"] \in Copy
        /\ [worker.c EXCEPT !.status = "Failed"].repo = worker.c.repo
    BY <1>1 DEF Copy, Status
  <2> QED
    BY <1>3, <1>12, <2>1 DEF Fail, WorkerPC
<1> QED
  BY <1>5, <1>6, <1>7, <1>8, <1>9, <1>10, <1>11, <1>12 DEF WorkerStep

LEMMA BootStepKept ==
  ASSUME TypeOK, NothingLost, BootStep
  PROVE  NothingLost'
<1>1. /\ rows \in [Cmds -> Row] /\ present \subseteq Cmds
      /\ queue \in Seq(Job) /\ boot.failing \subseteq Job
      /\ boot \in BootType /\ TableKept /\ HandlersKept /\ QueueKept /\ WorkerKept /\ BootKept
  BY DEF TypeOK, BootType, NothingLost
<1>2. ASSUME TableKept', QueueKept', BootKept', present' = present, KeepBusy
      PROVE  NothingLost'
  BY <1>1, <1>2 DEF NothingLost, KeepBusy, HandlersKept, HoldsDraft, WorkerKept
<1>3. \A id \in Cmds : Loaded(id).repo # "none"
  BY <1>1 DEF Loaded, Row, Copy
<1>4. CASE ListRunning
  <2>1. TableKept' /\ present' = present
    BY <1>1, <1>4, TableStays DEF ListRunning
  <2>2. QueueKept' /\ BootKept'
    BY <1>1, <1>3, <1>4, <2>1 DEF ListRunning, QueueKept, BootKept
  <2> QED
    BY <1>2, <1>4, <2>1, <2>2 DEF ListRunning
<1>5. CASE FailInterrupted
  <2>1. PICK job \in boot.failing :
          Save(job.id, Marked(job)) /\ boot' = [boot EXCEPT !.failing = @ \ {job}]
    BY <1>5 DEF FailInterrupted
  <2>2. job.id \in present /\ Marked(job) \in Copy /\ Marked(job).repo # "none"
    BY <1>1 DEF BootKept, Marked, Job, Copy, Status
  <2>3. TableKept' /\ present' = present
    BY <1>1, <2>1, <2>2, Fits, SaveKept
  <2>4. QueueKept' /\ BootKept'
    BY <1>1, <1>5, <2>1, <2>3 DEF FailInterrupted, QueueKept, BootKept, BootType
  <2> QED
    BY <1>2, <1>5, <2>3, <2>4 DEF FailInterrupted
<1>6. CASE ListQueued
  <2>1. TableKept' /\ present' = present
    BY <1>1, <1>6, TableStays DEF ListQueued
  <2>0. PICK n \in 0 .. NumCmds : \E order \in [1 .. n -> Waiting] :
          queue' = queue \o [i \in 1 .. n |-> [id |-> order[i], c |-> Loaded(order[i])]]
    BY <1>6 DEF ListQueued
  <2>2. PICK order \in [1 .. n -> Waiting] :
          queue' = queue \o [i \in 1 .. n |-> [id |-> order[i], c |-> Loaded(order[i])]]
    BY <2>0
  <2> DEFINE added == [i \in 1 .. n |-> [id |-> order[i], c |-> Loaded(order[i])]]
  <2>3. added \in Seq(Job) /\ Len(added) = n
    BY RequeuedType
  <2>4. \A i \in 1 .. n : added[i].id \in present /\ added[i].c.repo # "none"
    BY <1>1, <1>3 DEF Waiting
  <2> HIDE DEF added
  <2>5. QueueKept'
    <3>1. queue' = queue \o added /\ queue' \in Seq(Job) /\ Len(queue') = Len(queue) + Len(added)
          /\ Len(queue) \in Nat /\ n \in Nat
      BY <1>1, <2>2, <2>3, ConcatProperties, ConstantsAssumption DEF added
    <3>2. SUFFICES ASSUME NEW i \in 1 .. Len(queue) + n
                   PROVE  queue'[i].id \in present /\ queue'[i].c.repo # "none"
      BY <2>1, <2>3, <3>1, LenProperties DEF QueueKept
    <3>3. queue'[i] = IF i <= Len(queue) THEN queue[i] ELSE added[i - Len(queue)]
      BY <1>1, <2>3, <3>1, ConcatProperties
    <3>4. CASE i <= Len(queue)
      BY <1>1, <3>1, <3>3, <3>4, LenProperties DEF QueueKept
    <3>5. CASE ~(i <= Len(queue))
      BY <2>4, <3>1, <3>3, <3>5
    <3> QED
      BY <3>4, <3>5
  <2>6. BootKept'
    BY <1>1, <1>6, <2>1 DEF ListQueued, BootKept, BootType
  <2> QED
    BY <1>2, <1>6, <2>1, <2>5, <2>6 DEF ListQueued
<1> QED
  BY <1>4, <1>5, <1>6 DEF BootStep

LEMMA LoseMemoryKept ==
  ASSUME LoseMemory
  PROVE  HandlersKept' /\ QueueKept' /\ WorkerKept' /\ BootKept'
<1>1. HandlersKept'
  BY DEF LoseMemory, HandlersKept, HoldsDraft, IdleHandler, Blank, NewRow
<1>2. QueueKept' /\ WorkerKept' /\ BootKept'
  BY DEF LoseMemory, QueueKept, WorkerKept, BootKept, IdleWorker, Booting
<1> QED
  BY <1>1, <1>2

LEMMA NothingLostStep ==
  ASSUME TypeOK, NewRows, "remove" \notin Ops, NothingLost, [Next]_vars
  PROVE  NothingLost'
<1>1. CASE UNCHANGED vars
  BY <1>1 DEF vars, NothingLost, TableKept, HandlersKept, HoldsDraft, QueueKept, WorkerKept, BootKept
<1>2. CASE \E job \in boot.failing : Unhandled /\ Save(job.id, Marked(job))
  <2>1. PICK job \in boot.failing : Unhandled /\ Save(job.id, Marked(job))
    BY <1>2
  <2>2. job.id \in present /\ job.id \in Cmds /\ Marked(job) \in Copy /\ Marked(job).repo # "none"
    BY DEF TypeOK, BootType, NothingLost, BootKept, Marked, Job, Copy, Status
  <2>3. TableKept'
    BY <2>1, <2>2, Fits, SaveKept DEF NothingLost
  <2> QED
    BY <2>1, <2>3, LoseMemoryKept DEF Unhandled, NothingLost
<1>3. CASE Crash /\ KeepTable
  BY <1>3, LoseMemoryKept, TableStays DEF Crash, NothingLost
<1>4. ASSUME NEW h \in Handlers, Request(h)
      PROVE  NothingLost'
  <2>1. PICK op \in Ops, id \in Cmds, p \in Params :
          handlers' = [handlers EXCEPT ![h] =
             [pc |-> "load", op |-> op, id |-> id, params |-> p, c |-> Blank]]
    BY <1>4, Zenon DEF Request
  <2>2. HandlersKept'
    BY <1>4, <2>1 DEF Request, NothingLost, HandlersKept, HoldsDraft, TypeOK, Blank, NewRow
  <2>3. TableKept' /\ QueueKept' /\ WorkerKept' /\ BootKept'
    BY <1>4 DEF Request, NothingLost, TableKept, QueueKept, WorkerKept, BootKept
  <2> QED
    BY <2>2, <2>3 DEF NothingLost
<1>5. ASSUME NEW h \in Handlers, Respond(h), KeepTable
      PROVE  NothingLost'
  <2>1. HandlersKept'
    BY <1>5 DEF Respond, KeepTable, NothingLost, HandlersKept, HoldsDraft, TypeOK, IdleHandler,
                Blank, NewRow
  <2>2. TableKept' /\ QueueKept' /\ WorkerKept' /\ BootKept'
    BY <1>5 DEF Respond, KeepTable, KeepOthers, NothingLost, TableKept, QueueKept, WorkerKept, BootKept
  <2> QED
    BY <2>1, <2>2 DEF NothingLost
<1> QED
  BY <1>1, <1>2, <1>3, <1>4, <1>5, HandlerStepKept, WorkerStepKept, BootStepKept DEF Next

\* Only CheckExists brings a create to "write".
LEMMA NewRowsStep == ASSUME TypeOK, NewRows, [Next]_vars PROVE NewRows'
<1> USE DEF NewRows, HandlerAt
<1>0. handlers \in [Handlers -> HandlerType]
  BY DEF TypeOK
<1>1. CASE UNCHANGED handlers
  BY <1>1
<1>2. CASE LoseMemory
  BY <1>2 DEF LoseMemory, IdleHandler
<1>3. ASSUME NEW h \in Handlers, NEW c, NEW pc, Hold(h, c, pc),
             pc = "write" => handlers[h].op \notin Creates \/ c = NewRow(handlers[h].params)
      PROVE  NewRows'
  <2> SUFFICES ASSUME NEW g \in Handlers, HandlerAt(g, Creates, "write")'
               PROVE  handlers'[g].c = NewRow(handlers'[g].params)
    OBVIOUS
  <2>1. CASE g # h
    BY <1>0, <1>3, <2>1 DEF Hold
  <2>2. CASE g = h
    <3>1. pc \notin {"returned", "threw"}
      BY <1>0, <1>3, <2>2 DEF Hold, IdleHandler
    <3>2. handlers'[g] = [handlers[h] EXCEPT !.pc = pc, !.c = c] /\ handlers[h] \in HandlerType
      BY <1>0, <1>3, <2>2, <3>1 DEF Hold
    <3>3. /\ handlers'[g].c = c /\ handlers'[g].pc = pc /\ handlers'[g].op = handlers[h].op
          /\ handlers'[g].params = handlers[h].params
      BY <3>2 DEF HandlerType
    <3> QED
      BY <1>3, <3>3
  <2> QED
    BY <2>1, <2>2
<1>4. ASSUME NEW h \in Handlers, NEW c, NEW pc, pc # "write",
             SaveAndGoto(h, c, pc) \/ SaveAndEmit(h, c, pc) \/ Throw(h) \/ Goto(h, pc)
      PROVE  NewRows'
  BY <1>3, <1>4 DEF SaveAndGoto, SaveAndEmit, Throw, Goto
<1>5. ASSUME NEW h \in Handlers, HandlerStep(h)
      PROVE  NewRows'
  <2>1. CASE Load(h)
    BY <1>3, <1>4, <2>1 DEF Load
  <2>2. CASE CheckExists(h)
    BY <1>3, <1>4, <2>2 DEF CheckExists
  <2>3. CASE Create(h) \/ Update(h) \/ Restart(h) \/ Resume(h)
    BY <1>4, <2>3 DEF Create, Update, Restart, Resume
  <2>4. CASE Enqueue(h) \/ AddJob(h) \/ Stop(h)
    BY <1>4, <2>4 DEF Enqueue, AddJob, Stop
  <2>5. CASE RemoveFiles(h) \/ RemoveRow(h) \/ Lock(h) \/ Unlock(h)
    BY <1>4, <2>5 DEF RemoveFiles, RemoveRow, Lock, Unlock
  <2> QED
    BY <1>5, <2>1, <2>2, <2>3, <2>4, <2>5 DEF HandlerStep
<1>6. ASSUME NEW h \in Handlers, Request(h)
      PROVE  NewRows'
  <2>1. PICK op \in Ops, id \in Cmds, p \in Params :
          handlers' = [handlers EXCEPT ![h] =
             [pc |-> "load", op |-> op, id |-> id, params |-> p, c |-> Blank]]
    BY <1>6, Zenon DEF Request
  <2> QED
    BY <1>0, <2>1
<1>7. ASSUME NEW h \in Handlers, Respond(h)
      PROVE  NewRows'
  BY <1>0, <1>7 DEF Respond, IdleHandler
<1>8. CASE WorkerStep \/ BootStep
  BY <1>1, <1>8 DEF WorkerStep, Take, Start, Prepare, Stage, StageFails, SaveStage, Succeed,
                    Fail, KeepRequests,
                    BootStep, ListRunning, FailInterrupted, ListQueued, KeepBusy
<1> QED
  BY <1>1, <1>2, <1>5, <1>6, <1>7, <1>8 DEF Next, Crash, Unhandled, vars

\* initCheck reads each Running row once.
LEMMA OneEachStep == ASSUME TypeOK, OneEach, [Next]_vars PROVE OneEach'
<1> USE DEF OneEach
<1>0. boot \in BootType
  BY DEF TypeOK
<1>1. CASE UNCHANGED boot
  BY <1>1
<1>2. CASE LoseMemory
  BY <1>2 DEF LoseMemory, Booting
<1>3. CASE ListRunning
  BY <1>3 DEF ListRunning
<1>4. CASE FailInterrupted
  BY <1>0, <1>4 DEF FailInterrupted, BootType
<1>5. CASE ListQueued
  BY <1>0, <1>5 DEF ListQueued, BootType
<1>6. ASSUME NEW h \in Handlers, Request(h) \/ HandlerStep(h) \/ Respond(h)
      PROVE  UNCHANGED boot
  BY <1>6 DEF Request, Respond, HandlerStep, Load, CheckExists, Create, Update, Restart,
              Resume, Enqueue,
              AddJob, Stop, RemoveFiles, RemoveRow, Lock, Unlock, KeepOthers
<1>7. ASSUME WorkerStep
      PROVE  UNCHANGED boot
  BY <1>7 DEF WorkerStep, Take, Start, Prepare, Stage, StageFails, SaveStage, Succeed, Fail,
              KeepRequests
<1> QED
  BY <1>1, <1>2, <1>3, <1>4, <1>5, <1>6, <1>7 DEF Next, BootStep, Crash, Unhandled, vars

LEMMA MapInvInit == Init => MapInv
<1> SUFFICES ASSUME Init PROVE MapInv
  OBVIOUS
<1>1. OneEach /\ NewRows /\ BootKept
  BY DEF Init, OneEach, NewRows, HandlerAt, Booting, IdleHandler, BootKept
<1>2. HandlersKept /\ QueueKept /\ WorkerKept
  BY DEF Init, HandlersKept, HoldsDraft, QueueKept, WorkerKept, IdleHandler, IdleWorker, Blank, NewRow
<1>3. TableKept
  <2>1. present \subseteq Cmds /\ \A id \in Cmds : rows[id].repo = "some"
    BY InitType DEF TypeOK, Init, Blank, NewRow
  <2>2. ASSUME NEW d \in present, NEW e \in present, KeyOf[d] = KeyOf[e]
        PROVE  d = e
    <3>1. d \in Nat /\ e \in Nat /\ d \in born /\ e \in born
      BY <2>1 DEF Cmds, Init
    <3>2. ~(d < e) /\ ~(e < d)
      BY <2>2, <3>1 DEF Init
    <3> QED
      BY <3>1, <3>2
  <2> QED
    BY <2>1, <2>2 DEF TableKept
<1> QED
  BY <1>1, <1>2, <1>3 DEF MapInv, NothingLost

LEMMA MapInvStep == IInv /\ MapInv /\ [Next]_vars => MapInv'
<1> SUFFICES ASSUME IInv, MapInv, [Next]_vars PROVE MapInv'
  OBVIOUS
<1> QED
  BY NewRowsStep, OneEachStep, NothingLostStep DEF MapInv, IInv

-----------------------------------------------------------------------------
(* Each step is one of the abstract specification, or changes nothing of it. *)

LEMMA InitRefines == Init => Lifecycle!Init
<1> SUFFICES ASSUME Init PROVE Lifecycle!Init
  OBVIOUS
<1>1. Statuses \in [Cmds -> {"Absent", "Pending"}]
  BY DEF Init, Statuses, Blank, NewRow
<1>2. Drafts = {} /\ Interrupted = {}
  BY DEF Init, Drafts, HoldsDraft, IdleHandler, Interrupted, Booting
<1>3. Ids(queue) = <<>>
  BY DEF Init, Ids
<1>4. RunOf(worker) = Lifecycle!NoRun /\ RecoveryAt(boot.pc) = "find"
  BY RunIs, RecoveryIs DEF Init, IdleWorker, Booting
<1> QED
  BY <1>1, <1>2, <1>3, <1>4 DEF Lifecycle!Init

\* What a step of a request leaves alone of the abstract state
LEMMA ServiceKept ==
  ASSUME UNCHANGED <<worker, boot>>
  PROVE  Lifecycle!KeepService
  BY DEF Lifecycle!KeepService, Interrupted

LEMMA Forgets ==
  ASSUME Drafts' \subseteq Drafts, KeepTable, UNCHANGED <<queue, worker, boot>>
  PROVE  Lifecycle!Next
<1>1. Lifecycle!Forget
  BY KeptStatus, ServiceKept DEF Lifecycle!Forget
<1> QED
  BY <1>1 DEF Lifecycle!Next

\* A save of a request: it makes the command Pending or Queued, or writes the
\* status it has loaded.
LEMMA Writes ==
  ASSUME TypeOK, Drafts' \subseteq Drafts, NEW id \in Cmds, NEW c \in Copy, Save(id, c),
         c.status \in {"Pending", "Queued"} \/ <<id, c.status>> \in Drafts,
         UNCHANGED <<queue, worker, boot>>
  PROVE  Lifecycle!Next
<1>1. Lifecycle!Set(id, c.status)
  BY SavedStatus DEF Lifecycle!Set
<1>2. CASE c.status \in {"Pending", "Queued"}
  BY <1>1, <1>2, ServiceKept DEF Lifecycle!Reset, Lifecycle!Next
<1>3. CASE <<id, c.status>> \in Drafts
  <2>1. \E draft \in Drafts : draft[1] = id /\ Lifecycle!Set(id, draft[2])
    BY <1>1, <1>3
  <2> QED
    BY <2>1, ServiceKept DEF Lifecycle!WriteBack, Lifecycle!Next
<1> QED
  BY <1>2, <1>3

LEMMA SaveAndGotoRefines ==
  ASSUME TypeOK, NEW h \in Handlers, NEW c \in Copy, NEW pc, pc # "write",
         SaveAndGoto(h, c, pc) \/ SaveAndEmit(h, c, pc) \/ Throw(h),
         c.status \in {"Pending", "Queued"} \/ <<handlers[h].id, c.status>> \in Drafts,
         UNCHANGED <<queue, worker, boot>>
  PROVE  Lifecycle!Next
<1>1. handlers[h].id \in Cmds
  BY DEF TypeOK, HandlerType
<1>2. ASSUME NEW d, NEW q, q # "write", Hold(h, d, q)
      PROVE  Drafts' \subseteq Drafts
  BY <1>2, HeldDrafts
<1>3. CASE Throw(h)
  BY <1>2, <1>3, Forgets DEF Throw, Goto
<1>4. CASE ~Throw(h)
  <2>1. Save(handlers[h].id, c) /\ Drafts' \subseteq Drafts
    BY <1>2, <1>4 DEF SaveAndGoto, SaveAndEmit, Goto
  <2> QED
    BY <1>1, <2>1, Writes
<1> QED
  BY <1>3, <1>4

LEMMA HandlerStepRefines ==
  ASSUME TypeOK, NewRows, NEW h \in Handlers, HandlerStep(h)
  PROVE  Lifecycle!Next
<1> DEFINE id == handlers[h].id
           c == handlers[h].c
<1>1. id \in Cmds /\ c \in Copy /\ handlers[h].params \in Params
  BY DEF TypeOK, HandlerType
<1>2. HoldsDraft(h) => <<id, c.status>> \in Drafts
  BY DEF Drafts
<1>3. ASSUME NEW d \in Copy, NEW pc, pc # "write",
             SaveAndGoto(h, d, pc) \/ SaveAndEmit(h, d, pc) \/ Throw(h),
             d.status \in {"Pending", "Queued"} \/ <<id, d.status>> \in Drafts,
             KeepOthers, UNCHANGED queue
      PROVE  Lifecycle!Next
  BY <1>3, SaveAndGotoRefines DEF KeepOthers
<1>4. ASSUME Throw(h), KeepOthers, UNCHANGED queue
      PROVE  Lifecycle!Next
  <2>1. Drafts' \subseteq Drafts
    BY <1>4, HeldDrafts DEF Throw, Goto
  <2> QED
    BY <1>4, <2>1, Forgets DEF Throw, KeepOthers
<1>5. ASSUME NEW d, NEW pc, pc # "write" \/ handlers[h].op \in Creates, Hold(h, d, pc),
             KeepTable, KeepOthers, UNCHANGED queue
      PROVE  Lifecycle!Next
  <2>1. Drafts' \subseteq Drafts
    BY <1>5, HeldDrafts
  <2> QED
    BY <1>5, <2>1, Forgets DEF KeepOthers
<1>6. CASE Load(h)
  <2>1. CASE id \in present /\ handlers[h].op \notin Reads
    <3>1. Hold(h, Loaded(id), "write") /\ KeepTable /\ KeepOthers /\ UNCHANGED queue
      BY <1>6, <2>1 DEF Load
    <3>2. Loaded(id).status = Statuses[id] /\ Statuses[id] # "Absent"
      BY <1>1, <2>1, LoadedType DEF Statuses, TypeOK, Row, Copy, Status
    <3>3. Drafts' \subseteq Drafts \cup {<<id, Statuses[id]>>}
      <4>1. ASSUME NEW g \in Handlers, g # h
            PROVE  handlers'[g] = handlers[g]
        BY <3>1, <4>1 DEF Hold, TypeOK
      <4>2. handlers'[h].id = id /\ handlers'[h].c = Loaded(id)
        BY <3>1 DEF Hold, TypeOK, HandlerType
      <4> QED
        BY <3>2, <4>1, <4>2 DEF Drafts, HoldsDraft
    <3>4. Lifecycle!Read(id)
      BY <3>1, <3>2, <3>3, KeptStatus, ServiceKept DEF Lifecycle!Read, KeepOthers
    <3> QED
      BY <1>1, <3>4 DEF Lifecycle!Next
  <2>2. CASE id \in present /\ handlers[h].op \in Reads
    BY <1>5, <1>6, <2>2 DEF Load
  <2>3. CASE id \notin present
    BY <1>4, <1>6, <2>3 DEF Load
  <2> QED
    BY <2>1, <2>2, <2>3
<1>7. CASE CheckExists(h)
  BY <1>4, <1>5, <1>7 DEF CheckExists, HandlerAt
<1>8. CASE Create(h)
  <2>1. c = NewRow(handlers[h].params)
    BY <1>8 DEF Create, NewRows, HandlerAt
  <2>2. c.status = "Pending"
    BY <2>1 DEF NewRow
  <2> QED
    BY <1>1, <1>3, <1>8, <2>2 DEF Create
<1>9. CASE Update(h)
  <2>1. /\ [c EXCEPT !.params = handlers[h].params] \in Copy
        /\ [c EXCEPT !.params = handlers[h].params].status = c.status
    BY <1>1 DEF Copy
  <2>2. HoldsDraft(h)
    BY <1>9 DEF Update, HandlerAt, HoldsDraft, Updates, Creates
  <2> QED
    BY <1>1, <1>2, <1>3, <1>9, <2>1, <2>2 DEF Update
<1>10. CASE Restart(h)
  <2>1. Restarted(c) \in Copy /\ Restarted(c).status = "Pending"
    BY <1>1 DEF Copy, Restarted, Status, RunStatus
  <2> QED
    BY <1>3, <1>10, <2>1 DEF Restart
<1>11. CASE Resume(h)
  BY <1>5, <1>11 DEF Resume, Goto
<1>12. CASE Enqueue(h)
  <2>1. [c EXCEPT !.status = "Queued"] \in Copy /\ [c EXCEPT !.status = "Queued"].status = "Queued"
    BY <1>1 DEF Copy, Status
  <2> QED
    BY <1>3, <1>12, <2>1 DEF Enqueue
<1>13. CASE AddJob(h)
  <2>1. [id |-> id, c |-> c] \in Job /\ queue \in Seq(Job)
    BY <1>1 DEF Job, TypeOK
  <2>2. Ids(queue') = Append(Ids(queue), id)
    BY <1>13, <2>1, IdsAppend DEF AddJob
  <2>3. Drafts' \subseteq Drafts
    BY <1>13, HeldDrafts DEF AddJob, Goto
  <2>4. Lifecycle!Submit(id)
    BY <1>13, <2>2, <2>3, KeptStatus, ServiceKept DEF Lifecycle!Submit, AddJob, KeepOthers
  <2> QED
    BY <1>1, <2>4 DEF Lifecycle!Next
<1>14. CASE Stop(h)
  <2>1. [c EXCEPT !.status = "Pending"] \in Copy /\ [c EXCEPT !.status = "Pending"].status = "Pending"
    BY <1>1 DEF Copy, Status
  <2> QED
    BY <1>3, <1>14, <2>1 DEF Stop
<1>15. CASE RemoveFiles(h)
  BY <1>5, <1>15 DEF RemoveFiles, Goto
<1>16. CASE RemoveRow(h)
  <2>1. Statuses' = [Statuses EXCEPT ![id] = "Absent"]
    BY <1>1, <1>16 DEF RemoveRow, Statuses, TypeOK
  <2>2. Drafts' \subseteq Drafts
    BY <1>16, HeldDrafts DEF RemoveRow, Goto
  <2>3. Lifecycle!Remove(id)
    BY <1>16, <2>1, <2>2, ServiceKept DEF Lifecycle!Remove, Lifecycle!Set, RemoveRow, KeepOthers
  <2> QED
    BY <1>1, <2>3 DEF Lifecycle!Next
<1>17. CASE Lock(h)
  <2>1. [c EXCEPT !.locked = TRUE] \in Copy /\ [c EXCEPT !.locked = TRUE].status = c.status
    BY <1>1 DEF Copy
  <2>2. HoldsDraft(h)
    BY <1>17 DEF Lock, HandlerAt, HoldsDraft, Creates
  <2> QED
    BY <1>1, <1>2, <1>3, <1>17, <2>1, <2>2 DEF Lock
<1>18. CASE Unlock(h)
  <2>1. [c EXCEPT !.locked = FALSE] \in Copy /\ [c EXCEPT !.locked = FALSE].status = c.status
    BY <1>1 DEF Copy
  <2>2. HoldsDraft(h)
    BY <1>18 DEF Unlock, HandlerAt, HoldsDraft, Creates
  <2> QED
    BY <1>1, <1>2, <1>3, <1>18, <2>1, <2>2 DEF Unlock
<1> QED
  BY <1>6, <1>7, <1>8, <1>9, <1>10, <1>11, <1>12, <1>13, <1>14, <1>15, <1>16, <1>17,
      <1>18 DEF HandlerStep

\* What a step of the worker leaves alone of the abstract state
LEMMA RunKept ==
  ASSUME KeepRequests
  PROVE  Lifecycle!KeepRecovery
  BY KeptDrafts DEF Lifecycle!KeepRecovery, KeepRequests, Interrupted

Stutters == UNCHANGED <<Statuses, Drafts, Ids(queue), RunOf(worker), Interrupted, RecoveryAt(boot.pc)>>

LEMMA Idles ==
  ASSUME KeepTable, KeepRequests, UNCHANGED queue, RunOf(worker)' = RunOf(worker)
  PROVE  Stutters
  BY KeptStatus, KeptDrafts DEF Stutters, KeepRequests, Interrupted

\* The run is lost without a record, in a way Falter allows.
LEMMA Falters ==
  ASSUME TypeOK, Lossy, worker.pc # "idle", KeepRequests, UNCHANGED queue,
         \/ KeepTable
         \/ \E c \in Copy : Save(worker.id, c) /\ c.status \in {"Running", "Succeeded", "Failed"},
         \/ worker' = IdleWorker
         \/ /\ worker.pc \notin {"idle", "start"} /\ worker'.pc \notin {"idle", "start"}
            /\ worker'.id = worker.id
  PROVE  Lifecycle!Next
<1>1. worker.id \in Cmds /\ RunOf(worker) # Lifecycle!NoRun /\ RunOf(worker).id = worker.id
  BY RunIs DEF TypeOK, WorkerType, RunOf, Lifecycle!NoRun, Cmds
<1>2. RunOf(worker)' \in {RunOf(worker), Lifecycle!NoRun}
  BY RunIs DEF IdleWorker
<1>3. \E s \in {Statuses[worker.id], "Running", "Succeeded", "Failed"} :
        Statuses' = [Statuses EXCEPT ![worker.id] = s]
  <2>1. CASE KeepTable
    <3>1. Statuses' = Statuses /\ Statuses = [Statuses EXCEPT ![worker.id] = Statuses[worker.id]]
      BY <2>1, KeptStatus DEF Statuses
    <3> QED
      BY <3>1
  <2>2. CASE ~KeepTable
    <3>1. PICK c \in Copy : Save(worker.id, c) /\ c.status \in {"Running", "Succeeded", "Failed"}
      BY <2>2
    <3>2. Statuses' = [Statuses EXCEPT ![worker.id] = c.status]
      BY <1>1, <3>1, SavedStatus
    <3> QED
      BY <3>1, <3>2
  <2> QED
    BY <2>1, <2>2
<1>4. Lifecycle!Falter
  BY <1>1, <1>2, <1>3, RunKept DEF Lifecycle!Falter, Lifecycle!Set
<1> QED
  BY <1>4 DEF Lifecycle!Next

\* A save of the worker that records Running
LEMMA Progresses ==
  ASSUME TypeOK, worker.pc # "idle", KeepRequests, UNCHANGED queue, NEW c \in Copy, c.status = "Running",
         Save(worker.id, c), worker'.pc \notin {"idle", "start"}, worker'.id = worker.id
  PROVE  Lifecycle!Next
<1>1. worker.id \in Cmds /\ RunOf(worker) # Lifecycle!NoRun
      /\ RunOf(worker)' = [RunOf(worker) EXCEPT !.phase = "running"] /\ RunOf(worker).id = worker.id
  BY DEF TypeOK, WorkerType, RunOf, Lifecycle!NoRun, Cmds
<1>2. Lifecycle!Progress
  BY <1>1, SavedStatus, RunKept DEF Lifecycle!Progress, Lifecycle!Set
<1> QED
  BY <1>2 DEF Lifecycle!Next

\* A save of the worker that ends the run
LEMMA Concludes ==
  ASSUME TypeOK, worker.pc \notin {"idle", "start"}, KeepRequests, UNCHANGED queue, NEW c \in Copy,
         c.status \in {"Succeeded", "Failed"}, Save(worker.id, c), worker' = IdleWorker
  PROVE  Lifecycle!Next
<1>1. worker.id \in Cmds /\ RunOf(worker).phase = "running" /\ RunOf(worker).id = worker.id
      /\ RunOf(worker)' = Lifecycle!NoRun
  BY RunIs DEF TypeOK, WorkerType, RunOf, IdleWorker
<1>2. Lifecycle!Conclude
  BY <1>1, SavedStatus, RunKept DEF Lifecycle!Conclude, Lifecycle!Set
<1> QED
  BY <1>2 DEF Lifecycle!Next

\* A save of the worker is refused only when something may be removed.
LEMMA Refusals ==
  ASSUME TypeOK, MapInv, worker.pc # "idle", NEW c \in Copy, c.repo = worker.c.repo
  PROVE  Lossy \/ CanSave(worker.id, c)
<1>1. CASE "remove" \in Ops
  BY <1>1 DEF Lossy
<1>2. CASE "remove" \notin Ops
  <2>1. TableKept /\ worker.id \in present /\ c.repo # "none"
    BY <1>2 DEF MapInv, NothingLost, WorkerKept
  <2> QED
    BY <2>1, Fits
<1> QED
  BY <1>1, <1>2

\* updateStatus() and updateRunStatus(), whatever comes of them
LEMMA WorkerSaveOutcomes ==
  ASSUME TypeOK, MapInv, worker.pc # "idle", NEW c \in Copy, c.repo = worker.c.repo,
         NEW next, NEW onThrow, WorkerSave(c, next, onThrow)
  PROVE  \/ Save(worker.id, c) /\ WorkerTo(Stored(worker.id, c), next)
         \/ Lossy /\ Save(worker.id, c) /\ WorkerTo(c, onThrow)
         \/ Lossy /\ KeepTable /\ WorkerTo(c, onThrow)
  BY Refusals DEF WorkerSave, Lossy

LEMMA WorkerStepRefines ==
  ASSUME IInv, MapInv, WorkerStep
  PROVE  Lifecycle!Next \/ Stutters
<1>1. /\ TypeOK /\ worker \in WorkerType
      /\ worker.c \in Copy /\ worker.id \in Cmds /\ queue \in Seq(Job)
      /\ worker.pc \in {"start", "prepare", "stage", "save", "succeed"} => worker.c.status = "Running"
  BY DEF IInv, TypeOK, WorkerType, WorkerInv
<1>2. ASSUME NEW d, NEW pc, pc # "idle", WorkerTo(d, pc)
      PROVE  worker'.pc = pc /\ worker'.id = worker.id
  BY <1>1, <1>2 DEF WorkerTo, WorkerType
<1>3. ASSUME NEW d, WorkerTo(d, "idle")
      PROVE  worker' = IdleWorker
  BY <1>3 DEF WorkerTo
<1>4. ASSUME KeepTable, KeepRequests, UNCHANGED queue, worker'.id = worker.id,
             worker.pc \notin {"idle", "start"}, worker'.pc \notin {"idle", "start"}
      PROVE  Stutters
  <2>1. RunOf(worker)' = RunOf(worker)
    BY <1>4 DEF RunOf
  <2> QED
    BY <1>4, <2>1, Idles
<1>5. CASE Take
  <2>1. /\ queue # <<>> /\ queue' = Tail(queue) /\ Head(queue) = queue[1] /\ 1 \in DOMAIN queue
        /\ Head(queue) \in Job
    BY <1>1, <1>5, EmptySeq, HeadTailProperties DEF Take
  <2>2. Head(queue).c.status = "Queued" /\ worker.pc = "idle"
    BY <1>5, <2>1 DEF Take, IInv, QueueInv
  <2>3. worker'.pc = "start" /\ worker'.id = Head(queue).id
    BY <1>5, <2>2 DEF Take
  <2>4. RunOf(worker) = Lifecycle!NoRun /\ RunOf(worker)' = [phase |-> "taken", id |-> Head(queue).id]
    BY <2>2, <2>3 DEF RunOf, Lifecycle!NoRun
  <2>5. Ids(queue) # <<>> /\ Head(Ids(queue)) = Head(queue).id /\ Ids(queue') = Tail(Ids(queue))
    BY <1>1, <2>1, IdsTail
  <2>6. Lifecycle!Take
    BY <1>5, <2>4, <2>5, KeptStatus, RunKept DEF Take, Lifecycle!Take
  <2> QED
    BY <2>6 DEF Lifecycle!Next
<1>6. CASE Start
  <2>1. worker.pc = "start" /\ worker.c.status = "Running" /\ UNCHANGED queue /\ KeepRequests
    BY <1>1, <1>6 DEF Start
  <2>2. CASE Save(worker.id, worker.c) /\ WorkerTo(Stored(worker.id, worker.c), "prepare")
    BY <1>1, <1>2, <2>1, <2>2, Progresses
  <2>3. CASE Lossy /\ (KeepTable \/ Save(worker.id, worker.c)) /\ WorkerTo(worker.c, "idle")
    BY <1>1, <1>3, <2>1, <2>3, Falters
  <2> QED
    BY <1>1, <1>6, <2>1, <2>2, <2>3, WorkerSaveOutcomes DEF Start
<1>7. CASE Prepare
  <2>1. worker.pc = "prepare" /\ KeepTable /\ UNCHANGED queue /\ KeepRequests
    BY <1>7 DEF Prepare
  <2>2. CASE worker' = [worker EXCEPT !.pc = "stage"]
    BY <1>1, <1>4, <2>1, <2>2 DEF WorkerType
  <2>3. CASE worker' = IdleWorker /\ (worker.c.repo # "some" \/ "prepare" \in Faults)
    <3>1. Lossy
      BY <2>1, <2>3 DEF Lossy, MapInv, NothingLost, WorkerKept
    <3> QED
      BY <1>1, <2>1, <2>3, <3>1, Falters
  <2> QED
    BY <1>7, <2>2, <2>3 DEF Prepare
<1>8. CASE Stage
  <2>1. worker.pc = "stage" /\ KeepTable /\ UNCHANGED queue /\ KeepRequests
    BY <1>8 DEF Stage
  <2>2. worker'.pc \in {"succeed", "save"} /\ worker'.id = worker.id
    BY <1>1, <1>8 DEF Stage, WorkerType
  <2> QED
    BY <1>4, <2>1, <2>2
<1>9. CASE StageFails
  BY <1>1, <1>4, <1>9 DEF StageFails, WorkerType
<1>10. CASE SaveStage
  <2>1. worker.pc = "save" /\ worker.c.status = "Running" /\ UNCHANGED queue /\ KeepRequests
    BY <1>1, <1>10 DEF SaveStage
  <2> DEFINE next == IF worker.c.runStatus = "End" THEN "succeed" ELSE "stage"
  <2>2. ASSUME NEW d, NEW pc, pc \in {"succeed", "stage", "fail"}, WorkerTo(d, pc),
               Save(worker.id, worker.c)
        PROVE  Lifecycle!Next
    BY <1>1, <1>2, <2>1, <2>2, Progresses
  <2>3. CASE KeepTable /\ WorkerTo(worker.c, "fail")
    BY <1>2, <1>4, <2>1, <2>3
  <2>4. next \in {"succeed", "stage", "fail"}
    OBVIOUS
  <2>5. WorkerSave(worker.c, next, "fail")
    BY <1>10 DEF SaveStage
  <2> HIDE DEF next
  <2> QED
    BY <1>1, <2>1, <2>2, <2>3, <2>4, <2>5, WorkerSaveOutcomes
<1>11. CASE Succeed
  <2> DEFINE c == [worker.c EXCEPT !.status = "Succeeded"]
  <2>1. /\ worker.pc = "succeed" /\ UNCHANGED queue /\ KeepRequests
        /\ c \in Copy /\ c.status = "Succeeded" /\ c.repo = worker.c.repo
    BY <1>1, <1>11 DEF Succeed, Copy, Status
  <2>2. WorkerSave(c, "idle", "fail")
    BY <1>11 DEF Succeed
  <2> HIDE DEF c
  <2>3. CASE Save(worker.id, c) /\ WorkerTo(Stored(worker.id, c), "idle")
    BY <1>1, <1>3, <2>1, <2>3, Concludes
  <2>4. CASE Lossy /\ Save(worker.id, c) /\ WorkerTo(c, "fail")
    BY <1>1, <1>2, <2>1, <2>4, Falters
  <2>5. CASE KeepTable /\ WorkerTo(c, "fail")
    BY <1>2, <1>4, <2>1, <2>5
  <2> QED
    BY <1>1, <2>1, <2>2, <2>3, <2>4, <2>5, WorkerSaveOutcomes
<1>12. CASE Fail
  <2> DEFINE c == [worker.c EXCEPT !.status = "Failed"]
  <2>1. /\ worker.pc = "fail" /\ UNCHANGED queue /\ KeepRequests
        /\ c \in Copy /\ c.status = "Failed" /\ c.repo = worker.c.repo
    BY <1>1, <1>12 DEF Fail, Copy, Status
  <2>2. WorkerSave(c, "idle", "idle")
    BY <1>12 DEF Fail
  <2> HIDE DEF c
  <2>3. ASSUME NEW d, WorkerTo(d, "idle"), Save(worker.id, c)
        PROVE  Lifecycle!Next
    BY <1>1, <1>3, <2>1, <2>3, Concludes
  <2>4. CASE Lossy /\ KeepTable /\ WorkerTo(c, "idle")
    BY <1>1, <1>3, <2>1, <2>4, Falters
  <2> QED
    BY <1>1, <2>1, <2>2, <2>3, <2>4, WorkerSaveOutcomes
<1> QED
  BY <1>5, <1>6, <1>7, <1>8, <1>9, <1>10, <1>11, <1>12 DEF WorkerStep

LEMMA SameCardinality == Lifecycle!Cardinality(Cmds) = Cardinality(Cmds)
  BY Zenon DEF Lifecycle!Cardinality, Cardinality

LEMMA BootStepRefines ==
  ASSUME TypeOK, OneEach, BootStep
  PROVE  Lifecycle!Next
<1>1. /\ rows \in [Cmds -> Row] /\ present \subseteq Cmds /\ queue \in Seq(Job)
      /\ boot \in BootType /\ boot.failing \subseteq Job
  BY DEF TypeOK, BootType
<1>2. KeepBusy /\ Drafts' = Drafts /\ UNCHANGED RunOf(worker)
  BY KeptDrafts DEF BootStep, ListRunning, FailInterrupted, ListQueued, KeepBusy
<1>3. CASE ListRunning
  <2>1. KeepTable /\ UNCHANGED queue /\ boot.pc = "listRunning" /\ boot'.pc = "listQueued"
    BY <1>3 DEF ListRunning
  <2>2. Interrupted' = {id \in Cmds : Statuses[id] = "Running"}
    <3>1. boot'.failing = {[id |-> id, c |-> Loaded(id)] : id \in {d \in present : rows[d].status = "Running"}}
      BY <1>3 DEF ListRunning
    <3>2. Interrupted' = {d \in present : rows[d].status = "Running"}
      <4>1. \A job \in boot'.failing : job.id \in present /\ rows[job.id].status = "Running"
        BY <3>1
      <4>2. \A d \in present : rows[d].status = "Running" => [id |-> d, c |-> Loaded(d)] \in boot'.failing
        BY <3>1
      <4>3. Interrupted' = {job.id : job \in boot'.failing}
        BY DEF Interrupted
      <4>4. ASSUME NEW d \in present, rows[d].status = "Running"
            PROVE  d \in {job.id : job \in boot'.failing}
        <5>1. [id |-> d, c |-> Loaded(d)] \in boot'.failing /\ [id |-> d, c |-> Loaded(d)].id = d
          BY <4>2, <4>4
        <5> QED
          BY <5>1
      <4>5. ASSUME NEW d \in {job.id : job \in boot'.failing}
            PROVE  d \in present /\ rows[d].status = "Running"
        BY <4>1
      <4> QED
        BY <4>3, <4>4, <4>5
    <3>3. \A id \in Cmds : Statuses[id] = "Running" <=> id \in present /\ rows[id].status = "Running"
      BY DEF Statuses
    <3> QED
      BY <1>1, <3>2, <3>3
  <2>3. Lifecycle!FindInterrupted
    BY <1>2, <2>1, <2>2, KeptStatus, RecoveryIs DEF Lifecycle!FindInterrupted
  <2> QED
    BY <2>3 DEF Lifecycle!Next
<1>4. CASE FailInterrupted
  <2>1. PICK job \in boot.failing :
          Save(job.id, Marked(job)) /\ boot' = [boot EXCEPT !.failing = @ \ {job}] /\ UNCHANGED queue
    BY <1>4 DEF FailInterrupted
  <2>2. job.id \in Cmds /\ Marked(job) \in Copy /\ Marked(job).status = "Failed"
    BY <1>1 DEF Marked, Job, Copy, Status
  <2>3. Statuses' = [Statuses EXCEPT ![job.id] = "Failed"]
    BY <2>1, <2>2, SavedStatus
  <2>4. boot'.pc = boot.pc /\ boot'.failing = boot.failing \ {job}
    BY <1>1, <2>1 DEF BootType
  <2>5. Interrupted' = Interrupted \ {job.id} /\ job.id \in Interrupted
    BY <2>4 DEF Interrupted, OneEach
  <2>6. Lifecycle!MarkInterrupted(job.id)
    BY <1>2, <2>1, <2>3, <2>4, <2>5 DEF Lifecycle!MarkInterrupted, Lifecycle!Set
  <2> QED
    BY <2>2, <2>6 DEF Lifecycle!Next
<1>5. CASE ListQueued
  <2>1. KeepTable /\ boot.pc = "listQueued" /\ boot'.pc = "done" /\ Interrupted' = Interrupted
    BY <1>1, <1>5 DEF ListQueued, BootType, Interrupted
  <2>2. PICK n \in 0 .. NumCmds : \E order \in [1 .. n -> Waiting] :
          /\ \A i, j \in 1 .. n : i < j => order[i] < order[j]
          /\ \A id \in Waiting : \E i \in 1 .. n : order[i] = id
          /\ queue' = queue \o [i \in 1 .. n |-> [id |-> order[i], c |-> Loaded(order[i])]]
    BY <1>5 DEF ListQueued
  <2>3. PICK order \in [1 .. n -> Waiting] :
          /\ \A i, j \in 1 .. n : i < j => order[i] < order[j]
          /\ \A id \in Waiting : \E i \in 1 .. n : order[i] = id
          /\ queue' = queue \o [i \in 1 .. n |-> [id |-> order[i], c |-> Loaded(order[i])]]
    BY <2>2
  <2> DEFINE added == [i \in 1 .. n |-> [id |-> order[i], c |-> Loaded(order[i])]]
  <2>4. n \in Nat /\ n \in 0 .. Cardinality(Cmds)
    <3>1. NumCmds \in Nat
      BY ConstantsAssumption DEF ConstantsAssumption
    <3>2. Cardinality(Cmds) = NumCmds
      BY <3>1, FS_Interval DEF Cmds
    <3> QED
      BY <3>1, <3>2
  <2>5. /\ added \in Seq(Job) /\ Len(added) = n
        /\ \A i \in 1 .. n : added[i].id = order[i]
    BY RequeuedType
  <2>6. order \in [1 .. n -> Cmds]
    BY <1>1 DEF Waiting
  <2>7. queue' = queue \o added
    BY <2>3
  <2> HIDE DEF added
  <2>8. Ids(added) = order
    <3>1. Ids(added) \in Seq(Cmds) /\ Len(Ids(added)) = n /\ \A i \in 1 .. n : Ids(added)[i] = order[i]
      BY <2>5, IdsType
    <3>2. order \in Seq(Cmds) /\ Len(order) = n
      BY <2>4, <2>6
    <3> QED
      BY <3>1, <3>2, SeqEqual
  <2>9. Ids(queue') = Ids(queue) \o order
    BY <1>1, <2>5, <2>7, <2>8, IdsConcat
  <2>10. DOMAIN order = 1 .. n
    BY <2>6
  <2>11. \A id \in Cmds : Statuses[id] = "Queued" <=> \E i \in DOMAIN order : order[i] = id
    <3>1. \A id \in Cmds : Statuses[id] = "Queued" <=> id \in Waiting
      BY DEF Waiting, Statuses
    <3>2. \A i \in 1 .. n : order[i] \in Waiting
      OBVIOUS
    <3> QED
      BY <2>3, <2>10, <3>1, <3>2, Zenon
  <2>12. \A i, j \in DOMAIN order : i < j => order[i] < order[j]
    BY <2>3, <2>10
  <2>13. Lifecycle!RefillQueue
    <3>1. \E again \in [1 .. n -> Cmds] :
            /\ \A id \in Cmds : Statuses[id] = "Queued" <=> \E i \in DOMAIN again : again[i] = id
            /\ \A i, j \in DOMAIN again : i < j => again[i] < again[j]
            /\ Ids(queue') = Ids(queue) \o again
      BY <2>6, <2>9, <2>11, <2>12, Zenon
    <3>2. \E m \in 0 .. Lifecycle!Cardinality(Cmds) : \E again \in [1 .. m -> Cmds] :
            /\ \A id \in Cmds : Statuses[id] = "Queued" <=> \E i \in DOMAIN again : again[i] = id
            /\ \A i, j \in DOMAIN again : i < j => again[i] < again[j]
            /\ Ids(queue') = Ids(queue) \o again
      BY <2>4, <3>1, SameCardinality, Zenon
    <3>3. /\ RecoveryAt(boot.pc) = "refill" /\ RecoveryAt(boot.pc)' = "none"
          /\ UNCHANGED <<Statuses, Drafts, RunOf(worker), Interrupted>>
      BY <1>2, <2>1, KeptStatus, RecoveryIs
    <3> QED
      BY <3>2, <3>3, Zenon DEF Lifecycle!RefillQueue
  <2> QED
    BY <2>13 DEF Lifecycle!Next
<1> QED
  BY <1>3, <1>4, <1>5 DEF BootStep

LEMMA Forgotten == ASSUME LoseMemory PROVE Lifecycle!LoseMemory
<1>1. Drafts' = {} /\ Interrupted' = {}
  BY DEF LoseMemory, Drafts, HoldsDraft, IdleHandler, Interrupted, Booting
<1>2. Ids(queue') = <<>>
  BY DEF LoseMemory, Ids
<1>3. RunOf(worker)' = Lifecycle!NoRun /\ RecoveryAt(boot.pc)' = "find"
  BY RecoveryIs DEF LoseMemory, RunOf, Lifecycle!NoRun, IdleWorker, Booting
<1> QED
  BY <1>1, <1>2, <1>3 DEF Lifecycle!LoseMemory

LEMMA RequestRefines ==
  ASSUME TypeOK, NEW h \in Handlers, Request(h) \/ (Respond(h) /\ KeepTable)
  PROVE  Lifecycle!Next
<1>1. Drafts' \subseteq Drafts
  <2>1. ~HoldsDraft(h)' /\ \A g \in Handlers \ {h} : handlers'[g] = handlers[g]
    <3>1. CASE Request(h)
      <4>1. PICK op \in Ops, id \in Cmds, p \in Params :
              handlers' = [handlers EXCEPT ![h] =
                 [pc |-> "load", op |-> op, id |-> id, params |-> p, c |-> Blank]]
        BY <3>1, Zenon DEF Request
      <4> QED
        BY <4>1 DEF TypeOK, HoldsDraft
    <3>2. CASE Respond(h)
      BY <3>2 DEF Respond, TypeOK, HoldsDraft, IdleHandler
    <3> QED
      BY <3>1, <3>2
  <2> QED
    BY <2>1 DEF Drafts, HoldsDraft
<1>2. KeepTable /\ UNCHANGED <<queue, worker, boot>>
  BY DEF Request, Respond, KeepTable, KeepOthers
<1> QED
  BY <1>1, <1>2, Forgets

LEMMA NextRefines ==
  IInv /\ MapInv /\ [Next]_vars => [Lifecycle!Next]_(Lifecycle!lifecycleVars)
<1> SUFFICES ASSUME IInv, MapInv, [Next]_vars PROVE Lifecycle!Next \/ Stutters
  BY DEF Stutters, Lifecycle!lifecycleVars
<1>1. TypeOK /\ OneEach /\ NewRows
  BY DEF IInv, MapInv
<1>2. CASE UNCHANGED vars
  <2>1. KeepTable /\ UNCHANGED <<handlers, queue, worker, boot>>
    BY <1>2 DEF vars, KeepTable
  <2> QED
    BY <2>1, KeptStatus, KeptDrafts DEF Stutters, Interrupted
<1>3. CASE Crash /\ KeepTable
  <2>1. Lifecycle!Die
    BY <1>3, Forgotten, KeptStatus DEF Crash, Lifecycle!Die
  <2> QED
    BY <2>1 DEF Lifecycle!Next
<1>4. CASE \E job \in boot.failing : Unhandled /\ Save(job.id, Marked(job))
  <2>1. PICK job \in boot.failing : Unhandled /\ Save(job.id, Marked(job))
    BY <1>4
  <2>2. job.id \in Cmds /\ Marked(job) \in Copy /\ Marked(job).status = "Failed"
    BY <1>1 DEF TypeOK, BootType, Marked, Job, Copy, Status
  <2>3. Statuses' = [Statuses EXCEPT ![job.id] = "Failed"]
    BY <1>1, <2>1, <2>2, SavedStatus
  <2>4. Lifecycle!DieMarking(job.id)
    BY <2>1, <2>3, Forgotten DEF Unhandled, Lifecycle!DieMarking, Lifecycle!Set, Interrupted, Lossy
  <2> QED
    BY <2>2, <2>4 DEF Lifecycle!Next
<1>5. ASSUME NEW h \in Handlers, Request(h) \/ HandlerStep(h) \/ (Respond(h) /\ KeepTable)
      PROVE  Lifecycle!Next
  BY <1>1, <1>5, RequestRefines, HandlerStepRefines
<1> QED
  BY <1>1, <1>2, <1>3, <1>4, <1>5, WorkerStepRefines, BootStepRefines DEF Next

-----------------------------------------------------------------------------

\* Every behaviour of the service is one of the abstract specification: one run
\* at a time, in the order of the jobs; Running, then Succeeded or Failed, is
\* recorded of each run unless removals, a failing folder or a failing message
\* disturb it; and the only way a request can undo what a run or the recovery
\* recorded is to save a copy that it had read before.
THEOREM Refines == Spec => LifecycleHolds
<1>1. Spec => []MapInv
  BY Invariance, MapInvInit, MapInvStep, PTL DEF Spec
<1> QED
  BY <1>1, Invariance, InitRefines, NextRefines, PTL DEF Spec, LifecycleHolds, Lifecycle!Spec

-----------------------------------------------------------------------------
(***************************************************************************)
(* The facade.  Its rollbacks and its crashes bring back an older table,   *)
(* so the invariant of the service must hold of every image a transaction  *)
(* may return to; and as many transactions are open as there are requests  *)
(* in flight, whoever closes which.                                        *)
(***************************************************************************)

\* What the invariant of the service says of a table.
ImageInv(t) == t \in TableType /\ \A id \in Cmds : CopyInv(t.rows[id])

UndoInv == undo \in Seq(TableType) /\ \A i \in DOMAIN undo : ImageInv(undo[i])

Busy == {h \in Handlers : handlers[h].pc # "idle"}

DepthInv ==
  /\ starting \in BOOLEAN
  /\ Len(undo) = Cardinality(Busy) + (IF starting THEN 1 ELSE 0)

FacadeInv == IInv /\ UndoInv /\ DepthInv

-----------------------------------------------------------------------------
(* Tables and images.                                                      *)

LEMMA TableImage == ASSUME IInv PROVE ImageInv(Table)
  BY DEF IInv, TypeOK, Table, TableType, ImageInv

LEMMA RestoreImage ==
  ASSUME NEW t, ImageInv(t), Restore(t)
  PROVE  TableTyped /\ RowsInv'
  BY DEF ImageInv, TableType, Restore, TableTyped, RowsInv, CopyInv, Complete

\* The stack after a commit or a rollback.
LEMMA OuterUndo ==
  ASSUME UndoInv, Len(undo) > 0, undo' = Outer
  PROVE  /\ ImageInv(Innermost) /\ ImageInv(Durable)
         /\ UndoInv' /\ Len(undo') = Len(undo) - 1
<1>1. undo \in Seq(TableType) /\ Len(undo) \in Nat
  BY DEF UndoInv
<1> DEFINE n == Len(undo) - 1
<1>2. /\ undo' \in Seq(TableType) /\ Len(undo') = n
      /\ \A i \in DOMAIN undo' : i \in DOMAIN undo /\ undo'[i] = undo[i]
  <2>1. n \in Nat /\ \A i \in 1 .. n : undo[i] \in TableType
    BY <1>1
  <2>2. /\ SubSeq(undo, 1, n) \in Seq(TableType)
        /\ Len(SubSeq(undo, 1, n)) = IF 1 <= n THEN n - 1 + 1 ELSE 0
        /\ \A i \in 1 .. n - 1 + 1 : SubSeq(undo, 1, n)[i] = undo[1 + i - 1]
    BY <2>1, SubSeqProperties
  <2>3. undo' = SubSeq(undo, 1, n)
    BY DEF Outer
  <2> HIDE DEF n
  <2>4. undo' \in Seq(TableType) /\ Len(undo') = n
    BY <2>1, <2>2, <2>3
  <2>5. \A i \in 1 .. n : undo'[i] = undo[i]
    BY <2>1, <2>2, <2>3
  <2>6. 1 .. n \subseteq DOMAIN undo
    BY <1>1, <2>1 DEF n
  <2> QED
    BY <2>4, <2>5, <2>6
<1>3. ImageInv(Innermost) /\ ImageInv(Durable)
  BY <1>1 DEF UndoInv, Innermost, Durable
<1> QED
  BY <1>2, <1>3 DEF UndoInv, ImageInv, CopyInv, Complete

LEMMA DurableImage == ASSUME IInv, UndoInv PROVE ImageInv(Durable)
  BY TableImage DEF UndoInv, Durable

LEMMA KeepUndo == ASSUME UndoInv, UNCHANGED undo PROVE UndoInv'
  BY DEF UndoInv, ImageInv, CopyInv, Complete

-----------------------------------------------------------------------------
(* The transactions and the requests.                                      *)

\* A handler step neither begins nor ends a request.
LEMMA HandlerStepBusy ==
  ASSUME TypeOK, NEW h \in Handlers, HandlerStep(h)
  PROVE  Busy' = Busy
<1>1. ASSUME NEW c, NEW pc \in HandlerPC \ {"idle"}, Hold(h, c, pc)
      PROVE  handlers'[h].pc = pc /\ \A g \in Handlers \ {h} : handlers'[g] = handlers[g]
  <2>1. \A g \in Handlers \ {h} : handlers'[g] = handlers[g]
    BY <1>1 DEF Hold, TypeOK
  <2>2. handlers'[h].pc = pc
    <3>1. IdleHandler \in HandlerType /\ handlers[h] \in HandlerType
      BY IdleTypes DEF TypeOK
    <3>2. \/ handlers'[h] = [IdleHandler EXCEPT !.pc = pc]
          \/ handlers'[h] = [handlers[h] EXCEPT !.pc = pc, !.c = c]
      BY <1>1 DEF Hold, TypeOK
    <3> QED
      BY <3>1, <3>2 DEF HandlerType
  <2> QED
    BY <2>1, <2>2
<1>2. ASSUME NEW c, NEW pc \in HandlerPC \ {"idle"}, Hold(h, c, pc), handlers[h].pc # "idle"
      PROVE  Busy' = Busy
  BY <1>1, <1>2 DEF Busy
<1>3. \E c : \E pc \in HandlerPC \ {"idle"} : Hold(h, c, pc)
  BY DEF HandlerStep, Load, CheckExists, Create, Update, Restart, Resume, Enqueue, AddJob, Stop,
         RemoveFiles, RemoveRow, Lock, Unlock, Throw, Goto, SaveAndGoto, SaveAndEmit, HandlerPC
<1>4. handlers[h].pc # "idle"
  BY DEF HandlerStep, Load, CheckExists, Create, Update, Restart, Resume, Enqueue, AddJob, Stop,
         RemoveFiles, RemoveRow, Lock, Unlock, HandlerAt
<1> QED
  BY <1>2, <1>3, <1>4

LEMMA BusyFinite == IsFiniteSet(Busy) /\ Cardinality(Busy) \in Nat
<1>1. IsFiniteSet(Busy)
  BY HandlersFinite, FS_Subset DEF Busy
<1> QED
  BY <1>1, FS_CardinalityType

LEMMA BeginBusy ==
  ASSUME TypeOK, NEW h \in Handlers, Request(h)
  PROVE  IsFiniteSet(Busy) /\ Cardinality(Busy') = Cardinality(Busy) + 1
<1>1. PICK op \in Ops, id \in Cmds, p \in Params :
        handlers' = [handlers EXCEPT ![h] =
             [pc |-> "load", op |-> op, id |-> id, params |-> p, c |-> Blank]]
  BY Zenon DEF Request
<1>2. handlers'[h].pc = "load" /\ \A g \in Handlers \ {h} : handlers'[g] = handlers[g]
  BY <1>1 DEF TypeOK
<1>3. h \notin Busy
  BY DEF Request, Busy
<1>4. Busy' = Busy \cup {h}
  BY <1>2 DEF Busy
<1> QED
  BY <1>3, <1>4, BusyFinite, FS_AddElement

LEMMA RespondBusy ==
  ASSUME TypeOK, NEW h \in Handlers, Respond(h)
  PROVE  Cardinality(Busy) > 0 /\ Cardinality(Busy') = Cardinality(Busy) - 1
<1>1. handlers'[h].pc = "idle" /\ \A g \in Handlers \ {h} : handlers'[g] = handlers[g]
  BY DEF Respond, TypeOK, IdleHandler
<1>2. h \in Busy
  BY DEF Respond, Done, Busy
<1>3. Busy' = Busy \ {h}
  BY <1>1 DEF Busy
<1>4. Busy # {}
  BY <1>2
<1> QED
  BY <1>2, <1>3, <1>4, BusyFinite, FS_RemoveElement, FS_EmptySet


-----------------------------------------------------------------------------
(* The inductive invariant.                                                *)

LEMMA FacadeInitInv == FacadeInit => FacadeInv
<1> SUFFICES ASSUME FacadeInit PROVE FacadeInv
  OBVIOUS
<1>1. IInv
  BY InitInv DEF FacadeInit
<1>2. ImageInv(Table)
  BY <1>1, TableImage
<1>3. UndoInv
  BY <1>2 DEF FacadeInit, UndoInv, ImageInv
<1>4. Busy = {}
  BY DEF FacadeInit, Init, Busy, IdleHandler
<1>5. DepthInv
  BY <1>4, FS_EmptySet DEF FacadeInit, DepthInv
<1> QED
  BY <1>1, <1>3, <1>5 DEF FacadeInv

LEMMA BeginInv == ASSUME FacadeInv, NEW h \in Handlers, Begin(h) PROVE FacadeInv'
<1>1. TypeOK /\ RowsInv /\ HandlersInv /\ RestInv
  BY InvParts DEF FacadeInv
<1>2. IInv'
  BY <1>1, RequestType, RequestInv DEF Begin, IInv, RowsInv, RestInv
<1>3. undo \in Seq(TableType) /\ ImageInv(Table) /\ undo' = Append(undo, Table)
  BY TableImage DEF FacadeInv, UndoInv, Begin
<1>4. UndoInv'
  <2>1. undo' \in Seq(TableType)
    BY <1>3 DEF ImageInv
  <2>2. ASSUME NEW i \in DOMAIN undo'
        PROVE  undo'[i] = Table \/ (i \in DOMAIN undo /\ undo'[i] = undo[i])
    BY <1>3, <2>2
  <2> QED
    BY <1>3, <2>1, <2>2 DEF FacadeInv, UndoInv, ImageInv, CopyInv, Complete
<1>5. Len(undo') = Len(undo) + 1 /\ Len(undo) \in Nat
  BY <1>3
<1>6. DepthInv'
  BY <1>1, <1>5, BeginBusy, BusyFinite DEF FacadeInv, DepthInv, Begin
<1> QED
  BY <1>2, <1>4, <1>6 DEF FacadeInv

\* A commit or a rollback: one request less, one transaction less.
LEMMA CloseInv ==
  ASSUME FacadeInv, NEW h \in Handlers, Respond(h), undo' = Outer, UNCHANGED starting,
         KeepTable \/ Restore(Innermost)
  PROVE  FacadeInv'
<1>1. TypeOK /\ RowsInv /\ HandlersInv /\ RestInv
  BY InvParts DEF FacadeInv
<1>2. Cardinality(Busy) > 0 /\ Cardinality(Busy') = Cardinality(Busy) - 1
  BY <1>1, RespondBusy
<1>3. Len(undo) > 0
  BY <1>2, BusyFinite DEF FacadeInv, DepthInv
<1>4. ImageInv(Innermost) /\ UndoInv' /\ Len(undo') = Len(undo) - 1
  BY <1>3, OuterUndo DEF FacadeInv
<1>5. TableTyped /\ RowsInv'
  <2>1. CASE KeepTable
    BY <1>1, <2>1 DEF KeepTable, TypeOK, TableTyped, RowsInv, CopyInv, Complete
  <2>2. CASE Restore(Innermost)
    BY <1>4, <2>2, RestoreImage
  <2> QED
    BY <2>1, <2>2
<1>6. IInv'
  BY <1>1, <1>5, RespondType, RespondInv DEF IInv, RowsInv, RestInv
<1>7. DepthInv'
  BY <1>2, <1>4, BusyFinite DEF FacadeInv, DepthInv
<1> QED
  BY <1>4, <1>6, <1>7 DEF FacadeInv

LEMMA WithinInv == ASSUME FacadeInv, Within PROVE FacadeInv'
<1>1. TypeOK /\ RowsInv /\ HandlersInv /\ RestInv
  BY InvParts DEF FacadeInv
<1>2. [Next]_vars
  BY DEF Within, Next
<1>3. IInv'
  BY <1>2, NextInv DEF FacadeInv
<1>4. Busy' = Busy
  <2>1. CASE \E h \in Handlers : HandlerStep(h)
    BY <1>1, <2>1, HandlerStepBusy
  <2>2. CASE WorkerStep \/ BootStep
    <3>1. UNCHANGED handlers
      BY <2>2
      DEF WorkerStep, Take, Start, Prepare, Stage, StageFails, SaveStage, Succeed, Fail, KeepRequests,
          BootStep, ListRunning, FailInterrupted, ListQueued, KeepBusy
    <3> QED
      BY <3>1 DEF Busy
  <2> QED
    BY <2>1, <2>2 DEF Within
<1>5. UndoInv' /\ DepthInv'
  BY <1>4, KeepUndo DEF FacadeInv, Within, DepthInv
<1> QED
  BY <1>3, <1>5 DEF FacadeInv

LEMMA CommitStartInv == ASSUME FacadeInv, CommitStart PROVE FacadeInv'
<1>1. IInv'
  BY NextInv DEF FacadeInv, CommitStart
<1>2. Len(undo) > 0
  BY BusyFinite DEF FacadeInv, DepthInv, CommitStart
<1>3. UndoInv' /\ Len(undo') = Len(undo) - 1
  BY <1>2, OuterUndo DEF FacadeInv, CommitStart
<1>4. Busy' = Busy
  BY DEF CommitStart, vars, Busy
<1>5. DepthInv'
  <2>1. Len(undo) = Cardinality(Busy) + 1
    BY DEF FacadeInv, DepthInv, CommitStart
  <2>2. Len(undo') = Cardinality(Busy')
    BY <1>3, <1>4, <2>1, BusyFinite
  <2>3. Cardinality(Busy') \in Nat
    BY <1>4, BusyFinite
  <2>4. ~starting' /\ starting' \in BOOLEAN
    BY DEF CommitStart
  <2>5. (IF starting THEN 1 ELSE 0)' = 0
    BY <2>4
  <2> QED
    BY <2>2, <2>3, <2>4, <2>5 DEF DepthInv
<1> QED
  BY <1>1, <1>3, <1>5 DEF FacadeInv

LEMMA RebootInv == ASSUME FacadeInv, Reboot PROVE FacadeInv'
<1>1. TypeOK /\ RowsInv /\ HandlersInv /\ RestInv /\ UndoInv
  BY InvParts DEF FacadeInv
<1>2. Crash \/ Unhandled
  BY DEF Reboot
<1>3. TableTyped /\ RowsInv'
  <2>1. CASE Restore(Durable)
    BY <2>1, DurableImage, RestoreImage DEF FacadeInv
  <2>2. CASE \E job \in boot.failing : Save(job.id, Marked(job))
    <3>1. PICK job \in boot.failing : Save(job.id, Marked(job))
      BY <2>2
    <3>2. job.id \in Cmds /\ job.c \in Copy /\ CopyInv(job.c)
      BY <1>1 DEF TypeOK, BootType, Job, RestInv
    <3>3. Marked(job) \in Copy /\ CopyInv(Marked(job))
      BY <3>2 DEF Marked, Copy, Status, CopyInv, Complete
    <3> QED
      BY <1>1, <3>1, <3>2, <3>3, SaveType, SaveInv DEF TableTyped
  <2> QED
    BY <2>1, <2>2 DEF Reboot
<1>4. IInv'
  BY <1>1, <1>2, <1>3, CrashType, CrashInv DEF IInv, RowsInv, RestInv
<1> DEFINE image == [present |-> present', rows |-> rows']
<1>5. image \in TableType /\ \A id \in Cmds : CopyInv(image.rows[id])
  BY <1>3 DEF TableTyped, TableType, RowsInv, CopyInv, Complete
<1>6. undo' = <<image>>
  BY DEF Reboot
<1>7. UndoInv'
  BY <1>5, <1>6 DEF UndoInv, ImageInv, CopyInv, Complete
<1>8. Busy' = {}
  BY <1>2 DEF Crash, Unhandled, LoseMemory, IdleHandler, Busy
<1>9. DepthInv'
  BY <1>6, <1>8, FS_EmptySet DEF DepthInv, Reboot
<1> QED
  BY <1>4, <1>7, <1>9 DEF FacadeInv

LEMMA FacadeNextInv == FacadeInv /\ [FacadeNext]_facadeVars => FacadeInv'
<1> SUFFICES ASSUME FacadeInv, [FacadeNext]_facadeVars PROVE FacadeInv'
  OBVIOUS
<1>1. CASE UNCHANGED facadeVars
  <2>1. IInv'
    BY <1>1, NextInv DEF facadeVars, FacadeInv
  <2>2. UndoInv' /\ DepthInv'
    BY <1>1, KeepUndo DEF facadeVars, vars, FacadeInv, DepthInv, Busy
  <2> QED
    BY <2>1, <2>2 DEF FacadeInv
<1>2. ASSUME NEW h \in Handlers, Commit(h) \/ Rollback(h)
      PROVE  FacadeInv'
  BY <1>2, CloseInv DEF Commit, Rollback
<1> QED
  BY <1>1, <1>2, BeginInv, WithinInv, CommitStartInv, RebootInv DEF FacadeNext

LEMMA FacadeInvariance == FacadeSpec => []FacadeInv
<1> QED
  BY FacadeInitInv, FacadeNextInv, PTL DEF FacadeSpec

-----------------------------------------------------------------------------
(* What follows.                                                           *)

\* The variables of the service keep their types under rollbacks and crashes
\* that undo them, and every image is a table.
THEOREM FacadeTypeCorrect == FacadeSpec => []FacadeTypeOK
<1>1. FacadeInv => FacadeTypeOK
  BY DEF FacadeInv, IInv, UndoInv, DepthInv, FacadeTypeOK
<1> QED
  BY <1>1, FacadeInvariance, PTL

\* A Succeeded row is complete in the table and in whatever a rollback or a
\* crash may make of the table.
THEOREM ImagesComplete == FacadeSpec => []ImagesAreComplete
<1>1. FacadeInv => ImagesAreComplete
  BY DEF FacadeInv, IInv, TypeOK, UndoInv, ImageInv, TableType, CopyInv, SucceededMeansComplete,
         ImagesAreComplete
<1> QED
  BY <1>1, FacadeInvariance, PTL

\* When the last request has been answered every transaction is closed, so
\* that the table is what a crash would leave.
THEOREM QuietDurable == FacadeSpec => []QuietIsDurable
<1>1. FacadeInv => QuietIsDurable
  <2> SUFFICES ASSUME FacadeInv, \A h \in Handlers : handlers[h].pc = "idle", ~starting
               PROVE  Durable = Table
    BY DEF QuietIsDurable
  <2>1. Busy = {}
    BY DEF Busy
  <2>2. Len(undo) = 0 /\ undo \in Seq(TableType)
    BY <2>1, FS_EmptySet DEF FacadeInv, UndoInv, DepthInv
  <2> QED
    BY <2>2 DEF Durable
<1> QED
  BY <1>1, FacadeInvariance, PTL

==============================================================================
