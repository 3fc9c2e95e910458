--------------------------- MODULE GitStagesProofs ---------------------------
(***************************************************************************)
(* Theorems about GitStages, for any commands, repositories and forks they *)
(* share, any number of runs, and failures between any two steps.          *)
(***************************************************************************)
EXTENDS GitStages, TLAPS

AtSave(stages) == worker.pc = "save" /\ worker.stage \in stages

\* Only the checkout makes the branch of cmdRepoObj another than the default
\* one, and what comes after the checkout has no copy to work in without it.
BranchInv ==
  /\ worker.branch \in {Main, KindOf[C]}
  /\ worker.pc = "save" => worker.stage \notin {"Begin", "End"}
  /\ worker.branch = Main =>
       \/ Copy = NoCopy
       \/ worker.pc \in {"idle", "checkRemote", "pull", "pullAgain", "push", "copy", "checkout"}
       \/ AtSave({"SyncRepo"})

OnMain(f, commit) == commit.synced => Contains(forks[f].main, commit.base)

\* Once a run has pushed its clone, what is copied and pushed from it is on the
\* default branch of the fork.
SyncInv ==
  /\ worker.pc \in {"idle", "checkRemote", "pull", "pullAgain", "push"} => ~worker.synced
  /\ worker.synced => Contains(Fork.main, Clone.main)
  /\ \A c \in Cmds : OnMain(ForkOf[c], copies[c].head)
  /\ \A f \in Forks, k \in Kinds : OnMain(f, forks[f].branches[k])

Branch(c) == forks[ForkOf[c]].branches[KindOf[c]]

\* What a row says of its push and of its commit is so.
RowOK(c) ==
  /\ rows[c].status = "Succeeded" => rows[c].runStatus = "End"
  /\ c \notin shared /\ rows[c].hasChanges =>
       /\ rows[c].runStatus \in Pushed => Branch(c).run # 0
       /\ rows[c].runStatus \in {"GetCommitId", "End"} => Branch(c) = rows[c].commitId

\* What the run holds that its rows do not say yet.
RunInv ==
  /\ worker.pc # "idle" => runs # 0 /\ rows[C].status = "Running"
  /\ AtSave({"ChangesCommited"}) /\ worker.changes => Copy.head.run # 0
  /\ worker.pc \in {"getBranch", "delete", "pushBranch"} =>
       rows[C].runStatus = "ChangesCommited" /\ (Copy = NoCopy \/ Copy.head.run # 0)
  /\ AtSave({"ChangesPushed"}) => Copy # NoCopy /\ Copy.head.run # 0
  /\ AtSave({"GetCommitId"}) => Copy # NoCopy
  /\ (worker.pc \in {"archive", "commitId"} \/ AtSave({"ChangesPushed", "ChangesArchived", "GetCommitId"}))
       /\ Copy # NoCopy /\ rows[C].hasChanges /\ C \notin shared => Branch(C) = Copy.head
  /\ (worker.pc \in {"archive", "commitId"} \/ AtSave({"ChangesArchived", "GetCommitId"}))
       /\ rows[C].hasChanges => rows[C].runStatus \in Pushed
  /\ worker.pc = "end" /\ rows[C].hasChanges => rows[C].runStatus \in {"GetCommitId", "End"}

PushInv == RunInv /\ \A c \in Cmds : RowOK(c)

IInv == TypeOK /\ BranchInv /\ SyncInv /\ PushInv
-----------------------------------------------------------------------------
(* Types.                                                                  *)

RowType == [status : {"Pending", "Running", "Succeeded", "Failed"}, runStatus : Stages,
            hasChanges : BOOLEAN, commitId : GitCommit]
WorkerType == [pc : Steps, stage : Stages, c : Cmds, branch : Kinds \cup {Main},
               changes : BOOLEAN, synced : BOOLEAN]
CopyType == [branch : Kinds \cup {Main, "none"}, head : GitCommit, dirty : BOOLEAN, staged : BOOLEAN]

LEMMA Values ==
  /\ Nothing.base \in Heads /\ Nothing \in GitCommit /\ NoCopy \in CopyType /\ Idle \in WorkerType
  /\ \A c \in Cmds : RepoOf[c] \in Repos /\ ForkOf[c] \in Forks /\ KindOf[c] \in Kinds
<1>1. Nothing.base \in Heads /\ Nothing \in GitCommit
  BY GitAssumption DEF Nothing, Heads, GitCommit
<1>2. NoCopy \in CopyType
  BY <1>1 DEF NoCopy, CopyType
<1>3. Idle \in WorkerType
  BY GitAssumption DEF Idle, WorkerType, Steps, Stages
<1> QED
  BY <1>1, <1>2, <1>3 DEF Repos, Forks, Kinds

LEMMA FirstSteps ==
  ASSUME NEW row \in RowType
  PROVE  /\ FirstStep(row) \in {"checkRemote", "copy", "batchai", "add", "commit", "getBranch",
                              "archive", "commitId", "end"}
         /\ FirstStep(row) = "checkRemote" => row.runStatus = "Begin"
         /\ FirstStep(row) = "copy" <=> row.runStatus = "SyncRepo"
         /\ FirstStep(row) = "getBranch" => row.runStatus = "ChangesCommited" /\ row.hasChanges
         /\ FirstStep(row) \in {"archive", "commitId"} /\ row.hasChanges => row.runStatus \in Pushed
         /\ FirstStep(row) = "end" /\ row.hasChanges => row.runStatus \in {"GetCommitId", "End"}
<1>1. row.runStatus \in Stages /\ row.hasChanges \in BOOLEAN
  BY DEF RowType
<1>2. FirstStep(row) = "copy" => row.runStatus = "SyncRepo"
  BY <1>1 DEF FirstStep, Stages, Later
<1>8. row.runStatus = "SyncRepo" => FirstStep(row) = "copy"
  BY <1>1 DEF FirstStep, Stages, Later
<1>3. FirstStep(row) = "checkRemote" => row.runStatus = "Begin"
  BY <1>1 DEF FirstStep, Stages, Later
<1>4. FirstStep(row) = "getBranch" => row.runStatus = "ChangesCommited" /\ row.hasChanges
  BY <1>1 DEF FirstStep, Stages, Later
<1>5. FirstStep(row) \in {"archive", "commitId"} /\ row.hasChanges => row.runStatus \in Pushed
  BY <1>1 DEF FirstStep, Stages, Later, Pushed
<1>6. FirstStep(row) = "end" /\ row.hasChanges => row.runStatus \in {"GetCommitId", "End"}
  BY <1>1 DEF FirstStep, Stages, Later
<1>7. FirstStep(row) \in {"checkRemote", "copy", "batchai", "add", "commit", "getBranch",
                         "archive", "commitId", "end"}
  BY <1>1 DEF FirstStep, Stages, Later
<1> QED
  BY <1>2, <1>3, <1>4, <1>5, <1>6, <1>7, <1>8

LEMMA Now ==
  ASSUME TypeOK
  PROVE  /\ C \in Cmds /\ worker \in WorkerType /\ rows[C] \in RowType
         /\ Copy \in CopyType /\ Clone \in [main : Heads, shallow : BOOLEAN]
         /\ Fork \in [main : Heads, branches : [Kinds -> GitCommit]]
         /\ RepoOf[C] \in Repos /\ ForkOf[C] \in Forks /\ KindOf[C] \in Kinds
  BY Values DEF TypeOK, C, Copy, Clone, Fork, WorkerType, RowType, CopyType

\* What TypeOK' asks of a step, with the types that have names
LEMMA Typed ==
  ASSUME upstream' \in Heads,
         forks' \in [Forks -> [main : Heads, branches : [Kinds -> GitCommit]]],
         clones' \in [Repos -> [main : Heads, shallow : BOOLEAN]],
         copies' \in [Cmds -> CopyType], rows' \in [Cmds -> RowType], worker' \in WorkerType,
         shared' \subseteq Cmds, runs' \in 0 .. MaxRuns
  PROVE  TypeOK'
  BY DEF TypeOK, RowType, WorkerType, CopyType

LEMMA TypeInit == Init => TypeOK
<1> SUFFICES ASSUME Init
             PROVE  TypeOK
  OBVIOUS
<1>1. upstream \in Heads
  BY GitAssumption DEF Init, Heads
<1>2. forks \in [Forks -> [main : Heads, branches : [Kinds -> GitCommit]]]
  BY Values DEF Init
<1>3. clones \in [Repos -> [main : Heads, shallow : BOOLEAN]]
  BY Values DEF Init
<1>4. copies \in [Cmds -> CopyType] /\ worker \in WorkerType
  BY Values DEF Init
<1>5. rows \in [Cmds -> RowType]
  BY Values DEF Init, RowType, Stages
<1> QED
  BY <1>1, <1>2, <1>3, <1>4, <1>5, GitAssumption DEF TypeOK, Init, RowType, WorkerType, CopyType

LEMMA Begins ==
  ASSUME TypeOK, NEW c \in Cmds, NEW again \in BOOLEAN, NEW row, row = Begun(c, again)
  PROVE  /\ row \in RowType /\ row.status = "Running" /\ row.commitId = rows[c].commitId
         /\ again => row.runStatus = "Begin"
         /\ ~again => row.runStatus = rows[c].runStatus /\ row.hasChanges = rows[c].hasChanges
<1>1. rows[c] \in RowType
  BY DEF TypeOK, RowType
<1> QED
  BY <1>1 DEF Begun, RowType, Stages

\* The row and the place that Save comes to.
Saved == [rows[C] EXCEPT !.runStatus = worker.stage,
            !.hasChanges = IF worker.stage = "ChangesCommited" THEN worker.changes ELSE @,
            !.commitId = IF worker.stage = "GetCommitId" THEN Copy.head ELSE @]
After == IF worker.stage = "ChangesArchived" /\ ~Saved.hasChanges THEN "end" ELSE FirstStep(Saved)

LEMMA Saves ==
  ASSUME TypeOK, Save
  PROVE  /\ rows' = [rows EXCEPT ![C] = Saved] /\ worker' = [worker EXCEPT !.pc = After]
         /\ Saved \in RowType /\ Saved.status = rows[C].status /\ Saved.runStatus = worker.stage
         /\ Saved.hasChanges = IF worker.stage = "ChangesCommited" THEN worker.changes ELSE rows[C].hasChanges
         /\ Saved.commitId = IF worker.stage = "GetCommitId" THEN Copy.head ELSE rows[C].commitId
<1>1. rows' = [rows EXCEPT ![C] = Saved] /\ worker' = [worker EXCEPT !.pc = After]
  BY DEF Save, Goto, Saved, After
<1>2. rows[C] \in RowType /\ worker \in WorkerType /\ Copy.head \in GitCommit
  BY Now DEF CopyType
<1>3. Saved \in RowType /\ Saved.status = rows[C].status /\ Saved.runStatus = worker.stage
  BY <1>2 DEF Saved, RowType, WorkerType
<1>4. Saved.hasChanges = IF worker.stage = "ChangesCommited" THEN worker.changes ELSE rows[C].hasChanges
  BY <1>2 DEF Saved, RowType
<1>5. Saved.commitId = IF worker.stage = "GetCommitId" THEN Copy.head ELSE rows[C].commitId
  BY <1>2 DEF Saved, RowType
<1> QED
  BY <1>1, <1>3, <1>4, <1>5

LEMMA TypeStep == TypeOK /\ [Next]_vars => TypeOK'
<1> SUFFICES ASSUME TypeOK, [Next]_vars
             PROVE  TypeOK'
  OBVIOUS
<1> USE Now, Typed, Values
<1>0. /\ upstream \in Heads /\ forks \in [Forks -> [main : Heads, branches : [Kinds -> GitCommit]]]
      /\ clones \in [Repos -> [main : Heads, shallow : BOOLEAN]]
      /\ copies \in [Cmds -> CopyType] /\ rows \in [Cmds -> RowType]
      /\ shared \subseteq Cmds /\ runs \in 0 .. MaxRuns
  BY DEF TypeOK, RowType, CopyType
<1>1. ASSUME NEW c \in Cmds, NEW again \in BOOLEAN, Begin(c, again)
      PROVE  TypeOK'
  <2>1. Begun(c, again) \in RowType
    BY Begins
  <2>2. worker' \in WorkerType
    BY <1>1, <2>1, FirstSteps, Values DEF Begin, WorkerType, Steps
  <2>3. rows' \in [Cmds -> RowType] /\ copies' \in [Cmds -> CopyType]
    BY <1>0, <1>1, <2>1, Values DEF Begin
  <2>4. runs' \in 0 .. MaxRuns
    BY <1>0, <1>1, GitAssumption DEF Begin
  <2> QED
    BY <1>0, <1>1, <2>2, <2>3, <2>4 DEF Begin
<1>2. CASE CheckRemote
  <2>1. worker' \in WorkerType
    BY <1>2 DEF CheckRemote, Goto, WorkerType, Steps
  <2> QED
    BY <1>0, <1>2, <2>1 DEF CheckRemote
<1>3. CASE Pull
  <2>1. worker' \in WorkerType
    BY <1>3 DEF Pull, Goto, WorkerType, Steps
  <2>2. [Clone.main EXCEPT ![RepoOf[C]] = upstream[RepoOf[C]]] \in Heads
    BY <1>0 DEF Heads
  <2>3. clones' \in [Repos -> [main : Heads, shallow : BOOLEAN]]
    BY <1>0, <1>3, <2>2 DEF Pull, Clone
  <2> QED
    BY <1>0, <1>3, <2>1, <2>3 DEF Pull
<1>4. CASE FetchUnshallow
  <2>1. worker' \in WorkerType
    BY <1>4 DEF FetchUnshallow, Goto, WorkerType, Steps
  <2>2. clones' \in [Repos -> [main : Heads, shallow : BOOLEAN]]
    BY <1>0, <1>4 DEF FetchUnshallow
  <2> QED
    BY <1>0, <1>4, <2>1, <2>2 DEF FetchUnshallow
<1>5. CASE PushMain
  <2>1. worker' \in WorkerType
    BY <1>5 DEF PushMain, Done, WorkerType, Steps, Stages
  <2>2. forks' \in [Forks -> [main : Heads, branches : [Kinds -> GitCommit]]]
    BY <1>0, <1>5 DEF PushMain
  <2> QED
    BY <1>0, <1>5, <2>1, <2>2 DEF PushMain
<1>6. CASE CopyClone
  <2>1. worker' \in WorkerType
    BY <1>6 DEF CopyClone, Goto, WorkerType, Steps
  <2>2. [base |-> Clone.main, run |-> 0, synced |-> worker.synced] \in GitCommit
    BY GitAssumption DEF GitCommit, WorkerType
  <2>3. copies' \in [Cmds -> CopyType]
    BY <1>0, <1>6, <2>2 DEF CopyClone, NoCopy, CopyType
  <2> QED
    BY <1>0, <1>6, <2>1, <2>3 DEF CopyClone
<1>7. CASE Checkout
  <2>1. worker' \in WorkerType
    BY <1>7 DEF Checkout, WorkerType, Steps, Stages
  <2>2. copies' \in [Cmds -> CopyType]
    BY <1>0, <1>7 DEF Checkout, CopyType
  <2> QED
    BY <1>0, <1>7, <2>1, <2>2 DEF Checkout
<1>8. CASE RunBatchAI
  <2>1. worker' \in WorkerType
    BY <1>8 DEF RunBatchAI, Done, WorkerType, Steps, Stages
  <2>2. PICK changes \in BOOLEAN : copies' = [copies EXCEPT ![C].dirty = @ \/ changes]
    BY <1>8 DEF RunBatchAI
  <2>3. ASSUME NEW dirty \in BOOLEAN
        PROVE  [copies EXCEPT ![C].dirty = dirty] \in [Cmds -> CopyType]
    BY <1>0, <2>3 DEF CopyType
  <2>4. copies' \in [Cmds -> CopyType]
    <3>1. (copies[C].dirty \/ changes) \in BOOLEAN
      OBVIOUS
    <3> QED
      BY <2>2, <2>3, <3>1, Zenon
  <2> QED
    BY <1>0, <1>8, <2>1, <2>4 DEF RunBatchAI
<1>9. CASE Add
  <2>1. worker' \in WorkerType
    BY <1>9 DEF Add, Done, WorkerType, Steps, Stages
  <2>2. copies' \in [Cmds -> CopyType]
    BY <1>0, <1>9 DEF Add, CopyType
  <2> QED
    BY <1>0, <1>9, <2>1, <2>2 DEF Add
<1>10. CASE Commit
  <2>1. worker' \in WorkerType
    BY <1>10 DEF Commit, WorkerType, CopyType, Steps, Stages
  <2>2. [Copy.head EXCEPT !.run = IF Copy.staged THEN runs ELSE @] \in GitCommit
    BY <1>0 DEF CopyType, GitCommit
  <2>3. copies' \in [Cmds -> CopyType]
    BY <1>0, <1>10, <2>2 DEF Commit, Copy, CopyType
  <2> QED
    BY <1>0, <1>10, <2>1, <2>3 DEF Commit
<1>11. CASE GetBranch
  <2>1. worker' \in WorkerType
    BY <1>11 DEF GetBranch, Goto, WorkerType, Steps
  <2> QED
    BY <1>0, <1>11, <2>1 DEF GetBranch
<1>12. CASE DeleteBranch
  <2>1. worker' \in WorkerType /\ shared' \subseteq Cmds
    BY <1>0, <1>12 DEF DeleteBranch, Goto, WorkerType, Steps, Others
  <2>2. [Fork.branches EXCEPT ![worker.branch] = Nothing] \in [Kinds -> GitCommit]
    OBVIOUS
  <2>3. forks' \in [Forks -> [main : Heads, branches : [Kinds -> GitCommit]]]
    BY <1>0, <1>12, <2>2 DEF DeleteBranch, Fork
  <2> QED
    BY <1>0, <1>12, <2>1, <2>3 DEF DeleteBranch
<1>13. CASE PushBranch
  <2>1. worker' \in WorkerType /\ shared' \subseteq Cmds
    BY <1>0, <1>13 DEF PushBranch, Done, WorkerType, Steps, Stages, Others
  <2>2. [Fork.branches EXCEPT ![worker.branch] = Copy.head] \in [Kinds -> GitCommit]
    BY DEF CopyType
  <2>3. forks' \in [Forks -> [main : Heads, branches : [Kinds -> GitCommit]]]
    BY <1>0, <1>13, <2>2 DEF PushBranch, Fork
  <2> QED
    BY <1>0, <1>13, <2>1, <2>3 DEF PushBranch
<1>14. CASE Archive
  <2>1. worker' \in WorkerType
    BY <1>14 DEF Archive, Done, WorkerType, Steps, Stages
  <2> QED
    BY <1>0, <1>14, <2>1 DEF Archive
<1>15. CASE GetCommitId
  <2>1. worker' \in WorkerType
    BY <1>15 DEF GetCommitId, Done, WorkerType, Steps, Stages
  <2> QED
    BY <1>0, <1>15, <2>1 DEF GetCommitId
<1>16. CASE Save
  <2>1. worker' \in WorkerType
    BY <1>16, Saves, FirstSteps DEF After, WorkerType, Steps
  <2>2. rows' \in [Cmds -> RowType]
    BY <1>0, <1>16, Saves
  <2> QED
    BY <1>0, <1>16, <2>1, <2>2 DEF Save
<1>17. CASE End
  <2>1. rows' \in [Cmds -> RowType]
    BY <1>0, <1>17 DEF End, RowType, Stages
  <2> QED
    BY <1>0, <1>17, <2>1 DEF End
<1>18. CASE Fail
  <2>1. rows' \in [Cmds -> RowType]
    BY <1>0, <1>18 DEF Fail, RowType
  <2> QED
    BY <1>0, <1>18, <2>1 DEF Fail
<1>19. ASSUME NEW r \in Repos, Advance(r)
       PROVE  TypeOK'
  <2>1. upstream' \in Heads
    BY <1>0, <1>19, GitAssumption DEF Advance, Heads
  <2> QED
    BY <1>0, <1>19, <2>1 DEF Advance
<1>20. CASE UNCHANGED vars
  BY <1>0, <1>20 DEF vars
<1> QED
  BY <1>1, <1>2, <1>3, <1>4, <1>5, <1>6, <1>7, <1>8, <1>9, <1>10, <1>11, <1>12, <1>13, <1>14,
     <1>15, <1>16, <1>17, <1>18, <1>19, <1>20 DEF Next

-----------------------------------------------------------------------------
(* The branch of cmdRepoObj.                                               *)

LEMMA BranchStep == TypeOK /\ BranchInv /\ [Next]_vars => BranchInv'
<1> SUFFICES ASSUME TypeOK, BranchInv, [Next]_vars
             PROVE  BranchInv'
  OBVIOUS
<1>0. C \in Cmds /\ worker \in WorkerType /\ copies \in [Cmds -> CopyType] /\ KindOf[C] # Main
  BY Now, GitAssumption DEF TypeOK, CopyType, Kinds
<1> USE <1>0 DEF C, Copy, AtSave, WorkerType
<1>1. ASSUME NEW c \in Cmds, NEW again \in BOOLEAN, Begin(c, again)
      PROVE  BranchInv'
  <2>1. FirstStep(Begun(c, again)) # "save"
    BY Begins, FirstSteps
  <2>2. worker' = [Idle EXCEPT !.pc = FirstStep(Begun(c, again)), !.c = c] /\ copies'[c] = NoCopy
    BY <1>1 DEF Begin
  <2> QED
    BY <2>1, <2>2 DEF BranchInv, Idle
<1>2. CASE CheckRemote \/ Pull \/ FetchUnshallow
  BY <1>2 DEF BranchInv, CheckRemote, Pull, FetchUnshallow, Goto
<1>3. CASE PushMain
  BY <1>3 DEF BranchInv, PushMain, Done
<1>4. CASE CopyClone
  BY <1>4 DEF BranchInv, CopyClone, Goto
<1>5. CASE Checkout
  BY <1>5 DEF BranchInv, Checkout
<1>6. CASE RunBatchAI
  BY <1>6 DEF BranchInv, RunBatchAI, Done
<1>7. CASE Add
  BY <1>7 DEF BranchInv, Add, Done
<1>8. CASE Commit
  BY <1>8 DEF BranchInv, Commit
<1>9. CASE GetBranch \/ DeleteBranch
  BY <1>9 DEF BranchInv, GetBranch, DeleteBranch, Goto
<1>10. CASE PushBranch \/ Archive \/ GetCommitId
  BY <1>10 DEF BranchInv, PushBranch, Archive, GetCommitId, Done
<1>11. CASE Save
  <2>1. worker' = [worker EXCEPT !.pc = After] /\ copies' = copies
    BY <1>11, Saves DEF Save
  <2>2. After # "save" /\ worker.pc = "save"
    BY <1>11, Saves, FirstSteps DEF After, Save
  <2>3. worker.stage = "SyncRepo" => After = "copy"
    <3> HAVE worker.stage = "SyncRepo"
    <3>1. FirstStep(Saved) = "copy"
      BY Saves, <1>11, FirstSteps
    <3> QED
      BY <3>1 DEF After
  <2> QED
    BY <2>1, <2>2, <2>3 DEF BranchInv
<1>12. CASE End \/ Fail
  BY <1>12 DEF BranchInv, End, Fail, Idle
<1>13. CASE \E r \in Repos : Advance(r)
  BY <1>13 DEF BranchInv, Advance
<1>14. CASE UNCHANGED vars
  BY <1>14 DEF BranchInv, vars
<1> QED
  BY <1>1, <1>2, <1>3, <1>4, <1>5, <1>6, <1>7, <1>8, <1>9, <1>10, <1>11, <1>12, <1>13, <1>14 DEF Next

-----------------------------------------------------------------------------
(* What is on the default branch of a fork.                                *)

\* A default branch only grows.
LEMMA Grows ==
  ASSUME NEW a \in Heads, NEW b \in Heads, NEW c \in Heads, Contains(a, b), Contains(b, c)
  PROVE  Contains(a, c)
<1>1. ASSUME NEW r \in Repos
      PROVE  c[r] <= a[r]
  <2>1. a[r] \in Nat /\ b[r] \in Nat /\ c[r] \in Nat
    BY GitAssumption DEF Heads
  <2> QED
    BY <2>1 DEF Contains
<1> QED
  BY <1>1 DEF Contains

LEMMA Itself ==
  ASSUME NEW a \in Heads
  PROVE  Contains(a, a)
<1>1. ASSUME NEW r \in Repos
      PROVE  a[r] <= a[r]
  BY GitAssumption DEF Heads
<1> QED
  BY <1>1 DEF Contains

\* A step that leaves the forks alone.
LEMMA SyncKept ==
  ASSUME TypeOK, SyncInv, forks' = forks, worker'.synced => worker.synced /\ C' = C,
         worker'.pc \in {"idle", "checkRemote", "pull", "pullAgain", "push"} => ~worker'.synced,
         worker'.synced => clones' = clones,
         \A c \in Cmds :
           \/ copies'[c].head.base = copies[c].head.base /\ copies'[c].head.synced = copies[c].head.synced
           \/ ~copies'[c].head.synced
  PROVE  SyncInv'
<1>1. (worker.synced => Contains(Fork.main, Clone.main))'
  BY DEF SyncInv, Fork, Clone
<1>2. (\A c \in Cmds : OnMain(ForkOf[c], copies[c].head))'
  BY DEF SyncInv, OnMain
<1>3. (\A f \in Forks, k \in Kinds : OnMain(f, forks[f].branches[k]))'
  BY DEF SyncInv, OnMain
<1> QED
  BY <1>1, <1>2, <1>3 DEF SyncInv

LEMMA SyncStep == TypeOK /\ BranchInv /\ SyncInv /\ [Next]_vars => SyncInv'
<1> SUFFICES ASSUME TypeOK, BranchInv, SyncInv, [Next]_vars
             PROVE  SyncInv'
  OBVIOUS
<1>0. /\ C \in Cmds /\ worker \in WorkerType /\ copies \in [Cmds -> CopyType]
      /\ forks \in [Forks -> [main : Heads, branches : [Kinds -> GitCommit]]]
      /\ \A c \in Cmds : ForkOf[c] \in Forks
  BY Now, Values DEF TypeOK, CopyType
<1> USE <1>0
<1>1. ASSUME NEW c \in Cmds, NEW again \in BOOLEAN, Begin(c, again)
      PROVE  SyncInv'
  <2>1. ~worker'.synced /\ forks' = forks /\ copies' = [copies EXCEPT ![c] = NoCopy]
    BY <1>1 DEF Begin, Idle
  <2> QED
    BY <2>1, SyncKept DEF NoCopy, Nothing, CopyType
<1>2. CASE CheckRemote \/ Pull \/ FetchUnshallow
  <2>1. ~worker.synced
    BY <1>2 DEF SyncInv, CheckRemote, Pull, FetchUnshallow
  <2>2. worker'.synced = worker.synced /\ forks' = forks /\ copies' = copies
    BY <1>2 DEF CheckRemote, Pull, FetchUnshallow, Goto, WorkerType
  <2> QED
    BY <2>1, <2>2, SyncKept
<1>3. CASE PushMain
  <2>1. /\ worker'.pc = "save" /\ C' = C /\ clones' = clones /\ copies' = copies
        /\ forks' = [forks EXCEPT ![ForkOf[C]].main = Clone.main] /\ Contains(Clone.main, Fork.main)
    BY <1>3 DEF PushMain, Done, C, WorkerType
  <2>2. Clone.main \in Heads /\ Fork.main \in Heads
    BY Now
  <2>3. ASSUME NEW f \in Forks, NEW commit \in GitCommit, OnMain(f, commit)
        PROVE  OnMain(f, commit)'
    <3>1. CASE f = ForkOf[C]
      BY <2>1, <2>2, <2>3, <3>1, Grows DEF OnMain, GitCommit, Fork
    <3>2. CASE f # ForkOf[C]
      BY <2>1, <2>3, <3>2 DEF OnMain
    <3> QED
      BY <3>1, <3>2
  <2>4. (\A c \in Cmds : OnMain(ForkOf[c], copies[c].head))'
    BY <2>1, <2>3 DEF SyncInv, OnMain, CopyType
  <2>5. (\A f \in Forks, k \in Kinds : OnMain(f, forks[f].branches[k]))'
    <3> SUFFICES ASSUME NEW f \in Forks, NEW k \in Kinds
                 PROVE  OnMain(f, forks[f].branches[k])'
      OBVIOUS
    <3>1. forks'[f].branches[k] = forks[f].branches[k] /\ forks[f].branches[k] \in GitCommit
      BY <2>1
    <3>2. OnMain(f, forks[f].branches[k])
      BY DEF SyncInv
    <3> QED
      BY <2>3, <3>1, <3>2 DEF OnMain
  <2>6. (Contains(Fork.main, Clone.main))'
    BY <2>1, <2>2, Itself DEF Fork, Clone, C
  <2> QED
    BY <2>1, <2>4, <2>5, <2>6 DEF SyncInv
<1>4. CASE CopyClone
  <2>1. /\ worker'.pc = "checkout" /\ worker'.synced = worker.synced /\ worker'.c = worker.c
        /\ forks' = forks /\ clones' = clones
        /\ copies' = [copies EXCEPT ![C] = [NoCopy EXCEPT !.branch = Main,
                        !.head = [base |-> Clone.main, run |-> 0, synced |-> worker.synced]]]
    BY <1>4 DEF CopyClone, Goto, WorkerType
  <2>2. copies'[C].head = [base |-> Clone.main, run |-> 0, synced |-> worker.synced]
    BY <2>1 DEF NoCopy
  <2>3. OnMain(ForkOf[C], copies[C].head)'
    <3> SUFFICES ASSUME worker.synced
                 PROVE  Contains(forks[ForkOf[C]].main, Clone.main)
      BY <2>1, <2>2 DEF OnMain, C
    <3> QED
      BY DEF SyncInv, Fork
  <2>4. (\A c \in Cmds : OnMain(ForkOf[c], copies[c].head))'
    BY <2>1, <2>3 DEF SyncInv, OnMain, C
  <2> QED
    BY <2>1, <2>4 DEF SyncInv, OnMain, Fork, Clone, C
<1>5. CASE Checkout \/ RunBatchAI \/ Add \/ Commit
  <2>1. worker'.pc = "save" /\ forks' = forks /\ clones' = clones /\ C' = C
    BY <1>5 DEF Checkout, RunBatchAI, Add, Commit, Done, WorkerType, C
  <2>2. worker'.synced => worker.synced
    BY <1>5 DEF Checkout, RunBatchAI, Add, Commit, Done, WorkerType
  <2>3. \A c \in Cmds : /\ copies'[c].head.base = copies[c].head.base
                        /\ copies'[c].head.synced = copies[c].head.synced
    <3>1. CASE Checkout
      BY <3>1 DEF Checkout, CopyType
    <3>3. CASE Add
      BY <3>3 DEF Add, CopyType
    <3>4. CASE Commit
      BY <3>4 DEF Commit, CopyType, GitCommit
    <3>2. CASE RunBatchAI
      <4>1. PICK changes \in BOOLEAN : copies' = [copies EXCEPT ![C].dirty = @ \/ changes]
        BY <3>2 DEF RunBatchAI
      <4> DEFINE dirty == copies[C].dirty \/ changes
      <4>2. copies' = [copies EXCEPT ![C].dirty = dirty]
        BY <4>1
      <4> HIDE DEF dirty
      <4> QED
        BY <4>2 DEF CopyType
    <3> QED
      BY <1>5, <3>1, <3>2, <3>3, <3>4
  <2> QED
    BY <2>1, <2>2, <2>3, SyncKept
<1>6. CASE GetBranch \/ Archive \/ GetCommitId
  <2>1. /\ worker'.pc \in {"delete", "pushBranch", "save"} /\ C' = C
        /\ forks' = forks /\ clones' = clones /\ copies' = copies
    BY <1>6 DEF GetBranch, Archive, GetCommitId, Goto, Done, WorkerType, C
  <2>2. worker'.synced => worker.synced
    BY <1>6 DEF GetBranch, Archive, GetCommitId, Goto, Done, WorkerType
  <2> QED
    BY <2>1, <2>2, SyncKept
<1>7. CASE DeleteBranch \/ PushBranch
  <2>1. PICK commit \in GitCommit :
          /\ OnMain(ForkOf[C], commit)
          /\ forks' = [forks EXCEPT ![ForkOf[C]].branches[worker.branch] = commit]
    <3>1. CASE DeleteBranch
      BY <3>1, Values DEF DeleteBranch, OnMain, Nothing
    <3>2. CASE PushBranch
      BY <3>2 DEF PushBranch, SyncInv, Copy, CopyType
    <3> QED
      BY <1>7, <3>1, <3>2
  <2>2. /\ worker'.pc \in {"pushBranch", "save"} /\ C' = C
        /\ clones' = clones /\ copies' = copies
    BY <1>7 DEF DeleteBranch, PushBranch, Goto, Done, WorkerType, C
  <2>3. worker'.synced => worker.synced
    BY <1>7 DEF DeleteBranch, PushBranch, Goto, Done, WorkerType
  <2>4. \A f \in Forks : forks'[f].main = forks[f].main
    BY <2>1
  <2>5. \A f \in Forks, k \in Kinds :
          \/ forks'[f].branches[k] = forks[f].branches[k]
          \/ f = ForkOf[C] /\ forks'[f].branches[k] = commit
    BY <2>1
  <2>6. (worker.synced => Contains(Fork.main, Clone.main))'
    BY <2>2, <2>3, <2>4 DEF SyncInv, Fork, Clone
  <2>7. (\A c \in Cmds : OnMain(ForkOf[c], copies[c].head))'
    BY <2>2, <2>4 DEF SyncInv, OnMain
  <2>8. (\A f \in Forks, k \in Kinds : OnMain(f, forks[f].branches[k]))'
    BY <2>1, <2>4, <2>5 DEF SyncInv, OnMain
  <2> QED
    BY <2>2, <2>6, <2>7, <2>8 DEF SyncInv
<1>8. CASE Save
  <2>1. worker' = [worker EXCEPT !.pc = After] /\ forks' = forks /\ clones' = clones /\ copies' = copies
    BY <1>8, Saves DEF Save
  <2>2. After \notin {"idle", "checkRemote", "pull", "pullAgain", "push"} \/ worker.stage = "Begin"
    BY <1>8, Saves, FirstSteps DEF After
  <2>3. worker.stage # "Begin"
    BY <1>8 DEF BranchInv, Save
  <2> QED
    BY <2>1, <2>2, <2>3, SyncKept DEF C, WorkerType
<1>9. CASE End \/ Fail
  BY <1>9, SyncKept DEF End, Fail, Idle
<1>10. CASE \E r \in Repos : Advance(r)
  BY <1>10, SyncKept DEF Advance, SyncInv, C
<1>11. CASE UNCHANGED vars
  BY <1>11, SyncKept DEF vars, SyncInv, C
<1> QED
  BY <1>1, <1>2, <1>3, <1>4, <1>5, <1>6, <1>7, <1>8, <1>9, <1>10, <1>11 DEF Next

-----------------------------------------------------------------------------
(* What the rows say is pushed.                                            *)

\* The row of a command whose branch a step leaves alone
LEMMA RowKept ==
  ASSUME NEW d \in Cmds, RowOK(d), rows'[d] = rows[d], Branch(d)' = Branch(d),
         d \in shared => d \in shared'
  PROVE  RowOK(d)'
  BY DEF RowOK

\* A step of the run that leaves the rows and the branches alone
LEMMA RowsKept ==
  ASSUME PushInv, rows' = rows, shared' = shared,
         \A f \in Forks : forks'[f].branches = forks[f].branches
  PROVE  (\A d \in Cmds : RowOK(d))'
<1> SUFFICES ASSUME NEW d \in Cmds
             PROVE  RowOK(d)'
  OBVIOUS
<1>1. Branch(d)' = Branch(d)
  BY Values DEF Branch
<1> QED
  BY <1>1, RowKept DEF PushInv

\* The branch of the command that runs is another than that of the commands
\* that are not among Others.
LEMMA OwnBranch ==
  ASSUME TypeOK, NEW commit \in GitCommit,
         forks' = [forks EXCEPT ![ForkOf[C]].branches[KindOf[C]] = commit]
  PROVE  /\ forks'[ForkOf[C]].branches[KindOf[C]] = commit
         /\ \A d \in Cmds \ ({C} \cup Others) : Branch(d)' = Branch(d)
<1>0. forks \in [Forks -> [main : Heads, branches : [Kinds -> GitCommit]]]
  BY DEF TypeOK
<1>1. forks'[ForkOf[C]].branches[KindOf[C]] = commit
  BY <1>0, Now
<1>2. ASSUME NEW d \in Cmds \ ({C} \cup Others)
      PROVE  Branch(d)' = Branch(d)
  <2>1. ForkOf[d] # ForkOf[C] \/ KindOf[d] # KindOf[C]
    BY DEF Others
  <2>2. ForkOf[d] \in Forks /\ KindOf[d] \in Kinds
    BY Values
  <2> QED
    BY <1>0, <2>1, <2>2, Now DEF Branch
<1> QED
  BY <1>1, <1>2

\* A save, by the stage it records
LEMMA PushSave ==
  ASSUME TypeOK, BranchInv, PushInv, Save
  PROVE  PushInv'
<1>1. /\ C \in Cmds /\ worker.pc = "save" /\ worker.stage \notin {"Begin", "End"} /\ runs # 0
      /\ rows[C].status = "Running" /\ rows[C] \in RowType /\ worker \in WorkerType
      /\ rows \in [Cmds -> RowType]
  BY Now DEF Save, BranchInv, PushInv, RunInv, TypeOK, RowType
<1>2. /\ C' = C /\ worker'.pc = After /\ rows'[C] = Saved
      /\ \A d \in Cmds \ {C} : rows'[d] = rows[d]
      /\ forks' = forks /\ copies' = copies /\ shared' = shared /\ runs' = runs
  BY <1>1, Saves DEF Save, C, WorkerType
<1>3. Copy' = Copy /\ Branch(C)' = Branch(C)
  BY <1>2 DEF Copy, Branch
<1> DEFINE own == C \notin shared /\ Saved.hasChanges
<1>4. /\ own /\ Saved.runStatus \in Pushed => Branch(C).run # 0
      /\ own /\ Saved.runStatus \in {"GetCommitId", "End"} => Branch(C) = Saved.commitId
  <2>1. CASE worker.stage = "ChangesPushed"
    BY <1>1, <2>1, Saves DEF PushInv, RunInv, AtSave
  <2>2. CASE worker.stage = "ChangesArchived"
    <3>1. own => rows[C].hasChanges /\ rows[C].runStatus \in Pushed
      BY <1>1, <2>2, Saves DEF PushInv, RunInv, AtSave
    <3>2. RowOK(C)
      BY <1>1 DEF PushInv
    <3> QED
      BY <2>2, <3>1, <3>2, Saves DEF RowOK
  <2>3. CASE worker.stage = "GetCommitId"
    <3>1. own => rows[C].hasChanges /\ rows[C].runStatus \in Pushed /\ Branch(C) = Copy.head
      BY <1>1, <2>3, Saves DEF PushInv, RunInv, AtSave
    <3>2. RowOK(C)
      BY <1>1 DEF PushInv
    <3> QED
      BY <2>3, <3>1, <3>2, Saves DEF RowOK
  <2> QED
    BY <1>1, <2>1, <2>2, <2>3, Saves DEF Pushed, WorkerType, Stages
<1>5. ASSUME NEW d \in Cmds, d = C
      PROVE  RowOK(d)'
  BY <1>1, <1>2, <1>3, <1>4, <1>5, Saves DEF RowOK
<1>6. ASSUME NEW d \in Cmds, d # C
      PROVE  RowOK(d)'
  <2>1. Branch(d)' = Branch(d)
    BY <1>2 DEF Branch
  <2> QED
    BY <1>2, <1>6, <2>1, RowKept DEF PushInv
<1>7. After \notin {"idle", "save", "delete", "pushBranch"}
  BY Saves, FirstSteps DEF After
<1>8. After = "getBranch" => Saved.runStatus = "ChangesCommited" /\ (Copy = NoCopy \/ Copy.head.run # 0)
  <2> HAVE After = "getBranch"
  <2>1. FirstStep(Saved) = "getBranch" /\ worker.stage = "ChangesCommited" /\ Saved.hasChanges
    BY Saves, FirstSteps DEF After, RowType
  <2> QED
    BY <1>1, <2>1, Saves DEF PushInv, RunInv, AtSave
<1>9. After \in {"archive", "commitId"} /\ Saved.hasChanges => Saved.runStatus \in Pushed
  BY Saves, FirstSteps DEF After
<1>10. After = "end" /\ Saved.hasChanges => Saved.runStatus \in {"GetCommitId", "End"}
  BY Saves, FirstSteps DEF After
<1>11. After \in {"archive", "commitId"} /\ Copy # NoCopy /\ own => Branch(C) = Copy.head
  <2> HAVE After \in {"archive", "commitId"} /\ Copy # NoCopy /\ own
  <2>1. worker.stage \in Pushed /\ worker.stage # "End"
    BY <1>1, <1>9, Saves
  <2>2. rows[C].hasChanges
    BY <2>1, Saves DEF Pushed
  <2> QED
    BY <1>1, <2>1, <2>2 DEF PushInv, RunInv, AtSave, Pushed
<1>12. RunInv'
  BY <1>1, <1>2, <1>3, <1>7, <1>8, <1>9, <1>10, <1>11, Saves DEF RunInv, AtSave
<1> QED
  BY <1>5, <1>6, <1>12 DEF PushInv

LEMMA PushStep == TypeOK /\ BranchInv /\ PushInv /\ [Next]_vars => PushInv'
<1> SUFFICES ASSUME TypeOK, BranchInv, PushInv, [Next]_vars
             PROVE  PushInv'
  OBVIOUS
<1>0. /\ C \in Cmds /\ worker \in WorkerType /\ runs \in Nat /\ Copy \in CopyType
      /\ copies \in [Cmds -> CopyType] /\ rows \in [Cmds -> RowType]
      /\ forks \in [Forks -> [main : Heads, branches : [Kinds -> GitCommit]]]
      /\ \A c \in Cmds : RowOK(c)
  BY Now, GitAssumption DEF TypeOK, CopyType, RowType, PushInv
<1> USE <1>0
<1>1. ASSUME NEW c \in Cmds, NEW again \in BOOLEAN, Begin(c, again)
      PROVE  PushInv'
  <2> DEFINE row == Begun(c, again)
  <2>1. /\ row \in RowType /\ row.status = "Running" /\ row.commitId = rows[c].commitId
        /\ again => row.runStatus = "Begin"
        /\ ~again => row.runStatus = rows[c].runStatus /\ row.hasChanges = rows[c].hasChanges
    BY Begins
  <2>2. /\ rows' = [rows EXCEPT ![c] = row] /\ copies'[c] = NoCopy /\ runs' # 0
        /\ worker' = [Idle EXCEPT !.pc = FirstStep(row), !.c = c] /\ forks' = forks /\ shared' = shared
    BY <1>1 DEF Begin
  <2> HIDE DEF row
  <2>3. C' = c /\ worker'.pc = FirstStep(row) /\ rows'[c] = row
    BY <2>2 DEF C, Idle
  <2>4. FirstStep(row) \notin {"save", "delete", "pushBranch"}
    BY <2>1, FirstSteps
  <2>5. RunInv'
    BY <2>1, <2>2, <2>3, <2>4, FirstSteps DEF RunInv, AtSave, Copy
  <2>6. ASSUME NEW d \in Cmds
        PROVE  RowOK(d)'
    <3>1. Branch(d)' = Branch(d)
      BY <2>2 DEF Branch
    <3>2. CASE d # c
      BY <2>2, <3>1, <3>2, RowKept
    <3>3. CASE d = c
      <4>1. row.status # "Succeeded" /\ rows'[d] = row /\ (d \notin shared' => d \notin shared)
        BY <2>1, <2>2, <3>3
      <4>2. row.runStatus \in Pushed => ~again
        BY <2>1 DEF Pushed
      <4> QED
        BY <2>1, <3>1, <3>3, <4>1, <4>2 DEF RowOK, Pushed
    <3> QED
      BY <3>2, <3>3
  <2> QED
    BY <2>5, <2>6 DEF PushInv
<1>2. CASE CheckRemote \/ Pull \/ FetchUnshallow
  <2>1. /\ worker'.pc \in {"pull", "push", "pullAgain"} /\ C' = C /\ worker.pc # "idle"
        /\ UNCHANGED <<forks, rows, shared, runs>>
    BY <1>2 DEF CheckRemote, Pull, FetchUnshallow, Goto, WorkerType, C
  <2> QED
    BY <2>1, RowsKept DEF PushInv, RunInv, AtSave
<1>3. CASE PushMain
  <2>1. /\ worker'.pc = "save" /\ worker'.stage = "SyncRepo" /\ C' = C /\ worker.pc # "idle"
        /\ UNCHANGED <<rows, shared, runs>> /\ \A f \in Forks : forks'[f].branches = forks[f].branches
    BY <1>3 DEF PushMain, Done, WorkerType, C
  <2> QED
    BY <2>1, RowsKept DEF PushInv, RunInv, AtSave
<1>4. CASE CopyClone \/ Checkout \/ RunBatchAI \/ Add
  <2>1. /\ \/ worker'.pc = "checkout"
           \/ worker'.pc = "save" /\ worker'.stage \in {"CheckedOut", "BatchAIExecuted", "ChangesAdded"}
        /\ C' = C /\ worker.pc # "idle" /\ UNCHANGED <<forks, rows, shared, runs>>
    BY <1>4 DEF CopyClone, Checkout, RunBatchAI, Add, Goto, Done, WorkerType, C
  <2> QED
    BY <2>1, RowsKept DEF PushInv, RunInv, AtSave
<1>5. CASE Commit
  <2>1. /\ worker'.pc = "save" /\ worker'.stage = "ChangesCommited" /\ worker'.changes = Copy.staged
        /\ C' = C /\ worker.pc # "idle" /\ UNCHANGED <<forks, rows, shared, runs>>
    BY <1>5 DEF Commit, WorkerType, C
  <2>2. Copy.staged => copies'[C].head.run = runs
    BY <1>5 DEF Commit, CopyType, GitCommit
  <2> QED
    BY <2>1, <2>2, RowsKept DEF PushInv, RunInv, AtSave, Copy
<1>6. CASE GetBranch
  <2>1. /\ worker'.pc \in {"delete", "pushBranch"} /\ worker.pc = "getBranch"
        /\ C' = C /\ UNCHANGED <<forks, copies, rows, shared, runs>>
    BY <1>6 DEF GetBranch, Goto, WorkerType, C
  <2> QED
    BY <2>1, RowsKept DEF PushInv, RunInv, AtSave, Copy
<1>7. CASE DeleteBranch
  <2>1. /\ worker'.pc = "pushBranch" /\ worker.pc = "delete" /\ worker.branch = KindOf[C]
        /\ C' = C /\ shared' = shared \cup Others /\ UNCHANGED <<copies, rows, runs>>
    BY <1>7 DEF DeleteBranch, Goto, WorkerType, C, BranchInv
  <2>2. forks' = [forks EXCEPT ![ForkOf[C]].branches[KindOf[C]] = Nothing]
    BY <1>7, <2>1 DEF DeleteBranch
  <2>3. RunInv'
    BY <2>1 DEF PushInv, RunInv, AtSave, Copy
  <2>4. rows[C].runStatus = "ChangesCommited" /\ rows[C].status = "Running"
    BY <2>1 DEF PushInv, RunInv
  <2>5. ASSUME NEW d \in Cmds
        PROVE  RowOK(d)'
    <3>1. CASE d = C
      BY <2>1, <2>4, <3>1 DEF RowOK, Pushed
    <3>2. CASE d \in Others
      BY <2>1, <3>2 DEF RowOK
    <3>3. CASE d \notin {C} \cup Others
      BY <2>1, <2>2, <3>3, OwnBranch, Values, RowKept
    <3> QED
      BY <3>1, <3>2, <3>3
  <2> QED
    BY <2>3, <2>5 DEF PushInv
<1>8. CASE PushBranch
  <2>1. /\ worker'.pc = "save" /\ worker'.stage = "ChangesPushed" /\ worker.pc = "pushBranch"
        /\ worker.branch = KindOf[C] /\ Copy # NoCopy
        /\ C' = C /\ shared' = (shared \cup Others) \ {C} /\ UNCHANGED <<copies, rows, runs>>
    BY <1>8 DEF PushBranch, Done, WorkerType, C, BranchInv
  <2>2. forks' = [forks EXCEPT ![ForkOf[C]].branches[KindOf[C]] = Copy.head]
    BY <1>8, <2>1 DEF PushBranch
  <2>3. Copy.head \in GitCommit
    BY DEF CopyType
  <2>4. Branch(C)' = Copy.head
    BY <2>1, <2>2, <2>3, OwnBranch DEF Branch
  <2>5. rows[C].runStatus = "ChangesCommited" /\ rows[C].status = "Running" /\ Copy.head.run # 0 /\ runs # 0
    BY <2>1 DEF PushInv, RunInv
  <2>6. Copy' = Copy
    BY <2>1 DEF Copy
  <2>7. RunInv'
    BY <2>1, <2>4, <2>5, <2>6 DEF RunInv, AtSave
  <2>8. ASSUME NEW d \in Cmds
        PROVE  RowOK(d)'
    <3>1. CASE d = C
      BY <2>1, <2>5, <3>1 DEF RowOK, Pushed
    <3>2. CASE d \in Others
      BY <2>1, <3>2 DEF RowOK, Others
    <3>3. CASE d \notin {C} \cup Others
      BY <2>1, <2>2, <2>3, <3>3, OwnBranch, RowKept
    <3> QED
      BY <3>1, <3>2, <3>3
  <2> QED
    BY <2>7, <2>8 DEF PushInv
<1>9. CASE Archive
  <2>1. /\ worker'.pc = "save" /\ worker'.stage = "ChangesArchived" /\ worker.pc = "archive"
        /\ C' = C /\ UNCHANGED <<forks, copies, rows, shared, runs>>
    BY <1>9 DEF Archive, Done, WorkerType, C
  <2>2. Copy' = Copy /\ Branch(C)' = Branch(C)
    BY <2>1 DEF Copy, Branch
  <2> QED
    BY <2>1, <2>2, RowsKept DEF PushInv, RunInv, AtSave
<1>10. CASE GetCommitId
  <2>1. /\ worker'.pc = "save" /\ worker'.stage = "GetCommitId" /\ worker.pc = "commitId" /\ Copy # NoCopy
        /\ C' = C /\ UNCHANGED <<forks, copies, rows, shared, runs>>
    BY <1>10 DEF GetCommitId, Done, WorkerType, C
  <2>2. Copy' = Copy /\ Branch(C)' = Branch(C)
    BY <2>1 DEF Copy, Branch
  <2> QED
    BY <2>1, <2>2, RowsKept DEF PushInv, RunInv, AtSave
<1>11. CASE Save
  BY <1>11, PushSave
<1>12. CASE End \/ Fail
  <2>1. PICK row \in RowType :
          /\ rows' = [rows EXCEPT ![C] = row]
          /\ row.hasChanges = rows[C].hasChanges /\ row.commitId = rows[C].commitId
          /\ row.status = "Succeeded" => row.runStatus = "End"
          /\ row.hasChanges => \/ row.runStatus = rows[C].runStatus
                               \/ rows[C].runStatus \in {"GetCommitId", "End"}
    <3>1. CASE End
      <4> DEFINE row == [rows[C] EXCEPT !.runStatus = "End", !.status = "Succeeded"]
      <4>1. row \in RowType /\ rows' = [rows EXCEPT ![C] = row]
        BY <3>1 DEF End, RowType, Stages
      <4>2. rows[C].hasChanges => rows[C].runStatus \in {"GetCommitId", "End"}
        BY <3>1 DEF End, PushInv, RunInv
      <4> QED
        BY <4>1, <4>2 DEF RowType
    <3>2. CASE Fail
      <4> DEFINE row == [rows[C] EXCEPT !.status = "Failed"]
      <4>1. row \in RowType /\ rows' = [rows EXCEPT ![C] = row]
        BY <3>2 DEF Fail, RowType
      <4> QED
        BY <4>1 DEF RowType
    <3> QED
      BY <1>12, <3>1, <3>2
  <2>2. worker' = Idle /\ forks' = forks /\ shared' = shared
    BY <1>12 DEF End, Fail
  <2>3. RunInv'
    BY <2>2 DEF RunInv, AtSave, Idle
  <2>4. ASSUME NEW d \in Cmds
        PROVE  RowOK(d)'
    <3>1. Branch(d)' = Branch(d)
      BY <2>2 DEF Branch
    <3>2. CASE d # C
      BY <2>1, <2>2, <3>1, <3>2, RowKept
    <3>3. CASE d = C
      BY <2>1, <2>2, <3>1, <3>3 DEF RowOK, Pushed
    <3> QED
      BY <3>2, <3>3
  <2> QED
    BY <2>3, <2>4 DEF PushInv
<1>13. CASE \E r \in Repos : Advance(r)
  <2>1. UNCHANGED <<forks, copies, rows, worker, shared, runs>>
    BY <1>13 DEF Advance
  <2> QED
    BY <2>1, RowsKept DEF PushInv, RunInv, AtSave, Copy, Branch, C
<1>14. CASE UNCHANGED vars
  <2>1. UNCHANGED <<forks, copies, rows, worker, shared, runs>>
    BY <1>14 DEF vars
  <2> QED
    BY <2>1, RowsKept DEF PushInv, RunInv, AtSave, Copy, Branch, C
<1> QED
  BY <1>1, <1>2, <1>3, <1>4, <1>5, <1>6, <1>7, <1>8, <1>9, <1>10, <1>11, <1>12, <1>13, <1>14 DEF Next

-----------------------------------------------------------------------------
(* The theorems.                                                           *)

LEMMA InvInit == Init => IInv
<1> SUFFICES ASSUME Init
             PROVE  IInv
  OBVIOUS
<1>1. TypeOK
  BY TypeInit
<1>2. /\ worker = Idle /\ copies = [c \in Cmds |-> NoCopy] /\ shared = {}
      /\ forks = [f \in Forks |-> [main |-> Nothing.base, branches |-> [k \in Kinds |-> Nothing]]]
      /\ rows = [c \in Cmds |-> [status |-> "Pending", runStatus |-> "Begin",
                                hasChanges |-> FALSE, commitId |-> Nothing]]
  BY DEF Init
<1>3. BranchInv
  BY <1>2 DEF BranchInv, Idle, AtSave
<1>4. SyncInv
  BY <1>2 DEF SyncInv, OnMain, Idle, NoCopy, Nothing
<1>5. RunInv /\ \A c \in Cmds : RowOK(c)
  BY <1>2 DEF RunInv, RowOK, Idle, AtSave
<1> QED
  BY <1>1, <1>3, <1>4, <1>5 DEF IInv, PushInv

LEMMA Invariant == Spec => []IInv
<1>1. IInv /\ [Next]_vars => IInv'
  BY TypeStep, BranchStep, SyncStep, PushStep DEF IInv
<1> QED
  BY InvInit, <1>1, PTL DEF Spec

\* Every variable keeps its type, whatever fails and is resumed.
THEOREM TypeCorrect == Spec => []TypeOK
<1>1. IInv => TypeOK
  BY DEF IInv
<1> QED
  BY Invariant, <1>1, PTL

\* removeRemoteBranch and push never name the default branch of the fork.
THEOREM DefaultBranch == Spec => []DefaultBranchSurvives
<1>1. IInv => DefaultBranchSurvives
  BY DEF IInv, BranchInv, DefaultBranchSurvives, AtSave
<1> QED
  BY Invariant, <1>1, PTL

\* What a row says is pushed is on the fork, as the commit it names once the
\* command has succeeded.
THEOREM Pushes == Spec => []CommitIsPushed
<1>1. IInv => CommitIsPushed
  <2> SUFFICES ASSUME IInv, NEW c \in Cmds \ shared, rows[c].hasChanges, rows[c].runStatus \in Pushed
               PROVE  Branch(c).run # 0 /\ (rows[c].status = "Succeeded" => Branch(c) = rows[c].commitId)
    BY DEF CommitIsPushed, Branch
  <2>1. RowOK(c)
    BY DEF IInv, PushInv
  <2> QED
    BY <2>1 DEF RowOK
<1> QED
  BY Invariant, <1>1, PTL

\* What is pushed to the branch of a command is based on the default branch of
\* the fork, when the run that made it has synced the fork.
THEOREM Branches == Spec => []BranchIsOnMain
<1>1. IInv => BranchIsOnMain
  BY DEF IInv, SyncInv, OnMain, BranchIsOnMain
<1> QED
  BY Invariant, <1>1, PTL
=============================================================================
