----------------------------- MODULE GitStages -----------------------------
(***************************************************************************)
(* What the stages of doRun (service/command.service.ts) do to git, with   *)
(* helper/github.ts: the clone of the fork, which is pulled from upstream  *)
(* and pushed; the working copy of the command, copied from it; the branch *)
(* of the command on the fork, deleted and pushed again.  CommandService   *)
(* has the table, the queue and the requests; here one worker runs the     *)
(* commands, from the beginning or from the stage the row has recorded,    *)
(* any git command may fail and the server may die between two of them.    *)
(***************************************************************************)
EXTENDS Naturals, FiniteSets

CONSTANTS
  Cmds,
  RepoOf,       \* the repository of each command
  ForkOf,       \* the name of its fork, which repositories may share
  KindOf,       \* "check" or "test", the branch is batchai/<kind>
  Main,         \* the default branch
  MaxVersion,   \* bounds what is committed upstream
  MaxRuns       \* bounds the runs and resumes of a behaviour

Repos == {RepoOf[c] : c \in Cmds}
Forks == {ForkOf[c] : c \in Cmds}
Kinds == {KindOf[c] : c \in Cmds}

ASSUME GitAssumption ==
  /\ Cmds # {} /\ Main \notin Kinds \cup {"none"}
  /\ MaxVersion \in Nat /\ MaxRuns \in Nat
  /\ \A c, d \in Cmds : RepoOf[c] = RepoOf[d] => ForkOf[c] = ForkOf[d]

VARIABLES
  upstream,   \* how far each repository is
  forks,      \* on GitHub: the default branch and the branches of commands
  clones,     \* the forked folder of each repository, on its default branch
  copies,     \* the repo folder of each command, or NoCopy
  rows,
  worker,     \* the command it runs, where, the branch cmdRepoObj has, what commit found
  shared,     \* history: whose branch another command has deleted or pushed
  runs

vars == <<upstream, forks, clones, copies, rows, worker, shared, runs>>

\* A default branch is what it holds of each repository; a commit of a command
\* is what it is based on, the run that made it, and (history) whether this run
\* has pushed what it is based on.
Heads == [Repos -> 0 .. MaxVersion]
Nothing == [base |-> [r \in Repos |-> 0], run |-> 0, synced |-> FALSE]
NoCopy == [branch |-> "none", head |-> Nothing, dirty |-> FALSE, staged |-> FALSE]
Idle == [pc |-> "idle", stage |-> "Begin", c |-> CHOOSE c \in Cmds : TRUE,
         branch |-> Main, changes |-> FALSE, synced |-> FALSE]

Contains(a, b) == \A r \in Repos : b[r] <= a[r]

Init ==
  /\ upstream = [r \in Repos |-> 0]
  /\ forks = [f \in Forks |-> [main |-> Nothing.base, branches |-> [k \in Kinds |-> Nothing]]]
  /\ clones = [r \in Repos |-> [main |-> Nothing.base, shallow |-> TRUE]]
  /\ copies = [c \in Cmds |-> NoCopy]
  /\ rows = [c \in Cmds |-> [status |-> "Pending", runStatus |-> "Begin",
                            hasChanges |-> FALSE, commitId |-> Nothing]]
  /\ worker = Idle
  /\ shared = {}
  /\ runs = 0

-----------------------------------------------------------------------------

C == worker.c
Clone == clones[RepoOf[C]]
Fork == forks[ForkOf[C]]
Copy == copies[C]

Goto(pc) == worker' = [worker EXCEPT !.pc = pc]
Done(stage) == worker' = [worker EXCEPT !.pc = "save", !.stage = stage, !.synced = @ \/ stage = "SyncRepo"]

\* The stages after the commit that go on with changes only
Later == {"ChangesCommited", "ChangesArchived", "GetCommitId", "End"}

\* Mutant: with CreatedPR, the stage that is commented out in nextRunStatus.
FirstStepWithPR(row) ==
  CASE row.runStatus = "Begin" -> "checkRemote"
    [] row.runStatus = "SyncRepo" -> "copy"
    [] row.runStatus = "CheckedOut" -> "batchai"
    [] row.runStatus = "BatchAIExecuted" -> "add"
    [] row.runStatus = "ChangesAdded" -> "commit"
    [] row.runStatus = "ChangesCommited" /\ row.hasChanges -> "getBranch"
    [] row.runStatus = "ChangesPushed" -> "archive"
    [] row.runStatus \in Later /\ ~row.hasChanges -> "archive"
    [] row.runStatus = "ChangesArchived" /\ row.hasChanges -> "commitId"
    [] row.runStatus = "GetCommitId" /\ row.hasChanges -> "createPR"
    [] OTHER -> "end"

\* The step doRun begins with after the stage that the row has recorded; the
\* later stages are for a command with changes.
FirstStep(row) ==
  CASE row.runStatus = "Begin" -> "checkRemote"
    [] row.runStatus = "SyncRepo" -> "copy"
    [] row.runStatus = "CheckedOut" -> "batchai"
    [] row.runStatus = "BatchAIExecuted" -> "add"
    [] row.runStatus = "ChangesAdded" -> "commit"
    [] row.runStatus = "ChangesCommited" /\ row.hasChanges -> "getBranch"
    [] row.runStatus = "ChangesPushed" -> "archive"
    [] row.runStatus \in Later /\ ~row.hasChanges -> "archive"
    [] row.runStatus = "ChangesArchived" /\ row.hasChanges -> "commitId"
    [] OTHER -> "end"

Begun(c, again) ==
  [rows[c] EXCEPT !.status = "Running", !.runStatus = IF again THEN "Begin" ELSE @,
                  !.hasChanges = @ /\ ~again]

\* Mutant: the folder of the last run is kept.
BeginKeepingCopy(c, again) ==
  /\ worker.pc = "idle" /\ runs < MaxRuns
  /\ again \/ rows[c].status \in {"Pending", "Failed"}
  /\ rows' = [rows EXCEPT ![c] = Begun(c, again)]
  /\ worker' = [Idle EXCEPT !.pc = FirstStep(Begun(c, again)), !.c = c]
  /\ runs' = runs + 1
  /\ UNCHANGED <<copies, upstream, forks, clones, shared>>

\* A restart, or a resume of what was stopped or has failed. execute removes
\* the folder of the command either way. cmdRepoObj is made with the branch
\* that the clone of the fork is on.
Begin(c, again) ==
  /\ worker.pc = "idle" /\ runs < MaxRuns
  /\ again \/ rows[c].status \in {"Pending", "Failed"}
  /\ rows' = [rows EXCEPT ![c] = Begun(c, again)]
  /\ copies' = [copies EXCEPT ![c] = NoCopy]
  /\ worker' = [Idle EXCEPT !.pc = FirstStep(Begun(c, again)), !.c = c]
  /\ runs' = runs + 1
  /\ UNCHANGED <<upstream, forks, clones, shared>>

\* Any step may throw: spawnAsync rejects when the folder is not there, its
\* callers throw on every exit code but 0. Or the server dies, which initCheck
\* records in the same way. Either may come when git has done its work and the
\* stage is not saved yet.
Fail ==
  /\ worker.pc # "idle"
  /\ rows' = [rows EXCEPT ![C].status = "Failed"]
  /\ worker' = Idle
  /\ UNCHANGED <<upstream, forks, clones, copies, shared, runs>>

\* SyncRepo: the fork is there...
CheckRemote ==
  /\ worker.pc = "checkRemote"
  /\ Goto("pull")
  /\ UNCHANGED <<upstream, forks, clones, copies, rows, shared, runs>>

\* ... upstream is pulled into the clone...
Pull ==
  /\ worker.pc \in {"pull", "pullAgain"}
  /\ clones' = [clones EXCEPT ![RepoOf[C]].main[RepoOf[C]] = upstream[RepoOf[C]]]
  /\ Goto("push")
  /\ UNCHANGED <<upstream, forks, copies, rows, shared, runs>>

\* ... or, when that fails because the clone is shallow, once more after a
\* fetch of the rest. Git refuses it when there is no rest.
FetchUnshallow ==
  /\ worker.pc = "pull"
  /\ Clone.shallow
  /\ clones' = [clones EXCEPT ![RepoOf[C]].shallow = FALSE]
  /\ Goto("pullAgain")
  /\ UNCHANGED <<upstream, forks, copies, rows, shared, runs>>

\* Mutant: a push that is refused is only logged.
PushMainUnchecked ==
  /\ worker.pc = "push"
  /\ forks' = IF Contains(Clone.main, Fork.main)
                THEN [forks EXCEPT ![ForkOf[C]].main = Clone.main] ELSE forks
  /\ Done("SyncRepo")
  /\ UNCHANGED <<upstream, clones, copies, rows, shared, runs>>

\* ... and the result is pushed to the fork, which refuses what does not
\* contain all it has: nothing ever pulls from the fork.
PushMain ==
  /\ worker.pc = "push"
  /\ Contains(Clone.main, Fork.main)
  /\ forks' = [forks EXCEPT ![ForkOf[C]].main = Clone.main]
  /\ Done("SyncRepo")
  /\ UNCHANGED <<upstream, clones, copies, rows, shared, runs>>

\* CheckedOut: the clone is copied...
CopyClone ==
  /\ worker.pc = "copy"
  /\ copies' = [copies EXCEPT ![C] = [NoCopy EXCEPT !.branch = Main,
                          !.head = [base |-> Clone.main, run |-> 0, synced |-> worker.synced]]]
  /\ Goto("checkout")
  /\ UNCHANGED <<upstream, forks, clones, rows, shared, runs>>

\* ... and the copy put on the branch of the command, there or not.
Checkout ==
  /\ worker.pc = "checkout" /\ Copy # NoCopy
  /\ copies' = [copies EXCEPT ![C].branch = KindOf[C]]
  /\ worker' = [worker EXCEPT !.pc = "save", !.stage = "CheckedOut", !.branch = KindOf[C]]
  /\ UNCHANGED <<upstream, forks, clones, rows, shared, runs>>

\* BatchAIExecuted: with changes, or without
RunBatchAI ==
  /\ worker.pc = "batchai" /\ Copy # NoCopy
  /\ \E changes \in BOOLEAN : copies' = [copies EXCEPT ![C].dirty = @ \/ changes]
  /\ Done("BatchAIExecuted")
  /\ UNCHANGED <<upstream, forks, clones, rows, shared, runs>>

Add ==
  /\ worker.pc = "add" /\ Copy # NoCopy
  /\ copies' = [copies EXCEPT ![C].staged = Copy.dirty, ![C].dirty = FALSE]
  /\ Done("ChangesAdded")
  /\ UNCHANGED <<upstream, forks, clones, rows, shared, runs>>

\* "nothing to commit" is no failure
Commit ==
  /\ worker.pc = "commit" /\ Copy # NoCopy
  /\ copies' = [copies EXCEPT ![C].staged = FALSE, ![C].head.run = IF Copy.staged THEN runs ELSE @]
  /\ worker' = [worker EXCEPT !.pc = "save", !.stage = "ChangesCommited", !.changes = Copy.staged]
  /\ UNCHANGED <<upstream, forks, clones, rows, shared, runs>>

\* removeRemoteBranch asks GitHub, about the branch that cmdRepoObj has...
GetBranch ==
  /\ worker.pc = "getBranch"
  /\ Goto(IF worker.branch = Main \/ Fork.branches[worker.branch] # Nothing THEN "delete" ELSE "pushBranch")
  /\ UNCHANGED <<upstream, forks, clones, copies, rows, shared, runs>>

Others == {d \in Cmds \ {C} : ForkOf[d] = ForkOf[C] /\ KindOf[d] = KindOf[C]}

\* ... and has git delete it, from the working copy.
DeleteBranch ==
  /\ worker.pc = "delete" /\ Copy # NoCopy /\ worker.branch # Main
  /\ forks' = [forks EXCEPT ![ForkOf[C]].branches[worker.branch] = Nothing]
  /\ shared' = shared \cup Others
  /\ Goto("pushBranch")
  /\ UNCHANGED <<upstream, clones, copies, rows, runs>>

\* Mutant: the push is not awaited.
PushBranchLater ==
  /\ worker.pc = "pushBranch" /\ Copy # NoCopy /\ worker.branch # Main
  /\ \E pushed \in BOOLEAN :
       forks' = IF pushed THEN [forks EXCEPT ![ForkOf[C]].branches[worker.branch] = Copy.head] ELSE forks
  /\ shared' = (shared \cup Others) \ {C}
  /\ Done("ChangesPushed")
  /\ UNCHANGED <<upstream, clones, copies, rows, runs>>

PushBranch ==
  /\ worker.pc = "pushBranch" /\ Copy # NoCopy /\ worker.branch # Main
  /\ forks' = [forks EXCEPT ![ForkOf[C]].branches[worker.branch] = Copy.head]
  /\ shared' = (shared \cup Others) \ {C}
  /\ Done("ChangesPushed")
  /\ UNCHANGED <<upstream, clones, copies, rows, runs>>

\* The archives are those of RepoService; the commit id is read from the copy.
Archive ==
  /\ worker.pc = "archive"
  /\ Done("ChangesArchived")
  /\ UNCHANGED <<upstream, forks, clones, copies, rows, shared, runs>>

GetCommitId ==
  /\ worker.pc = "commitId" /\ Copy # NoCopy
  /\ Done("GetCommitId")
  /\ UNCHANGED <<upstream, forks, clones, copies, rows, shared, runs>>

\* updateRunStatus, and the commit id that is set before it
Save ==
  LET stage == worker.stage
      row == [rows[C] EXCEPT !.runStatus = stage,
                !.hasChanges = IF stage = "ChangesCommited" THEN worker.changes ELSE @,
                !.commitId = IF stage = "GetCommitId" THEN Copy.head ELSE @] IN
  /\ worker.pc = "save"
  /\ rows' = [rows EXCEPT ![C] = row]
  /\ Goto(IF stage = "ChangesArchived" /\ ~row.hasChanges THEN "end" ELSE FirstStep(row))
  /\ UNCHANGED <<upstream, forks, clones, copies, shared, runs>>

End ==
  /\ worker.pc = "end"
  /\ rows' = [rows EXCEPT ![C].runStatus = "End", ![C].status = "Succeeded"]
  /\ worker' = Idle
  /\ UNCHANGED <<upstream, forks, clones, copies, shared, runs>>

Advance(r) ==
  /\ upstream[r] < MaxVersion
  /\ upstream' = [upstream EXCEPT ![r] = @ + 1]
  /\ UNCHANGED <<forks, clones, copies, rows, worker, shared, runs>>

Next ==
  \/ \E c \in Cmds, again \in BOOLEAN : Begin(c, again)
  \/ CheckRemote \/ Pull \/ FetchUnshallow \/ PushMain \/ CopyClone \/ Checkout \/ RunBatchAI \/ Add
  \/ Commit \/ GetBranch \/ DeleteBranch \/ PushBranch \/ Archive \/ GetCommitId \/ Save \/ End
  \/ Fail
  \/ \E r \in Repos : Advance(r)

Spec == Init /\ [][Next]_vars

-----------------------------------------------------------------------------
(* Properties.                                                             *)

GitCommit == [base : Heads, run : 0 .. MaxRuns, synced : BOOLEAN]
Stages == {"Begin", "SyncRepo", "CheckedOut", "BatchAIExecuted", "ChangesAdded",
           "ChangesCommited", "ChangesPushed", "ChangesArchived", "GetCommitId", "End"}
Steps == {"idle", "checkRemote", "pull", "pullAgain", "push", "copy", "checkout", "batchai", "add",
          "commit", "getBranch", "delete", "pushBranch", "archive", "commitId", "save", "end"}

TypeOK ==
  /\ upstream \in Heads
  /\ forks \in [Forks -> [main : Heads, branches : [Kinds -> GitCommit]]]
  /\ clones \in [Repos -> [main : Heads, shallow : BOOLEAN]]
  /\ copies \in [Cmds -> [branch : Kinds \cup {Main, "none"}, head : GitCommit,
                          dirty : BOOLEAN, staged : BOOLEAN]]
  /\ rows \in [Cmds -> [status : {"Pending", "Running", "Succeeded", "Failed"}, runStatus : Stages,
                        hasChanges : BOOLEAN, commitId : GitCommit]]
  /\ worker \in [pc : Steps, stage : Stages, c : Cmds, branch : Kinds \cup {Main},
                changes : BOOLEAN, synced : BOOLEAN]
  /\ shared \subseteq Cmds
  /\ runs \in 0 .. MaxRuns

\* doRun never tells git to delete the default branch: cmdRepoObj has it until
\* the checkout, which a resumed run skips, but such a run has no folder to work
\* in (execute has removed it) and the command fails before git is started.
DefaultBranchSurvives ==
  worker.pc \in {"delete", "pushBranch"} /\ worker.branch = Main => Copy = NoCopy

Pushed == {"ChangesPushed", "ChangesArchived", "GetCommitId", "End"}

\* Once a row says its changes are pushed, they are on the fork, and the commit
\* of a command that has succeeded is the one there, whatever failed, was
\* resumed or ran again before; unless a command of another repository whose
\* fork is the same one has taken the branch.
CommitIsPushed ==
  \A c \in Cmds \ shared : rows[c].hasChanges /\ rows[c].runStatus \in Pushed =>
    LET commit == forks[ForkOf[c]].branches[KindOf[c]] IN
    /\ commit.run # 0
    /\ rows[c].status = "Succeeded" => commit = rows[c].commitId

\* A branch of a command differs from the default branch of the fork by what
\* batchai did and nothing else: what it is based on was pushed before it. (Not
\* so for a command that was resumed after its sync: it is based on whatever
\* another command has pulled meanwhile, pushed or not.)
BranchIsOnMain ==
  \A f \in Forks, k \in Kinds :
    forks[f].branches[k].synced => Contains(forks[f].main, forks[f].branches[k].base)
=============================================================================
